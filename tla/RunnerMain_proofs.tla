--------------------------- MODULE RunnerMain_proofs ---------------------------
(***************************************************************************)
(* Proofs about a runner process (RunnerMain): the file a model call edits *)
(* belongs to its conversation, repairs of the LaTeX source end, and a     *)
(* reply to the user comes from a conversation that heard the message.     *)
(***************************************************************************)
EXTENDS RunnerMain, FiniteSetTheorems, WellFoundedInduction, TLAPS

-----------------------------------------------------------------------------
(* The edited file *)

\* What the fields of a call in its steps are.
CallFields ==
  {"pc", "result", "attempt", "failure", "initial", "base", "baseFile", "fork", "sess", "confirmed",
   "output", "failed", "missed", "made", "left"}
Said == {"init", "output", "agentfailed", "agentdone"}
CallInv ==
  /\ DOMAIN call = CallFields
  /\ DOMAIN cli = {"up", "code", "id", "fork", "agent"} /\ cli.up \in {"off", "starting", "up", "dead"}
  /\ ws \in [written : BOOLEAN, intact : BOOLEAN, file : Int]
  /\ knows \in [Sessions -> [from : Int, file : Int]]
  /\ call.attempt \in 0 .. MaxAttempts /\ call.base \in 0 .. call.attempt
  /\ call.initial \in Int /\ call.baseFile \in Int /\ edits \in Int
  /\ lines \in Seq(Said) /\ roll \in Seq(Said)
  /\ cli.up \in {"starting", "up"} => call.pc = "run"
  /\ call.base # None => ~conf.web

\* The file kept for the base of the next fork is the one its model worked with,
\* unless the working folder vanished.
BaseInv == call.base # None => ws.written /\ (ws.intact => call.baseFile = knows[call.base].file)

\* A running attempt has a session of its own, newer than the base it was forked from.
RunInv == call.pc = "run" =>
  /\ cli.id = call.attempt /\ call.base < call.attempt /\ call.sess \in {None, cli.id}
  /\ cli.fork \in {None, call.base} /\ ws.written
  /\ cli.up # "off"
  /\ call.confirmed => call.sess = cli.id

\* Before its session opens the folder holds what the session will start from, and
\* from then on what its model worked with.
SeenInv == call.pc = "run" /\ ws.intact /\ ~conf.web =>
  /\ cli.up = "starting" => ws.file = IF cli.fork = None THEN call.initial ELSE knows[cli.fork].file
  /\ call.confirmed \/ "init" \in Range(lines) \/ cli.up = "up" =>
       cli.up # "starting" /\ ws.file = knows[cli.id].file
EditsInv == CallInv /\ BaseInv /\ RunInv /\ SeenInv

LEMMA Bounds == MaxAttempts \in Nat /\ MaxEdits \in Nat
  BY CallAssumption

LEMMA NoCallFields ==
  /\ DOMAIN NoCall = CallFields /\ NoCall.pc = "idle" /\ NoCall.attempt = 0 /\ NoCall.base = None
  /\ NoCall.initial \in Int /\ NoCall.baseFile \in Int
  BY DEF NoCall, CallFields, None, Gone

LEMMA EditsInit == CallInit => EditsInv
<1> SUFFICES ASSUME CallInit PROVE EditsInv
  OBVIOUS
<1>1. /\ call = NoCall /\ DOMAIN cli = {"up", "code", "id", "fork", "agent"} /\ cli.up = "off"
      /\ ws \in [written : BOOLEAN, intact : BOOLEAN, file : Int] /\ edits \in Int
  BY DEF CallInit, NoCli, NoFolder, Gone
<1>2. lines \in Seq(Said) /\ roll \in Seq(Said) /\ knows \in [Sessions -> [from : Int, file : Int]]
  BY DEF CallInit, None, Gone
<1> QED
  BY <1>1, <1>2, NoCallFields, Bounds DEF EditsInv, CallInv, BaseInv, RunInv, SeenInv, None

LEMMA CalledEdits ==
  ASSUME EditsInv, UNCHANGED <<conf, edits>>, NEW initial \in Int, Called(initial)
  PROVE  EditsInv'
<1>1. /\ DOMAIN call' = CallFields /\ call'.pc = "begin" /\ call'.attempt = 0 /\ call'.base = None
      /\ call'.initial \in Int /\ call'.baseFile \in Int
  BY NoCallFields DEF Called, CallFields
<1>2. /\ DOMAIN cli' = {"up", "code", "id", "fork", "agent"} /\ cli'.up = "off"
      /\ ws' \in [written : BOOLEAN, intact : BOOLEAN, file : Int] /\ edits' \in Int
  BY DEF Called, NoCli, NoFolder, Gone, EditsInv, CallInv
<1>3. lines' \in Seq(Said) /\ roll' \in Seq(Said) /\ knows' \in [Sessions -> [from : Int, file : Int]]
  BY DEF Called, None, Gone
<1> QED
  BY <1>1, <1>2, <1>3, Bounds DEF EditsInv, CallInv, BaseInv, RunInv, SeenInv, None

\* A launch: the attempt's number is new, and its fork, if any, is the base.
LEMMA LaunchesEdits ==
  ASSUME EditsInv, UNCHANGED <<conf, knows, edits>>,
         NEW c, DOMAIN c = CallFields, Launches(c),
         c.attempt \in Sessions, c.base \in 0 .. c.attempt - 1, c.fork \in {None, c.base}, ~c.confirmed,
         c.initial \in Int, c.baseFile \in Int,
         c.base # None => ~conf.web /\ c.baseFile = knows[c.base].file
  PROVE  EditsInv'
<1>1. /\ DOMAIN call' = CallFields
      /\ call'.pc = "run" /\ call'.attempt = c.attempt /\ call'.base = c.base
      /\ call'.fork = c.fork /\ call'.initial = c.initial /\ call'.baseFile = c.baseFile
      /\ call'.confirmed = c.confirmed /\ call'.sess \in {None, c.attempt}
  BY DEF Launches, Registered, CallFields
<1>2. /\ ws' = [written |-> TRUE, intact |-> TRUE, file |-> IF conf.web THEN c.initial ELSE Placed(c)]
      /\ cli' = [NoCli EXCEPT !.up = "starting", !.id = c.attempt, !.fork = c.fork]
      /\ lines' = <<>> /\ roll' = <<>>
  BY DEF Launches
<1>6. /\ cli'.up = "starting" /\ cli'.id = c.attempt /\ cli'.fork = c.fork
      /\ DOMAIN cli' = {"up", "code", "id", "fork", "agent"}
  BY <1>2 DEF NoCli
<1>7. /\ ws'.written = TRUE /\ ws'.intact = TRUE
      /\ ws'.file = IF conf.web THEN c.initial ELSE Placed(c)
      /\ ws' \in [written : BOOLEAN, intact : BOOLEAN, file : Int]
  BY <1>2 DEF Placed
<1>8. lines' \in Seq(Said) /\ roll' \in Seq(Said) /\ "init" \notin Range(lines')
  BY <1>2 DEF Range
<1>9. knows' \in [Sessions -> [from : Int, file : Int]] /\ edits' \in Int /\ conf' = conf
  BY DEF EditsInv, CallInv
<1>10. c.attempt \in 0 .. MaxAttempts /\ c.base \in 0 .. c.attempt
  BY Bounds DEF Sessions
<1>3. CallInv'
  BY <1>1, <1>6, <1>7, <1>8, <1>9, <1>10 DEF CallInv
<1>4. BaseInv' /\ RunInv'
  BY <1>1, <1>6, <1>7, <1>10 DEF BaseInv, RunInv
<1>5. SeenInv'
  BY <1>1, <1>6, <1>7, <1>8 DEF EditsInv, CallInv, SeenInv, Placed, None
<1> QED
  BY <1>3, <1>4, <1>5 DEF EditsInv

LEMMA BeginEdits ==
  ASSUME EditsInv, Begin
  PROVE  EditsInv'
<1> DEFINE a == [call EXCEPT !.attempt = @ + 1]
           f == StartAttempt([a EXCEPT !.fork = ForkFrom(a)])
           g == IF Vanished(ws) THEN (IF f.fork # None THEN [Forget(f) EXCEPT !.attempt = @ + 1] ELSE Forget(f)) ELSE f
<1>1. Launches(g) /\ UNCHANGED <<conf, knows, edits>>
  BY Zenon DEF Begin, Attempt
<1>2. /\ DOMAIN f = CallFields /\ f.attempt = call.attempt + 1 /\ f.base = call.base
      /\ f.fork \in {None, call.base} /\ ~f.confirmed
      /\ f.initial = call.initial /\ f.baseFile = call.baseFile
  BY DEF StartAttempt, ForkFrom, EditsInv, CallInv, CallFields
<1> HIDE DEF f, a
<1>3. /\ DOMAIN g = CallFields /\ g.attempt \in {f.attempt, f.attempt + 1} /\ ~g.confirmed
      /\ g.initial = f.initial /\ g.baseFile = f.baseFile
      /\ IF Vanished(ws) THEN g.base = None /\ g.fork = None ELSE g = f
  BY <1>2 DEF Forget, CallFields
<1> HIDE DEF g
<1>8. call.attempt \in 0 .. MaxAttempts /\ call.attempt < MaxAttempts - 1 /\ call.base \in 0 .. call.attempt
  BY DEF Begin, EditsInv, CallInv
<1>4. g.attempt \in Sessions
  BY <1>2, <1>3, <1>8, Bounds DEF Sessions
<1>5. g.base \in 0 .. g.attempt - 1 /\ g.fork \in {None, g.base}
  BY <1>2, <1>3, <1>8, Bounds DEF None
<1>6. g.base # None => ~conf.web /\ g.baseFile = knows[g.base].file
  BY <1>2, <1>3 DEF EditsInv, CallInv, BaseInv, Vanished
<1>7. g.initial \in Int /\ g.baseFile \in Int
  BY <1>2, <1>3 DEF EditsInv, CallInv
<1> QED
  BY <1>1, <1>3, <1>4, <1>5, <1>6, <1>7, LaunchesEdits

\* Lines: one more at the end, or without the first.
LEMMA Appended ==
  ASSUME NEW S, NEW s \in Seq(S), NEW e \in S
  PROVE  /\ Append(s, e) \in Seq(S)
         /\ \A x : x \in Range(Append(s, e)) <=> x \in Range(s) \/ x = e
<1> DEFINE t == Append(s, e)
<1>1. t \in Seq(S) /\ Len(s) \in Nat /\ Len(t) = Len(s) + 1 /\ DOMAIN t = 1 .. Len(t) /\ DOMAIN s = 1 .. Len(s)
  OBVIOUS
<1>2. t[Len(s) + 1] = e /\ \A i \in 1 .. Len(s) : t[i] = s[i]
  OBVIOUS
<1> HIDE DEF t
<1>3. \A i \in DOMAIN t : t[i] = e \/ (i \in DOMAIN s /\ t[i] = s[i])
  BY <1>1, <1>2
<1>4. \A x : x \in Range(t) => x \in Range(s) \/ x = e
  BY Zenon, <1>3 DEF Range
<1>5. Len(t) \in DOMAIN t /\ t[Len(t)] = e /\ \A i \in DOMAIN s : i \in DOMAIN t /\ t[i] = s[i]
  BY <1>1, <1>2
<1>6. \A x : x \in Range(s) \/ x = e => x \in Range(t)
  BY Zenon, <1>5 DEF Range
<1> QED
  BY <1>1, <1>4, <1>6 DEF t

LEMMA Popped ==
  ASSUME NEW S, NEW s \in Seq(S), s # <<>>
  PROVE  /\ Tail(s) \in Seq(S) /\ Head(s) \in S /\ Head(s) \in Range(s)
         /\ \A x : x \in Range(s) <=> x = Head(s) \/ x \in Range(Tail(s))
<1> DEFINE t == Tail(s)
<1>1. t \in Seq(S) /\ DOMAIN t = 1 .. Len(s) - 1 /\ DOMAIN s = 1 .. Len(s) /\ Head(s) = s[1] /\ Len(s) \in Nat \ {0}
  OBVIOUS
<1>2. \A i \in DOMAIN t : i + 1 \in DOMAIN s /\ t[i] = s[i + 1]
  BY <1>1
<1>3. 1 \in DOMAIN s /\ s[1] \in S
  BY <1>1
<1> HIDE DEF t
<1>4. \A x : x \in Range(t) => x \in Range(s)
  BY Zenon, <1>2 DEF Range
<1>5. Head(s) \in Range(s)
  BY <1>1, <1>3 DEF Range
<1>6. \A i \in DOMAIN s : s[i] = Head(s) \/ (i - 1 \in DOMAIN t /\ t[i - 1] = s[i])
  BY <1>1 DEF t
<1>7. \A x : x \in Range(s) => x = Head(s) \/ x \in Range(t)
  BY Zenon, <1>6 DEF Range
<1> QED
  BY <1>1, <1>3, <1>4, <1>5, <1>7 DEF t

LEMMA SaysLine ==
  ASSUME EditsInv, NEW e \in Said, Says(e)
  PROVE  lines' \in Seq(Said) /\ ("init" \in Range(lines') => "init" \in Range(lines) \/ e = "init")
<1>1. lines \in Seq(Said) /\ lines' = Append(lines, e)
  BY DEF Says, EditsInv, CallInv
<1> QED
  BY <1>1, Appended

LEMMA CliOpensEdits ==
  ASSUME EditsInv, CliOpens
  PROVE  EditsInv'
<1> DEFINE new == [from |-> cli.fork, file |-> IF cli.fork = None THEN call.initial ELSE knows[cli.fork].file]
<1>1. /\ call.pc = "run" /\ cli.up = "starting"
      /\ DOMAIN cli' = DOMAIN cli /\ cli'.up = "up" /\ cli'.id = cli.id /\ cli'.fork = cli.fork
      /\ UNCHANGED <<conf, call, ws, roll, edits>>
  BY DEF CliOpens, Alive, CliOnly, EditsInv, CallInv
<1>2. /\ cli.id = call.attempt /\ call.base < call.attempt /\ cli.fork \in {None, call.base}
      /\ call.attempt \in 0 .. MaxAttempts /\ call.base \in 0 .. call.attempt
  BY <1>1 DEF EditsInv, RunInv, CallInv
<1>3. /\ cli.id \in Sessions /\ cli.fork # cli.id /\ (call.base # None => call.base \in Sessions /\ call.base # cli.id)
      /\ cli.fork \in Int
  BY <1>2, Bounds DEF Sessions, None
<1>4. knows \in [Sessions -> [from : Int, file : Int]] /\ call.initial \in Int
  BY DEF EditsInv, CallInv
<1>5. knows' = [knows EXCEPT ![cli.id] = new] /\ new \in [from : Int, file : Int]
  BY <1>2, <1>3, <1>4 DEF CliOpens
<1>6. /\ knows' \in [Sessions -> [from : Int, file : Int]] /\ knows'[cli.id] = new
      /\ call.base # None => knows'[call.base] = knows[call.base]
  BY <1>3, <1>4, <1>5
<1>7. lines' \in Seq(Said)
  BY SaysLine DEF CliOpens, Said
<1>8. CallInv' /\ BaseInv' /\ RunInv'
  BY <1>1, <1>6, <1>7 DEF EditsInv, CallInv, BaseInv, RunInv
<1>9. SeenInv'
  <2>1. ws.intact /\ ~conf.web => ws.file = new.file
    BY <1>1 DEF EditsInv, SeenInv
  <2> QED
    BY <1>1, <1>6, <2>1 DEF SeenInv
<1> QED
  BY <1>8, <1>9 DEF EditsInv

LEMMA CliWorksEdits ==
  ASSUME EditsInv, CliWorks
  PROVE  EditsInv'
<1>1. call.pc = "run" /\ cli.up = "up" /\ UNCHANGED <<conf, call, cli, roll>>
  BY DEF CliWorks, Alive
<1>2. lines' \in Seq(Said)
  BY SaysLine DEF CliWorks, Said
<1>3. /\ cli.id = call.attempt /\ call.base < call.attempt
      /\ call.attempt \in 0 .. MaxAttempts /\ call.base \in 0 .. call.attempt
      /\ knows \in [Sessions -> [from : Int, file : Int]] /\ edits \in Int
      /\ ws \in [written : BOOLEAN, intact : BOOLEAN, file : Int]
  BY <1>1 DEF EditsInv, RunInv, CallInv
<1>4. cli.id \in Sessions /\ (call.base # None => call.base \in Sessions /\ call.base # cli.id)
  BY <1>3, Bounds DEF Sessions, None
<1>5. CASE UNCHANGED <<ws, knows, edits>>
  BY <1>1, <1>2, <1>5 DEF EditsInv, CallInv, BaseInv, RunInv, SeenInv
<1>6. CASE /\ edits' = edits + 1 /\ ws' = [ws EXCEPT !.file = edits + 1]
           /\ knows' = [knows EXCEPT ![cli.id].file = edits + 1]
  <2>1. /\ ws' \in [written : BOOLEAN, intact : BOOLEAN, file : Int] /\ edits' \in Int
        /\ ws'.written = ws.written /\ ws'.intact = ws.intact /\ ws'.file = edits + 1
    BY <1>3, <1>6
  <2>2. /\ knows' \in [Sessions -> [from : Int, file : Int]] /\ knows'[cli.id].file = edits + 1
        /\ call.base # None => knows'[call.base] = knows[call.base]
    BY <1>3, <1>4, <1>6
  <2>3. CallInv' /\ BaseInv' /\ RunInv'
    BY <1>1, <1>2, <2>1, <2>2 DEF EditsInv, CallInv, BaseInv, RunInv
  <2>4. SeenInv'
    BY <1>1, <2>1, <2>2 DEF SeenInv
  <2> QED
    BY <2>3, <2>4 DEF EditsInv
<1> QED
  BY Zenon, <1>5, <1>6 DEF CliWorks

\* The other steps of the CLI and the watchdog do not touch the call or the file.
LEMMA CliOtherEdits ==
  ASSUME EditsInv, CliAgent \/ CliEnds \/ StoreLoses \/ WatchdogStops
  PROVE  EditsInv'
<1>1. UNCHANGED <<conf, call, ws, knows, edits>>
  BY Zenon DEF CliAgent, CliEnds, StoreLoses, WatchdogStops, CliOnly
<1>2. /\ DOMAIN cli' = DOMAIN cli /\ cli'.id = cli.id /\ cli'.fork = cli.fork
      /\ cli'.up \in {cli.up, "dead"}
      /\ cli'.up # cli.up => call.pc = "run" /\ cli.up \in {"starting", "up"}
      /\ cli'.up = "dead" => cli' = cli \/ call.pc = "run"
  <2>1. CASE CliAgent
    BY <2>1 DEF CliAgent, EditsInv, CallInv, Alive
  <2>2. CASE CliEnds \/ WatchdogStops
    BY <2>2 DEF CliEnds, WatchdogStops, EditsInv, CallInv, Alive
  <2>3. CASE StoreLoses
    BY <2>3 DEF StoreLoses
  <2> QED
    BY <2>1, <2>2, <2>3
<1>3. /\ lines' \in Seq(Said) /\ roll' \in Seq(Said)
      /\ "init" \in Range(lines') => "init" \in Range(lines)
  <2> DEFINE report == IF cli.agent THEN "agentdone" ELSE "agentfailed"
  <2>1. roll \in Seq(Said) /\ lines \in Seq(Said) /\ report \in Said /\ report # "init"
    BY DEF EditsInv, CallInv, Said
  <2>2. CASE CliAgent
    <3>1. \/ roll' = Append(roll, report) /\ UNCHANGED lines
          \/ Says(report) /\ UNCHANGED roll
          \/ UNCHANGED <<lines, roll>>
      BY Zenon, <2>2 DEF CliAgent
    <3> HIDE DEF report
    <3>2. CASE roll' = Append(roll, report) /\ UNCHANGED lines
      BY <2>1, <3>2, Appended
    <3>3. CASE Says(report) /\ UNCHANGED roll
      BY <2>1, <3>3, SaysLine
    <3>4. CASE UNCHANGED <<lines, roll>>
      BY <2>1, <3>4
    <3> QED
      BY <3>1, <3>2, <3>3, <3>4
  <2>3. CASE UNCHANGED <<lines, roll>>
    BY <2>1, <2>3
  <2> QED
    BY Zenon, <2>2, <2>3 DEF CliEnds, StoreLoses, WatchdogStops
<1>4. CallInv' /\ BaseInv' /\ RunInv'
  BY <1>1, <1>2, <1>3 DEF EditsInv, CallInv, BaseInv, RunInv
<1>5. SeenInv'
  BY <1>1, <1>2, <1>3 DEF EditsInv, SeenInv
<1> QED
  BY <1>4, <1>5 DEF EditsInv

LEMMA WorkspaceVanishesEdits ==
  ASSUME EditsInv, WorkspaceVanishes
  PROVE  EditsInv'
<1>2. ws \in [written : BOOLEAN, intact : BOOLEAN, file : Int]
  BY DEF EditsInv, CallInv
<1>1. /\ UNCHANGED <<conf, call, cli, lines, roll, knows, edits>>
      /\ ws' \in [written : BOOLEAN, intact : BOOLEAN, file : Int]
      /\ ws'.written = ws.written /\ ws'.intact = FALSE
  <2> DEFINE left == [ws EXCEPT !.intact = FALSE]
  <2>1. UNCHANGED <<conf, call, cli, lines, roll, knows, edits>> /\ ws' = [left EXCEPT !.file = Gone]
    BY DEF WorkspaceVanishes
  <2>2. left \in [written : BOOLEAN, intact : BOOLEAN, file : Int] /\ left.intact = FALSE /\ left.written = ws.written
    BY <1>2
  <2>3. Gone \in Int
    BY DEF Gone
  <2> HIDE DEF left
  <2> QED
    BY <2>1, <2>2, <2>3
<1> QED
  BY <1>1 DEF EditsInv, CallInv, BaseInv, RunInv, SeenInv

\* What the runner hears of its process: nothing about its file or its base.
LEMMA HearsEdits ==
  ASSUME EditsInv, Follow \/ ReadLine
  PROVE  EditsInv'
<1>1. call.pc = "run" /\ UNCHANGED <<conf, ws, cli, knows, edits>> /\ DOMAIN call = CallFields
  BY Zenon DEF Follow, ReadLine, EditsInv, CallInv
<1>2. /\ DOMAIN call' = DOMAIN call /\ call'.pc = "run" /\ call'.attempt = call.attempt /\ call'.base = call.base
      /\ call'.initial = call.initial /\ call'.baseFile = call.baseFile
      /\ \/ call'.confirmed = call.confirmed /\ call'.sess = call.sess
         \/ call'.confirmed /\ call'.sess = cli.id /\ lines # <<>> /\ Head(lines) = "init"
  <2>1. CASE Follow
    BY <1>1, <2>1 DEF Follow, Reports, CallFields
  <2>2. CASE ReadLine
    <3>1. CASE Head(lines) = "init"
      BY <1>1, <2>2, <3>1 DEF ReadLine, Translated, Confirmed, CallFields
    <3>2. CASE Head(lines) # "init"
      BY <1>1, <2>2, <3>2 DEF ReadLine, Translated, Reports, CallFields
    <3> QED
      BY <3>1, <3>2
  <2> QED
    BY <2>1, <2>2
<1>3. /\ lines' \in Seq(Said) /\ roll' \in Seq(Said)
      /\ "init" \in Range(lines') => "init" \in Range(lines)
      /\ lines # <<>> /\ Head(lines) = "init" => "init" \in Range(lines)
  <2>1. lines \in Seq(Said) /\ roll \in Seq(Said)
    BY DEF EditsInv, CallInv
  <2>2. \/ roll # <<>> /\ roll' = Tail(roll) /\ lines' = lines
        \/ lines # <<>> /\ lines' = Tail(lines) /\ roll' = roll
    BY Zenon DEF Follow, ReadLine
  <2>3. CASE roll # <<>> /\ roll' = Tail(roll) /\ lines' = lines
    BY <2>1, <2>3, Popped
  <2>4. CASE lines # <<>> /\ lines' = Tail(lines) /\ roll' = roll
    BY <2>1, <2>4, Popped
  <2> QED
    BY <2>1, <2>2, <2>3, <2>4, Popped
<1>4. CallInv' /\ BaseInv' /\ RunInv'
  BY <1>1, <1>2, <1>3 DEF EditsInv, CallInv, BaseInv, RunInv
<1>5. SeenInv'
  BY <1>1, <1>2, <1>3 DEF EditsInv, SeenInv
<1> QED
  BY <1>4, <1>5 DEF EditsInv

LEMMA RunsAgainEdits ==
  ASSUME EditsInv, RunsAgain
  PROVE  EditsInv'
<1> DEFINE g == StartAttempt([Forget(call) EXCEPT !.attempt = @ + 1])
<1>1. Launches(g) /\ UNCHANGED <<conf, knows, edits>> /\ call.attempt < MaxAttempts
  BY Zenon DEF RunsAgain
<1>2. /\ DOMAIN call = CallFields /\ call.attempt \in 0 .. MaxAttempts
      /\ call.initial \in Int /\ call.baseFile \in Int
  BY DEF EditsInv, CallInv
<1>3. /\ DOMAIN g = CallFields /\ g.attempt = call.attempt + 1 /\ g.base = None /\ g.fork = None /\ ~g.confirmed
      /\ g.initial \in Int /\ g.baseFile \in Int
  BY <1>2 DEF StartAttempt, Forget, CallFields
<1> HIDE DEF g
<1>4. g.attempt \in Sessions /\ g.base \in 0 .. g.attempt - 1
  BY <1>1, <1>2, <1>3, Bounds DEF Sessions, None
<1> QED
  BY <1>1, <1>3, <1>4, LaunchesEdits

\* A step that leaves the attempt without touching its base or its file.
LEMMA LeavesEdits ==
  ASSUME EditsInv, UNCHANGED <<conf, ws, cli, lines, knows, edits>>, roll' \in {roll, <<>>},
         cli.up \notin {"starting", "up"}, DOMAIN call' = CallFields, call'.pc # "run",
         call'.attempt = call.attempt, call'.initial = call.initial,
         \/ call'.base = None /\ call'.baseFile \in Int
         \/ call'.base = call.base /\ call'.baseFile = call.baseFile
  PROVE  EditsInv'
<1>3. /\ call'.attempt \in 0 .. MaxAttempts /\ call'.base \in 0 .. call'.attempt
      /\ call'.initial \in Int /\ call'.baseFile \in Int /\ (call'.base # None => ~conf'.web)
  BY DEF EditsInv, CallInv, None
<1>4. lines' \in Seq(Said) /\ roll' \in Seq(Said)
  <2>1. <<>> \in Seq(Said)
    OBVIOUS
  <2> QED
    BY Zenon, <2>1 DEF EditsInv, CallInv
<1>1. CallInv'
  BY <1>3, <1>4 DEF EditsInv, CallInv
<1>2. BaseInv' /\ RunInv' /\ SeenInv'
  BY DEF EditsInv, BaseInv, RunInv, SeenInv
<1> QED
  BY <1>1, <1>2 DEF EditsInv

LEMMA WaitOrDiscardEdits ==
  ASSUME EditsInv, WaitOver \/ Discard
  PROVE  EditsInv'
<1>1. /\ UNCHANGED <<conf, ws, cli, lines, roll, knows, edits>> /\ call.pc \in {"wait", "closing"}
      /\ DOMAIN call = CallFields
  BY Zenon DEF WaitOver, Discard, EditsInv, CallInv
<1>2. /\ DOMAIN call' = CallFields /\ call'.pc # "run" /\ call'.attempt = call.attempt
      /\ call'.initial = call.initial /\ call'.base = call.base /\ call'.baseFile = call.baseFile
  BY <1>1 DEF WaitOver, Discard, Ends, CallFields
<1>3. cli.up \notin {"starting", "up"}
  BY <1>1 DEF EditsInv, CallInv
<1> QED
  BY <1>1, <1>2, <1>3, LeavesEdits

LEMMA JudgesEdits ==
  ASSUME EditsInv, Judges
  PROVE  EditsInv'
<1>0. PICK r \in {FinalRead(call), Missed(call)} : Judged(r)
  BY Zenon DEF Judges
<1> DEFINE fail == FailureOf(r)
           based == IF NewBase(r, fail) THEN [r EXCEPT !.base = r.sess] ELSE r
           kept == IF fail = "overflow" THEN [based EXCEPT !.base = None] ELSE based
           c == FinishAttempt(r, fail)
<1>1. /\ call.pc = "run" /\ cli.up = "dead" /\ roll' = <<>> /\ UNCHANGED <<conf, ws, cli, lines, knows, edits>>
      /\ DOMAIN call = CallFields
  BY Zenon DEF Judges, Finished, EditsInv, CallInv
<1>2. /\ DOMAIN r = CallFields /\ r.attempt = call.attempt /\ r.base = call.base /\ r.initial = call.initial
      /\ r.baseFile = call.baseFile /\ r.sess = call.sess /\ r.confirmed = call.confirmed
  BY <1>0, <1>1 DEF FinalRead, Missed, Reports, CallFields
<1> HIDE DEF fail
<1>3. \/ \E result : Ends(r, result)
      \/ \E made : call' = [c EXCEPT !.pc = "wait", !.made = made]
  BY Zenon, <1>0 DEF Judged, fail
<1>4. CASE \E result : Ends(r, result)
  <2>1. /\ DOMAIN call' = CallFields /\ call'.pc # "run" /\ call'.attempt = call.attempt
        /\ call'.initial = call.initial /\ call'.base = call.base /\ call'.baseFile = call.baseFile
    BY <1>2, <1>4 DEF Ends, CallFields
  <2> QED
    BY <1>1, <2>1, LeavesEdits
<1>5. CASE \E made : call' = [c EXCEPT !.pc = "wait", !.made = made]
  <2>1. /\ DOMAIN kept = CallFields /\ kept.attempt = r.attempt /\ kept.initial = r.initial
        /\ kept.sess = r.sess /\ kept.baseFile = r.baseFile
        /\ kept.base \in {None, r.base, r.sess}
        /\ kept.base # None /\ kept.base # r.base => ~conf.web /\ r.confirmed
    BY <1>2 DEF NewBase, Resumable, CallFields
  <2>2. c = [kept EXCEPT !.failure = fail, !.baseFile = KeptFile(kept)]
    BY Zenon DEF FinishAttempt, based, kept, c
  <2> HIDE DEF kept, c
  <2>3. /\ DOMAIN call' = CallFields /\ call'.pc = "wait" /\ call'.attempt = call.attempt
        /\ call'.initial = call.initial /\ call'.base = kept.base /\ call'.baseFile = KeptFile(kept)
    BY <1>2, <1>5, <2>1, <2>2 DEF CallFields
  <2>4. /\ cli.id = call.attempt /\ call.base < call.attempt /\ call.sess \in {None, cli.id} /\ ws.written
        /\ call.confirmed => call.sess = cli.id
        /\ call.attempt \in 0 .. MaxAttempts /\ call.base \in 0 .. call.attempt
        /\ ws.file \in Int /\ call.baseFile \in Int
        /\ call.base # None => ~conf.web
    BY <1>1 DEF EditsInv, RunInv, CallInv
  <2>5. CASE kept.base = None \/ kept.base = call.base
    <3>1. \/ call'.base = None /\ call'.baseFile \in Int
          \/ call'.base = call.base /\ call'.baseFile = call.baseFile
      BY <1>2, <2>1, <2>3, <2>4, <2>5 DEF KeptFile, None
    <3> QED
      BY <1>1, <2>3, <3>1, LeavesEdits
  <2>6. CASE kept.base # None /\ kept.base # call.base
    <3>1. /\ kept.base = cli.id /\ ~conf.web /\ call.confirmed /\ call'.baseFile = ws.file
          /\ call'.base = cli.id
      BY <1>2, <2>1, <2>3, <2>4, <2>6 DEF KeptFile
    <3>2. ws.intact => ws.file = knows[cli.id].file
      BY <1>1, <3>1 DEF EditsInv, SeenInv
    <3>3. CallInv'
      BY <1>1, <2>3, <2>4, <3>1 DEF EditsInv, CallInv
    <3>4. BaseInv' /\ RunInv' /\ SeenInv'
      BY <1>1, <2>3, <2>4, <3>1, <3>2 DEF BaseInv, RunInv, SeenInv
    <3> QED
      BY <3>3, <3>4 DEF EditsInv
  <2> QED
    BY <2>5, <2>6
<1> QED
  BY <1>3, <1>4, <1>5

LEMMA CallEdits ==
  ASSUME EditsInv, CallNext
  PROVE  EditsInv'
BY Zenon, BeginEdits, HearsEdits, RunsAgainEdits, JudgesEdits, WaitOrDiscardEdits, CliOpensEdits, CliWorksEdits,
   CliOtherEdits, WorkspaceVanishesEdits DEF CallNext, Cli, Runner

LEMMA UntouchedEdits ==
  ASSUME EditsInv, UNCHANGED <<conf, callVars>>
  PROVE  EditsInv'
BY DEF callVars, EditsInv, CallInv, BaseInv, RunInv, SeenInv

\* The workflow's texts are versions of the file.
TextInv ==
  /\ DOMAIN loop = {"pc", "text", "source", "pdf", "longer", "compilation", "tried"}
  /\ loop.text \in Int /\ loop.source \in Int
  /\ DOMAIN loop.compilation = {"status", "history", "attempt"}

LEMMA RepairedEdits ==
  ASSUME EditsInv, TextInv, Repaired
  PROVE  EditsInv' /\ TextInv'
<1>1. /\ call' = NoCall /\ ws' = NoFolder /\ cli' = NoCli
      /\ knows' = [s \in Sessions |-> [from |-> None, file |-> Gone]]
      /\ UNCHANGED <<conf, lines, roll>>
  BY DEF Repaired
<1>3. PICK text \in IF conf.web THEN Answers ELSE {ws.file} :
        /\ loop' = CASE call.result = "accepted" -> [loop EXCEPT !.pc = "write", !.text = text]
                     [] call.result = "paused"   -> [loop EXCEPT !.pc = "paused"]
                     [] OTHER                    -> [loop EXCEPT !.pc = "failed"]
        /\ edits' = Larger(edits, text)
  BY Zenon DEF Repaired
<1>4. text \in Int /\ edits' \in Int
  BY <1>3, Bounds DEF EditsInv, CallInv, TextInv, Larger, Answers
<1>2. EditsInv'
  <2>1. /\ DOMAIN cli' = {"up", "code", "id", "fork", "agent"} /\ cli'.up = "off"
        /\ ws' \in [written : BOOLEAN, intact : BOOLEAN, file : Int] /\ edits' \in Int
    BY <1>1, <1>4 DEF NoCli, NoFolder, Gone, EditsInv, CallInv
  <2>2. lines' \in Seq(Said) /\ roll' \in Seq(Said) /\ knows' \in [Sessions -> [from : Int, file : Int]]
    BY <1>1 DEF None, Gone, EditsInv, CallInv
  <2> QED
    BY <1>1, <2>1, <2>2, NoCallFields, Bounds DEF EditsInv, CallInv, BaseInv, RunInv, SeenInv, None
<1>5. \/ loop' = [loop EXCEPT !.pc = "write", !.text = text]
      \/ loop' = [loop EXCEPT !.pc = "paused"]
      \/ loop' = [loop EXCEPT !.pc = "failed"]
  BY <1>3
<1>6. TextInv'
  BY <1>4, <1>5 DEF TextInv
<1> QED
  BY <1>2, <1>6

LEMMA TextInit == LoopInit => TextInv
  BY DEF LoopInit, TextInv, NoResult, Gone

LEMMA LoopEdits ==
  ASSUME EditsInv, TextInv, LoopNext
  PROVE  EditsInv' /\ TextInv'
<1>1. CASE CallNext /\ UNCHANGED loop
  BY <1>1, CallEdits DEF TextInv
<1>2. CASE Repaired
  BY <1>2, RepairedEdits
<1>3. CASE Repairs
  <2>1. Called(loop.text) /\ UNCHANGED <<conf, edits, loop>>
    BY <1>3 DEF Repairs
  <2> QED
    BY <2>1, CalledEdits DEF TextInv
<1>4. CASE WritesSource \/ CannotRun \/ TakesLonger \/ Resumes
  <2>1. UNCHANGED <<conf, callVars>>
    BY Zenon, <1>4 DEF WritesSource, CannotRun, TakesLonger, Resumes, Unchanged
  <2>2. TextInv'
    <3>1. CASE WritesSource
      BY <3>1 DEF WritesSource, TextInv, Goes
    <3>2. CASE CannotRun
      BY <3>2 DEF CannotRun, TextInv
    <3>3. CASE TakesLonger
      BY <3>3 DEF TakesLonger, TextInv
    <3>4. CASE Resumes
      BY <3>4 DEF Resumes, TextInv, Goes
    <3> QED
      BY <1>4, <3>1, <3>2, <3>3, <3>4
  <2> QED
    BY <2>1, <2>2, UntouchedEdits
<1>5. CASE Compiles
  <2>1. UNCHANGED <<conf, callVars>>
    BY Zenon, <1>5 DEF Compiles, Unchanged
  <2>2. PICK status, pdf, history : Compiled(status, pdf, history)
    BY Zenon, <1>5 DEF Compiles
  <2>3. TextInv'
    BY <2>2 DEF Compiled, TextInv
  <2> QED
    BY <2>1, <2>3, UntouchedEdits
<1> QED
  BY Zenon, <1>1, <1>2, <1>3, <1>4, <1>5 DEF LoopNext

LEMMA EditsInvariant == MainSpec => [](EditsInv /\ TextInv)
<1>1. MainInit => EditsInv /\ TextInv
  BY EditsInit, TextInit DEF MainInit, LoopInit
<1>2. EditsInv /\ TextInv /\ [MainNext]_mainVars => (EditsInv /\ TextInv)'
  <2> SUFFICES ASSUME EditsInv, TextInv, [MainNext]_mainVars PROVE (EditsInv /\ TextInv)'
    OBVIOUS
  <2>1. CASE LoopNext
    BY <2>1, LoopEdits
  <2>2. CASE UNCHANGED loopVars
    BY <2>2, UntouchedEdits DEF loopVars, TextInv
  <2> QED
    BY Zenon, <2>1, <2>2 DEF MainNext, mainVars
<1> QED
  BY <1>1, <1>2, PTL DEF MainSpec

\* While a session's model works, the file it edits is the one this conversation last
\* had, whatever forks, deletions and vanished folders came before (_edit_workspace).
THEOREM EditsInConversation == MainSpec => []EditsBelong
<1>1. EditsInv => EditsBelong
  BY DEF EditsInv, CallInv, SeenInv, EditsBelong
<1> QED
  BY <1>1, EditsInvariant, PTL

-----------------------------------------------------------------------------
(* Failed subagents *)

Report == {"agentfailed", "agentdone"}

\* The subagent's state is what the last report in s says of it, or what it was before.
Tells(s, before, agent) ==
  /\ \A i \in DOMAIN s :
       s[i] \in Report /\ (\A j \in DOMAIN s : j > i => s[j] \notin Report) => (agent <=> s[i] = "agentfailed")
  /\ (\A i \in DOMAIN s : s[i] \notin Report) => (agent <=> before)

LEMMA TellsAppended ==
  ASSUME NEW s \in Seq(Said), NEW e \in Said, NEW before, NEW agent, NEW later,
         IF e \in Report THEN later <=> e = "agentfailed" ELSE Tells(s, before, agent) /\ (later <=> agent)
  PROVE  Tells(Append(s, e), before, later)
<1> DEFINE t == Append(s, e)
<1>1. /\ Len(s) \in Nat /\ Len(t) = Len(s) + 1 /\ DOMAIN t = 1 .. Len(t) /\ DOMAIN s = 1 .. Len(s)
      /\ t[Len(t)] = e /\ \A i \in DOMAIN s : i \in DOMAIN t /\ t[i] = s[i]
  OBVIOUS
<1> HIDE DEF t
<1>2. \A i \in DOMAIN t : i = Len(t) \/ (i \in DOMAIN s /\ i < Len(t))
  BY <1>1
<1>3. Len(t) \in DOMAIN t /\ \A i \in DOMAIN s : Len(t) > i
  BY <1>1
<1>4. CASE e \in Report
  <2>1. Tells(t, before, later)
    BY <1>1, <1>2, <1>3, <1>4 DEF Tells
  <2> QED
    BY <2>1 DEF t
<1>5. CASE e \notin Report
  <2>1. \A i \in DOMAIN t :
          t[i] \in Report /\ (\A j \in DOMAIN t : j > i => t[j] \notin Report) => (later <=> t[i] = "agentfailed")
    <3>1. TAKE i \in DOMAIN t
    <3>2. SUFFICES ASSUME t[i] \in Report, \A j \in DOMAIN t : j > i => t[j] \notin Report
                   PROVE  later <=> t[i] = "agentfailed"
      OBVIOUS
    <3>3. i \in DOMAIN s /\ s[i] = t[i]
      BY <1>1, <1>2, <1>5, <3>2
    <3>4. \A j \in DOMAIN s : j > i => s[j] \notin Report
      BY <1>1, <3>2
    <3> QED
      BY <1>5, <3>2, <3>3, <3>4 DEF Tells
  <2>2. (\A i \in DOMAIN t : t[i] \notin Report) => (later <=> before)
    BY <1>1, <1>5 DEF Tells
  <2>3. Tells(t, before, later)
    BY Zenon, <2>1, <2>2 DEF Tells
  <2> QED
    BY <2>3 DEF t
<1> QED
  BY <1>4, <1>5

LEMMA TellsPopped ==
  ASSUME NEW s \in Seq(Said), s # <<>>, NEW before, NEW agent, Tells(s, before, agent)
  PROVE  Tells(Tail(s), IF Head(s) \in Report THEN Head(s) = "agentfailed" ELSE before, agent)
<1> DEFINE t == Tail(s)
           now == IF Head(s) \in Report THEN Head(s) = "agentfailed" ELSE before
<1>1. DOMAIN t = 1 .. Len(s) - 1 /\ DOMAIN s = 1 .. Len(s) /\ Head(s) = s[1] /\ Len(s) \in Nat \ {0}
  OBVIOUS
<1>2. \A i \in DOMAIN t : i + 1 \in DOMAIN s /\ t[i] = s[i + 1]
  BY <1>1
<1>3. \A i \in DOMAIN s : i = 1 \/ (i - 1 \in DOMAIN t /\ t[i - 1] = s[i])
  BY <1>1
<1> HIDE DEF t
<1>4. \A i \in DOMAIN t :
        t[i] \in Report /\ (\A j \in DOMAIN t : j > i => t[j] \notin Report) => (agent <=> t[i] = "agentfailed")
  <2>1. TAKE i \in DOMAIN t
  <2>2. SUFFICES ASSUME t[i] \in Report, \A j \in DOMAIN t : j > i => t[j] \notin Report
                 PROVE  agent <=> t[i] = "agentfailed"
    OBVIOUS
  <2>3. \A j \in DOMAIN s : j > i + 1 => s[j] \notin Report
    BY <1>1, <1>3, <2>2
  <2> QED
    BY <1>2, <2>2, <2>3 DEF Tells
<1>5. (\A i \in DOMAIN t : t[i] \notin Report) => (agent <=> now)
  <2>1. SUFFICES ASSUME \A i \in DOMAIN t : t[i] \notin Report PROVE agent <=> now
    OBVIOUS
  <2>2. \A i \in DOMAIN s : i > 1 => s[i] \notin Report
    BY <1>1, <1>3, <2>1
  <2>3. 1 \in DOMAIN s
    BY <1>1
  <2>4. CASE Head(s) \in Report
    BY <1>1, <2>2, <2>3, <2>4 DEF Tells
  <2>5. CASE Head(s) \notin Report
    <3>1. \A i \in DOMAIN s : s[i] \notin Report
      BY <1>1, <2>2, <2>5
    <3> QED
      BY <2>5, <3>1 DEF Tells
  <2> QED
    BY <2>4, <2>5
<1> HIDE DEF now
<1>7. Tells(t, now, agent)
  BY <1>4, <1>5 DEF Tells
<1> QED
  BY <1>7 DEF t, now

LEMMA TellsLast ==
  ASSUME NEW s \in Seq(Report), NEW before, NEW agent, Tells(s, before, agent)
  PROVE  agent <=> IF s = <<>> THEN before ELSE Last(s) = "agentfailed"
<1>1. CASE s = <<>>
  BY <1>1 DEF Tells
<1>2. CASE s # <<>>
  <2>1. Len(s) \in DOMAIN s /\ s[Len(s)] \in Report /\ \A j \in DOMAIN s : ~(j > Len(s))
    BY <1>2
  <2> QED
    BY <1>2, <2>1 DEF Tells, Last
<1> QED
  BY <1>1, <1>2

\* What the runner knows of the subagent once it has read all that was written so far,
\* and that it confirms the session of an answer.
ByRollout == conf.agents = "session" /\ ~conf.web
CountInv ==
  /\ roll \in Seq(Report) /\ cli.agent \in BOOLEAN /\ (cli.up = "dead" => cli.code # "none")
  /\ IF ByRollout THEN Tells(roll, call.failed, cli.agent) /\ Range(lines) \cap Report = {}
     ELSE (~Unobservable => Tells(lines, call.failed, cli.agent)) /\ roll = <<>>
  /\ cli.up = "up" \/ cli.code = "answer" => conf.web \/ call.confirmed \/ "init" \in Range(lines)
AgentInv ==
  /\ conf.agents \in {"none", "stream", "session"}
  /\ call.pc = "run" => CountInv
  /\ call.result = "accepted" =>
       call.pc \in {"closing", "done"} /\ (~Unobservable /\ ~call.missed => ~cli.agent)

LEMMA LaunchesAgents ==
  ASSUME EditsInv, AgentInv, NEW c, DOMAIN c = CallFields, Launches(c), c.failed = FALSE, c.result # "accepted",
         UNCHANGED conf
  PROVE  AgentInv'
<1>1. call'.failed = FALSE /\ call'.result # "accepted" /\ call'.pc = "run"
  BY DEF Launches, Registered, CallFields
<1>2. /\ cli' = [[[NoCli EXCEPT !.up = "starting"] EXCEPT !.id = c.attempt] EXCEPT !.fork = c.fork]
      /\ lines' = <<>> /\ roll' = <<>>
  BY DEF Launches
<1>3. cli'.agent = FALSE /\ cli'.up = "starting" /\ cli'.code = "none"
  BY <1>2 DEF NoCli
<1>4. <<>> \in Seq(Report) /\ DOMAIN <<>> = {}
  OBVIOUS
<1> QED
  BY <1>1, <1>2, <1>3, <1>4 DEF AgentInv, CountInv, Tells, Range

LEMMA BeginAgents ==
  ASSUME EditsInv, AgentInv, Begin
  PROVE  AgentInv'
<1> DEFINE a == [call EXCEPT !.attempt = @ + 1]
           f == StartAttempt([a EXCEPT !.fork = ForkFrom(a)])
           g == IF Vanished(ws) THEN (IF f.fork # None THEN [Forget(f) EXCEPT !.attempt = @ + 1] ELSE Forget(f)) ELSE f
<1>1. Launches(g) /\ UNCHANGED conf /\ call.pc = "begin"
  BY Zenon DEF Begin, Attempt
<1>2. DOMAIN f = CallFields /\ f.failed = FALSE /\ f.result = call.result
  BY DEF StartAttempt, ForkFrom, EditsInv, CallInv, CallFields
<1> HIDE DEF f, a
<1>3. DOMAIN g = CallFields /\ g.failed = f.failed /\ g.result = f.result
  BY <1>2 DEF Forget, CallFields
<1> HIDE DEF g
<1> QED
  BY <1>1, <1>2, <1>3, LaunchesAgents DEF AgentInv

LEMMA RunsAgainAgents ==
  ASSUME EditsInv, AgentInv, RunsAgain
  PROVE  AgentInv'
<1> DEFINE g == StartAttempt([Forget(call) EXCEPT !.attempt = @ + 1])
<1>1. Launches(g) /\ UNCHANGED conf /\ call.pc = "run"
  BY Zenon DEF RunsAgain, Finished
<1>2. DOMAIN g = CallFields /\ g.failed = FALSE /\ g.result = call.result
  BY DEF StartAttempt, Forget, CallFields, EditsInv, CallInv
<1> HIDE DEF g
<1> QED
  BY <1>1, <1>2, LaunchesAgents DEF AgentInv

\* A line that is no report.
LEMMA SaysOther ==
  ASSUME EditsInv, CountInv, NEW e \in Said \ Report, Says(e), UNCHANGED <<conf, call, roll>>, cli'.agent = cli.agent
  PROVE  /\ roll' \in Seq(Report) /\ cli'.agent \in BOOLEAN
         /\ IF ByRollout' THEN Tells(roll, call.failed, cli.agent)' /\ Range(lines') \cap Report = {}
            ELSE (~Unobservable' => Tells(lines, call.failed, cli.agent)') /\ roll' = <<>>
         /\ \A x : x \in Range(lines) \/ x = e => x \in Range(lines')
<1>1. lines \in Seq(Said) /\ lines' = Append(lines, e)
  BY DEF Says, EditsInv, CallInv
<1>2. \A x : x \in Range(lines') <=> x \in Range(lines) \/ x = e
  BY <1>1, Appended
<1>3. Tells(lines, call.failed, cli.agent) => Tells(lines', call.failed, cli.agent)
  BY <1>1, TellsAppended
<1>4. (ByRollout' <=> ByRollout) /\ (Unobservable' <=> Unobservable)
  BY DEF ByRollout, Unobservable, Resumable
<1>5. CASE ByRollout
  BY <1>2, <1>4, <1>5 DEF CountInv
<1>6. CASE ~ByRollout
  BY <1>2, <1>3, <1>4, <1>6 DEF CountInv
<1> QED
  BY <1>5, <1>6

LEMMA OpensAgents ==
  ASSUME EditsInv, AgentInv, CliOpens
  PROVE  AgentInv'
<1>1. /\ call.pc = "run" /\ UNCHANGED <<conf, call, roll>> /\ Says("init")
      /\ DOMAIN cli = {"up", "code", "id", "fork", "agent"} /\ cli' = [cli EXCEPT !.up = "up"]
  BY DEF CliOpens, Alive, CliOnly, EditsInv, CallInv
<1>2. cli'.agent = cli.agent /\ cli'.code = cli.code /\ cli'.up = "up" /\ "init" \in Said \ Report
  BY <1>1 DEF Said, Report
<1>3. CountInv
  BY <1>1 DEF AgentInv
<1>4. /\ roll' \in Seq(Report) /\ cli'.agent \in BOOLEAN
      /\ IF ByRollout' THEN Tells(roll, call.failed, cli.agent)' /\ Range(lines') \cap Report = {}
         ELSE (~Unobservable' => Tells(lines, call.failed, cli.agent)') /\ roll' = <<>>
      /\ "init" \in Range(lines')
  BY <1>1, <1>2, <1>3, SaysOther
<1>5. CountInv'
  BY <1>2, <1>4 DEF CountInv
<1> QED
  BY <1>1, <1>2, <1>5 DEF AgentInv

LEMMA WorksAgents ==
  ASSUME EditsInv, AgentInv, CliWorks
  PROVE  AgentInv'
<1>1. call.pc = "run" /\ UNCHANGED <<conf, call, cli, roll>> /\ Says("output")
  BY DEF CliWorks, Alive
<1>2. "output" \in Said \ Report
  BY DEF Said, Report
<1>3. CountInv
  BY <1>1 DEF AgentInv
<1>4. /\ roll' \in Seq(Report) /\ cli'.agent \in BOOLEAN
      /\ IF ByRollout' THEN Tells(roll, call.failed, cli.agent)' /\ Range(lines') \cap Report = {}
         ELSE (~Unobservable' => Tells(lines, call.failed, cli.agent)') /\ roll' = <<>>
      /\ "init" \in Range(lines) => "init" \in Range(lines')
  BY <1>1, <1>2, <1>3, SaysOther
<1>5. CountInv'
  BY <1>1, <1>3, <1>4 DEF CountInv
<1> QED
  BY <1>1, <1>5 DEF AgentInv

LEMMA AgentAgents ==
  ASSUME EditsInv, AgentInv, CliAgent
  PROVE  AgentInv'
<1> DEFINE report == IF cli.agent THEN "agentdone" ELSE "agentfailed"
<1>1. /\ call.pc = "run" /\ UNCHANGED <<conf, call>>
      /\ DOMAIN cli = {"up", "code", "id", "fork", "agent"} /\ cli' = [cli EXCEPT !.agent = ~@]
      /\ lines \in Seq(Said) /\ roll \in Seq(Said)
  BY DEF CliAgent, Alive, CliOnly, EditsInv, CallInv
<1>2. CountInv
  BY <1>1 DEF AgentInv
<1>3. /\ cli'.agent \in BOOLEAN /\ cli'.up = cli.up /\ cli'.code = cli.code
      /\ report \in Report /\ report \in Said /\ report # "init" /\ (cli'.agent <=> report = "agentfailed")
  BY <1>1, <1>2 DEF CountInv, Report, Said
<1>4. IF ByRollout THEN roll' = Append(roll, report) /\ UNCHANGED lines
      ELSE IF Unobservable THEN UNCHANGED <<lines, roll>>
      ELSE lines' = Append(lines, report) /\ UNCHANGED roll
  <2>1. (CASE conf.agents = "stream" -> Says(report) /\ UNCHANGED roll
           [] Unobservable           -> UNCHANGED <<lines, roll>>
           [] OTHER                  -> roll' = Append(roll, report) /\ UNCHANGED lines)
    BY Zenon DEF CliAgent
  <2>2. conf.agents \in {"stream", "session"}
    BY DEF CliAgent, AgentInv
  <2> HIDE DEF report
  <2> QED
    BY <2>1, <2>2 DEF ByRollout, Unobservable, Resumable, Says
<1>5. (ByRollout' <=> ByRollout) /\ (Unobservable' <=> Unobservable)
  BY <1>1 DEF ByRollout, Unobservable, Resumable
<1> HIDE DEF report
<1>6. CASE ByRollout
  <2>1. roll' \in Seq(Report)
    BY <1>2, <1>3, <1>4, <1>6 DEF CountInv
  <2>3. roll' = Append(roll, report)
    BY <1>4, <1>6
  <2>2. Tells(roll', call.failed, cli'.agent)
    <3>1. Tells(Append(roll, report), call.failed, cli'.agent)
      BY <1>1, <1>3, <1>6, TellsAppended
    <3> QED
      BY <2>3, <3>1
  <2> QED
    BY <1>1, <1>2, <1>3, <1>4, <1>5, <1>6, <2>1, <2>2 DEF AgentInv, CountInv
<1>7. CASE ~ByRollout /\ ~Unobservable
  <2>3. lines' = Append(lines, report)
    BY <1>4, <1>7
  <2>1. Tells(lines', call.failed, cli'.agent)
    <3>1. Tells(Append(lines, report), call.failed, cli'.agent)
      BY <1>1, <1>3, <1>7, TellsAppended
    <3> QED
      BY <2>3, <3>1
  <2>2. "init" \in Range(lines) => "init" \in Range(lines')
    BY <1>1, <1>3, <2>3, Appended
  <2> QED
    BY <1>1, <1>2, <1>3, <1>4, <1>5, <1>7, <2>1, <2>2 DEF AgentInv, CountInv
<1>8. CASE ~ByRollout /\ Unobservable
  BY <1>1, <1>2, <1>3, <1>4, <1>5, <1>8 DEF AgentInv, CountInv
<1> QED
  BY <1>6, <1>7, <1>8

LEMMA CliEndAgents ==
  ASSUME EditsInv, AgentInv, CliEnds \/ StoreLoses \/ WorkspaceVanishes \/ WatchdogStops
  PROVE  AgentInv'
<1>1. UNCHANGED <<conf, call, lines, roll>>
  BY Zenon DEF CliEnds, StoreLoses, WorkspaceVanishes, WatchdogStops, CliOnly
<1>2. \/ cli' = cli
      \/ /\ call.pc = "run" /\ DOMAIN cli = {"up", "code", "id", "fork", "agent"}
         /\ \E code \in Codes \cup {"stopped"} :
              (code = "answer" => cli.up = "up") /\ code # "none" /\ cli' = [[cli EXCEPT !.up = "dead"] EXCEPT !.code = code]
  <2>1. CASE CliEnds
    BY <2>1 DEF CliEnds, Codes, EditsInv, CallInv, Alive
  <2>2. CASE WatchdogStops
    BY <2>2 DEF WatchdogStops, Codes, EditsInv, CallInv, Alive
  <2>3. CASE StoreLoses \/ WorkspaceVanishes
    BY <2>3 DEF StoreLoses, WorkspaceVanishes
  <2> QED
    BY <2>1, <2>2, <2>3
<1>3. CASE cli' = cli
  BY <1>1, <1>3 DEF AgentInv, CountInv, ByRollout, Unobservable, Resumable
<1>4. CASE /\ call.pc = "run" /\ DOMAIN cli = {"up", "code", "id", "fork", "agent"}
           /\ \E code \in Codes \cup {"stopped"} :
                (code = "answer" => cli.up = "up") /\ code # "none" /\ cli' = [[cli EXCEPT !.up = "dead"] EXCEPT !.code = code]
  <2>1. cli'.agent = cli.agent /\ cli'.up = "dead" /\ cli'.code # "none" /\ (cli'.code = "answer" => cli.up = "up")
    BY <1>4
  <2> QED
    BY <1>1, <1>4, <2>1 DEF AgentInv, CountInv, ByRollout, Unobservable, Resumable
<1> QED
  BY <1>2, <1>3, <1>4

LEMMA FollowAgents ==
  ASSUME EditsInv, AgentInv, Follow
  PROVE  AgentInv'
<1>1. /\ call.pc = "run" /\ call.confirmed /\ roll # <<>> /\ call' = Reports(call, Head(roll)) /\ roll' = Tail(roll)
      /\ UNCHANGED <<conf, cli, lines>> /\ DOMAIN call = CallFields /\ roll \in Seq(Said)
  BY DEF Follow, EditsInv, CallInv
<1>2. CountInv /\ ByRollout /\ roll \in Seq(Report) /\ Tells(roll, call.failed, cli.agent)
  BY <1>1 DEF AgentInv, CountInv
<1>3. /\ Tail(roll) \in Seq(Report) /\ Head(roll) \in Report
      /\ Tells(roll', Head(roll) = "agentfailed", cli.agent)
  BY <1>1, <1>2, Popped, TellsPopped
<1>4. /\ call'.failed = (Head(roll) = "agentfailed") /\ call'.confirmed = call.confirmed /\ call'.pc = "run"
      /\ call'.result = call.result
  BY <1>1, <1>3 DEF Reports, Report, CallFields
<1>5. Tells(roll', call'.failed, cli'.agent)
  BY <1>1, <1>3, <1>4
<1>6. CountInv'
  BY <1>1, <1>2, <1>3, <1>4, <1>5 DEF CountInv, ByRollout
<1> QED
  BY <1>1, <1>4, <1>6 DEF AgentInv

LEMMA ReadLineAgents ==
  ASSUME EditsInv, AgentInv, ReadLine
  PROVE  AgentInv'
<1> DEFINE line == Head(lines)
<1>1. /\ call.pc = "run" /\ lines # <<>> /\ call' = Translated(call, line) /\ lines' = Tail(lines)
      /\ UNCHANGED <<conf, cli, roll>> /\ DOMAIN call = CallFields /\ lines \in Seq(Said)
  BY DEF ReadLine, EditsInv, CallInv
<1>2. CountInv
  BY <1>1 DEF AgentInv
<1>3. line \in Said /\ \A x : x \in Range(lines) <=> x = line \/ x \in Range(lines')
  BY <1>1, Popped
<1>4. Tells(lines, call.failed, cli.agent) =>
        Tells(lines', IF line \in Report THEN line = "agentfailed" ELSE call.failed, cli.agent)
  BY <1>1, TellsPopped
<1> HIDE DEF line
<1>5. /\ call'.pc = "run" /\ call'.result = call.result
      /\ call'.failed = IF line \in Report THEN line = "agentfailed" ELSE call.failed
      /\ conf.web \/ (line = "init" \/ call.confirmed => call'.confirmed)
  <2>1. CASE line = "init"
    BY <1>1, <2>1 DEF Translated, Confirmed, Resumable, Report, CallFields
  <2>2. CASE line = "output"
    BY <1>1, <2>2 DEF Translated, Report, CallFields
  <2>3. CASE line \in Report
    BY <1>1, <2>3 DEF Translated, Reports, Report, CallFields
  <2> QED
    BY <1>3, <2>1, <2>2, <2>3 DEF Said, Report
<1>6. (ByRollout' <=> ByRollout) /\ (Unobservable' <=> Unobservable)
  BY <1>1 DEF ByRollout, Unobservable, Resumable
<1>7. CASE ByRollout
  <2>1. line \notin Report /\ Range(lines') \cap Report = {}
    BY <1>2, <1>3, <1>7 DEF CountInv
  <2>2. call'.failed = call.failed
    BY <1>5, <2>1
  <2>3. Tells(roll', call'.failed, cli'.agent)
    BY <1>1, <1>2, <1>7, <2>2 DEF CountInv
  <2>4. CountInv'
    BY <1>1, <1>2, <1>3, <1>5, <1>6, <1>7, <2>1, <2>3 DEF CountInv
  <2> QED
    BY <1>1, <1>5, <2>4 DEF AgentInv
<1>8. CASE ~ByRollout
  <2>1. ~Unobservable => Tells(lines', call'.failed, cli'.agent)
    BY <1>1, <1>2, <1>4, <1>5, <1>8 DEF CountInv
  <2>2. CountInv'
    BY <1>1, <1>2, <1>3, <1>5, <1>6, <1>8, <2>1 DEF CountInv
  <2> QED
    BY <1>1, <1>5, <2>2 DEF AgentInv
<1> QED
  BY <1>7, <1>8

\* An answer is used only when every subagent that failed was heard to finish.
LEMMA JudgesAgents ==
  ASSUME EditsInv, AgentInv, Judges
  PROVE  AgentInv'
<1>0. PICK r \in {FinalRead(call), Missed(call)} : Judged(r)
  BY Zenon DEF Judges
<1> DEFINE fail == FailureOf(r)
           c == FinishAttempt(r, fail)
<1>1. /\ call.pc = "run" /\ cli.up = "dead" /\ lines = <<>> /\ UNCHANGED <<conf, cli>>
      /\ DOMAIN call = CallFields
  BY Zenon DEF Judges, Finished, EditsInv, CallInv
<1>2. CountInv /\ call.result # "accepted"
  BY <1>1 DEF AgentInv
<1>3. DOMAIN r = CallFields /\ r.result = call.result
  BY <1>0, <1>1 DEF FinalRead, Missed, Reports, CallFields
<1>4. cli.code = "answer" /\ ~Unobservable /\ ~r.missed => (r.failed <=> cli.agent)
  <2>1. SUFFICES ASSUME cli.code = "answer", ~Unobservable, ~r.missed PROVE r.failed <=> cli.agent
    OBVIOUS
  <2>0. r = FinalRead(call)
    <3>1. Missed(call).missed = TRUE
      BY <1>1 DEF Missed, CallFields
    <3> QED
      BY <1>0, <2>1, <3>1
  <2>2. Range(lines) = {}
    BY <1>1 DEF Range
  <2>3. conf.web \/ call.confirmed
    BY <1>2, <2>1, <2>2 DEF CountInv
  <2>4. CASE ByRollout
    <3>1. call.confirmed /\ (cli.agent <=> IF roll = <<>> THEN call.failed ELSE Last(roll) = "agentfailed")
      BY <1>2, <2>3, <2>4, TellsLast DEF CountInv, ByRollout
    <3>2. roll # <<>> => Last(roll) \in Report
      BY <1>2 DEF CountInv, Last
    <3> QED
      BY <1>1, <2>0, <3>1, <3>2 DEF FinalRead, Reports, Report, CallFields
  <2>5. CASE ~ByRollout
    <3>1. cli.agent <=> call.failed
      BY <1>1, <1>2, <2>1, <2>5 DEF CountInv, Tells
    <3>2. roll = <<>>
      BY <1>2, <2>5 DEF CountInv
    <3> QED
      BY <2>0, <3>1, <3>2 DEF FinalRead
  <2> QED
    BY <2>4, <2>5
<1>5. fail = "none" => cli.code = "answer" /\ ~r.failed
  <2>1. cli.code # "none"
    BY <1>1, <1>2 DEF CountInv
  <2> QED
    BY <2>1 DEF FailureOf
<1> HIDE DEF fail
<1>6. \/ fail = "none" /\ Ends(r, "accepted")
      \/ Ends(r, "raised")
      \/ \E made : call' = [c EXCEPT !.pc = "wait", !.made = made]
  BY Zenon, <1>0 DEF Judged, fail
<1>7. CASE fail = "none" /\ Ends(r, "accepted")
  <2>1. call'.pc = "closing" /\ (~Unobservable' /\ ~call'.missed => ~cli'.agent)
    BY <1>1, <1>2, <1>3, <1>4, <1>5, <1>7 DEF Ends, CallFields, CountInv, Unobservable, Resumable
  <2> QED
    BY <1>1, <2>1 DEF AgentInv
<1>8. CASE Ends(r, "raised")
  <2>1. call'.pc = "closing" /\ call'.result = "raised"
    BY <1>3, <1>8 DEF Ends, CallFields
  <2> QED
    BY <1>1, <2>1 DEF AgentInv
<1>9. CASE \E made : call' = [c EXCEPT !.pc = "wait", !.made = made]
  <2>1. DOMAIN c = CallFields /\ c.result = r.result
    BY <1>3 DEF FinishAttempt, CallFields
  <2> HIDE DEF c
  <2>2. call'.pc = "wait" /\ call'.result = call.result
    BY <1>3, <1>9, <2>1 DEF CallFields
  <2> QED
    BY <1>1, <1>2, <2>2 DEF AgentInv
<1> QED
  BY <1>6, <1>7, <1>8, <1>9

LEMMA WaitOrDiscardAgents ==
  ASSUME EditsInv, AgentInv, WaitOver \/ Discard
  PROVE  AgentInv'
<1>1. cli' = cli /\ conf' = conf /\ call.pc \in {"wait", "closing"} /\ DOMAIN call = CallFields
  BY Zenon DEF WaitOver, Discard, EditsInv, CallInv
<1>2. CASE WaitOver
  <2>1. call.pc = "wait" /\ call'.pc # "run" /\ call'.result \in {call.result, "paused"}
    BY <1>1, <1>2 DEF WaitOver, Ends, CallFields
  <2> QED
    BY <1>1, <2>1 DEF AgentInv
<1>3. CASE Discard
  <2>1. call'.pc = "done" /\ call'.result = call.result /\ call'.missed = call.missed
    BY <1>1, <1>3 DEF Discard, CallFields
  <2> QED
    BY <1>1, <2>1 DEF AgentInv, Unobservable, Resumable
<1> QED
  BY <1>2, <1>3

LEMMA LoopAgents ==
  ASSUME EditsInv, AgentInv, LoopNext
  PROVE  AgentInv'
<1>1. CASE CallNext
  BY Zenon, <1>1, BeginAgents, RunsAgainAgents, OpensAgents, WorksAgents, AgentAgents, CliEndAgents, FollowAgents,
     ReadLineAgents, JudgesAgents, WaitOrDiscardAgents DEF CallNext, Cli, Runner
<1>2. CASE Repairs \/ Repaired
  <2>1. call'.pc # "run" /\ call'.result = "none" /\ conf' = conf
    <3>1. CASE Repairs
      BY <3>1 DEF Repairs, Called, NoCall
    <3>2. CASE Repaired
      BY <3>2 DEF Repaired, NoCall
    <3> QED
      BY <1>2, <3>1, <3>2
  <2> QED
    BY <2>1 DEF AgentInv
<1>3. CASE UNCHANGED <<conf, callVars>>
  BY <1>3 DEF callVars, AgentInv, CountInv, ByRollout, Unobservable, Resumable
<1> QED
  BY Zenon, <1>1, <1>2, <1>3 DEF LoopNext, WritesSource, CannotRun, TakesLonger, Compiles, Resumes, Unchanged

\* An accepted answer does not rest on a subagent whose model call failed and that did
\* not finish later, wherever the runner can know: the output says so, or a saved
\* session that could be read (structured, CodexRollout).
THEOREM AnswersCountAgents == MainSpec => []AgentsCounted
<1>1. MainInit => AgentInv
  BY DEF MainInit, LoopInit, CallInit, NoCall, AgentInv
<1>2. EditsInv /\ AgentInv /\ [MainNext]_mainVars => AgentInv'
  <2> SUFFICES ASSUME EditsInv, AgentInv, [MainNext]_mainVars PROVE AgentInv'
    OBVIOUS
  <2>1. CASE LoopNext
    BY <2>1, LoopAgents
  <2>2. CASE UNCHANGED loopVars
    BY <2>2 DEF loopVars, callVars, AgentInv, CountInv, ByRollout, Unobservable, Resumable
  <2> QED
    BY Zenon, <2>1, <2>2 DEF MainNext, mainVars
<1>3. AgentInv => AgentsCounted
  BY DEF AgentInv, AgentsCounted
<1> QED
  BY <1>1, <1>2, <1>3, EditsInvariant, PTL DEF MainSpec

-----------------------------------------------------------------------------
(* Repairs of the LaTeX source *)

Failure == [signature : Signatures, input : Int]
Alike(history, field, value) == {i \in DOMAIN history : history[i][field] = value}

LEMMA SameType ==
  ASSUME NEW h \in Seq(Failure), NEW field, NEW value
  PROVE  /\ IsFiniteSet(DOMAIN h) /\ Cardinality(DOMAIN h) = Len(h)
         /\ IsFiniteSet(Alike(h, field, value)) /\ Cardinality(Alike(h, field, value)) \in Nat
         /\ Same(h, field, value) = Cardinality(Alike(h, field, value))
<1>1. DOMAIN h = 1 .. Len(h) /\ Len(h) \in Nat
  OBVIOUS
<1>2. IsFiniteSet(DOMAIN h) /\ Cardinality(DOMAIN h) = Len(h)
  <2>1. IsFiniteSet(1 .. Len(h)) /\ Cardinality(1 .. Len(h)) = IF 1 > Len(h) THEN 0 ELSE Len(h) - 1 + 1
    <3>1. 1 \in Int /\ Len(h) \in Int
      BY <1>1
    <3> QED
      BY <3>1, FS_Interval
  <2> QED
    BY <1>1, <2>1
<1>3. IsFiniteSet(Alike(h, field, value))
  BY <1>2, FS_Subset DEF Alike
<1> QED
  BY <1>2, <1>3, FS_CardinalityType DEF Alike, Same

\* A failure more counts for its own report only.
LEMMA SameAppended ==
  ASSUME NEW h \in Seq(Failure), NEW f \in Failure, NEW s \in Signatures
  PROVE  /\ Append(h, f) \in Seq(Failure) /\ Len(Append(h, f)) = Len(h) + 1
         /\ Same(Append(h, f), "signature", s) =
              Same(h, "signature", s) + (IF f.signature = s THEN 1 ELSE 0)
<1> DEFINE t == Append(h, f)
           n == Len(h) + 1
<1>1. /\ t \in Seq(Failure) /\ Len(h) \in Nat /\ Len(t) = n /\ DOMAIN t = 1 .. n /\ DOMAIN h = 1 .. Len(h)
  OBVIOUS
<1>2. t[n] = f /\ \A i \in 1 .. Len(h) : t[i] = h[i]
  OBVIOUS
<1> HIDE DEF t
<1>3. n \notin Alike(h, "signature", s)
  BY <1>1 DEF Alike
<1>4. Alike(t, "signature", s) =
        IF f.signature = s THEN Alike(h, "signature", s) \cup {n} ELSE Alike(h, "signature", s)
  BY <1>1, <1>2 DEF Alike
<1> HIDE DEF n
<1>5. Cardinality(Alike(h, "signature", s) \cup {n}) = Cardinality(Alike(h, "signature", s)) + 1
  BY <1>3, SameType, FS_AddElement
<1>6. /\ Same(t, "signature", s) = Cardinality(Alike(t, "signature", s))
      /\ Same(h, "signature", s) = Cardinality(Alike(h, "signature", s))
      /\ Cardinality(Alike(h, "signature", s)) \in Nat
  BY <1>1, SameType
<1>7. Same(t, "signature", s) = Same(h, "signature", s) + (IF f.signature = s THEN 1 ELSE 0)
  <2>1. CASE f.signature = s
    BY <1>4, <1>5, <1>6, <2>1
  <2>2. CASE f.signature # s
    BY <1>4, <1>6, <2>2
  <2> QED
    BY <2>1, <2>2
<1> QED
  BY <1>1, <1>7 DEF t, n

LEMMA LoopBounds == /\ Stall \in Nat \ {0} /\ MaxHistory \in Nat \ {0} /\ Stall - 1 \in Nat
  BY LoopAssumption

LEMMA Monotone ==
  ASSUME NEW k \in Nat, NEW m \in Nat, NEW n \in Nat, m <= n
  PROVE  k * m \in Nat /\ k * m <= k * n
<1>1. PICK d \in Nat : n = m + d
  <2>1. n - m \in Nat /\ n = m + (n - m)
    OBVIOUS
  <2> QED
    BY <2>1
<1>2. k * (m + d) = k * m + k * d /\ k * d \in Nat /\ k * m \in Nat
  OBVIOUS
<1> QED
  BY <1>1, <1>2

\* The reports of a sequence of failures.
SignaturesOf(h) == {h[i].signature : i \in DOMAIN h}
LEMMA FiniteSignatures ==
  ASSUME NEW h \in Seq(Failure)
  PROVE  IsFiniteSet(SignaturesOf(h)) /\ Cardinality(SignaturesOf(h)) \in Nat
<1> DEFINE f == [i \in DOMAIN h |-> h[i].signature]
<1>1. f \in Surjection(DOMAIN h, SignaturesOf(h))
  BY DEF Surjection, SignaturesOf
<1> QED
  BY <1>1, SameType, FS_Surjection, FS_CardinalityType

\* A history in which no report comes more than k times is k times as long as it has
\* reports, at most: each failure is told by its report and by how often it came before.
LEMMA FewFailures ==
  ASSUME NEW h \in Seq(Failure), NEW k \in Nat, \A s \in Signatures : Same(h, "signature", s) <= k
  PROVE  Len(h) <= k * Cardinality(SignaturesOf(h))
<1> DEFINE Until(i) == {j \in DOMAIN h : j <= i /\ h[j].signature = h[i].signature}
           Rank(i) == Cardinality(Until(i))
           g == [i \in DOMAIN h |-> <<h[i].signature, Rank(i)>>]
           T == SignaturesOf(h) \X (1 .. k)
<1>1. DOMAIN h = 1 .. Len(h) /\ IsFiniteSet(DOMAIN h) /\ Cardinality(DOMAIN h) = Len(h)
  BY SameType
<1>2. \A i \in DOMAIN h : h[i].signature \in Signatures /\ h[i].signature \in SignaturesOf(h)
  <2>1. \A i \in DOMAIN h : h[i] \in Failure
    OBVIOUS
  <2> QED
    BY <2>1 DEF Failure, SignaturesOf
<1>3. \A i \in DOMAIN h : IsFiniteSet(Until(i)) /\ Rank(i) \in 1 .. k
  <2> SUFFICES ASSUME NEW i \in DOMAIN h PROVE IsFiniteSet(Until(i)) /\ Rank(i) \in 1 .. k
    OBVIOUS
  <2> DEFINE A == Alike(h, "signature", h[i].signature)
  <2>1. Until(i) \subseteq A /\ i \in Until(i)
    BY <1>1 DEF Alike
  <2>2. IsFiniteSet(A) /\ Cardinality(A) <= k /\ Cardinality(A) \in Nat
    BY <1>2, SameType
  <2> HIDE DEF A
  <2>3. IsFiniteSet(Until(i)) /\ Rank(i) <= Cardinality(A) /\ Rank(i) \in Nat
    BY <2>1, <2>2, FS_Subset, FS_CardinalityType
  <2>4. Rank(i) # 0
    BY <2>1, <2>3, FS_EmptySet
  <2> QED
    BY <2>2, <2>3, <2>4
<1>4. \A i, j \in DOMAIN h : i < j /\ h[i].signature = h[j].signature => Rank(i) # Rank(j)
  <2> SUFFICES ASSUME NEW i \in DOMAIN h, NEW j \in DOMAIN h, i < j, h[i].signature = h[j].signature
               PROVE  Rank(i) # Rank(j)
    OBVIOUS
  <2>1. Until(i) \subseteq Until(j) /\ j \in Until(j) /\ j \notin Until(i)
    BY <1>1
  <2> QED
    BY <1>3, <2>1, FS_Subset
<1> HIDE DEF Rank
<1>5. g \in Injection(DOMAIN h, T)
  <2>1. g \in [DOMAIN h -> T]
    BY <1>2, <1>3
  <2>2. \A i, j \in DOMAIN h : g[i] = g[j] => i = j
    BY <1>1, <1>4
  <2> QED
    BY <2>1, <2>2 DEF Injection, IsInjective
<1>6. IsFiniteSet(T) /\ Cardinality(T) = Cardinality(SignaturesOf(h)) * k
  <2>1. IsFiniteSet(1 .. k) /\ Cardinality(1 .. k) = k
    <3>1. IsFiniteSet(1 .. k) /\ Cardinality(1 .. k) = IF 1 > k THEN 0 ELSE k - 1 + 1
      BY FS_Interval
    <3> QED
      BY <3>1
  <2> QED
    BY <2>1, FiniteSignatures, FS_Product
<1> HIDE DEF g, T
<1>7. Len(h) <= Cardinality(T)
  BY <1>1, <1>5, <1>6, FS_Injection
<1> QED
  BY <1>6, <1>7, FiniteSignatures

LEMMA SignaturesGrow ==
  ASSUME NEW h \in Seq(Failure), NEW f \in Failure
  PROVE  /\ Cardinality(SignaturesOf(h)) <= Cardinality(SignaturesOf(Append(h, f)))
         /\ Append(h, f) \in Seq(Failure)
<1>1. Append(h, f) \in Seq(Failure)
  OBVIOUS
<1>2. SignaturesOf(h) \subseteq SignaturesOf(Append(h, f))
  <2>1. \A i \in DOMAIN h : i \in DOMAIN Append(h, f) /\ Append(h, f)[i] = h[i]
    OBVIOUS
  <2> QED
    BY <2>1 DEF SignaturesOf
<1> QED
  BY <1>1, <1>2, FiniteSignatures, FS_Subset

\* A history keeps its newest failure, and all of them while it is short enough.
LEMMA WhatIsKept ==
  ASSUME NEW h \in Seq(Failure), NEW f \in Failure
  PROVE  /\ Kept(Append(h, f)) \in Seq(Failure) /\ Last(Kept(Append(h, f))) = f
         /\ Len(Append(h, f)) <= MaxHistory => Kept(Append(h, f)) = Append(h, f)
<1> DEFINE t == Append(h, f)
           n == Len(t)
           m == Larger(1, n - MaxHistory + 1)
<1>1. t \in Seq(Failure) /\ n \in Nat \ {0} /\ t[n] = f
  OBVIOUS
<1> HIDE DEF t
<1>2. m \in 1 .. n /\ (n <= MaxHistory => m = 1)
  BY <1>1, LoopBounds DEF Larger
<1> HIDE DEF m
<1>3. /\ SubSeq(t, m, n) \in Seq(Failure) /\ Len(SubSeq(t, m, n)) = n - m + 1
      /\ \A i \in 1 .. n - m + 1 : SubSeq(t, m, n)[i] = t[m + i - 1]
  BY <1>1, <1>2
<1>4. Last(SubSeq(t, m, n)) = f
  BY <1>1, <1>2, <1>3 DEF Last
<1>5. m = 1 => SubSeq(t, m, n) = t
  BY <1>1
<1> QED
  BY <1>2, <1>3, <1>4, <1>5 DEF Kept, m, t

\* While the repaired failures are few, all of them are in the history, and none of the
\* reports came as often as a stall takes.
Few == (Stall - 1) * Cardinality(Distinct) <= MaxHistory
Progress ==
  /\ loop.compilation.history \in Seq(Failure)
  /\ Few => /\ loop.compilation.history = loop.tried
            /\ \A s \in Signatures : Same(loop.tried, "signature", s) <= Stall - 1
RepairInv ==
  /\ TextInv /\ loop.tried \in Seq(Failure)
  /\ loop.pc # "end" => loop.compilation.status \in {"none", "fail"} /\ Progress
  /\ RepairsEnd

LEMMA RepairInit == LoopInit => RepairInv
<1> SUFFICES ASSUME LoopInit PROVE RepairInv
  OBVIOUS
<1>1. TextInv
  BY TextInit
<1>2. /\ loop.tried = <<>> /\ loop.compilation.status = "none" /\ loop.compilation.history = <<>>
  BY DEF LoopInit, NoResult
<1>3. \A s \in Signatures : Same(<<>>, "signature", s) = 0
  BY FS_EmptySet DEF Same
<1>4. <<>> \in Seq(Failure) /\ Len(<<>>) = 0
  OBVIOUS
<1>5. SignaturesOf(<<>>) = {} /\ Cardinality({}) = 0
  BY FS_EmptySet DEF SignaturesOf
<1>6. Distinct = {}
  BY <1>2, <1>5 DEF Distinct, SignaturesOf
<1>7. RepairsEnd
  BY <1>2, <1>4, <1>5, <1>6, LoopBounds DEF RepairsEnd
<1>8. Progress
  BY <1>2, <1>3, <1>4, LoopBounds DEF Progress
<1> QED
  BY <1>1, <1>2, <1>4, <1>7, <1>8 DEF RepairInv

\* A failure that is repaired.
LEMMA FailsRepair ==
  ASSUME RepairInv, NEW f \in Failure, loop.pc # "end", ~(Repeats(loop.compilation.history, f) >= Stall),
         loop'.tried = Append(loop.tried, f),
         loop'.compilation.history = Kept(Append(loop.compilation.history, f))
  PROVE  loop'.tried \in Seq(Failure) /\ Progress' /\ RepairsEnd'
<1> DEFINE old == loop.compilation.history
           new == Append(loop.tried, f)
<1>1. old \in Seq(Failure) /\ loop.tried \in Seq(Failure) /\ Progress
  BY DEF RepairInv, Progress
<1>2. /\ Distinct = SignaturesOf(loop.tried) /\ Distinct' = SignaturesOf(new)
      /\ new \in Seq(Failure) /\ Cardinality(Distinct) <= Cardinality(Distinct')
      /\ Cardinality(Distinct) \in Nat /\ Cardinality(Distinct') \in Nat
  <2>1. Distinct = SignaturesOf(loop.tried) /\ Distinct' = SignaturesOf(new)
    BY DEF Distinct, SignaturesOf
  <2>2. new \in Seq(Failure) /\ Cardinality(SignaturesOf(loop.tried)) <= Cardinality(SignaturesOf(new))
    BY <1>1, SignaturesGrow
  <2>3. Cardinality(SignaturesOf(loop.tried)) \in Nat /\ Cardinality(SignaturesOf(new)) \in Nat
    BY <1>1, <2>2, FiniteSignatures
  <2> QED
    BY Zenon, <2>1, <2>2, <2>3
<1>3. Kept(Append(old, f)) \in Seq(Failure)
  BY <1>1, WhatIsKept
<1>4. CASE ~Few'
  <2>1. Progress'
    BY <1>3, <1>4 DEF Progress
  <2>2. RepairsEnd'
    BY <1>4 DEF Few, RepairsEnd
  <2> QED
    BY <1>2, <2>1, <2>2
<1>5. CASE Few'
  <2>1. /\ (Stall - 1) * Cardinality(Distinct) <= (Stall - 1) * Cardinality(Distinct')
        /\ (Stall - 1) * Cardinality(Distinct) \in Nat /\ (Stall - 1) * Cardinality(Distinct') \in Nat
    <3> DEFINE m == Cardinality(Distinct)
               n == Cardinality(Distinct')
    <3>1. m \in Nat /\ n \in Nat /\ m <= n
      BY <1>2
    <3> HIDE DEF m, n
    <3>2. (Stall - 1) * m <= (Stall - 1) * n /\ (Stall - 1) * m \in Nat /\ (Stall - 1) * n \in Nat
      BY <3>1, LoopBounds, Monotone
    <3> QED
      BY <3>2 DEF m, n
  <2>2. (Stall - 1) * Cardinality(Distinct') <= MaxHistory
    BY <1>5 DEF Few
  <2>3. Few
    BY <2>1, <2>2, LoopBounds DEF Few
  <2>4. old = loop.tried /\ \A s \in Signatures : Same(old, "signature", s) <= Stall - 1
    BY <1>1, <2>3 DEF Progress
  <2>5. f.signature \in Signatures
    BY DEF Failure
  <2>6. \A s \in Signatures : Same(old, "signature", s) \in Nat
    BY <1>1, SameType
  <2>7. Same(old, "input", f.input) \in Nat
    BY <1>1, SameType
  <2>8. Same(old, "signature", f.signature) + 1 <= Stall - 1
    BY <2>5, <2>6, <2>7, LoopBounds DEF Repeats, Larger
  <2>9. \A s \in Signatures : Same(new, "signature", s) =
          Same(old, "signature", s) + (IF f.signature = s THEN 1 ELSE 0)
    BY <1>1, <2>4, SameAppended
  <2> HIDE DEF new, old
  <2>10. \A s \in Signatures : Same(new, "signature", s) <= Stall - 1
    BY <2>4, <2>6, <2>8, <2>9, LoopBounds
  <2>11. Len(new) <= (Stall - 1) * Cardinality(Distinct')
    BY <1>2, <2>10, FewFailures, LoopBounds
  <2>12. Len(new) <= MaxHistory
    BY <1>2, <2>1, <2>2, <2>11, LoopBounds
  <2>13. Kept(Append(old, f)) = new
    BY <1>1, <2>4, <2>12, WhatIsKept DEF new
  <2>14. loop'.tried = new /\ loop'.compilation.history = new
    BY <2>13 DEF new, old
  <2>15. Progress'
    BY <1>2, <2>10, <2>14 DEF Progress
  <2>16. RepairsEnd'
    BY <2>11, <2>14 DEF RepairsEnd
  <2> QED
    BY <1>2, <2>14, <2>15, <2>16
<1> QED
  BY <1>4, <1>5

LEMMA CompilesRepair ==
  ASSUME RepairInv, Compiles
  PROVE  RepairInv'
<1> DEFINE old == loop.compilation.history
<1>1. /\ loop.pc = "compile" /\ old \in Seq(Failure) /\ History = old
      /\ loop.source \in Int /\ loop.tried \in Seq(Failure)
  BY DEF Compiles, RepairInv, Progress, TextInv, History
<1>3. \A status, pdf, history : Compiled(status, pdf, history) =>
        /\ TextInv'
        /\ loop'.pc = IF status = "fail" THEN "repair" ELSE "end"
        /\ loop'.tried = IF status = "fail" THEN Append(loop.tried, Last(history)) ELSE loop.tried
        /\ loop'.compilation.status = status /\ loop'.compilation.history = history
  BY DEF Compiled, RepairInv, TextInv
<1>4. TextInv'
  BY Zenon, <1>3 DEF Compiles
<1>5. CASE \E status, pdf, history : status # "fail" /\ Compiled(status, pdf, history)
  <2>1. loop'.pc = "end" /\ loop'.tried = loop.tried
    BY Zenon, <1>3, <1>5
  <2> QED
    BY <1>4, <2>1 DEF RepairInv, RepairsEnd, Distinct
<1>6. CASE \E signature \in Signatures : \E pdf :
             LET failure == [signature |-> signature, input |-> loop.source]
             IN ~(Repeats(old, failure) >= Stall) /\ Compiled("fail", pdf, Kept(Append(old, failure)))
  <2>1. PICK signature \in Signatures : \E pdf :
          LET failure == [signature |-> signature, input |-> loop.source]
          IN ~(Repeats(old, failure) >= Stall) /\ Compiled("fail", pdf, Kept(Append(old, failure)))
    BY Zenon, <1>6
  <2>12. PICK pdf :
          LET failure == [signature |-> signature, input |-> loop.source]
          IN ~(Repeats(old, failure) >= Stall) /\ Compiled("fail", pdf, Kept(Append(old, failure)))
    BY Zenon, <2>1
  <2> DEFINE failure == [signature |-> signature, input |-> loop.source]
  <2>2. failure \in Failure
    BY <1>1 DEF Failure
  <2>3. ~(Repeats(old, failure) >= Stall) /\ Compiled("fail", pdf, Kept(Append(old, failure)))
    BY Zenon, <2>12
  <2> HIDE DEF failure
  <2>4. Last(Kept(Append(old, failure))) = failure
    BY <1>1, <2>2, WhatIsKept
  <2>5. /\ loop'.compilation.status = "fail" /\ loop'.compilation.history = Kept(Append(old, failure))
        /\ loop'.tried = Append(loop.tried, Last(Kept(Append(old, failure))))
    BY Zenon, <1>3, <2>3
  <2>6. loop'.tried \in Seq(Failure) /\ Progress' /\ RepairsEnd'
    BY <1>1, <2>2, <2>3, <2>4, <2>5, FailsRepair
  <2> QED
    BY <1>4, <2>5, <2>6 DEF RepairInv
<1>7. \/ \E status, pdf, history : status # "fail" /\ Compiled(status, pdf, history)
      \/ \E signature \in Signatures : \E pdf :
           LET failure == [signature |-> signature, input |-> loop.source]
           IN ~(Repeats(old, failure) >= Stall) /\ Compiled("fail", pdf, Kept(Append(old, failure)))
  BY ZenonT(30), <1>1 DEF Compiles
<1> QED
  BY <1>5, <1>6, <1>7

LEMMA LoopRepair ==
  ASSUME RepairInv, LoopNext, EditsInv
  PROVE  RepairInv'
<1>1. CASE Compiles
  BY <1>1, CompilesRepair
<1>2. CASE UNCHANGED loop
  BY <1>2 DEF RepairInv, Progress, Few, Distinct, TextInv, RepairsEnd
<1>3. CASE WritesSource \/ CannotRun \/ TakesLonger \/ Repaired \/ Resumes
  <2>1. TextInv'
    BY <1>3, LoopEdits DEF RepairInv, LoopNext
  <2>2. /\ loop.pc # "end" /\ loop'.tried = loop.tried
        /\ loop'.compilation.status = loop.compilation.status
        /\ loop'.compilation.history = loop.compilation.history
    <3>1. CASE WritesSource
      BY <3>1 DEF WritesSource, RepairInv, TextInv, Goes
    <3>2. CASE CannotRun
      BY <3>2 DEF CannotRun, RepairInv, TextInv
    <3>3. CASE TakesLonger
      BY <3>3 DEF TakesLonger, RepairInv, TextInv
    <3>4. CASE Repaired
      <4>1. /\ loop.pc # "end"
            /\ \E text : \/ loop' = [loop EXCEPT !.pc = "write", !.text = text]
                         \/ loop' = [loop EXCEPT !.pc = "paused"]
                         \/ loop' = [loop EXCEPT !.pc = "failed"]
        BY <3>4 DEF Repaired
      <4> QED
        BY <4>1 DEF RepairInv, TextInv
    <3>5. CASE Resumes
      BY <3>5 DEF Resumes, RepairInv, TextInv, Goes
    <3> QED
      BY <1>3, <3>1, <3>2, <3>3, <3>4, <3>5
  <2>3. Progress' /\ RepairsEnd'
    BY <2>2 DEF RepairInv, Progress, Few, Distinct, RepairsEnd
  <2> QED
    BY <2>1, <2>2, <2>3 DEF RepairInv
<1> QED
  BY Zenon, <1>1, <1>2, <1>3 DEF LoopNext, Repairs

\* Repairs that go round among a few failures end, however the failures alternate and
\* whatever pauses come in between, for every number of failures the history can hold
\* as often as they may come (_command_step).
THEOREM AlternationsEnd == MainSpec => []RepairsEnd
<1>1. MainInit => RepairInv
  BY RepairInit DEF MainInit
<1>2. EditsInv /\ RepairInv /\ [MainNext]_mainVars => RepairInv'
  <2> SUFFICES ASSUME EditsInv, RepairInv, [MainNext]_mainVars PROVE RepairInv'
    OBVIOUS
  <2>1. CASE LoopNext
    BY <2>1, LoopRepair
  <2>2. CASE UNCHANGED loopVars
    BY <2>2 DEF loopVars, RepairInv, Progress, Few, Distinct, TextInv, RepairsEnd
  <2> QED
    BY Zenon, <2>1, <2>2 DEF MainNext, mainVars
<1>3. RepairInv => RepairsEnd
  BY DEF RepairInv
<1> QED
  BY <1>1, <1>2, <1>3, EditsInvariant, PTL DEF MainSpec

\* What a finished document's PDF is made of.
PdfInv ==
  /\ TextInv
  /\ loop.pc = "compile" => loop.text = loop.source
  /\ PdfIsOfSource

LEMMA LoopPdf ==
  ASSUME PdfInv, EditsInv, LoopNext
  PROVE  PdfInv'
<1>1. TextInv'
  BY LoopEdits DEF PdfInv
<1>2. CASE UNCHANGED loop
  BY <1>1, <1>2 DEF PdfInv, PdfIsOfSource
<1>3. CASE WritesSource \/ CannotRun \/ TakesLonger \/ Repaired \/ Resumes
  <2>1. loop'.pc # "end" /\ (loop'.pc = "compile" => loop'.text = loop'.source)
    <3>1. CASE WritesSource
      BY <3>1 DEF WritesSource, PdfInv, TextInv, Goes
    <3>2. CASE CannotRun
      BY <3>2 DEF CannotRun, PdfInv, TextInv
    <3>3. CASE TakesLonger
      BY <3>3 DEF TakesLonger, PdfInv, TextInv
    <3>4. CASE Repaired
      <4>1. \E text : \/ loop' = [loop EXCEPT !.pc = "write", !.text = text]
                      \/ loop' = [loop EXCEPT !.pc = "paused"]
                      \/ loop' = [loop EXCEPT !.pc = "failed"]
        BY <3>4 DEF Repaired
      <4> QED
        BY <4>1 DEF PdfInv, TextInv
    <3>5. CASE Resumes
      BY <3>5 DEF Resumes, PdfInv, TextInv, Goes
    <3> QED
      BY <1>3, <3>1, <3>2, <3>3, <3>4, <3>5
  <2> QED
    BY <1>1, <2>1 DEF PdfInv, PdfIsOfSource
<1>4. CASE Compiles
  <2>1. /\ loop.pc = "compile" /\ loop.text = loop.source
        /\ DOMAIN loop = {"pc", "text", "source", "pdf", "longer", "compilation", "tried"}
    BY <1>4 DEF Compiles, PdfInv, TextInv
  <2>2. PICK status, pdf, history : /\ Compiled(status, pdf, history)
                                    /\ \/ status = "fail"
                                       \/ status = "pass" /\ pdf = loop.source
                                       \/ status = "uncompiled" /\ pdf = Removed
    <3>1. CASE \E signature \in Signatures :
          LET failure == [signature |-> signature, input |-> loop.source]
              stalled == Repeats(History, failure) >= Stall
              history == Kept(Append(History, failure))
              pdf     == IF signature \in Unresolved THEN loop.source ELSE Removed
          IN IF ~stalled THEN Compiled("fail", pdf, history)
             ELSE IF signature \in Unresolved THEN Compiled("pass", pdf, history)
             ELSE Compiled("uncompiled", pdf, history)
      BY Zenon, <3>1
    <3> QED
      BY Zenon, <1>4, <3>1 DEF Compiles
  <2>3. /\ loop'.pc = IF status = "fail" THEN "repair" ELSE "end"
        /\ loop'.pdf = pdf /\ loop'.text = loop.text /\ loop'.compilation.status = status
    BY <2>1, <2>2 DEF Compiled
  <2>4. PdfIsOfSource'
    BY <2>1, <2>2, <2>3 DEF PdfIsOfSource, Removed
  <2> QED
    BY <1>1, <2>3, <2>4 DEF PdfInv
<1> QED
  BY Zenon, <1>2, <1>3, <1>4 DEF LoopNext, Repairs

\* What is published: the PDF is of the published source, and there is none beside a
\* source that was not compiled (_run_command, latex_compile).
THEOREM PublishedPdf == MainSpec => []PdfIsOfSource
<1>1. MainInit => PdfInv
  BY TextInit DEF MainInit, LoopInit, PdfInv, PdfIsOfSource
<1>2. PdfInv /\ EditsInv /\ [MainNext]_mainVars => PdfInv'
  <2> SUFFICES ASSUME PdfInv, EditsInv, [MainNext]_mainVars PROVE PdfInv'
    OBVIOUS
  <2>1. CASE LoopNext
    BY <2>1, LoopPdf
  <2>2. CASE UNCHANGED loopVars
    BY <2>2 DEF loopVars, PdfInv, TextInv, PdfIsOfSource
  <2> QED
    BY Zenon, <2>1, <2>2 DEF MainNext, mainVars
<1>3. PdfInv => PdfIsOfSource
  BY DEF PdfInv
<1> QED
  BY <1>1, <1>2, <1>3, EditsInvariant, PTL DEF MainSpec

-----------------------------------------------------------------------------
(* The reply to the user *)

Items == {"msg", "note", "work"}
Conversations == Seq(Items) \cup {<<"gone">>}
TurnFields == {"pc", "prepared", "result", "current", "rewind", "refusals", "at"}
AtFields == {"delivered", "output", "opened", "restored", "stopped", "began"}

\* The model worked after it heard the message, within the first n items.
Heard(s, n) == \E i, j \in DOMAIN s : i < j /\ s[i] = "msg" /\ s[j] = "work" /\ (n # NoRewind => j <= n)

TurnInv ==
  /\ conv \in Conversations /\ copy \in Conversations
  /\ DOMAIN turn = TurnFields /\ DOMAIN turn.at = AtFields
  /\ turn.current \in {"msg", "note"} /\ turn.rewind \in Nat \cup {NoRewind}
  /\ turn.result = "reply" => turn.pc = "done"
  /\ turn.pc = "opening" => ~turn.at.opened
  /\ turn.pc \in {"reverting", "sending", "turn"} => turn.at.opened /\ conv # <<"gone">>
  /\ turn.pc \in {"opening", "reverting", "sending", "lost"} => ~turn.at.delivered /\ ~turn.at.output
  /\ turn.pc = "turn" => turn.at.delivered /\ turn.at.began \in Nat
  /\ turn.pc = "lost" => unsaid
  /\ turn.pc = "reverting" => harness = "codex" /\ turn.rewind # NoRewind

\* What the author is asked to continue ("note") it has heard before, in its own
\* conversation and in the private copy that may replace it.
ToldInv == ~unsaid =>
  /\ turn.result = "reply" => "msg" \in Range(conv)
  /\ turn.current = "note" /\ turn.pc # "done" =>
       /\ conv = <<"gone">> \/ Heard(conv, turn.rewind)
       /\ harness = "claude" => Heard(copy, turn.rewind)
  /\ turn.pc = "turn" =>
       /\ "msg" \in Range(conv)
       /\ turn.at.output => Heard(conv, NoRewind)
       /\ turn.current = "note" => Heard(conv, turn.at.began)
ReplyInv == TurnInv /\ ToldInv

LEMMA ReplyStarts == ReplyInit => ReplyInv
<1> SUFFICES ASSUME ReplyInit PROVE ReplyInv
  OBVIOUS
<1>1. conv \in Conversations /\ copy \in Conversations
  <2>1. <<>> \in Seq(Items)
    OBVIOUS
  <2> QED
    BY <2>1 DEF ReplyInit, Conversations
<1>2. /\ DOMAIN turn = TurnFields /\ DOMAIN turn.at = AtFields /\ turn.current = "msg" /\ turn.rewind = NoRewind
      /\ turn.result = "none" /\ turn.pc = "prepare"
  BY DEF ReplyInit, NoAttempt, TurnFields, AtFields
<1> QED
  BY <1>1, <1>2 DEF ReplyInv, TurnInv, ToldInv

\* More items, or only the first ones, do not undo what was heard.
LEMMA NotGone ==
  ASSUME NEW s \in Seq(Items)
  PROVE  s # <<"gone">>
<1>1. SUFFICES ASSUME s = <<"gone">> PROVE FALSE
  OBVIOUS
<1>2. 1 \in DOMAIN s /\ s[1] = "gone"
  BY <1>1
<1>3. s[1] \in Items
  BY <1>2
<1> QED
  BY <1>2, <1>3 DEF Items

LEMMA HeardAppended ==
  ASSUME NEW s \in Seq(Items), NEW e \in Items
  PROVE  /\ Append(s, e) \in Seq(Items)
         /\ \A n : Heard(s, n) => Heard(Append(s, e), n)
         /\ \A x : x \in Range(s) \/ x = e => x \in Range(Append(s, e))
<1> DEFINE t == Append(s, e)
<1>1. /\ t \in Seq(Items) /\ Len(s) \in Nat /\ Len(t) = Len(s) + 1 /\ DOMAIN t = 1 .. Len(t) /\ DOMAIN s = 1 .. Len(s)
  OBVIOUS
<1>2. t[Len(t)] = e /\ \A i \in DOMAIN s : i \in DOMAIN t /\ t[i] = s[i]
  OBVIOUS
<1>3. Len(t) \in DOMAIN t
  BY <1>1
<1> HIDE DEF t
<1>4. \A n : Heard(s, n) => Heard(t, n)
  BY <1>2 DEF Heard
<1>5. \A x : x \in Range(s) \/ x = e => x \in Range(t)
  BY <1>2, <1>3 DEF Range
<1> QED
  BY <1>1, <1>4, <1>5 DEF t

LEMMA WorkHeard ==
  ASSUME NEW s \in Seq(Items), "msg" \in Range(s)
  PROVE  Heard(Append(s, "work"), NoRewind)
<1> DEFINE t == Append(s, "work")
<1>1. /\ Len(s) \in Nat /\ Len(s) + 1 \in DOMAIN t /\ DOMAIN s = 1 .. Len(s) /\ t[Len(s) + 1] = "work"
      /\ \A i \in DOMAIN s : i \in DOMAIN t /\ t[i] = s[i]
  BY DEF Items
<1>2. PICK i \in DOMAIN s : s[i] = "msg"
  BY DEF Range
<1> HIDE DEF t
<1>3. i < Len(s) + 1 /\ i \in DOMAIN t /\ t[i] = "msg"
  BY <1>1, <1>2
<1>4. Heard(t, NoRewind)
  BY <1>1, <1>3 DEF Heard
<1> QED
  BY <1>4 DEF t

LEMMA HeardWeaker ==
  ASSUME NEW s \in Seq(Items), NEW n, Heard(s, n)
  PROVE  Heard(s, NoRewind) /\ Heard(s, Len(s)) /\ "msg" \in Range(s)
<1>1. PICK i, j \in DOMAIN s : i < j /\ s[i] = "msg" /\ s[j] = "work"
  BY DEF Heard
<1>2. j <= Len(s)
  OBVIOUS
<1> QED
  BY <1>1, <1>2 DEF Heard, Range

\* What is left of the conversation when it goes back to its first items.
LEMMA GoneBack ==
  ASSUME conv \in Seq(Items), NEW n \in Nat
  PROVE  /\ Upto(n) \in Seq(Items) /\ Len(Upto(n)) <= Len(conv)
         /\ Heard(conv, n) => Heard(Upto(n), n)
<1>1. CASE n > Len(conv)
  BY <1>1 DEF Upto
<1>2. CASE n <= Len(conv)
  <2> DEFINE t == SubSeq(conv, 1, n)
  <2>1. Upto(n) = t
    BY <1>2 DEF Upto
  <2>2. t \in Seq(Items) /\ Len(t) = n /\ DOMAIN t = 1 .. n /\ \A i \in 1 .. n : t[i] = conv[i]
    BY <1>2
  <2> HIDE DEF t
  <2>3. Heard(conv, n) => Heard(t, n)
    <3>1. SUFFICES ASSUME Heard(conv, n) PROVE Heard(t, n)
      OBVIOUS
    <3>2. PICK i, j \in DOMAIN conv : i < j /\ conv[i] = "msg" /\ conv[j] = "work" /\ j <= n
      BY <3>1 DEF Heard, NoRewind
    <3>3. i \in DOMAIN t /\ j \in DOMAIN t /\ t[i] = "msg" /\ t[j] = "work"
      BY <2>2, <3>2
    <3> QED
      BY <3>2, <3>3 DEF Heard
  <2> QED
    BY <1>2, <2>1, <2>2, <2>3
<1> QED
  BY <1>1, <1>2

\* Claude's newest answer, and all work before it.
LEMMA NewestWorkIs ==
  ASSUME conv \in Seq(Items)
  PROVE  /\ NewestWork \in Nat
         /\ Heard(conv, NoRewind) => Heard(conv, NewestWork)
<1>1. CASE "work" \notin Range(conv)
  <2>1. NewestWork = 0
    BY <1>1 DEF NewestWork
  <2>2. ~Heard(conv, NoRewind)
    BY <1>1 DEF Heard, Range
  <2> QED
    BY <2>1, <2>2
<1>2. CASE "work" \in Range(conv)
  <2> DEFINE Newest(i) == conv[i] = "work" /\ \A j \in i + 1 .. Len(conv) : conv[j] # "work"
             Behind == {Len(conv) - i : i \in {k \in DOMAIN conv : conv[k] = "work"}}
  <2>1. DOMAIN conv = 1 .. Len(conv) /\ Len(conv) \in Nat
    OBVIOUS
  <2>2. \E i \in DOMAIN conv : conv[i] = "work"
    BY <1>2 DEF Range
  <2>3. Behind \subseteq Nat /\ Behind # {}
    BY <2>1, <2>2
  <2>4. PICK m \in Behind : \A k \in Behind : m <= k
    <3> HIDE DEF Behind
    <3>1. PICK m \in Behind : \A k \in Behind : <<k, m>> \notin OpToRel(<, Nat)
      BY <2>3, NatLessThanWellFounded, WFMin
    <3>2. \A k \in Behind : ~(k < m)
      BY <2>3, <3>1 DEF OpToRel
    <3>3. \A k \in Behind : m <= k
      <4>1. TAKE k \in Behind
      <4>2. k \in Nat /\ m \in Nat /\ ~(k < m)
        BY <2>3, <3>2
      <4> QED
        BY <4>2
    <3> QED
      BY <3>3
  <2>5. PICK i \in DOMAIN conv : conv[i] = "work" /\ m = Len(conv) - i
    BY <2>4
  <2>6. \A j \in i + 1 .. Len(conv) : conv[j] # "work"
    <3>1. SUFFICES ASSUME NEW j \in i + 1 .. Len(conv), conv[j] = "work" PROVE FALSE
      OBVIOUS
    <3>4. j \in 1 .. Len(conv)
      BY <2>1, <2>5, <3>1
    <3>2. j \in DOMAIN conv /\ Len(conv) - j \in Behind
      BY <2>1, <3>1, <3>4
    <3>3. m <= Len(conv) - j
      BY <2>4, <3>2
    <3> QED
      BY <2>1, <2>5, <3>1, <3>3
  <2> HIDE DEF Behind
  <2>7. \E w \in DOMAIN conv : Newest(w)
    BY <2>5, <2>6
  <2>8. NewestWork = CHOOSE w \in DOMAIN conv : Newest(w)
    BY <1>2 DEF NewestWork
  <2>9. NewestWork \in DOMAIN conv /\ Newest(NewestWork)
    BY <2>7, <2>8
  <2> HIDE DEF Newest
  <2>10. NewestWork \in Nat /\ \A j \in DOMAIN conv : conv[j] = "work" => j <= NewestWork
    BY <2>1, <2>9 DEF Newest
  <2>11. Heard(conv, NoRewind) => Heard(conv, NewestWork)
    BY <2>10 DEF Heard
  <2> QED
    BY <2>10, <2>11
<1> QED
  BY <1>1, <1>2

\* What the attempt's end saves, and how the next attempt continues.
LEMMA SavesWhat ==
  ASSUME Saves
  PROVE  /\ copy' \in {conv, copy}
         /\ ~unsaid' => ~unsaid /\ (harness # "codex" /\ turn.at.opened => copy' = conv)
         /\ ~unsaid' /\ ~turn.at.opened => copy' = copy
BY DEF Saves

LEMMA MergedTurn ==
  ASSUME TurnInv, NEW n, AttemptFails(n)
  PROVE  /\ DOMAIN turn' = TurnFields /\ turn'.at = turn.at /\ turn'.pc = "wait" /\ turn'.result = turn.result
         /\ IF ~turn.at.delivered THEN turn'.current = turn.current /\ turn'.rewind = NoRewind
            ELSE IF ~turn.at.output THEN turn'.current = turn.current /\ turn'.rewind = Rewinding
            ELSE turn'.current = "note" /\ turn'.rewind = NoRewind
<1>1. turn' = [Merge(turn) EXCEPT !.pc = "wait", !.refusals = n] /\ DOMAIN turn = TurnFields
  BY DEF AttemptFails, TurnInv
<1>2. CASE ~turn.at.delivered
  BY <1>1, <1>2 DEF Merge, TurnFields
<1>3. CASE turn.at.delivered /\ ~turn.at.output
  BY <1>1, <1>3 DEF Merge, TurnFields
<1>4. CASE turn.at.delivered /\ turn.at.output
  BY <1>1, <1>4 DEF Merge, TurnFields
<1> QED
  BY <1>2, <1>3, <1>4

LEMMA FailedAttempt ==
  ASSUME ReplyInv, NEW n, AttemptFails(n), UNCHANGED <<harness, conv>>,
         turn.pc \in {"opening", "reverting", "sending", "turn", "lost"}
  PROVE  ReplyInv'
<1>1. TurnInv /\ ToldInv /\ Saves
  BY DEF ReplyInv, AttemptFails
<1>2. /\ DOMAIN turn' = TurnFields /\ turn'.at = turn.at /\ turn'.pc = "wait" /\ turn'.result = turn.result
      /\ IF ~turn.at.delivered THEN turn'.current = turn.current /\ turn'.rewind = NoRewind
         ELSE IF ~turn.at.output THEN turn'.current = turn.current /\ turn'.rewind = Rewinding
         ELSE turn'.current = "note" /\ turn'.rewind = NoRewind
  BY <1>1, MergedTurn
<1>3. turn.at.delivered => turn.pc = "turn" /\ conv # <<"gone">> /\ turn.at.began \in Nat /\ turn.at.opened
  BY <1>1 DEF TurnInv
<1>4. conv # <<"gone">> => conv \in Seq(Items)
  BY <1>1 DEF TurnInv, Conversations
<1>5. turn.at.delivered => Rewinding \in Nat
  BY <1>3, <1>4, NewestWorkIs DEF Rewinding
<1>6. TurnInv'
  <2>1. copy' \in Conversations
    BY <1>1, SavesWhat DEF TurnInv
  <2> QED
    BY <1>1, <1>2, <1>5, <2>1 DEF TurnInv
<1>7. ToldInv'
  <2>1. SUFFICES ASSUME ~unsaid', turn'.current = "note"
                 PROVE  /\ conv = <<"gone">> \/ Heard(conv, turn'.rewind)
                        /\ harness = "claude" => Heard(copy', turn'.rewind)
    BY <1>1, <1>2, SavesWhat DEF ToldInv, TurnInv
  <2>2. ~unsaid /\ turn.pc # "lost" /\ turn.pc # "done"
    BY <1>1, <2>1, SavesWhat DEF TurnInv
  <2>3. CASE ~turn.at.delivered
    <3>1. turn.current = "note" /\ turn'.rewind = NoRewind
      BY <1>2, <2>1, <2>3
    <3>2. conv = <<"gone">> \/ Heard(conv, turn.rewind)
      BY <1>1, <2>2, <3>1 DEF ToldInv
    <3>3. conv = <<"gone">> \/ Heard(conv, NoRewind)
      BY <1>4, <3>2, HeardWeaker
    <3>4. CASE turn.at.opened
      <4>1. conv # <<"gone">>
        BY <1>1, <2>2, <3>4 DEF TurnInv
      <4> QED
        BY <1>1, <2>1, <3>1, <3>3, <3>4, <4>1, SavesWhat
    <3>5. CASE ~turn.at.opened
      <4>1. copy' = copy
        BY <1>1, <2>1, <3>5, SavesWhat
      <4>2. harness = "claude" => Heard(copy, turn.rewind)
        BY <1>1, <2>2, <3>1 DEF ToldInv
      <4>3. harness = "claude" => Heard(copy, NoRewind)
        BY <4>2 DEF Heard
      <4> QED
        BY <3>1, <3>3, <4>1, <4>3
    <3> QED
      BY <3>4, <3>5
  <2>4. CASE turn.at.delivered
    <3>1. Heard(conv, turn'.rewind)
      <4>1. CASE turn.at.output
        BY <1>1, <1>2, <1>3, <2>2, <2>4, <4>1 DEF ToldInv
      <4>2. CASE ~turn.at.output
        <5>1. turn.current = "note" /\ turn'.rewind = Rewinding
          BY <1>2, <2>1, <2>4, <4>2
        <5>2. Heard(conv, turn.at.began)
          BY <1>1, <1>3, <2>2, <2>4, <5>1 DEF ToldInv
        <5>3. Heard(conv, NewestWork)
          BY <1>3, <1>4, <2>4, <5>2, HeardWeaker, NewestWorkIs
        <5> QED
          BY <5>1, <5>2, <5>3 DEF Rewinding
      <4> QED
        BY <4>1, <4>2
    <3>2. harness = "claude" => copy' = conv
      BY <1>1, <1>3, <2>1, <2>4, SavesWhat
    <3> QED
      BY <3>1, <3>2
  <2> QED
    BY <2>3, <2>4
<1> QED
  BY <1>6, <1>7 DEF ReplyInv

\* A step that only moves on, without hearing or saying anything.
LEMMA MovesOn ==
  ASSUME ReplyInv, UNCHANGED <<harness, conv, copy, unsaid>>,
         DOMAIN turn' = TurnFields, DOMAIN turn'.at = AtFields,
         turn'.current = turn.current, turn'.rewind = turn.rewind, turn'.result = turn.result,
         turn.pc # "done", turn'.pc \in {"prepare", "start", "wait"}
  PROVE  ReplyInv'
BY DEF ReplyInv, TurnInv, ToldInv

LEMMA EndsOtherwise ==
  ASSUME ReplyInv, UNCHANGED <<harness, conv, copy, unsaid>>, NEW result, result # "reply", turn' = Ended(result)
  PROVE  ReplyInv'
<1>1. /\ DOMAIN turn' = TurnFields /\ DOMAIN turn'.at = AtFields /\ turn'.current = turn.current
      /\ turn'.rewind = turn.rewind /\ turn'.result = result /\ turn'.pc = "done"
  BY DEF Ended, ReplyInv, TurnInv, TurnFields
<1> QED
  BY <1>1 DEF ReplyInv, TurnInv, ToldInv

LEMMA WaitsReply ==
  ASSUME ReplyInv, Prepares \/ Waited
  PROVE  ReplyInv'
<1>1. UNCHANGED <<harness, conv, copy, unsaid>> /\ turn.pc \in {"prepare", "wait"}
  BY Zenon DEF Prepares, Waited, External
<1>2. DOMAIN turn = TurnFields /\ DOMAIN turn.at = AtFields
  BY DEF ReplyInv, TurnInv
<1>3. CASE turn' = Ended("configuration")
  BY <1>1, <1>3, EndsOtherwise
<1>4. CASE turn' # Ended("configuration")
  <2>1. /\ DOMAIN turn' = TurnFields /\ DOMAIN turn'.at = AtFields
        /\ turn'.current = turn.current /\ turn'.rewind = turn.rewind /\ turn'.result = turn.result
        /\ turn'.pc \in {"prepare", "start", "wait"}
    BY <1>2, <1>4 DEF Prepares, Waited, To, TurnFields
  <2> QED
    BY <1>1, <2>1, MovesOn
<1> QED
  BY <1>3, <1>4

LEMMA StartsReply ==
  ASSUME ReplyInv, Starts
  PROVE  ReplyInv'
<1>1. UNCHANGED <<harness, conv, copy, unsaid>> /\ turn.pc = "start" /\ DOMAIN turn = TurnFields
  BY DEF Starts, External, ReplyInv, TurnInv
<1>2. /\ DOMAIN turn' = TurnFields /\ turn'.at = NoAttempt /\ turn'.pc = "opening"
      /\ turn'.current = turn.current /\ turn'.rewind = turn.rewind /\ turn'.result = turn.result
  BY <1>1 DEF Starts, TurnFields
<1>3. /\ DOMAIN NoAttempt = AtFields /\ ~NoAttempt.delivered /\ ~NoAttempt.opened /\ ~NoAttempt.output
  BY DEF NoAttempt, AtFields
<1> QED
  BY <1>1, <1>2, <1>3 DEF ReplyInv, TurnInv, ToldInv

LEMMA OpensReply ==
  ASSUME ReplyInv, Reopens \/ StopsLeftovers
  PROVE  ReplyInv'
<1>1. /\ UNCHANGED <<harness, conv, copy, unsaid>> /\ turn.pc = "opening"
      /\ DOMAIN turn = TurnFields /\ DOMAIN turn.at = AtFields
      /\ ~turn.at.opened /\ ~turn.at.delivered /\ ~turn.at.output
  BY DEF Reopens, StopsLeftovers, External, ReplyInv, TurnInv
<1>2. CASE Reopens
  <2>1. /\ DOMAIN turn' = TurnFields /\ DOMAIN turn'.at = AtFields
        /\ turn'.at.opened /\ ~turn'.at.delivered /\ ~turn'.at.output
        /\ turn'.pc \in {"reverting", "sending"} /\ conv # <<"gone">>
        /\ turn'.pc = "reverting" => harness = "codex" /\ turn.rewind # NoRewind
        /\ turn'.current = turn.current /\ turn'.rewind = turn.rewind /\ turn'.result = turn.result
    BY <1>1, <1>2 DEF Reopens, TurnFields, AtFields
  <2> QED
    BY <1>1, <2>1 DEF ReplyInv, TurnInv, ToldInv
<1>3. CASE StopsLeftovers
  <2>1. /\ DOMAIN turn' = TurnFields /\ DOMAIN turn'.at = AtFields
        /\ ~turn'.at.opened /\ ~turn'.at.delivered /\ ~turn'.at.output /\ turn'.pc = "opening"
        /\ turn'.current = turn.current /\ turn'.rewind = turn.rewind /\ turn'.result = turn.result
    BY <1>1, <1>3 DEF StopsLeftovers, TurnFields, AtFields
  <2> QED
    BY <1>1, <2>1 DEF ReplyInv, TurnInv, ToldInv
<1> QED
  BY <1>2, <1>3

LEMMA MissingReply ==
  ASSUME ReplyInv, Missing
  PROVE  ReplyInv'
<1>1. CASE turn' = Ended("unavailable") /\ UNCHANGED conv
  BY <1>1, EndsOtherwise DEF Missing
<1>2. CASE /\ harness = "claude" /\ copy # <<"gone">> /\ conv' = copy
           /\ turn' = [turn EXCEPT !.at.restored = TRUE]
  <2>1. /\ UNCHANGED <<harness, copy, unsaid>> /\ turn.pc = "opening"
        /\ DOMAIN turn = TurnFields /\ DOMAIN turn.at = AtFields
        /\ ~turn.at.opened /\ ~turn.at.delivered /\ ~turn.at.output
    BY DEF Missing, ReplyInv, TurnInv
  <2>2. /\ DOMAIN turn' = TurnFields /\ DOMAIN turn'.at = AtFields
        /\ ~turn'.at.opened /\ ~turn'.at.delivered /\ ~turn'.at.output /\ turn'.pc = "opening"
        /\ turn'.current = turn.current /\ turn'.rewind = turn.rewind /\ turn'.result = turn.result
    BY <1>2, <2>1 DEF TurnFields, AtFields
  <2> QED
    BY <1>2, <2>1, <2>2 DEF ReplyInv, TurnInv, ToldInv
<1> QED
  BY Zenon, <1>1, <1>2 DEF Missing

LEMMA RevertsReply ==
  ASSUME ReplyInv, Reverts
  PROVE  ReplyInv'
<1>1. /\ UNCHANGED <<harness, copy>> /\ turn.pc = "reverting" /\ harness = "codex" /\ turn.rewind \in Nat
      /\ DOMAIN turn = TurnFields /\ DOMAIN turn.at = AtFields
      /\ turn.at.opened /\ ~turn.at.delivered /\ ~turn.at.output /\ conv \in Seq(Items) /\ conv # <<"gone">>
  BY DEF Reverts, ReplyInv, TurnInv, Conversations
<1>2. /\ DOMAIN turn' = TurnFields /\ turn'.at = turn.at /\ turn'.pc = "sending"
      /\ turn'.current = turn.current /\ turn'.rewind = turn.rewind /\ turn'.result = turn.result
  BY <1>1 DEF Reverts, To, TurnFields
<1>3. CASE conv' = Upto(turn.rewind) /\ UNCHANGED unsaid
  <2>1. conv' \in Seq(Items) /\ (Heard(conv, turn.rewind) => Heard(conv', turn.rewind))
    BY <1>1, <1>3, GoneBack
  <2>2. conv' # <<"gone">>
    BY <2>1, NotGone
  <2> QED
    BY <1>1, <1>2, <1>3, <2>1, <2>2 DEF ReplyInv, TurnInv, ToldInv, Conversations
<1>4. CASE UNCHANGED conv /\ unsaid' = TRUE
  BY <1>1, <1>2, <1>4 DEF ReplyInv, TurnInv, ToldInv
<1> QED
  BY Zenon, <1>3, <1>4 DEF Reverts

LEMMA TakesReply ==
  ASSUME ReplyInv, Takes
  PROVE  ReplyInv'
<1>1. /\ UNCHANGED <<harness, copy>> /\ turn.pc = "sending" /\ turn.rewind \in Nat \cup {NoRewind}
      /\ DOMAIN turn = TurnFields /\ DOMAIN turn.at = AtFields /\ turn.current \in Items
      /\ turn.at.opened /\ ~turn.at.delivered /\ ~turn.at.output /\ conv \in Seq(Items) /\ conv # <<"gone">>
      /\ conv' = Append(Resumed, turn.current)
  BY DEF Takes, ReplyInv, TurnInv, Conversations, Items
<1>2. /\ Resumed \in Seq(Items) /\ Len(Resumed) <= Len(conv)
      /\ Heard(conv, turn.rewind) => Heard(Resumed, turn.rewind)
  <2>1. CASE harness = "claude" /\ turn.rewind # NoRewind
    BY <1>1, <2>1, GoneBack DEF Resumed
  <2>2. CASE ~(harness = "claude" /\ turn.rewind # NoRewind)
    BY <1>1, <2>2 DEF Resumed
  <2> QED
    BY <2>1, <2>2
<1>3. /\ conv' \in Seq(Items) /\ turn.current \in Range(conv')
      /\ \A n : Heard(Resumed, n) => Heard(conv', n)
  BY <1>1, <1>2, HeardAppended
<1>4. conv' # <<"gone">>
  BY <1>3, NotGone
<1>5. CASE /\ turn' = [turn EXCEPT !.pc = "turn", !.at.delivered = TRUE, !.at.began = Len(conv)]
           /\ UNCHANGED unsaid
  <2>1. /\ DOMAIN turn' = TurnFields /\ DOMAIN turn'.at = AtFields /\ turn'.pc = "turn"
        /\ turn'.at.delivered /\ turn'.at.opened /\ ~turn'.at.output /\ turn'.at.began = Len(conv)
        /\ turn'.current = turn.current /\ turn'.rewind = turn.rewind /\ turn'.result = turn.result
    BY <1>1, <1>5 DEF TurnFields, AtFields
  <2>2. Len(conv) \in Nat /\ Len(Resumed) \in Nat
    BY <1>1, <1>2
  <2>3. TurnInv'
    BY <1>1, <1>3, <1>4, <2>1, <2>2 DEF ReplyInv, TurnInv, Conversations
  <2>4. ~unsaid /\ turn.current = "note" =>
          /\ Heard(conv', turn.rewind) /\ Heard(conv', Len(conv)) /\ "msg" \in Range(conv')
          /\ harness = "claude" => Heard(copy, turn.rewind)
    <3>1. SUFFICES ASSUME ~unsaid, turn.current = "note"
                   PROVE  /\ Heard(conv', turn.rewind) /\ Heard(conv', Len(conv)) /\ "msg" \in Range(conv')
                          /\ harness = "claude" => Heard(copy, turn.rewind)
      OBVIOUS
    <3>2. Heard(conv, turn.rewind) /\ (harness = "claude" => Heard(copy, turn.rewind))
      BY <1>1, <3>1 DEF ReplyInv, ToldInv
    <3>3. Heard(Resumed, turn.rewind) /\ Heard(Resumed, Len(Resumed))
      BY <1>2, <3>2, HeardWeaker
    <3>4. Heard(Resumed, Len(conv))
      <4>1. PICK i, j \in DOMAIN Resumed : i < j /\ Resumed[i] = "msg" /\ Resumed[j] = "work"
        BY <3>3 DEF Heard
      <4>2. j <= Len(conv)
        BY <1>2, <2>2, <4>1
      <4> QED
        BY <4>1, <4>2 DEF Heard
    <3>5. Heard(conv', turn.rewind) /\ Heard(conv', Len(conv))
      BY <1>3, <3>3, <3>4
    <3> QED
      BY <1>3, <3>2, <3>5, HeardWeaker
  <2>5. ~unsaid => "msg" \in Range(conv')
    BY <1>3, <2>4 DEF ReplyInv, TurnInv
  <2>6. turn.result # "reply"
    BY <1>1 DEF ReplyInv, TurnInv
  <2>7. ToldInv'
    BY <1>1, <1>5, <2>1, <2>4, <2>5, <2>6 DEF ToldInv
  <2> QED
    BY <2>3, <2>7 DEF ReplyInv
<1>6. CASE turn' = [turn EXCEPT !.pc = "lost"] /\ unsaid' = TRUE
  <2>1. /\ DOMAIN turn' = TurnFields /\ turn'.at = turn.at /\ turn'.pc = "lost"
        /\ turn'.current = turn.current /\ turn'.rewind = turn.rewind /\ turn'.result = turn.result
    BY <1>1, <1>6 DEF TurnFields
  <2> QED
    BY <1>1, <1>3, <1>6, <2>1 DEF ReplyInv, TurnInv, ToldInv, Conversations
<1> QED
  BY Zenon, <1>5, <1>6 DEF Takes

LEMMA WorksReply ==
  ASSUME ReplyInv, Works
  PROVE  ReplyInv'
<1>1. /\ UNCHANGED <<harness, copy, unsaid>> /\ turn.pc = "turn" /\ conv \in Seq(Items)
      /\ DOMAIN turn = TurnFields /\ DOMAIN turn.at = AtFields /\ conv' = Append(conv, "work") /\ "work" \in Items
  BY DEF Works, External, ReplyInv, TurnInv, Conversations, Items
<1>2. /\ DOMAIN turn' = TurnFields /\ DOMAIN turn'.at = AtFields /\ turn'.pc = "turn"
      /\ turn'.at.delivered = turn.at.delivered /\ turn'.at.opened = turn.at.opened /\ turn'.at.began = turn.at.began
      /\ turn'.current = turn.current /\ turn'.rewind = turn.rewind /\ turn'.result = turn.result
  BY <1>1 DEF Works, TurnFields, AtFields
<1>3. /\ conv' \in Seq(Items) /\ \A n : Heard(conv, n) => Heard(conv', n)
      /\ \A x : x \in Range(conv) => x \in Range(conv')
      /\ "msg" \in Range(conv) => Heard(conv', NoRewind)
  BY <1>1, HeardAppended, WorkHeard
<1>4. conv' # <<"gone">> /\ conv # <<"gone">>
  BY <1>1, <1>3, NotGone
<1>5. TurnInv'
  BY <1>1, <1>2, <1>3, <1>4 DEF ReplyInv, TurnInv, Conversations
<1>6. ToldInv'
  BY <1>1, <1>2, <1>3, <1>4 DEF ReplyInv, ToldInv
<1> QED
  BY <1>5, <1>6 DEF ReplyInv

LEMMA RepliesReply ==
  ASSUME ReplyInv, Replies
  PROVE  ReplyInv'
<1>1. /\ turn.pc = "turn" /\ UNCHANGED <<harness, conv>> /\ Saves /\ turn' = Ended("reply")
      /\ DOMAIN turn = TurnFields /\ DOMAIN turn.at = AtFields
  BY DEF Replies, ReplyInv, TurnInv
<1>2. /\ DOMAIN turn' = TurnFields /\ turn'.at = turn.at /\ turn'.current = turn.current
      /\ turn'.rewind = turn.rewind /\ turn'.pc = "done"
  BY <1>1 DEF Ended, TurnFields
<1>3. copy' \in Conversations
  BY <1>1, SavesWhat DEF ReplyInv, TurnInv
<1>4. ~unsaid' => "msg" \in Range(conv)
  BY <1>1, SavesWhat DEF ReplyInv, ToldInv
<1> QED
  BY <1>1, <1>2, <1>3, <1>4 DEF ReplyInv, TurnInv, ToldInv

LEMMA VanishesReply ==
  ASSUME ReplyInv, Vanishes
  PROVE  ReplyInv'
BY DEF Vanishes, External, ReplyInv, TurnInv, ToldInv, Conversations

LEMMA ReplySteps ==
  ASSUME ReplyInv, ReplyNext
  PROVE  ReplyInv'
<1>1. CASE Refused
  <2>1. PICK count \in {1, turn.refusals + 1} :
          IF TooMany(count) THEN turn' = Ended("unavailable") /\ UNCHANGED <<copy, unsaid>> ELSE AttemptFails(count)
    BY Zenon, <1>1 DEF Refused
  <2>2. turn.pc = "opening" /\ UNCHANGED <<harness, conv>>
    BY <1>1 DEF Refused
  <2> QED
    BY <2>1, <2>2, EndsOtherwise, FailedAttempt
<1>2. CASE Lost \/ Fails
  <2>1. AttemptFails(0) /\ UNCHANGED <<harness, conv>> /\ turn.pc \in {"opening", "reverting", "sending", "turn", "lost"}
    BY <1>2 DEF Lost, Fails
  <2> QED
    BY <2>1, FailedAttempt
<1>3. CASE Killed
  BY <1>3, EndsOtherwise DEF Killed, External
<1> QED
  BY Zenon, <1>1, <1>2, <1>3, WaitsReply, StartsReply, OpensReply, MissingReply, RevertsReply, TakesReply,
     WorksReply, RepliesReply, VanishesReply DEF ReplyNext

\* The reply shown to the user comes from a conversation that holds the user's message,
\* however often it was sent, removed and restored (run_author_conversation).
THEOREM RepliesWereHeard == MainSpec => []ReplyHeard
<1>1. MainInit => ReplyInv
  BY ReplyStarts DEF MainInit
<1>2. ReplyInv /\ [MainNext]_mainVars => ReplyInv'
  <2> SUFFICES ASSUME ReplyInv, [MainNext]_mainVars PROVE ReplyInv'
    OBVIOUS
  <2>1. CASE ReplyNext
    BY <2>1, ReplySteps
  <2>2. CASE UNCHANGED replyVars
    BY <2>2 DEF replyVars, ReplyInv, TurnInv, ToldInv
  <2> QED
    BY Zenon, <2>1, <2>2 DEF MainNext, mainVars
<1>3. ReplyInv => ReplyHeard
  BY DEF ReplyInv, ToldInv, ReplyHeard
<1> QED
  BY <1>1, <1>2, <1>3, PTL DEF MainSpec
=============================================================================
