------------------------------ MODULE PodProofs -------------------------------
(* Theorems about a service over several applies (Launch), about a pinned     *)
(* command (HardPin) and about a connection through the egress proxy (Proxy), *)
(* for every value of their constants.                                        *)
EXTENDS Launch, Proxy, HardPin, FiniteSetTheorems, SequenceTheorems, TLAPS

(***************************************************************************)
(* A service over several applies                                          *)
(***************************************************************************)

Doings == {"decide", "launch", "record", "settle", "ask", "look", "over"}

LaunchShape ==
  /\ LaunchTypeOK
  /\ doing \in Doings
  /\ verdict = [a \in Applies |-> verdict[a]]
  /\ armed \in BOOLEAN /\ lost \in BOOLEAN

\* A poll that goes on has passes left.
PollBounded == doing \in {"launch", "record", "settle", "ask", "look"} => passes < Passes

\* A poll is armed by what the pid file it polls names.
ArmedByPid ==
  /\ doing \in {"launch", "record", "settle"} => ~armed
  /\ armed => pidFile \in witnessed

\* A server runs what the apply that started it declared.
ServersDeclared == \A p \in Servers : proc[p].argv = declared[p].argv

SameArgv == \A a, b \in Applies : declared[a].argv = declared[b].argv

\* Where the one server is, if there is one, at each step of an apply.
ServerPlace ==
  ~lost /\ SameArgv =>
    /\ doing = "launch" => Servers = {}
    /\ doing = "record" => Servers \subseteq {current}
    /\ doing # "record" => Servers \subseteq {pidFile}

LaunchIInv ==
  /\ LaunchShape
  /\ PollBounded
  /\ ArmedByPid
  /\ ServersDeclared
  /\ ServerPlace

LEMMA LaunchInitially == LaunchInit => LaunchIInv
<1> SUFFICES ASSUME LaunchInit PROVE LaunchIInv
  OBVIOUS
<1> USE LaunchAssumption
<1>1. LaunchShape
  <2>1. proc \in [Pids -> [life : Lives, argv : Argvs \cup {"none", "other"}]]
    BY DEF LaunchInit, Lives
  <2>2. declared \in [Applies -> [argv : Argvs, launches : BOOLEAN]]
    BY DEF LaunchInit
  <2>3. current \in Applies /\ passes \in 0 .. Passes
    BY DEF LaunchInit, Applies
  <2>4. pidFile \in Pids \cup {Absent, Unusable} /\ witnessed \subseteq Pids
    BY DEF LaunchInit
  <2> QED BY <2>1, <2>3 DEF LaunchInit, LaunchShape, LaunchTypeOK, Doings
<1>2. Servers = {}
  BY DEF LaunchInit, Servers
<1> QED BY <1>1, <1>2 DEF LaunchInit, LaunchIInv, PollBounded, ArmedByPid,
       ServersDeclared, ServerPlace

\* What is alive under the declared argv satisfies the condition.
LEMMA ServerIsDone ==
  ASSUME LaunchIInv, ~lost, SameArgv, Servers # {}, doing # "record"
  PROVE  Done = "satisfied"
<1>1. PICK p \in Servers : p = pidFile
  BY DEF LaunchIInv, ServerPlace
<1>2. pidFile \in Pids /\ pidFile # Absent /\ pidFile # Unusable
  BY <1>1 DEF Servers, Pids, Absent, Unusable
<1>3. proc[pidFile].life \in {"starting", "serving"}
  BY <1>1 DEF Servers
<1>4. proc[pidFile].argv = Profile.argv
  BY <1>1, <1>2 DEF LaunchIInv, LaunchShape, LaunchTypeOK, ServersDeclared, SameArgv,
     Profile, Applies, Pids
<1>5. ProcessAlive = "satisfied" /\ ProcessArgv = "satisfied"
  BY <1>2, <1>3, <1>4 DEF ProcessAlive, ProcessArgv, Holds, Exists
<1>6. Range(<<"satisfied", "satisfied">>) = {"satisfied"}
  BY DEF Range
<1> QED BY <1>5, <1>6 DEF Done, FoldAll

\* Whatever happens to the servers, none is added.
LEMMA WorldKeeps ==
  ASSUME LaunchShape, World
  PROVE  /\ proc' \in [Pids -> [life : Lives, argv : Argvs \cup {"none", "other"}]]
         /\ Servers' \subseteq Servers
         /\ \A p \in Servers' : proc'[p].argv = proc[p].argv
<1>1. PICK p \in Pids : Serve(p) \/ Die(p) \/ DieUnreaped(p) \/ Reuse(p)
  BY DEF World
<1>2. proc[p] \in [life : Lives, argv : Argvs \cup {"none", "other"}]
  BY DEF LaunchShape, LaunchTypeOK
<1>3. PICK r \in [life : Lives, argv : Argvs \cup {"none", "other"}] :
        /\ proc' = [proc EXCEPT ![p] = r]
        /\ r.life \in {"starting", "serving"} =>
             proc[p].life \in {"starting", "serving"} /\ r.argv = proc[p].argv
  <2>1. CASE \E life \in {"serving", "gone", "zombie"} :
               /\ proc[p].life \in {"starting", "serving"}
               /\ proc' = [proc EXCEPT ![p].life = life]
    <3>1. PICK life \in {"serving", "gone", "zombie"} :
            /\ proc[p].life \in {"starting", "serving"}
            /\ proc' = [proc EXCEPT ![p].life = life]
      BY <2>1
    <3> DEFINE r == [proc[p] EXCEPT !.life = life]
    <3>2. /\ r \in [life : Lives, argv : Argvs \cup {"none", "other"}]
          /\ r.argv = proc[p].argv
      BY <1>2 DEF Lives
    <3>3. proc' = [proc EXCEPT ![p] = r]
      BY <3>1
    <3> QED BY <3>1, <3>2
  <2>2. CASE Reuse(p)
    <3> DEFINE r == [life |-> "stranger", argv |-> "other"]
    <3>1. r \in [life : Lives, argv : Argvs \cup {"none", "other"}]
      BY DEF Lives
    <3>2. proc' = [proc EXCEPT ![p] = r] /\ r.life = "stranger"
      BY <2>2 DEF Reuse
    <3> QED BY <3>1, <3>2
  <2> QED BY <1>1, <2>1, <2>2 DEF Serve, Die, DieUnreaped, Becomes
<1> QED BY <1>3 DEF Servers, LaunchShape, LaunchTypeOK

LEMMA EndsWithTyped ==
  ASSUME LaunchShape, NEW word, EndsWith(word)
  PROVE  /\ current' \in Applies /\ doing' \in {"over", "decide"}
         /\ declared' = declared
         /\ verdict' = [verdict EXCEPT ![current] = word]
BY LaunchAssumption DEF EndsWith, LaunchShape, LaunchTypeOK, Applies

LEMMA LaunchSteps ==
  ASSUME LaunchIInv, Advance \/ World \/ Killed
  PROVE  LaunchIInv'
<1> USE LaunchAssumption DEF LaunchIInv
<1>1. CASE Decide
  <2>1. LaunchShape'
    <3>1. declared' \in [Applies -> [argv : Argvs, launches : BOOLEAN]]
      BY <1>1 DEF Decide, Quiet, LaunchShape, LaunchTypeOK
    <3>2. current' \in Applies /\ doing' \in Doings
      BY <1>1 DEF Decide, Quiet, LaunchShape, LaunchTypeOK, Doings
    <3>3. passes' \in 0 .. Passes
      BY <1>1 DEF Decide
    <3>4. proc' \in [Pids -> [life : Lives, argv : Argvs \cup {"none", "other"}]]
      BY <1>1 DEF Decide, LaunchShape, LaunchTypeOK
    <3>5. pidFile' \in Pids \cup {Absent, Unusable} /\ witnessed' \subseteq Pids
      BY <1>1 DEF Decide, LaunchShape, LaunchTypeOK
    <3>6. verdict' = [b \in Applies |-> verdict'[b]]
      BY <1>1 DEF Decide, Quiet, LaunchShape
    <3>7. armed' \in BOOLEAN /\ lost' \in BOOLEAN
      BY <1>1 DEF Decide, LaunchShape
    <3> QED BY <3>1, <3>2, <3>3, <3>4, <3>5, <3>6, <3>7 DEF LaunchShape, LaunchTypeOK
  <2>2. PollBounded'
    BY <1>1 DEF Decide, PollBounded
  <2>3. ArmedByPid'
    BY <1>1 DEF Decide, ArmedByPid
  <2>4. ServersDeclared'
    BY <1>1 DEF Decide, Quiet, ServersDeclared, Servers
  <2>5. ServerPlace'
    BY <1>1, ServerIsDone DEF Decide, Quiet, ServerPlace, SameArgv, Servers
  <2> QED BY <2>1, <2>2, <2>3, <2>4, <2>5
<1>2. CASE Spawn
  <2>1. LaunchShape'
    <3>1. declared' \in [Applies -> [argv : Argvs, launches : BOOLEAN]]
      BY <1>2 DEF Spawn, Quiet, LaunchShape, LaunchTypeOK
    <3>2. current' \in Applies /\ doing' \in Doings
      BY <1>2 DEF Spawn, Quiet, LaunchShape, LaunchTypeOK, Doings
    <3>3. passes' \in 0 .. Passes
      BY <1>2 DEF Spawn, Poll, LaunchShape, LaunchTypeOK
    <3>4. proc' \in [Pids -> [life : Lives, argv : Argvs \cup {"none", "other"}]]
      BY <1>2 DEF Spawn, LaunchShape, LaunchTypeOK, Lives, Profile
    <3>5. pidFile' \in Pids \cup {Absent, Unusable} /\ witnessed' \subseteq Pids
      BY <1>2 DEF Spawn, Poll, LaunchShape, LaunchTypeOK
    <3>6. verdict' = [b \in Applies |-> verdict'[b]]
      BY <1>2 DEF Spawn, Quiet, LaunchShape
    <3>7. armed' \in BOOLEAN /\ lost' \in BOOLEAN
      BY <1>2 DEF Spawn, Poll, LaunchShape
    <3> QED BY <3>1, <3>2, <3>3, <3>4, <3>5, <3>6, <3>7 DEF LaunchShape, LaunchTypeOK
  <2>2. PollBounded'
    BY <1>2 DEF Spawn, Poll, PollBounded
  <2>3. ArmedByPid'
    BY <1>2 DEF Spawn, Poll, ArmedByPid
  <2>4. ServersDeclared'
    BY <1>2 DEF Spawn, Quiet, ServersDeclared, Servers, Profile
  <2>5. ServerPlace'
    BY <1>2 DEF Spawn, Quiet, ServerPlace, SameArgv, Servers
  <2> QED BY <2>1, <2>2, <2>3, <2>4, <2>5
<1>3. CASE WritePid
  <2>1. LaunchShape'
    BY <1>3 DEF WritePid, Quiet, Poll, LaunchShape, LaunchTypeOK, Doings, Applies, Pids
  <2>2. PollBounded'
    BY <1>3 DEF WritePid, Poll, PollBounded
  <2>3. ArmedByPid'
    BY <1>3 DEF WritePid, Poll, ArmedByPid
  <2>4. ServersDeclared'
    BY <1>3 DEF WritePid, Quiet, ServersDeclared, Servers
  <2>5. ServerPlace'
    BY <1>3 DEF WritePid, Quiet, ServerPlace, SameArgv, Servers
  <2> QED BY <2>1, <2>2, <2>3, <2>4, <2>5
<1>4. CASE Settle
  <2>1. LaunchShape'
    <3>1. declared' \in [Applies -> [argv : Argvs, launches : BOOLEAN]]
      BY <1>4, EndsWithTyped DEF Settle, Quiet, LaunchShape, LaunchTypeOK
    <3>2. current' \in Applies /\ doing' \in Doings
      BY <1>4, EndsWithTyped DEF Settle, Quiet, LaunchShape, LaunchTypeOK, Doings
    <3>3. passes' \in 0 .. Passes
      BY <1>4 DEF Settle, Poll, LaunchShape, LaunchTypeOK
    <3>4. proc' \in [Pids -> [life : Lives, argv : Argvs \cup {"none", "other"}]]
      BY <1>4 DEF Settle, LaunchShape, LaunchTypeOK
    <3>5. pidFile' \in Pids \cup {Absent, Unusable} /\ witnessed' \subseteq Pids
      BY <1>4 DEF Settle, Poll, LaunchShape, LaunchTypeOK
    <3>6. verdict' = [b \in Applies |-> verdict'[b]]
      BY <1>4 DEF Settle, Quiet, EndsWith, LaunchShape
    <3>7. armed' \in BOOLEAN /\ lost' \in BOOLEAN
      BY <1>4 DEF Settle, Poll, LaunchShape
    <3> QED BY <3>1, <3>2, <3>3, <3>4, <3>5, <3>6, <3>7 DEF LaunchShape, LaunchTypeOK
  <2>2. PollBounded'
    BY <1>4 DEF Settle, Poll, PollBounded
  <2>3. ArmedByPid'
    BY <1>4 DEF Settle, Poll, ArmedByPid
  <2>4. ServersDeclared'
    BY <1>4 DEF Settle, Quiet, EndsWith, ServersDeclared, Servers
  <2>5. ServerPlace'
    BY <1>4 DEF Settle, Quiet, EndsWith, ServerPlace, SameArgv, Servers
  <2> QED BY <2>1, <2>2, <2>3, <2>4, <2>5
<1>5. CASE Ask
  <2>1. LaunchShape'
    BY <1>5 DEF Ask, Quiet, Poll, EndsWith, LaunchShape, LaunchTypeOK, Doings, Applies
  <2>2. PollBounded'
    BY <1>5 DEF Ask, Poll, PollBounded
  <2>3. ArmedByPid'
    BY <1>5 DEF Ask, Poll, EndsWith, ArmedByPid
  <2>4. ServersDeclared'
    BY <1>5 DEF Ask, Quiet, EndsWith, ServersDeclared, Servers
  <2>5. ServerPlace'
    BY <1>5 DEF Ask, Quiet, EndsWith, ServerPlace, SameArgv, Servers
  <2> QED BY <2>1, <2>2, <2>3, <2>4, <2>5
<1>6. CASE Look
  <2>1. LaunchShape'
    <3>1. declared' \in [Applies -> [argv : Argvs, launches : BOOLEAN]]
      BY <1>6, EndsWithTyped DEF Look, Quiet, LaunchShape, LaunchTypeOK
    <3>2. current' \in Applies /\ doing' \in Doings
      BY <1>6, EndsWithTyped DEF Look, Quiet, LaunchShape, LaunchTypeOK, Doings
    <3>3. passes' \in 0 .. Passes
      <4>1. passes' = passes + 1 /\ doing = "look"
        BY <1>6 DEF Look
      <4> QED BY <4>1 DEF LaunchShape, LaunchTypeOK, PollBounded
    <3>4. proc' \in [Pids -> [life : Lives, argv : Argvs \cup {"none", "other"}]]
      BY <1>6 DEF Look, LaunchShape, LaunchTypeOK
    <3>5. pidFile' \in Pids \cup {Absent, Unusable} /\ witnessed' \subseteq Pids
      BY <1>6 DEF Look, LaunchShape, LaunchTypeOK
    <3>6. verdict' = [b \in Applies |-> verdict'[b]]
      BY <1>6 DEF Look, Quiet, EndsWith, LaunchShape
    <3>7. armed' \in BOOLEAN /\ lost' \in BOOLEAN
      BY <1>6 DEF Look, LaunchShape
    <3> QED BY <3>1, <3>2, <3>3, <3>4, <3>5, <3>6, <3>7 DEF LaunchShape, LaunchTypeOK
  <2>2. PollBounded'
    <3>1. doing' \in {"ask", "decide", "over"} /\ (doing' = "ask" => passes + 1 # Passes)
      BY <1>6, EndsWithTyped DEF Look
    <3>2. passes' = passes + 1 /\ doing = "look"
      BY <1>6 DEF Look
    <3>3. passes < Passes /\ passes \in Nat
      BY <3>2 DEF PollBounded, LaunchShape, LaunchTypeOK
    <3> QED BY <3>1, <3>2, <3>3 DEF PollBounded
  <2>3. ArmedByPid'
    BY <1>6 DEF Look, EndsWith, ArmedByPid
  <2>4. ServersDeclared'
    BY <1>6 DEF Look, Quiet, EndsWith, ServersDeclared, Servers
  <2>5. ServerPlace'
    BY <1>6 DEF Look, Quiet, EndsWith, ServerPlace, SameArgv, Servers
  <2> QED BY <2>1, <2>2, <2>3, <2>4, <2>5
<1>7. CASE World
  <2>1. LaunchShape'
    BY <1>7, WorldKeeps DEF World, LaunchShape, LaunchTypeOK
  <2>2. PollBounded'
    BY <1>7 DEF World, PollBounded
  <2>3. ArmedByPid'
    BY <1>7 DEF World, ArmedByPid
  <2>4. ServersDeclared'
    BY <1>7, WorldKeeps DEF World, ServersDeclared
  <2>5. ServerPlace'
    BY <1>7, WorldKeeps DEF World, ServerPlace, SameArgv
  <2> QED BY <2>1, <2>2, <2>3, <2>4, <2>5
<1>8. CASE Killed
  <2>1. LaunchShape'
    <3>1. declared' \in [Applies -> [argv : Argvs, launches : BOOLEAN]]
      BY <1>8 DEF Killed, EndsWith, LaunchShape, LaunchTypeOK
    <3>2. current' \in Applies /\ doing' \in Doings
      BY <1>8 DEF Killed, EndsWith, LaunchShape, LaunchTypeOK, Applies, Doings
    <3>3. passes' \in 0 .. Passes
      BY <1>8 DEF Killed, Poll, LaunchShape, LaunchTypeOK
    <3>4. proc' \in [Pids -> [life : Lives, argv : Argvs \cup {"none", "other"}]]
      BY <1>8 DEF Killed, LaunchShape, LaunchTypeOK
    <3>5. pidFile' \in Pids \cup {Absent, Unusable} /\ witnessed' \subseteq Pids
      BY <1>8 DEF Killed, Poll, LaunchShape, LaunchTypeOK
    <3>6. verdict' = [b \in Applies |-> verdict'[b]]
      BY <1>8 DEF Killed, EndsWith, LaunchShape
    <3>7. armed' \in BOOLEAN /\ lost' \in BOOLEAN
      BY <1>8 DEF Killed, Poll, LaunchShape
    <3> QED BY <3>1, <3>2, <3>3, <3>4, <3>5, <3>6, <3>7 DEF LaunchShape, LaunchTypeOK
  <2>2. PollBounded'
    BY <1>8 DEF Killed, EndsWith, PollBounded
  <2>3. ArmedByPid'
    BY <1>8 DEF Killed, Poll, EndsWith, ArmedByPid
  <2>4. ServersDeclared'
    BY <1>8 DEF Killed, EndsWith, ServersDeclared, Servers
  <2>5. ServerPlace'
    BY <1>8 DEF Killed, EndsWith, ServerPlace, SameArgv, Servers
  <2> QED BY <2>1, <2>2, <2>3, <2>4, <2>5
<1> QED BY <1>1, <1>2, <1>3, <1>4, <1>5, <1>6, <1>7, <1>8 DEF Advance

LEMMA LaunchStepKeeps == LaunchIInv /\ [LaunchNext]_launchVars => LaunchIInv'
<1> SUFFICES ASSUME LaunchIInv, [LaunchNext]_launchVars PROVE LaunchIInv'
  OBVIOUS
<1>1. CASE UNCHANGED launchVars
  BY <1>1 DEF launchVars, LaunchIInv, LaunchShape, LaunchTypeOK, PollBounded,
     ArmedByPid, ServersDeclared, ServerPlace, SameArgv, Servers
<1>2. CASE AppliesOver
  BY <1>1, <1>2 DEF AppliesOver
<1> QED BY <1>1, <1>2, LaunchSteps DEF LaunchNext

\* The pid file, the applies and the pids keep to their values, and a poll keeps
\* to its deadline.
THEOREM LaunchTypeCorrect == LaunchSpec => []LaunchTypeOK
<1>1. LaunchIInv => LaunchTypeOK
  BY DEF LaunchIInv, LaunchShape
<1> QED BY <1>1, LaunchInitially, LaunchStepKeeps, PTL DEF LaunchSpec

LEMMA OneAtItsPlace == LaunchIInv => OneServer
<1> SUFFICES ASSUME LaunchIInv, ~lost, SameArgv
             PROVE  /\ Cardinality(Servers) <= 1
                    /\ doing # "record" => Servers \subseteq {pidFile}
  BY DEF OneServer, SameArgv
<1>1. PICK x : Servers \subseteq {x}
  BY DEF LaunchIInv, ServerPlace
<1>2. Cardinality(Servers) <= Cardinality({x}) /\ Cardinality({x}) = 1
  BY <1>1, FS_Singleton, FS_Subset
<1> QED BY <1>2 DEF LaunchIInv, ServerPlace

\* However many applies run, resume, are killed or find their server starting,
\* serving, dead or a zombie: where they declare one argv and none was killed
\* before it recorded its launch, there is at most one server, and the pid file
\* names it (Service::done, the launch, the pid file).
THEOREM NoSecondServer == LaunchSpec => []OneServer
BY OneAtItsPlace, LaunchInitially, LaunchStepKeeps, PTL DEF LaunchSpec

LEMMA OnlyLookReportsDeath ==
  ASSUME LaunchIInv, LaunchNext, NEW a \in Applies,
         verdict[a] = "none", verdict'[a] = "died waiting"
  PROVE  pidFile \in witnessed /\ ~Exists(pidFile)
<1>1. verdict' # verdict
  OBVIOUS
<1>2. ASSUME NEW word, EndsWith(word) PROVE word = "died waiting"
  <2>1. verdict' = [verdict EXCEPT ![current] = word]
    BY <1>2, EndsWithTyped DEF LaunchIInv
  <2> QED BY <2>1 DEF LaunchIInv, LaunchShape
<1>3. CASE Look
  <2>1. Fatal
    <3>1. CASE ~Fatal /\ passes + 1 = Passes
      BY <1>3, <1>2, <3>1 DEF Look
    <3>2. CASE ~Fatal /\ passes + 1 # Passes
      BY <1>3, <3>2 DEF Look, Quiet
    <3> QED BY <3>1, <3>2
  <2> QED BY <2>1 DEF Fatal, LaunchIInv, ArmedByPid
<1>5. CASE Settle \/ Ask \/ Killed
  <2>1. CASE Settle
    BY <2>1, <1>2 DEF Settle, Quiet
  <2>2. CASE Ask
    BY <2>2, <1>2 DEF Ask, Quiet
  <2>3. CASE Killed
    BY <2>3, <1>2 DEF Killed
  <2> QED BY <1>5, <2>1, <2>2, <2>3
<1>4. CASE Decide \/ Spawn \/ WritePid \/ World \/ AppliesOver
  BY <1>4 DEF Decide, Spawn, WritePid, World, AppliesOver, Quiet, launchVars
<1> QED BY <1>3, <1>4, <1>5 DEF LaunchNext, Advance

\* A readiness poll reports a death only of a process that same poll saw alive and
\* that is there no more: a pid file left behind fails no resume (the arming rule).
THEOREM DeathsWereSeen == LaunchSpec => DeathIsWitnessed
<1> DEFINE Seen ==
      \A a \in Applies :
        verdict[a] = "none" /\ verdict'[a] = "died waiting" =>
          pidFile \in witnessed /\ ~Exists(pidFile)
<1>1. LaunchIInv /\ [LaunchNext]_launchVars => [Seen]_launchVars
  BY OnlyLookReportsDeath
<1>2. LaunchSpec => [][Seen]_launchVars
  BY <1>1, LaunchInitially, LaunchStepKeeps, PTL DEF LaunchSpec
<1> QED BY <1>2 DEF DeathIsWitnessed

(***************************************************************************)
(* A pinned command                                                        *)
(***************************************************************************)

AtWork == {"judged", "planned", "parked"}
Active == {"polling"} \cup AtWork
Spawning == {"spawning", "joining"}

Plans == {"none", "deny", "continue", "emulate"}
PinCalls == [op : Ops \cup {"none"}, dests : Seq(Dests)]
Handlings == [who : Tracees \cup {"none"}, plan : Plans, copy : PinCalls, fresh : BOOLEAN]

PinShape ==
  /\ mode \in {"emulated", "connect only"}
  /\ child \in {"unborn", "forked", "filtered", "told", "running", "over", "failed"}
  /\ main \in {"spawning", "joining", "reaping", "waiting", "stopping", "over"}
  /\ helper \in {"reading", "lifted", "failed"}
  /\ supervisor \in {"none", "ended"} \cup Active
  /\ holders \subseteq {"child", "wire", "runner"}
  /\ call \in [Tracees -> PinCalls]
  /\ \A t \in Tracees : call[t] = NoCall \/ call[t].op # "none"
  /\ {spawned, note, ack, stop, broke} \subseteq BOOLEAN

\* The hand-off: nothing is told before there is a listener, and an ack comes of
\* a listener lifted.
HandOffOrder ==
  /\ child \in {"unborn", "forked", "filtered"} => ~note /\ ~ack
  /\ ack <=> helper = "lifted"

\* The main thread leaves spawn when the child's fate is known, and a supervisor
\* is begun after that.
SpawnOrder ==
  /\ main # "spawning" => child \in (IF spawned THEN {"running", "over"} ELSE {"failed"})
  /\ main \in Spawning => supervisor = "none"
  /\ main = "joining" /\ ~spawned => child = "failed"
  /\ stop => child = "over"

\* Who holds the listener: the helper's find is held until the supervisor has it,
\* and the supervisor holds it while it serves.
RunnerHolds ==
  /\ main \in Spawning /\ helper = "lifted" => "runner" \in holders
  /\ supervisor \in Active => "runner" \in holders

CallOfRunning == call["child"] # NoCall => child = "running"

\* What the supervisor is at: a plan to perform is for what it read, allowed; a
\* plan to let the kernel go on is for what no thread can rewrite.
HandlingTrue ==
  /\ supervisor \notin AtWork => handling = NothingHandled
  /\ handling \in Handlings
  /\ supervisor \in AtWork =>
       /\ handling.who \in Tracees
       /\ handling.fresh => call[handling.who] # NoCall
  /\ supervisor = "judged" => handling.plan = "none"
  /\ supervisor = "planned" => handling.plan \in {"deny", "continue", "emulate"}
  /\ mode = "emulated" /\ supervisor = "planned" =>
       /\ handling.plan = "emulate" => NotifAllowed(handling.copy)
       /\ handling.plan = "continue" /\ handling.fresh => Fixed(call[handling.who])

PinIInv ==
  /\ PinShape
  /\ HandOffOrder
  /\ SpawnOrder
  /\ RunnerHolds
  /\ CallOfRunning
  /\ HandlingTrue
  /\ PerformsWhatItRead
  /\ CommandIsAnswered

LEMMA NoCallTyped == NoCall \in PinCalls
BY DEF NoCall, PinCalls

LEMMA NoCallAllowed == NotifAllowed(NoCall)
BY DEF NotifAllowed, NoCall, Range

\* NULL is no destination: what cannot be read again is allowed.
LEMMA FixedAllowed ==
  ASSUME NEW c, Fixed(c)
  PROVE  NotifAllowed(c)
BY DEF Fixed, NotifAllowed, Allowed, Range

\* A call that is cancelled voids what the supervisor was at about it.
LEMMA CancelledTrue ==
  ASSUME PinShape, HandlingTrue, NEW t \in Tracees,
         UNCHANGED <<mode, supervisor>>, call' = [call EXCEPT ![t] = NoCall],
         handling' = IF handling.who = t THEN [handling EXCEPT !.fresh = FALSE]
                                         ELSE handling
  PROVE  HandlingTrue'
<1>1. CASE handling.who = t
  <2>1. /\ handling'.who = handling.who /\ handling'.plan = handling.plan
        /\ handling'.copy = handling.copy /\ handling'.fresh = FALSE
        /\ handling' \in Handlings
    BY <1>1 DEF HandlingTrue, Handlings
  <2>2. supervisor \in AtWork
    BY <1>1 DEF HandlingTrue, NothingHandled, Tracees
  <2> QED BY <2>1, <2>2 DEF HandlingTrue, AtWork
<1>2. CASE handling.who # t
  BY <1>2 DEF HandlingTrue, AtWork
<1> QED BY <1>1, <1>2

LEMMA NothingTyped == NothingHandled \in Handlings
BY NoCallTyped DEF NothingHandled, Handlings, Plans

\* A supervisor that is at no call is at nothing.
LEMMA HandlingDone ==
  ASSUME handling' = NothingHandled, supervisor' \notin AtWork
  PROVE  HandlingTrue'
BY NothingTyped DEF HandlingTrue, AtWork

\* What the second read is made into is what that read allows.
LEMMA PlanTrue ==
  ASSUME NEW c
  PROVE  /\ Plan(c) \in {"deny", "continue", "emulate"}
         /\ Plan(c) = "emulate" => NotifAllowed(c)
         /\ Plan(c) = "continue" => Fixed(c)
BY DEF Plan

\* A rewritten call is a call still, of the same kind, and was not one whose
\* destination stands in a register.
LEMMA RewriteTrue ==
  ASSUME PinShape, NEW t \in Tracees, Rewrite(t)
  PROVE  /\ call' \in [Tracees -> PinCalls]
         /\ call[t] # NoCall /\ ~Fixed(call[t])
         /\ call'[t].op = call[t].op /\ call'[t] # NoCall
         /\ \A u \in Tracees \ {t} : call'[u] = call[u]
<1>1. PICK i \in DOMAIN call[t].dests :
        /\ call[t].op \in {"connect", "sendto"} => call[t].dests[i] # "null"
        /\ call' = [call EXCEPT ![t].dests[i] = "elsewhere"]
  BY DEF Rewrite
<1>2. call \in [Tracees -> PinCalls] /\ call[t] \in PinCalls
  BY DEF PinShape
<1>3. call[t].dests \in Seq(Dests)
  BY <1>2 DEF PinCalls
<1>4. [call[t].dests EXCEPT ![i] = "elsewhere"] \in Seq(Dests)
  BY <1>3 DEF Dests
<1>5. call'[t] = [call[t] EXCEPT !.dests = [call[t].dests EXCEPT ![i] = "elsewhere"]]
  BY <1>1, <1>2
<1>6. call'[t] \in PinCalls /\ call'[t].op = call[t].op
  BY <1>2, <1>4, <1>5 DEF PinCalls
<1>7. call[t] # NoCall
  BY DEF NoCall
<1>8. ~Fixed(call[t])
  BY <1>1 DEF Fixed
<1>9. call[t].op # "none"
  BY <1>7 DEF PinShape
<1>10. call'[t] # NoCall
  BY <1>6, <1>9 DEF NoCall
<1>11. call' \in [Tracees -> PinCalls] /\ \A u \in Tracees \ {t} : call'[u] = call[u]
  BY <1>1, <1>2, <1>6
<1> QED BY <1>6, <1>7, <1>8, <1>10, <1>11

\* Nothing of the invariant is about what the command left behind, or about the
\* socket's ends.
LEMMA PinUnchanged ==
  ASSUME PinIInv,
         UNCHANGED <<mode, main, spawned, helper, child, HandOff, holders, Calls,
                     Supervision>>
  PROVE  PinIInv'
<1> USE DEF PinIInv, HandOff, Calls, Supervision
<1>1. PinShape'
  BY DEF PinShape
<1>2. HandOffOrder' /\ SpawnOrder' /\ RunnerHolds' /\ CallOfRunning'
  BY DEF HandOffOrder, SpawnOrder, RunnerHolds, CallOfRunning
<1>3. HandlingTrue' /\ PerformsWhatItRead' /\ CommandIsAnswered'
  BY DEF HandlingTrue, PerformsWhatItRead, CommandIsAnswered
<1> QED BY <1>1, <1>2, <1>3

LEMMA PinInitially == PinInit => PinIInv
<1> SUFFICES ASSUME PinInit PROVE PinIInv
  OBVIOUS
<1>1. PinShape
  BY NoCallTyped DEF PinInit, PinShape
<1>2. PerformsWhatItRead
  BY NoCallAllowed DEF PinInit, PerformsWhatItRead
<1>3. HandlingTrue
  BY NothingTyped DEF PinInit, HandlingTrue, AtWork
<1> QED BY <1>1, <1>2, <1>3 DEF PinInit, PinIInv, HandOffOrder, SpawnOrder, RunnerHolds,
       CallOfRunning, CommandIsAnswered, Tracees, Active, AtWork

\* The child, before it runs the command and after.
LEMMA ChildSteps ==
  ASSUME PinIInv, Prelude \/ Command
  PROVE  PinIInv'
<1> USE DEF PinIInv, Active, AtWork
<1>1. CASE Fork
  <2>1. PinShape'
    BY <1>1 DEF Fork, HandOff, Supervision, Calls, PinShape
  <2>2. HandOffOrder'
    BY <1>1 DEF Fork, HandOff, HandOffOrder
  <2>3. SpawnOrder'
    BY <1>1 DEF Fork, Supervision, SpawnOrder
  <2>4. CallOfRunning'
    BY <1>1 DEF Fork, Calls, CallOfRunning
  <2>5. CommandIsAnswered'
    BY <1>1 DEF Fork, Supervision, Calls, CommandIsAnswered
  <2>6. RunnerHolds' /\ HandlingTrue' /\ PerformsWhatItRead'
    BY <1>1 DEF Fork, Supervision, Calls, RunnerHolds, HandlingTrue, PerformsWhatItRead
  <2> QED BY <2>1, <2>2, <2>3, <2>4, <2>5, <2>6
<1>2. CASE Install
  <2>1. PinShape'
    BY <1>2 DEF Install, ChildQuiet, ChildGone, HandOff, Supervision, Calls, PinShape
  <2>2. HandOffOrder'
    BY <1>2 DEF Install, ChildQuiet, HandOff, HandOffOrder
  <2>3. SpawnOrder'
    BY <1>2 DEF Install, ChildQuiet, Supervision, SpawnOrder
  <2>4. RunnerHolds'
    BY <1>2 DEF Install, ChildQuiet, Supervision, RunnerHolds, HandOffOrder, SpawnOrder,
       Spawning
  <2>5. CallOfRunning'
    BY <1>2 DEF Install, ChildQuiet, Calls, CallOfRunning
  <2>6. CommandIsAnswered'
    BY <1>2 DEF Install, ChildQuiet, ChildGone, Supervision, Calls, CommandIsAnswered
  <2>7. HandlingTrue' /\ PerformsWhatItRead'
    BY <1>2 DEF Install, ChildQuiet, Supervision, Calls, HandlingTrue, PerformsWhatItRead
  <2> QED BY <2>1, <2>2, <2>3, <2>4, <2>5, <2>6, <2>7
<1>3. CASE Tell
  <2>1. PinShape'
    BY <1>3 DEF Tell, ChildQuiet, Supervision, Calls, PinShape
  <2>2. HandOffOrder'
    BY <1>3 DEF Tell, ChildQuiet, HandOffOrder
  <2>3. SpawnOrder'
    BY <1>3 DEF Tell, ChildQuiet, Supervision, SpawnOrder
  <2>4. RunnerHolds'
    BY <1>3 DEF Tell, ChildQuiet, Supervision, RunnerHolds
  <2>5. CallOfRunning'
    BY <1>3 DEF Tell, ChildQuiet, Calls, CallOfRunning
  <2>6. CommandIsAnswered'
    BY <1>3 DEF Tell, ChildQuiet, Supervision, Calls, CommandIsAnswered
  <2>7. HandlingTrue' /\ PerformsWhatItRead'
    BY <1>3 DEF Tell, ChildQuiet, Supervision, Calls, HandlingTrue, PerformsWhatItRead
  <2> QED BY <2>1, <2>2, <2>3, <2>4, <2>5, <2>6, <2>7
<1>4. CASE Exec
  <2>1. PinShape'
    BY <1>4 DEF Exec, ChildQuiet, ChildGone, HandOff, Supervision, Calls, PinShape
  <2>2. HandOffOrder'
    BY <1>4 DEF Exec, ChildQuiet, ChildGone, HandOff, HandOffOrder
  <2>3. SpawnOrder'
    BY <1>4 DEF Exec, ChildQuiet, Supervision, SpawnOrder
  <2>4. RunnerHolds'
    BY <1>4 DEF Exec, ChildQuiet, ChildGone, Supervision, RunnerHolds
  <2>5. CallOfRunning'
    BY <1>4 DEF Exec, ChildQuiet, Calls, CallOfRunning
  <2>6. CommandIsAnswered'
    BY <1>4 DEF Exec, ChildQuiet, ChildGone, Supervision, Calls, CommandIsAnswered,
       SpawnOrder, RunnerHolds, HandOffOrder, Spawning
  <2>7. HandlingTrue' /\ PerformsWhatItRead'
    BY <1>4 DEF Exec, ChildQuiet, Supervision, Calls, HandlingTrue, PerformsWhatItRead
  <2> QED BY <2>1, <2>2, <2>3, <2>4, <2>5, <2>6, <2>7
<1>5. CASE Leave
  BY <1>5, PinUnchanged DEF Leave
<1>6. CASE Exit
  <2>1. PinShape'
    BY <1>6 DEF Exit, ChildQuiet, ChildGone, HandOff, Supervision, Calls, PinShape
  <2>2. HandOffOrder'
    BY <1>6 DEF Exit, ChildQuiet, ChildGone, HandOff, HandOffOrder
  <2>3. SpawnOrder'
    BY <1>6 DEF Exit, ChildQuiet, ChildGone, Supervision, SpawnOrder
  <2>4. RunnerHolds'
    BY <1>6 DEF Exit, ChildQuiet, ChildGone, Supervision, RunnerHolds
  <2>5. CallOfRunning'
    BY <1>6 DEF Exit, ChildQuiet, Calls, CallOfRunning
  <2>6. CommandIsAnswered'
    BY <1>6 DEF Exit, ChildQuiet, ChildGone, Supervision, Calls, CommandIsAnswered
  <2>7. HandlingTrue' /\ PerformsWhatItRead'
    BY <1>6 DEF Exit, ChildQuiet, Supervision, Calls, HandlingTrue, PerformsWhatItRead
  <2> QED BY <2>1, <2>2, <2>3, <2>4, <2>5, <2>6, <2>7
<1>7. CASE Quieten
  BY <1>7, PinUnchanged DEF Quieten
<1>8. CASE Kill
  <2>1. PinShape'
    BY <1>8, NoCallTyped DEF Kill, ChildGone, Cancelled, HandOff, PinShape
  <2>2. HandOffOrder'
    BY <1>8 DEF Kill, ChildGone, HandOff, HandOffOrder
  <2>3. SpawnOrder'
    BY <1>8 DEF Kill, ChildGone, SpawnOrder
  <2>4. RunnerHolds'
    BY <1>8 DEF Kill, ChildGone, RunnerHolds
  <2>5. CallOfRunning'
    BY <1>8 DEF Kill, Cancelled, CallOfRunning, PinShape, Tracees
  <2>6. HandlingTrue'
    <3>1. UNCHANGED <<mode, supervisor>> /\ Cancelled("child")
      BY <1>8 DEF Kill
    <3> QED BY <3>1, CancelledTrue DEF Cancelled, Tracees
  <2>7. CommandIsAnswered'
    BY <1>8 DEF Kill, ChildGone, CommandIsAnswered
  <2>8. PerformsWhatItRead'
    BY <1>8 DEF Kill, PerformsWhatItRead
  <2> QED BY <2>1, <2>2, <2>3, <2>4, <2>5, <2>6, <2>7, <2>8
<1> QED BY <1>1, <1>2, <1>3, <1>4, <1>5, <1>6, <1>7, <1>8 DEF Prelude, Command

\* The two threads of the runner.
LEMMA RunnerSteps ==
  ASSUME PinIInv, RunnerStep
  PROVE  PinIInv'
<1> USE DEF PinIInv, Active, AtWork
<1>1. CASE Receive
  <2>1. /\ helper = "reading" /\ note = TRUE /\ note' = FALSE
        /\ \/ /\ ack' = TRUE /\ helper' = "lifted"
              /\ holders' = (holders \ {"wire"}) \cup {"runner"}
           \/ /\ ack' = ack /\ helper' = "failed" /\ holders' = holders \ {"wire"}
    BY <1>1 DEF Receive, HelperEnds
  <2>2. UNCHANGED <<mode, main, spawned, child, supervisor, handling, stop, broke, call,
                    reached, unsettled>>
    BY <1>1 DEF Receive, HelperEnds, Supervision, Calls
  <2>3. PinShape'
    BY <2>1, <2>2, ZenonT(60) DEF PinShape
  <2>4. HandOffOrder'
    <3>1. ack = FALSE /\ child \notin {"unborn", "forked", "filtered"}
      BY <2>1 DEF HandOffOrder
    <3>2. CASE ack' = TRUE /\ helper' = "lifted"
      BY <2>2, <3>1, <3>2 DEF HandOffOrder
    <3>3. CASE ack' = ack /\ helper' = "failed"
      BY <2>2, <3>1, <3>3 DEF HandOffOrder
    <3> QED BY <2>1, <3>2, <3>3
  <2>5. RunnerHolds' /\ CommandIsAnswered'
    BY <2>1, <2>2 DEF RunnerHolds, CommandIsAnswered
  <2>6. SpawnOrder' /\ CallOfRunning' /\ HandlingTrue' /\ PerformsWhatItRead'
    BY <2>2 DEF SpawnOrder, CallOfRunning, HandlingTrue, PerformsWhatItRead
  <2> QED BY <2>3, <2>4, <2>5, <2>6
<1>2. CASE ReceiveNothing
  <2>1. PinShape'
    BY <1>2 DEF ReceiveNothing, HelperEnds, HandOff, Supervision, Calls, PinShape
  <2>2. HandOffOrder'
    BY <1>2 DEF ReceiveNothing, HelperEnds, HandOff, HandOffOrder
  <2>3. RunnerHolds'
    BY <1>2 DEF ReceiveNothing, HelperEnds, Supervision, RunnerHolds
  <2>4. /\ SpawnOrder' /\ CallOfRunning'
        /\ HandlingTrue' /\ PerformsWhatItRead' /\ CommandIsAnswered'
    BY <1>2 DEF ReceiveNothing, HelperEnds, Supervision, Calls, SpawnOrder,
       CallOfRunning, HandlingTrue, PerformsWhatItRead, CommandIsAnswered
  <2> QED BY <2>1, <2>2, <2>3, <2>4
<1>3. CASE Spawned
  <2>1. PinShape'
    BY <1>3 DEF Spawned, MainQuiet, HandOff, Calls, PinShape
  <2>2. SpawnOrder'
    BY <1>3 DEF Spawned, MainQuiet, SpawnOrder, Spawning
  <2>3. RunnerHolds'
    BY <1>3 DEF Spawned, MainQuiet, RunnerHolds, Spawning
  <2>4. /\ HandOffOrder' /\ CallOfRunning'
        /\ HandlingTrue' /\ PerformsWhatItRead' /\ CommandIsAnswered'
    BY <1>3 DEF Spawned, MainQuiet, HandOff, Calls, HandOffOrder, CallOfRunning,
       HandlingTrue, PerformsWhatItRead, CommandIsAnswered
  <2> QED BY <2>1, <2>2, <2>3, <2>4
<1>4. CASE Join
  <2>1. PinShape'
    BY <1>4 DEF Join, MainQuiet, HandOff, Calls, PinShape
  <2>2. SpawnOrder'
    BY <1>4 DEF Join, MainQuiet, SpawnOrder, Spawning
  <2>3. RunnerHolds'
    BY <1>4 DEF Join, RunnerHolds, PinShape, SpawnOrder, Spawning
  <2>4. HandlingTrue'
    BY <1>4 DEF Join, MainQuiet, HandlingTrue, SpawnOrder, Spawning
  <2>5. CommandIsAnswered'
    BY <1>4 DEF Join, MainQuiet, Calls, CommandIsAnswered, SpawnOrder
  <2>6. HandOffOrder' /\ CallOfRunning' /\ PerformsWhatItRead'
    BY <1>4 DEF Join, MainQuiet, HandOff, Calls, HandOffOrder, CallOfRunning,
       PerformsWhatItRead
  <2> QED BY <2>1, <2>2, <2>3, <2>4, <2>5, <2>6
<1>5. CASE Reap
  <2>1. PinShape'
    BY <1>5 DEF Reap, MainQuiet, HandOff, Calls, PinShape
  <2>2. SpawnOrder'
    BY <1>5 DEF Reap, MainQuiet, SpawnOrder, Spawning
  <2>3. RunnerHolds'
    BY <1>5 DEF Reap, RunnerHolds, Spawning
  <2>4. /\ HandOffOrder' /\ CallOfRunning'
        /\ HandlingTrue' /\ PerformsWhatItRead' /\ CommandIsAnswered'
    BY <1>5 DEF Reap, MainQuiet, HandOff, Calls, HandOffOrder, CallOfRunning,
       HandlingTrue, PerformsWhatItRead, CommandIsAnswered
  <2> QED BY <2>1, <2>2, <2>3, <2>4
<1>6. CASE Collect
  <2>1. PinShape'
    BY <1>6 DEF Collect, MainQuiet, HandOff, Calls, PinShape
  <2>2. SpawnOrder'
    BY <1>6 DEF Collect, MainQuiet, SpawnOrder, Spawning
  <2>3. RunnerHolds'
    BY <1>6 DEF Collect, RunnerHolds, Spawning
  <2>4. /\ HandOffOrder' /\ CallOfRunning'
        /\ HandlingTrue' /\ PerformsWhatItRead' /\ CommandIsAnswered'
    BY <1>6 DEF Collect, MainQuiet, HandOff, Calls, HandOffOrder, CallOfRunning,
       HandlingTrue, PerformsWhatItRead, CommandIsAnswered
  <2> QED BY <2>1, <2>2, <2>3, <2>4
<1>7. CASE Return
  <2>1. PinShape'
    BY <1>7 DEF Return, MainQuiet, HandOff, Calls, PinShape
  <2>2. SpawnOrder'
    BY <1>7 DEF Return, MainQuiet, SpawnOrder, Spawning
  <2>3. RunnerHolds'
    BY <1>7 DEF Return, RunnerHolds, Spawning
  <2>4. /\ HandOffOrder' /\ CallOfRunning'
        /\ HandlingTrue' /\ PerformsWhatItRead' /\ CommandIsAnswered'
    BY <1>7 DEF Return, MainQuiet, HandOff, Calls, HandOffOrder, CallOfRunning,
       HandlingTrue, PerformsWhatItRead, CommandIsAnswered
  <2> QED BY <2>1, <2>2, <2>3, <2>4
<1> QED BY <1>1, <1>2, <1>3, <1>4, <1>5, <1>6, <1>7 DEF RunnerStep

\* The supervisor, once it has judged a call.
LEMMA SupervisorSteps ==
  ASSUME PinIInv, MakePlan \/ Respond \/ Park \/ Unpark \/ TimedOut \/ HungUp \/ Break
  PROVE  PinIInv'
<1> USE DEF PinIInv, Active, AtWork
<1>1. CASE MakePlan
  <2>1. PinShape'
    BY <1>1 DEF MakePlan, SupervisorQuiet, HandOff, Calls, PinShape
  <2>2. SpawnOrder'
    BY <1>1 DEF MakePlan, SupervisorQuiet, SpawnOrder
  <2>3. RunnerHolds'
    BY <1>1 DEF MakePlan, RunnerHolds
  <2>4. HandlingTrue'
    <3>1. /\ supervisor = "judged" /\ supervisor' = "planned"
          /\ UNCHANGED <<mode, call>>
      BY <1>1 DEF MakePlan, SupervisorQuiet, Calls
    <3>2. handling \in Handlings /\ handling.who \in Tracees
      BY <3>1 DEF HandlingTrue
    <3>3. ASSUME handling.fresh,
                 handling' = [handling EXCEPT !.copy = call[handling.who],
                                              !.plan = Plan(call[handling.who])]
          PROVE  HandlingTrue'
      <4>1. call[handling.who] \in PinCalls
        BY <3>2 DEF PinShape
      <4>2. /\ handling' \in Handlings /\ handling'.who = handling.who
            /\ handling'.copy = call[handling.who] /\ handling'.fresh = handling.fresh
            /\ handling'.plan = Plan(call[handling.who])
        BY <3>2, <3>3, <4>1, PlanTrue DEF Handlings, Plans
      <4> QED BY <3>1, <4>2, PlanTrue DEF HandlingTrue
    <3>4. ASSUME handling' = [handling EXCEPT !.plan = "deny"]
          PROVE  HandlingTrue'
      <4>1. /\ handling' \in Handlings /\ handling'.who = handling.who
            /\ handling'.plan = "deny" /\ handling'.fresh = handling.fresh
        BY <3>2, <3>4 DEF Handlings, Plans
      <4> QED BY <3>1, <4>1 DEF HandlingTrue
    <3> QED BY <1>1, <3>3, <3>4 DEF MakePlan
  <2>5. HandOffOrder' /\ CallOfRunning' /\ PerformsWhatItRead' /\ CommandIsAnswered'
    BY <1>1 DEF MakePlan, SupervisorQuiet, HandOff, Calls, HandOffOrder, CallOfRunning,
       PerformsWhatItRead, CommandIsAnswered
  <2> QED BY <2>1, <2>2, <2>3, <2>4, <2>5
<1>2. CASE Respond
  <2>1. PinShape'
    BY <1>2, NoCallTyped, ZenonT(60) DEF Respond, SupervisorQuiet, HandOff, PinShape
  <2>2. SpawnOrder'
    BY <1>2 DEF Respond, SupervisorQuiet, SpawnOrder
  <2>3. RunnerHolds'
    BY <1>2 DEF Respond, RunnerHolds
  <2>4. CallOfRunning'
    BY <1>2 DEF Respond, SupervisorQuiet, CallOfRunning, PinShape, Tracees
  <2>5. HandlingTrue'
    BY <1>2, HandlingDone DEF Respond
  <2>6. PerformsWhatItRead'
    <3>1. supervisor = "planned" /\ mode' = mode
      BY <1>2 DEF Respond, SupervisorQuiet
    <3>2. CASE ~handling.fresh
      BY <1>2, <3>1, <3>2 DEF Respond, PerformsWhatItRead
    <3>3. CASE handling.fresh
      <4>1. reached' = CASE handling.plan = "deny" -> reached
                         [] handling.plan = "continue" -> call[handling.who]
                         [] handling.plan = "emulate" -> handling.copy
        BY <1>2, <3>3 DEF Respond
      <4>2. mode = "emulated" =>
              /\ handling.plan \in {"deny", "continue", "emulate"}
              /\ handling.plan = "emulate" => NotifAllowed(handling.copy)
              /\ handling.plan = "continue" => NotifAllowed(call[handling.who])
        BY <3>1, <3>3, FixedAllowed DEF HandlingTrue
      <4> QED BY <3>1, <4>1, <4>2 DEF PerformsWhatItRead
    <3> QED BY <3>2, <3>3
  <2>7. HandOffOrder' /\ CommandIsAnswered'
    BY <1>2 DEF Respond, SupervisorQuiet, HandOff, HandOffOrder, CommandIsAnswered
  <2> QED BY <2>1, <2>2, <2>3, <2>4, <2>5, <2>6, <2>7
<1>3. CASE TimedOut
  <2>1. PinShape'
    BY <1>3 DEF TimedOut, SupervisorEnds, SupervisorQuiet, HandOff, Calls, PinShape
  <2>2. SpawnOrder'
    BY <1>3 DEF TimedOut, SupervisorQuiet, SpawnOrder
  <2>3. RunnerHolds'
    BY <1>3 DEF TimedOut, SupervisorEnds, SupervisorQuiet, RunnerHolds, SpawnOrder
  <2>4. HandlingTrue'
    BY <1>3, HandlingDone DEF TimedOut, SupervisorEnds
  <2>5. CommandIsAnswered'
    BY <1>3 DEF TimedOut, SupervisorEnds, SupervisorQuiet, Calls, LeavesWhen,
       CommandIsAnswered, SpawnOrder
  <2>6. HandOffOrder' /\ CallOfRunning' /\ PerformsWhatItRead'
    BY <1>3 DEF TimedOut, SupervisorEnds, SupervisorQuiet, HandOff, Calls, HandOffOrder,
       CallOfRunning, PerformsWhatItRead
  <2> QED BY <2>1, <2>2, <2>3, <2>4, <2>5, <2>6
<1>4. CASE HungUp
  <2>1. PinShape'
    BY <1>4 DEF HungUp, SupervisorEnds, SupervisorQuiet, HandOff, Calls, PinShape
  <2>2. SpawnOrder'
    BY <1>4 DEF HungUp, SupervisorQuiet, SpawnOrder
  <2>3. RunnerHolds'
    BY <1>4 DEF HungUp, SupervisorEnds, SupervisorQuiet, RunnerHolds, SpawnOrder
  <2>4. HandlingTrue'
    BY <1>4, HandlingDone DEF HungUp, SupervisorEnds
  <2>5. CommandIsAnswered'
    BY <1>4 DEF HungUp, SupervisorEnds, SupervisorQuiet, Calls, CommandIsAnswered
  <2>6. HandOffOrder' /\ CallOfRunning' /\ PerformsWhatItRead'
    BY <1>4 DEF HungUp, SupervisorEnds, SupervisorQuiet, HandOff, Calls, HandOffOrder,
       CallOfRunning, PerformsWhatItRead
  <2> QED BY <2>1, <2>2, <2>3, <2>4, <2>5, <2>6
<1>5. CASE Break
  <2>1. PinShape'
    BY <1>5 DEF Break, SupervisorEnds, SupervisorQuiet, HandOff, Calls, PinShape
  <2>2. SpawnOrder'
    BY <1>5 DEF Break, SupervisorQuiet, SpawnOrder
  <2>3. RunnerHolds'
    BY <1>5 DEF Break, SupervisorEnds, SupervisorQuiet, RunnerHolds, SpawnOrder
  <2>4. HandlingTrue'
    BY <1>5, HandlingDone DEF Break, SupervisorEnds
  <2>5. CommandIsAnswered'
    BY <1>5 DEF Break, CommandIsAnswered
  <2>6. HandOffOrder' /\ CallOfRunning' /\ PerformsWhatItRead'
    BY <1>5 DEF Break, SupervisorEnds, SupervisorQuiet, HandOff, Calls, HandOffOrder,
       CallOfRunning, PerformsWhatItRead
  <2> QED BY <2>1, <2>2, <2>3, <2>4, <2>5, <2>6
<1>6. CASE Park
  <2>1. PinShape'
    BY <1>6 DEF Park, SupervisorQuiet, HandOff, PinShape
  <2>2. SpawnOrder'
    BY <1>6 DEF Park, SupervisorQuiet, SpawnOrder
  <2>3. RunnerHolds'
    BY <1>6 DEF Park, RunnerHolds
  <2>4. HandlingTrue'
    BY <1>6 DEF Park, SupervisorQuiet, HandlingTrue
  <2>5. PerformsWhatItRead'
    BY <1>6 DEF Park, SupervisorQuiet, HandlingTrue, PerformsWhatItRead
  <2>6. HandOffOrder' /\ CallOfRunning' /\ CommandIsAnswered'
    BY <1>6 DEF Park, SupervisorQuiet, HandOff, HandOffOrder, CallOfRunning, CommandIsAnswered
  <2> QED BY <2>1, <2>2, <2>3, <2>4, <2>5, <2>6
<1>7. CASE Unpark
  <2>1. PinShape'
    BY <1>7, NoCallTyped DEF Unpark, SupervisorQuiet, HandOff, PinShape
  <2>2. SpawnOrder'
    BY <1>7 DEF Unpark, SupervisorQuiet, SpawnOrder
  <2>3. RunnerHolds'
    BY <1>7 DEF Unpark, RunnerHolds
  <2>4. CallOfRunning'
    BY <1>7 DEF Unpark, SupervisorQuiet, CallOfRunning, PinShape, Tracees
  <2>5. HandlingTrue'
    BY <1>7, HandlingDone DEF Unpark
  <2>6. HandOffOrder' /\ PerformsWhatItRead' /\ CommandIsAnswered'
    BY <1>7 DEF Unpark, SupervisorQuiet, HandOff, HandOffOrder, PerformsWhatItRead,
       CommandIsAnswered
  <2> QED BY <2>1, <2>2, <2>3, <2>4, <2>5, <2>6
<1> QED BY <1>1, <1>2, <1>3, <1>4, <1>5, <1>6, <1>7

\* A process's calls, and the supervisor's first look at one.
LEMMA CallSteps ==
  ASSUME PinIInv, NEW t \in Tracees,
         Call(t) \/ Rewrite(t) \/ Interrupt(t) \/ Enosys(t) \/ Judge(t)
  PROVE  PinIInv'
<1> USE DEF PinIInv, Active, AtWork
<1>1. CASE Call(t)
  <2>1. PinShape'
    <3>1. PICK c \in CallSet : c.op \in Trapped /\ call' = [call EXCEPT ![t] = c]
      BY <1>1 DEF Call
    <3>2. c \in PinCalls /\ c.op # "none"
      BY PinAssumption DEF PinCalls, Ops
    <3>3. call' \in [Tracees -> PinCalls]
      BY <3>1, <3>2 DEF PinShape
    <3>4. \A u \in Tracees : call'[u] = NoCall \/ call'[u].op # "none"
      BY <3>1, <3>2 DEF PinShape
    <3> QED BY <1>1, <3>3, <3>4, ZenonT(60) DEF Call, HandOff, Supervision, PinShape
  <2>2. CallOfRunning'
    BY <1>1 DEF Call, Alive, CallOfRunning, Tracees
  <2>3. HandlingTrue'
    BY <1>1 DEF Call, Supervision, HandlingTrue
  <2>4. /\ HandOffOrder' /\ SpawnOrder'
        /\ RunnerHolds' /\ PerformsWhatItRead' /\ CommandIsAnswered'
    BY <1>1 DEF Call, HandOff, Supervision, HandOffOrder, SpawnOrder, RunnerHolds,
       PerformsWhatItRead, CommandIsAnswered
  <2> QED BY <2>1, <2>2, <2>3, <2>4
<1>2. CASE Rewrite(t)
  <2>1. PinShape'
    <3>1. \A u \in Tracees : call'[u] = NoCall \/ call'[u].op # "none"
      BY <1>2, RewriteTrue DEF PinShape
    <3> QED BY <1>2, <3>1, RewriteTrue, ZenonT(60) DEF Rewrite, HandOff, Supervision, PinShape
  <2>2. CallOfRunning'
    BY <1>2, RewriteTrue DEF Rewrite, CallOfRunning, Tracees
  <2>3. HandlingTrue'
    <3>1. UNCHANGED <<mode, supervisor, handling>>
      BY <1>2 DEF Rewrite, Supervision
    <3> QED BY <1>2, <3>1, RewriteTrue DEF HandlingTrue
  <2>4. /\ HandOffOrder' /\ SpawnOrder'
        /\ RunnerHolds' /\ PerformsWhatItRead' /\ CommandIsAnswered'
    BY <1>2 DEF Rewrite, HandOff, Supervision, HandOffOrder, SpawnOrder, RunnerHolds,
       PerformsWhatItRead, CommandIsAnswered
  <2> QED BY <2>1, <2>2, <2>3, <2>4
<1>3. CASE Interrupt(t)
  <2>1. PinShape'
    BY <1>3, NoCallTyped, ZenonT(60) DEF Interrupt, Cancelled, HandOff, PinShape
  <2>2. CallOfRunning'
    BY <1>3 DEF Interrupt, Cancelled, CallOfRunning, Tracees
  <2>3. HandlingTrue'
    <3>1. UNCHANGED <<mode, supervisor>> /\ Cancelled(t)
      BY <1>3 DEF Interrupt
    <3> QED BY <3>1, CancelledTrue DEF Cancelled
  <2>4. /\ HandOffOrder' /\ SpawnOrder'
        /\ RunnerHolds' /\ PerformsWhatItRead' /\ CommandIsAnswered'
    BY <1>3 DEF Interrupt, HandOff, HandOffOrder, SpawnOrder, RunnerHolds,
       PerformsWhatItRead, CommandIsAnswered
  <2> QED BY <2>1, <2>2, <2>3, <2>4
<1>4. CASE Enosys(t)
  <2>1. PinShape'
    BY <1>4, NoCallTyped DEF Enosys, HandOff, Supervision, PinShape
  <2>2. CallOfRunning'
    BY <1>4 DEF Enosys, CallOfRunning, Tracees
  <2>3. HandlingTrue'
    <3>1. UNCHANGED <<mode, supervisor, handling>> /\ holders = {}
      BY <1>4 DEF Enosys, Supervision
    <3>2. supervisor \notin AtWork
      BY <3>1 DEF RunnerHolds
    <3> QED BY <3>1, <3>2 DEF HandlingTrue
  <2>4. CommandIsAnswered'
    BY <1>4 DEF Enosys, Supervision, CommandIsAnswered, CallOfRunning
  <2>5. HandOffOrder' /\ SpawnOrder' /\ RunnerHolds' /\ PerformsWhatItRead'
    BY <1>4 DEF Enosys, HandOff, Supervision, HandOffOrder, SpawnOrder, RunnerHolds,
       PerformsWhatItRead
  <2> QED BY <2>1, <2>2, <2>3, <2>4, <2>5
<1>5. CASE Judge(t)
  <2>1. PinShape'
    BY <1>5 DEF Judge, SupervisorQuiet, HandOff, Calls, PinShape
  <2>2. SpawnOrder'
    BY <1>5 DEF Judge, SupervisorQuiet, SpawnOrder
  <2>3. RunnerHolds'
    BY <1>5 DEF Judge, RunnerHolds
  <2>4. HandlingTrue'
    <3>1. /\ call[t] # NoCall
          /\ UNCHANGED <<mode, call>>
          /\ handling'.who = t /\ handling'.fresh = TRUE /\ handling'.copy = NoCall
          /\ handling'.plan \in {"deny", "continue", "none"}
          /\ handling'.plan = "continue" => mode = "connect only"
          /\ supervisor' = IF handling'.plan = "none" THEN "judged" ELSE "planned"
      BY <1>5 DEF Judge, Pending, SupervisorQuiet, Calls
    <3>2. handling' \in Handlings
      BY <1>5, NoCallTyped DEF Judge, Handlings, Plans
    <3> QED BY <3>1, <3>2 DEF HandlingTrue
  <2>5. HandOffOrder' /\ CallOfRunning' /\ PerformsWhatItRead' /\ CommandIsAnswered'
    BY <1>5 DEF Judge, SupervisorQuiet, HandOff, Calls, HandOffOrder, CallOfRunning,
       PerformsWhatItRead, CommandIsAnswered
  <2> QED BY <2>1, <2>2, <2>3, <2>4, <2>5
<1> QED BY <1>1, <1>2, <1>3, <1>4, <1>5

LEMMA PinStepKeeps == PinIInv /\ [PinNext]_pinVars => PinIInv'
<1> SUFFICES ASSUME PinIInv, [PinNext]_pinVars PROVE PinIInv'
  OBVIOUS
<1>1. CASE UNCHANGED pinVars
  BY <1>1, PinUnchanged DEF pinVars, HandOff, Calls, Supervision
<1>2. CASE PinNext
  BY <1>1, ChildSteps, RunnerSteps, SupervisorSteps, CallSteps DEF PinNext, PinOver
<1> QED BY <1>1, <1>2

LEMMA PinAlways == PinSpec => []PinIInv
BY PinInitially, PinStepKeeps, PTL DEF PinSpec

\* Whatever calls a command makes, and whatever its threads write meanwhile, a
\* supervisor waiting for the next notification is at nothing, and nobody but
\* the child, the runner and the socket between them holds a listener.
THEOREM PinTypeCorrect == PinSpec => []PinTypeOK
<1>1. PinIInv => PinTypeOK
  BY DEF PinIInv, PinShape, PinCalls, HandlingTrue, AtWork, PinTypeOK
<1> QED BY <1>1, PinAlways, PTL

\* The hard pin's promise (plan, respond): for any set of calls, what the
\* supervisor performs for the command is a call it was allowed when its memory
\* was read for the last time.
THEOREM OnlyTheAllowedIsPerformed == PinSpec => []PerformsWhatItRead
<1>1. PinIInv => PerformsWhatItRead
  BY DEF PinIInv
<1> QED BY <1>1, PinAlways, PTL

\* The order of the hand-off (install_and_signal, lift_listener): a command that
\* runs has its listener held by the runner, and no call of its own is lost.
THEOREM NoCallOfTheCommandIsLost == PinSpec => []CommandIsAnswered
<1>1. PinIInv => CommandIsAnswered
  BY DEF PinIInv
<1> QED BY <1>1, PinAlways, PTL

(***************************************************************************)
(* A connection through the proxy                                          *)
(***************************************************************************)

Written(t) == Len(TunnelOf(t)) - t.missing
Sent(t) == SubSeq(TunnelOf(t), 1, Written(t))
Octets(t) == {CR, LF, Text} \cup {TunnelOf(t)[n] : n \in DOMAIN TunnelOf(t)}

Peeks == {"first", "header", "body"}

ProxyShape ==
  /\ ProxyTypeOK
  /\ {unread, inHand, handshake, upstream} \subseteq Seq(Octets(talk))

\* Short of the tunnel nothing has gone to the host; till the records are taken
\* apart, none has been.
Unspent ==
  /\ stage \in {"head", "asked", "dial", "forward"} \cup Peeks => upstream = <<>>
  /\ stage \in {"head", "asked", "dial", "first"} => consumed = 0 /\ handshake = <<>>

InTheHead == stage = "head" => /\ inHand \o unread = WireOf(talk)
                               /\ Len(inHand) < talk.head + 4

PastTheHead ==
  stage \in {"asked", "dial", "forward"} \cup Peeks =>
    Written(talk) >= 0 /\ inHand \o unread = Sent(talk)

InTheTunnel ==
  stage = "tunnel" => Written(talk) >= 0 /\ upstream \o unread = Sent(talk)

NotRefused == stage \in {"dial", "forward", "tunnel"} \cup Peeks => Refusal = "none"

\* The first k records are taken apart, and they do not carry the whole hello.
TakenApart(k) ==
  /\ k \in 0 .. Len(talk.cuts) /\ talk.cuts # <<>>
  /\ talk.alien \notin 1 .. k /\ talk.alien # 1
  /\ consumed = Wire(talk, k) /\ consumed <= Len(inHand) /\ consumed <= PeekCap
  /\ Len(inHand) >= 1
  /\ Len(handshake) = Carried(talk, k)
  /\ \A j \in 1 .. Len(handshake) : handshake[j] = HelloByte(talk, j)
  /\ Carried(talk, k) < 2 + talk.size
  /\ Carried(talk, k) >= 2 => talk.size + 4 <= PeekCap

Opened(k) ==
  /\ k < Len(talk.cuts) /\ talk.alien # k + 1
  /\ Wire(talk, k + 1) <= PeekCap
  /\ Len(inHand) >= consumed + 2

InTheRecords ==
  stage \in {"header", "body"} =>
    \E k \in 0 .. Len(talk.cuts) : TakenApart(k) /\ (stage = "body" => Opened(k))

Granted == stage \in {"forward", "tunnel"} => Promised(talk) = "tunnelled"

ProxyIInv ==
  /\ ProxyShape /\ Unspent /\ InTheHead /\ PastTheHead /\ InTheTunnel /\ NotRefused
  /\ InTheRecords /\ Granted
  /\ stage = "over" => BytesDecide

\* What a read of n bytes makes of what is in hand and what is unread, and what is
\* left of two texts that are one once the first part of one is cut off.
Kept(S, a, b, n) ==
  /\ SubSeq(b, n + 1, Len(b)) \in Seq(S)
  /\ a \o SubSeq(b, 1, n) \in Seq(S)
  /\ Len(a \o SubSeq(b, 1, n)) = Len(a) + n
  /\ Len(SubSeq(b, n + 1, Len(b))) = Len(b) - n
  /\ (a \o SubSeq(b, 1, n)) \o SubSeq(b, n + 1, Len(b)) = a \o b

Past(S, a, b, h, s) ==
  /\ SubSeq(a, Len(h) + 1, Len(a)) \in Seq(S)
  /\ SubSeq(a, Len(h) + 1, Len(a)) \o b = s

\* A read moves bytes from what is unread and changes no byte.
LEMMA ReadKeeps ==
  ASSUME NEW S, NEW a \in Seq(S), NEW b \in Seq(S), NEW n \in 0 .. Len(b)
  PROVE  Kept(S, a, b, n)
<1>1. \A i \in 1 .. n : b[i] \in S
  OBVIOUS
<1>2. \A i \in n + 1 .. Len(b) : b[i] \in S
  OBVIOUS
<1>3. /\ SubSeq(b, 1, n) \in Seq(S)
      /\ Len(SubSeq(b, 1, n)) = n
  <2>1. /\ SubSeq(b, 1, n) \in Seq(S)
        /\ Len(SubSeq(b, 1, n)) = IF 1 <= n THEN n - 1 + 1 ELSE 0
    BY <1>1, SubSeqProperties
  <2> QED BY <2>1
<1>4. /\ SubSeq(b, n + 1, Len(b)) \in Seq(S)
      /\ Len(SubSeq(b, n + 1, Len(b))) = Len(b) - n
  <2>1. /\ SubSeq(b, n + 1, Len(b)) \in Seq(S)
        /\ Len(SubSeq(b, n + 1, Len(b))) =
             IF n + 1 <= Len(b) THEN Len(b) - (n + 1) + 1 ELSE 0
    BY <1>2, SubSeqProperties
  <2> QED BY <2>1
<1>5. SubSeq(b, 1, n) \o SubSeq(b, n + 1, Len(b)) = b
  <2>1. SubSeq(b, 1, n) \o SubSeq(b, n + 1, Len(b)) = SubSeq(b, 1, Len(b))
    <3>1. 1 \in 1 .. Len(b) + 1 /\ n \in 1 - 1 .. Len(b) /\ Len(b) \in n .. Len(b)
      OBVIOUS
    <3> QED BY <3>1, ConcatAdjacentSubSeq
  <2> QED BY <2>1, SubSeqFull
<1>6. (a \o SubSeq(b, 1, n)) \o SubSeq(b, n + 1, Len(b))
        = a \o (SubSeq(b, 1, n) \o SubSeq(b, n + 1, Len(b)))
  <2>1. ASSUME NEW c \in Seq(S), NEW d \in Seq(S)
        PROVE  (a \o c) \o d = a \o (c \o d)
    BY ONLY ConcatAssociative, SMTT(60)
  <2> QED BY <2>1, <1>3, <1>4
<1>7. /\ a \o SubSeq(b, 1, n) \in Seq(S)
      /\ Len(a \o SubSeq(b, 1, n)) = Len(a) + n
  BY <1>3, ConcatProperties
<1> QED BY <1>4, <1>5, <1>6, <1>7 DEF Kept

\* What comes first in a text is its first bytes.
LEMMA FirstBytes ==
  ASSUME NEW S, NEW a \in Seq(S), NEW b \in Seq(S), NEW w, a \o b = w
  PROVE  /\ w \in Seq(S) /\ Len(w) = Len(a) + Len(b)
         /\ \A i \in 1 .. Len(a) : a[i] = w[i]
         /\ \A i \in 1 .. Len(b) : b[i] = w[Len(a) + i]
<1>1. /\ w \in Seq(S) /\ Len(w) = Len(a) + Len(b)
      /\ \A i \in 1 .. Len(a) + Len(b) :
           w[i] = IF i <= Len(a) THEN a[i] ELSE b[i - Len(a)]
  BY ConcatProperties
<1>2. ASSUME NEW i \in 1 .. Len(b) PROVE b[i] = w[Len(a) + i]
  <2>1. Len(a) + i \in 1 .. Len(a) + Len(b) /\ ~(Len(a) + i <= Len(a))
    OBVIOUS
  <2>2. (Len(a) + i) - Len(a) = i
    OBVIOUS
  <2> QED BY <1>1, <2>1, <2>2
<1> QED BY <1>1, <1>2

LEMMA TwoParts ==
  \A S : \A a, b \in Seq(S) :
    /\ a \o b \in Seq(S) /\ Len(a \o b) = Len(a) + Len(b)
    /\ \A i \in 1 .. Len(a) : a[i] = (a \o b)[i]
    /\ \A i \in 1 .. Len(b) : b[i] = (a \o b)[Len(a) + i]
<1> SUFFICES ASSUME NEW S, NEW a \in Seq(S), NEW b \in Seq(S), NEW w, w = a \o b
             PROVE  /\ w \in Seq(S) /\ Len(w) = Len(a) + Len(b)
                    /\ \A i \in 1 .. Len(a) : a[i] = w[i]
                    /\ \A i \in 1 .. Len(b) : b[i] = w[Len(a) + i]
  OBVIOUS
<1> QED BY FirstBytes

\* What is left of two texts that are the same once the first of one is cut off.
LEMMA CutPast ==
  ASSUME NEW S, NEW a \in Seq(S), NEW b \in Seq(S), NEW h \in Seq(S), NEW s \in Seq(S),
         a \o b = h \o s, Len(a) >= Len(h)
  PROVE  Past(S, a, b, h, s)
<1> DEFINE cut == SubSeq(a, Len(h) + 1, Len(a))
<1>1. \A i \in Len(h) + 1 .. Len(a) : a[i] \in S
  OBVIOUS
<1>2. /\ cut \in Seq(S)
      /\ Len(cut) = Len(a) - Len(h)
      /\ \A i \in 1 .. Len(a) - Len(h) : cut[i] = a[Len(h) + i]
  <2>1. /\ cut \in Seq(S)
        /\ Len(cut) = IF Len(h) + 1 <= Len(a) THEN Len(a) - (Len(h) + 1) + 1 ELSE 0
        /\ \A i \in 1 .. Len(a) - (Len(h) + 1) + 1 : cut[i] = a[Len(h) + 1 + i - 1]
    BY <1>1, SubSeqProperties
  <2> HIDE DEF cut
  <2>2. \A i \in 1 .. Len(a) - Len(h) : Len(h) + 1 + i - 1 = Len(h) + i
    OBVIOUS
  <2> QED BY <2>1, <2>2
<1> HIDE DEF cut
<1>w. PICK w : w = a \o b /\ w = h \o s
  OBVIOUS
<1>3. /\ Len(w) = Len(a) + Len(b)
      /\ \A i \in 1 .. Len(a) : a[i] = w[i]
      /\ \A i \in 1 .. Len(b) : b[i] = w[Len(a) + i]
  <2>1. /\ Len(a \o b) = Len(a) + Len(b)
        /\ \A i \in 1 .. Len(a) : a[i] = (a \o b)[i]
        /\ \A i \in 1 .. Len(b) : b[i] = (a \o b)[Len(a) + i]
    BY ONLY TwoParts
  <2> QED BY <2>1, <1>w
<1>4. /\ Len(w) = Len(h) + Len(s)
      /\ \A i \in 1 .. Len(s) : s[i] = w[Len(h) + i]
  <2>1. /\ Len(h \o s) = Len(h) + Len(s)
        /\ \A i \in 1 .. Len(s) : s[i] = (h \o s)[Len(h) + i]
    BY ONLY TwoParts
  <2> QED BY <2>1, <1>w
<1>5. /\ cut \o b \in Seq(S)
      /\ Len(cut \o b) = Len(cut) + Len(b)
      /\ \A i \in 1 .. Len(cut) + Len(b) :
           (cut \o b)[i] = IF i <= Len(cut) THEN cut[i] ELSE b[i - Len(cut)]
  BY <1>2, ConcatProperties
<1>6. Len(cut \o b) = Len(s)
  BY <1>2, <1>3, <1>4, <1>5
<1>7. ASSUME NEW i \in 1 .. Len(s) PROVE (cut \o b)[i] = s[i]
  <2>1. i \in 1 .. Len(cut) + Len(b)
    BY <1>5, <1>6
  <2>2. CASE i <= Len(cut)
    <3>1. i \in 1 .. Len(a) - Len(h) /\ Len(h) + i \in 1 .. Len(a)
      BY <1>2, <2>2
    <3>2. cut[i] = w[Len(h) + i]
      BY <1>2, <1>3, <3>1
    <3> QED BY <1>4, <1>5, <2>1, <2>2, <3>2
  <2>3. CASE ~(i <= Len(cut))
    <3>1. i - Len(cut) \in 1 .. Len(b)
      BY <1>2, <2>1, <2>3
    <3>2. Len(a) + (i - Len(cut)) = Len(h) + i
      BY <1>2
    <3>3. b[i - Len(cut)] = w[Len(h) + i]
      BY <1>3, <3>1, <3>2
    <3> QED BY <1>4, <1>5, <2>1, <2>3, <3>3
  <2> QED BY <2>2, <2>3
<1>8. cut \o b = s
  BY <1>5, <1>6, <1>7, SeqEqual
<1> QED BY <1>2, <1>8 DEF cut, Past

\* What the assumption says of a client.
LEMMA TalkIs ==
  ASSUME NEW t \in Talks
  PROVE  /\ t.head \in Nat /\ t.size \in Nat /\ t.size >= 1 /\ t.alien \in Nat /\ t.after \in Nat
         /\ t.cuts \in Seq(Nat) /\ Len(t.cuts) \in Nat
         /\ \A i, j \in 1 .. Len(t.cuts) : i <= j => t.cuts[i] <= t.cuts[j]
         /\ t.missing \in 0 .. t.head + 4 + Len(TunnelOf(t))
         /\ t.connect \in BOOLEAN /\ t.allowed \in BOOLEAN /\ t.port \in BOOLEAN
<1>1. /\ t.head \in Nat /\ t.size \in Nat \ {0} /\ t.alien \in Nat /\ t.after \in Nat
      /\ t.cuts \in Seq(Nat)
      /\ \A i, j \in DOMAIN t.cuts : i <= j => t.cuts[i] <= t.cuts[j]
      /\ t.missing \in 0 .. t.head + 4 + Len(TunnelOf(t))
      /\ {t.connect, t.allowed, t.port} \subseteq BOOLEAN
  BY ProxyAssumption
<1>2. Len(t.cuts) \in Nat /\ DOMAIN t.cuts = 1 .. Len(t.cuts)
  <2>1. t.cuts \in Seq(Nat)
    BY <1>1
  <2> QED BY ONLY <2>1, LenProperties
<1>3. t.size \in Nat /\ t.size >= 1
  <2>1. t.size \in Nat \ {0}
    BY <1>1
  <2> QED BY <2>1
<1>4. \A i, j \in 1 .. Len(t.cuts) : i <= j => t.cuts[i] <= t.cuts[j]
  BY <1>1, <1>2, Zenon
<1>5. t.connect \in BOOLEAN /\ t.allowed \in BOOLEAN /\ t.port \in BOOLEAN
  BY <1>1, Zenon
<1> QED BY <1>1, <1>2, <1>3, <1>4, <1>5, Zenon

\* Records carry more and more of the hello, and each takes two bytes at least.
LEMMA WiresGrow ==
  ASSUME NEW t \in Talks
  PROVE  /\ \A i \in 0 .. Len(t.cuts) : Carried(t, i) \in Nat /\ Wire(t, i) \in Nat
         /\ \A i, j \in 0 .. Len(t.cuts) :
              i < j => Carried(t, i) <= Carried(t, j) /\ Wire(t, i) + 2 <= Wire(t, j)
<1>1. \A i \in 0 .. Len(t.cuts) : Carried(t, i) \in Nat
  <2> TAKE i \in 0 .. Len(t.cuts)
  <2>1. CASE i = 0
    BY <2>1 DEF Carried
  <2>2. CASE i # 0
    <3>1. i \in 1 .. Len(t.cuts) /\ t.cuts \in Seq(Nat)
      BY <2>2, TalkIs
    <3>2. t.cuts[i] \in Nat
      BY <3>1, ElementOfSeq
    <3> QED BY <3>2, <2>2 DEF Carried
  <2> QED BY <2>1, <2>2
<1>2. \A i \in 0 .. Len(t.cuts) : Wire(t, i) \in Nat
  BY <1>1 DEF Wire
<1>3. ASSUME NEW i \in 0 .. Len(t.cuts), NEW j \in 0 .. Len(t.cuts), i < j
      PROVE  Carried(t, i) <= Carried(t, j)
  <2>1. Carried(t, j) = t.cuts[j] /\ j \in 1 .. Len(t.cuts)
    BY <1>3, TalkIs DEF Carried
  <2>2. CASE i = 0
    BY <2>2, <1>1 DEF Carried
  <2>3. CASE i # 0
    <3>1. Carried(t, i) = t.cuts[i] /\ i \in 1 .. Len(t.cuts)
      BY <2>3, TalkIs DEF Carried
    <3> QED BY <3>1, <2>1, <1>3, TalkIs
  <2> QED BY <2>2, <2>3
<1>4. ASSUME NEW i \in 0 .. Len(t.cuts), NEW j \in 0 .. Len(t.cuts), i < j
      PROVE  Wire(t, i) + 2 <= Wire(t, j)
  <2>1. Carried(t, i) <= Carried(t, j)
    BY <1>3, <1>4
  <2>2. Carried(t, i) \in Nat /\ Carried(t, j) \in Nat
    BY <1>1
  <2> QED BY <2>1, <2>2, <1>4 DEF Wire
<1> QED BY <1>1, <1>2, <1>3, <1>4

\* The tunnel's bytes, and how many the client writes of them.
LEMMA TunnelIs ==
  ASSUME NEW t \in Talks
  PROVE  /\ TunnelOf(t) \in Seq(Octets(t))
         /\ Len(TunnelOf(t)) = Wire(t, Len(t.cuts)) + t.after
         /\ Len(TunnelOf(t)) \in Nat
         /\ Written(t) \in Int /\ Written(t) <= Len(TunnelOf(t))
         /\ t.head + 4 + Written(t) \in Nat
<1> DEFINE n == Wire(t, Len(t.cuts)) + t.after
           T == TunnelOf(t)
<1>1. n \in Nat
  <2>1. Len(t.cuts) \in 0 .. Len(t.cuts) /\ t.after \in Nat
    BY TalkIs
  <2> QED BY <2>1, WiresGrow
<1>2. DOMAIN T = 1 .. n /\ T = [i \in 1 .. n |-> T[i]]
  BY DEF TunnelOf
<1>3. \A i \in 1 .. n : T[i] \in Octets(t)
  BY <1>2 DEF Octets
<1>4. T \in [1 .. n -> Octets(t)]
  <2> HIDE DEF n, T
  <2> QED BY <1>2, <1>3
<1>5. T \in Seq(Octets(t)) /\ Len(T) = n
  <2> HIDE DEF n, T
  <2>1. T \in Seq(Octets(t))
    BY <1>1, <1>4, SeqDef
  <2>2. Len(T) \in Nat /\ DOMAIN T = 1 .. Len(T)
    BY <2>1, LenProperties
  <2> QED BY <2>1, <2>2, <1>1, <1>2
<1>6. Written(t) \in Int /\ Written(t) <= n /\ t.head + 4 + Written(t) \in Nat
  <2>1. t.missing \in 0 .. t.head + 4 + n /\ t.head \in Nat
    BY <1>5, TalkIs
  <2>2. Written(t) = n - t.missing
    BY <1>5 DEF Written
  <2> HIDE DEF n
  <2> QED BY <1>1, <2>1, <2>2
<1> QED BY <1>1, <1>5, <1>6

\* Which record a byte of the tunnel is in, and what it is there.
LEMMA RecordBytes ==
  ASSUME NEW t \in Talks, NEW k \in Nat, k < Len(t.cuts),
         NEW r \in Nat, r >= 1, r <= Wire(t, k + 1) - Wire(t, k)
  PROVE  /\ Wire(t, k) + r \in 1 .. Len(TunnelOf(t))
         /\ TunnelOf(t)[Wire(t, k) + r] = RecordByte(t, k + 1, r)
<1> DEFINE n == Wire(t, k) + r
           last == Wire(t, Len(t.cuts))
<1>1. /\ k \in 0 .. Len(t.cuts) /\ k + 1 \in 0 .. Len(t.cuts)
      /\ k + 1 \in 1 .. Len(t.cuts) /\ (k + 1) - 1 = k
      /\ Len(t.cuts) \in 0 .. Len(t.cuts)
      /\ DOMAIN t.cuts = 1 .. Len(t.cuts)
  <2>1. Len(t.cuts) \in Nat /\ t.cuts \in Seq(Nat)
    BY TalkIs
  <2>2. DOMAIN t.cuts = 1 .. Len(t.cuts)
    BY ONLY <2>1, LenProperties
  <2> QED BY <2>1, <2>2
<1>2. Wire(t, k) \in Nat /\ Wire(t, k + 1) \in Nat /\ last \in Nat
  BY <1>1, WiresGrow
<1>3. n \in Nat /\ n >= 1 /\ Wire(t, k) < n /\ n <= Wire(t, k + 1)
  <2> HIDE DEF last
  <2> QED BY <1>2
<1>4. Wire(t, k + 1) <= last
  <2>1. CASE k + 1 = Len(t.cuts)
    BY <2>1, <1>2
  <2>2. CASE k + 1 # Len(t.cuts)
    <3>1. k + 1 < Len(t.cuts)
      BY <2>2, <1>1
    <3>2. Wire(t, k + 1) + 2 <= last
      BY <3>1, <1>1, WiresGrow
    <3> HIDE DEF last
    <3> QED BY <3>2, <1>2
  <2> QED BY <2>1, <2>2
<1>5. n \in 1 .. last + t.after /\ ~(n > last)
  <2>1. t.after \in Nat
    BY TalkIs
  <2> HIDE DEF last, n
  <2> QED BY <2>1, <1>2, <1>3, <1>4
<1>6. RecordAt(t, n) = k + 1
  <2> HIDE DEF last, n
  <2>1. ASSUME NEW i \in DOMAIN t.cuts, Wire(t, i - 1) < n /\ n <= Wire(t, i)
        PROVE  i = k + 1
    <3>1. i \in 0 .. Len(t.cuts) /\ i - 1 \in 0 .. Len(t.cuts)
      BY <1>1
    <3>2. Wire(t, i) \in Nat /\ Wire(t, i - 1) \in Nat
      BY <3>1, WiresGrow
    <3>3. CASE i < k + 1
      <4>1. i = k \/ i < k
        BY <3>1, <3>3, <1>1
      <4>2. Wire(t, i) <= Wire(t, k)
        <5>1. i < k => Wire(t, i) + 2 <= Wire(t, k)
          BY <3>1, <1>1, WiresGrow
        <5> QED BY <5>1, <4>1, <3>2, <1>2
      <4> QED BY <4>2, <2>1, <3>2, <1>2, <1>3
    <3>4. CASE i > k + 1
      <4>1. i - 1 = k + 1 \/ k + 1 < i - 1
        BY <3>1, <3>4, <1>1
      <4>2. Wire(t, k + 1) <= Wire(t, i - 1)
        <5>1. k + 1 < i - 1 => Wire(t, k + 1) + 2 <= Wire(t, i - 1)
          BY <3>1, <1>1, WiresGrow
        <5> QED BY <5>1, <4>1, <3>2, <1>2
      <4> QED BY <4>2, <2>1, <3>2, <1>2, <1>3
    <3> QED BY <3>1, <3>3, <3>4
  <2>2. k + 1 \in DOMAIN t.cuts /\ Wire(t, (k + 1) - 1) < n /\ n <= Wire(t, k + 1)
    BY <1>1, <1>3
  <2> QED BY <2>1, <2>2 DEF RecordAt
<1>7. n - Wire(t, RecordAt(t, n) - 1) = r
  BY <1>1, <1>2, <1>6
<1>8. TunnelOf(t)[n] = IF n > last THEN Text
                       ELSE RecordByte(t, RecordAt(t, n), n - Wire(t, RecordAt(t, n) - 1))
  BY <1>5 DEF TunnelOf
<1>9. TunnelOf(t)[n] = RecordByte(t, k + 1, r)
  <2> HIDE DEF last, n
  <2> QED BY <1>5, <1>6, <1>7, <1>8
<1> QED BY <1>5, <1>9, TunnelIs

\* What follows the records is plain.
LEMMA PlainBytes ==
  ASSUME NEW t \in Talks, NEW n \in 1 .. Len(TunnelOf(t)), n > Wire(t, Len(t.cuts))
  PROVE  TunnelOf(t)[n] = Text
<1>1. n \in 1 .. Wire(t, Len(t.cuts)) + t.after
  BY TunnelIs
<1> QED BY <1>1 DEF TunnelOf

LEMMA HeadIs ==
  ASSUME NEW t \in Talks
  PROVE  /\ HeadOf(t) \in Seq(Octets(t))
         /\ Len(HeadOf(t)) = t.head + 4 /\ t.head \in Nat
         /\ \A i \in 1 .. t.head : HeadOf(t)[i] = Text
         /\ HeadOf(t)[t.head + 1] = CR /\ HeadOf(t)[t.head + 2] = LF
         /\ HeadOf(t)[t.head + 3] = CR /\ HeadOf(t)[t.head + 4] = LF
<1> DEFINE h == t.head
           b == Bytes(h)
           e == <<CR, LF, CR, LF>>
           S == Octets(t)
<1>1. h \in Nat
  BY TalkIs
<1>2. Text \in S /\ CR \in S /\ LF \in S
  BY DEF Octets
<1>3. b \in Seq(S) /\ Len(b) = h /\ \A i \in 1 .. h : b[i] = Text
  <2> HIDE DEF h, S
  <2>1. b \in [1 .. h -> S] /\ \A i \in 1 .. h : b[i] = Text
    BY <1>2 DEF Bytes
  <2>2. DOMAIN b = 1 .. h
    BY <2>1
  <2> HIDE DEF b
  <2>3. b \in Seq(S)
    BY <1>1, <2>1, SeqDef
  <2>4. Len(b) \in Nat /\ DOMAIN b = 1 .. Len(b)
    BY ONLY <2>3, LenProperties
  <2> QED BY <1>1, <2>1, <2>2, <2>3, <2>4
<1>4. e \in Seq(S) /\ Len(e) = 4 /\ e[1] = CR /\ e[2] = LF /\ e[3] = CR /\ e[4] = LF
  <2> HIDE DEF S
  <2> QED BY <1>2
<1>e. HeadOf(t) = b \o e
  BY DEF HeadOf
<1> HIDE DEF S, b, e, h
<1>5. /\ b \o e \in Seq(S) /\ Len(b \o e) = h + 4
      /\ \A i \in 1 .. h : (b \o e)[i] = Text
      /\ \A i \in 1 .. 4 : (b \o e)[h + i] = e[i]
  <2>a. b \in Seq(S) /\ e \in Seq(S)
    BY <1>3, <1>4
  <2>1. /\ b \o e \in Seq(S) /\ Len(b \o e) = Len(b) + Len(e)
        /\ \A i \in 1 .. Len(b) : b[i] = (b \o e)[i]
        /\ \A i \in 1 .. Len(e) : e[i] = (b \o e)[Len(b) + i]
    BY ONLY <2>a, TwoParts
  <2> QED BY <1>3, <1>4, <2>1
<1>7. /\ (b \o e)[h + 1] = CR /\ (b \o e)[h + 2] = LF
      /\ (b \o e)[h + 3] = CR /\ (b \o e)[h + 4] = LF
  <2>1. 1 \in 1 .. 4 /\ 2 \in 1 .. 4 /\ 3 \in 1 .. 4 /\ 4 \in 1 .. 4
    OBVIOUS
  <2> QED BY <1>4, <1>5, <2>1
<1> QED BY <1>1, <1>5, <1>e, <1>7 DEF h, S

\* What the client writes in all: its head, or the first of it, and what it sends
\* of its tunnel.
LEMMA WireIs ==
  ASSUME NEW t \in Talks
  PROVE  /\ WireOf(t) \in Seq(Octets(t))
         /\ Len(WireOf(t)) = t.head + 4 + Written(t)
         /\ \A i \in 1 .. Len(WireOf(t)) : i <= t.head + 4 => WireOf(t)[i] = HeadOf(t)[i]
         /\ Written(t) >= 0 =>
              /\ Sent(t) \in Seq(Octets(t)) /\ Len(Sent(t)) = Written(t)
              /\ \A i \in 1 .. Written(t) : Sent(t)[i] = TunnelOf(t)[i]
              /\ WireOf(t) = HeadOf(t) \o Sent(t)
<1> DEFINE S == Octets(t)
           H == HeadOf(t)
           T == TunnelOf(t)
           h == t.head + 4
           m == h + Written(t)
           all == H \o T
           w == SubSeq(all, 1, m)
           u == SubSeq(T, 1, Written(t))
<1>1. /\ H \in Seq(S) /\ Len(H) = h /\ h \in Nat
      /\ T \in Seq(S) /\ Len(T) \in Nat
      /\ Written(t) \in Int /\ Written(t) <= Len(T) /\ m \in Nat
      /\ Written(t) = Len(T) - t.missing
  BY HeadIs, TunnelIs DEF Written
<1>2. WireOf(t) = SubSeq(all, 1, Len(all) - t.missing)
  BY DEF WireOf
<1>3. Sent(t) = u
  BY DEF Sent
<1>i. t.missing \in Int
  BY TalkIs
<1> HIDE DEF S, H, T, h, u
<1>4. /\ all \in Seq(S) /\ Len(all) = h + Len(T)
      /\ \A i \in 1 .. h : H[i] = all[i]
      /\ \A i \in 1 .. Len(T) : T[i] = all[h + i]
  <2>1. H \in Seq(S) /\ T \in Seq(S)
    BY <1>1
  <2>2. /\ all \in Seq(S) /\ Len(all) = Len(H) + Len(T)
        /\ \A i \in 1 .. Len(H) : H[i] = all[i]
        /\ \A i \in 1 .. Len(T) : T[i] = all[Len(H) + i]
    BY ONLY <2>1, TwoParts
  <2> QED BY <1>1, <2>2
<1> HIDE DEF all
<1>5. m <= Len(all) /\ Len(all) - t.missing = m
  BY <1>1, <1>4, <1>i
<1>m. m = h + Written(t) /\ m \in Nat
  BY <1>1
<1>6. /\ w \in Seq(S) /\ Len(w) = m
      /\ \A i \in 1 .. m : w[i] = all[i]
  <2> HIDE DEF m
  <2>1. \A i \in 1 .. m : all[i] \in S
    BY <1>4, <1>5, <1>m
  <2>2. 1 \in Int /\ m \in Int
    BY <1>m
  <2>3. /\ w \in Seq(S) /\ Len(w) = IF 1 <= m THEN m - 1 + 1 ELSE 0
        /\ \A i \in 1 .. m - 1 + 1 : w[i] = all[1 + i - 1]
    BY <2>1, <2>2, SubSeqProperties
  <2> HIDE DEF w
  <2>4. m - 1 + 1 = m /\ \A i \in 1 .. m : 1 + i - 1 = i
    BY <1>m
  <2> QED BY <2>3, <2>4, <1>m
<1>7. WireOf(t) = w
  BY <1>2, <1>5
<1> HIDE DEF w, m
<1>8. ASSUME NEW i \in 1 .. m, i <= h PROVE w[i] = H[i]
  BY <1>4, <1>6, <1>8, <1>1
<1>9. ASSUME Written(t) >= 0
      PROVE  /\ u \in Seq(S) /\ Len(u) = Written(t)
             /\ \A i \in 1 .. Written(t) : u[i] = T[i]
             /\ w = H \o u
  <2> DEFINE n == Written(t)
  <2>1. n \in Nat /\ n <= Len(T) /\ m = h + n
    BY <1>1, <1>9, <1>m
  <2>2. /\ u \in Seq(S) /\ Len(u) = n /\ \A i \in 1 .. n : u[i] = T[i]
    <3> HIDE DEF n
    <3>1. \A i \in 1 .. n : T[i] \in S
      BY <2>1, <1>1
    <3>2. 1 \in Int /\ n \in Int
      BY <2>1
    <3>u. u = SubSeq(T, 1, n)
      BY DEF u, n
    <3>3. /\ u \in Seq(S) /\ Len(u) = IF 1 <= n THEN n - 1 + 1 ELSE 0
          /\ \A i \in 1 .. n - 1 + 1 : u[i] = T[1 + i - 1]
      BY <3>1, <3>2, <3>u, SubSeqProperties
    <3>4. n - 1 + 1 = n /\ \A i \in 1 .. n : 1 + i - 1 = i
      BY <2>1
    <3> QED BY <3>3, <3>4, <2>1
  <2> HIDE DEF n
  <2>3. /\ H \o u \in Seq(S) /\ Len(H \o u) = h + n
        /\ \A i \in 1 .. h : H[i] = (H \o u)[i]
        /\ \A i \in 1 .. n : u[i] = (H \o u)[h + i]
    <3>1. H \in Seq(S) /\ u \in Seq(S)
      BY <1>1, <2>2
    <3>2. /\ H \o u \in Seq(S) /\ Len(H \o u) = Len(H) + Len(u)
          /\ \A i \in 1 .. Len(H) : H[i] = (H \o u)[i]
          /\ \A i \in 1 .. Len(u) : u[i] = (H \o u)[Len(H) + i]
      BY ONLY <3>1, TwoParts
    <3> QED BY <3>2, <1>1, <2>2
  <2>4. ASSUME NEW i \in 1 .. m PROVE w[i] = (H \o u)[i]
    <3>1. CASE i <= h
      <4>1. i \in 1 .. h
        BY <3>1, <1>1
      <4>2. w[i] = H[i]
        BY <3>1, <1>8
      <4> QED BY <4>1, <4>2, <2>3
    <3>2. CASE ~(i <= h)
      <4>1. i - h \in 1 .. n /\ i - h \in 1 .. Len(T) /\ h + (i - h) = i
        BY <3>2, <1>1, <2>1
      <4>2. w[i] = T[i - h]
        BY <4>1, <1>4, <1>6
      <4>3. (H \o u)[i] = u[i - h]
        BY <4>1, <2>3
      <4> QED BY <4>1, <4>2, <4>3, <2>2
    <3> QED BY <3>1, <3>2
  <2>5. w = H \o u
    <3>1. w \in Seq(S) /\ H \o u \in Seq(S) /\ Len(w) = Len(H \o u)
      BY <1>6, <2>1, <2>3
    <3>2. \A i \in 1 .. Len(w) : w[i] = (H \o u)[i]
      BY <1>6, <2>4
    <3> QED BY <3>1, <3>2, SeqEqual
  <2> QED BY <2>2, <2>5 DEF n
<1> QED BY <1>3, <1>6, <1>7, <1>8, <1>9 DEF S, H, T, h, m

\* The search for the terminator, begun three bytes back, finds the head's own end
\* as soon as it is there, and nothing before.
LEMMA HeadScan ==
  ASSUME NEW t \in Talks, NEW all \in Seq(Octets(t)), NEW had \in Nat, had < t.head + 4,
         \A i \in 1 .. Len(all) : i <= t.head + 4 => all[i] = HeadOf(t)[i]
  PROVE  /\ Len(all) < t.head + 4 => Terminators(had, all) = {}
         /\ Len(all) >= t.head + 4 =>
              /\ Terminators(had, all) # {}
              /\ (CHOOSE i \in Terminators(had, all) :
                    \A j \in Terminators(had, all) : i <= j) = t.head + 1
<1> DEFINE h == t.head
           found == Terminators(had, all)
<1>1. h \in Nat /\ Len(all) \in Nat
  BY HeadIs
<1>2. ScanFrom(had) \in Nat /\ ScanFrom(had) <= h
  BY <1>1 DEF ScanFrom
<1>3. ASSUME NEW i \in found PROVE i >= h + 1 /\ i <= Len(all) - 3 /\ i \in Int
  <2>1. /\ i \in ScanFrom(had) + 1 .. Len(all) - 3
        /\ SubSeq(all, i, i + 3) = <<CR, LF, CR, LF>>
    BY <1>3 DEF Terminators
  <2>2. i \in Int /\ i >= 1 /\ i <= Len(all) - 3
    BY <2>1, <1>2, <1>1
  <2>3. \A j \in i .. i + 3 : all[j] \in Octets(t)
    BY <2>2, <1>1
  <2>4. \A j \in 1 .. (i + 3) - i + 1 : SubSeq(all, i, i + 3)[j] = all[i + j - 1]
    <3>1. i \in Int /\ i + 3 \in Int
      BY <2>2
    <3> QED BY <3>1, <2>3, SubSeqProperties
  <2>5. SubSeq(all, i, i + 3)[1] = all[i]
    <3>1. 1 \in 1 .. (i + 3) - i + 1 /\ i + 1 - 1 = i
      BY <2>2
    <3> QED BY <3>1, <2>4
  <2>6. all[i] = CR
    <3>1. <<CR, LF, CR, LF>>[1] = CR
      OBVIOUS
    <3> QED BY <2>1, <2>5, <3>1
  <2>7. i <= h => all[i] = Text
    <3>1. i <= h => i \in 1 .. Len(all) /\ i \in 1 .. t.head /\ i <= t.head + 4
      BY <2>2, <1>1
    <3> QED BY <3>1, HeadIs
  <2>8. CR # Text
    BY DEF CR, Text
  <2> QED BY <2>2, <2>6, <2>7, <2>8, <1>1
<1>4. CASE Len(all) < h + 4
  <2>1. found = {}
    <3> HIDE DEF found
    <3> QED BY <1>3, <1>4, <1>1
  <2> QED BY <2>1, <1>4, <1>1
<1>5. CASE Len(all) >= h + 4
  <2> DEFINE i == h + 1
             e == <<CR, LF, CR, LF>>
             c == SubSeq(all, i, i + 3)
  <2>1. i \in ScanFrom(had) + 1 .. Len(all) - 3
    BY <1>1, <1>2, <1>5
  <2>2. \A j \in i .. i + 3 : all[j] \in Octets(t)
    BY <1>1, <1>5
  <2>i. i \in Int /\ i + 3 \in Int
    BY <1>1
  <2>3. /\ c \in Seq(Octets(t))
        /\ Len(c) = IF i <= i + 3 THEN (i + 3) - i + 1 ELSE 0
        /\ \A j \in 1 .. (i + 3) - i + 1 : c[j] = all[i + j - 1]
    <3> HIDE DEF i
    <3> QED BY <2>i, <2>2, SubSeqProperties
  <2>4. Len(c) = 4 /\ \A j \in 1 .. 4 : c[j] = all[h + j]
    <3>1. i <= i + 3 /\ (i + 3) - i + 1 = 4 /\ \A j \in 1 .. 4 : i + j - 1 = h + j
      BY <1>1
    <3> HIDE DEF c, i
    <3> QED BY <2>3, <3>1
  <2>5. /\ all[h + 1] = CR /\ all[h + 2] = LF /\ all[h + 3] = CR /\ all[h + 4] = LF
    <3>1. \A j \in 1 .. 4 : h + j \in 1 .. Len(all) /\ h + j <= t.head + 4
      BY <1>1, <1>5, SMTT(60)
    <3>2. \A j \in 1 .. 4 : all[h + j] = HeadOf(t)[h + j]
      BY <3>1
    <3>3. 1 \in 1 .. 4 /\ 2 \in 1 .. 4 /\ 3 \in 1 .. 4 /\ 4 \in 1 .. 4
      OBVIOUS
    <3> QED BY <3>2, <3>3, HeadIs
  <2>6. e \in Seq(Octets(t)) /\ Len(e) = 4 /\ e[1] = CR /\ e[2] = LF /\ e[3] = CR /\ e[4] = LF
    <3>1. CR \in Octets(t) /\ LF \in Octets(t)
      BY DEF Octets
    <3> QED BY <3>1
  <2> HIDE DEF c, e
  <2>7. \A j \in 1 .. 4 : c[j] = e[j]
    <3> TAKE j \in 1 .. 4
    <3>1. j = 1 \/ j = 2 \/ j = 3 \/ j = 4
      OBVIOUS
    <3> QED BY <3>1, <2>4, <2>5, <2>6
  <2>8. c = e
    <3>1. c \in Seq(Octets(t)) /\ e \in Seq(Octets(t)) /\ Len(c) = Len(e)
      BY <2>3, <2>4, <2>6
    <3>2. \A j \in 1 .. Len(c) : c[j] = e[j]
      BY <2>4, <2>7
    <3> QED BY <3>1, <3>2, SeqEqual
  <2>9. i \in found
    BY <2>1, <2>8 DEF Terminators, c, e
  <2> HIDE DEF found
  <2>10. \A j \in found : i <= j /\ j \in Int
    BY <1>3, <1>1
  <2>11. (CHOOSE k \in found : \A j \in found : k <= j) = i
    <3>1. i \in found /\ \A j \in found : i <= j
      BY <2>9, <2>10
    <3>2. ASSUME NEW k \in found, \A j \in found : k <= j PROVE k = i
      BY <3>1, <3>2, <2>10, <2>i
    <3> HIDE DEF i
    <3> QED BY <3>1, <3>2
  <2> QED BY <2>9, <2>11, <1>5, <1>1 DEF found
<1> QED BY <1>1, <1>4, <1>5

\* What is promised a client, once its head is written and once it is not refused.
LEMMA PromisedIs ==
  ASSUME talk \in Talks
  PROVE  /\ Written(talk) < 0 => Promised(talk) = "dropped"
         /\ Written(talk) >= 0 /\ Refusal # "none" => Promised(talk) = Refusal
         /\ Written(talk) >= 0 /\ Refusal = "none" =>
              Promised(talk) =
                IF \/ Written(talk) = 0 \/ talk.cuts = <<>> \/ talk.alien = 1
                   \/ Inspected(talk) /\ talk.name \in {talk.host, NoName}
                THEN "tunnelled" ELSE "refused"
<1>1. /\ talk.connect \in BOOLEAN /\ talk.allowed \in BOOLEAN /\ talk.port \in BOOLEAN
      /\ Written(talk) \in Int
      /\ Written(talk) = Len(TunnelOf(talk)) - talk.missing
  BY TalkIs, TunnelIs DEF Written
<1> DEFINE w == Len(TunnelOf(talk)) - talk.missing
           good == \/ w = 0 \/ talk.cuts = <<>> \/ talk.alien = 1
                   \/ Inspected(talk) /\ talk.name \in {talk.host, NoName}
<1>2. Promised(talk) =
        CASE w < 0 -> "dropped"
          [] w >= 0 /\ ~talk.connect -> "405"
          [] w >= 0 /\ talk.connect /\ ~talk.allowed -> "403"
          [] w >= 0 /\ talk.connect /\ talk.allowed /\ ~talk.port -> "400"
          [] OTHER -> IF good THEN "tunnelled" ELSE "refused"
  BY DEF Promised
<1>3. w \in Int /\ Written(talk) = w
  BY <1>1
<1> HIDE DEF w, good
<1>4. CASE w < 0
  BY <1>2, <1>3, <1>4
<1>5. CASE w >= 0 /\ ~talk.connect
  <2>1. Refusal = "405"
    BY <1>5 DEF Refusal
  <2> QED BY <1>2, <1>3, <1>5, <2>1
<1>6. CASE w >= 0 /\ talk.connect /\ ~talk.allowed
  <2>1. Refusal = "403"
    BY <1>6 DEF Refusal
  <2> QED BY <1>2, <1>3, <1>6, <2>1
<1>7. CASE w >= 0 /\ talk.connect /\ talk.allowed /\ ~talk.port
  <2>1. Refusal = "400"
    BY <1>7 DEF Refusal
  <2> QED BY <1>2, <1>3, <1>7, <2>1
<1>8. CASE w >= 0 /\ talk.connect /\ talk.allowed /\ talk.port
  <2>1. Refusal = "none"
    BY <1>8 DEF Refusal
  <2>2. Promised(talk) = IF good THEN "tunnelled" ELSE "refused"
    BY <1>2, <1>3, <1>8
  <2> QED BY <1>3, <1>8, <2>1, <2>2 DEF good
<1> QED BY <1>3, <1>4, <1>5, <1>6, <1>7, <1>8

\* A hello the first k records do not carry whole can be inspected only if the next
\* record is a handshake record that was written and is within the cap.
LEMMA InspectedLater ==
  ASSUME NEW t \in Talks, NEW k \in 0 .. Len(t.cuts), Carried(t, k) < 2 + t.size,
         Inspected(t)
  PROVE  /\ k < Len(t.cuts) /\ t.alien # k + 1 /\ 2 + t.size + 2 <= PeekCap
         /\ Wire(t, k + 1) <= PeekCap /\ Wire(t, k + 1) <= Written(t)
<1>1. PICK i \in Carrying(t) : /\ Wire(t, i) <= PeekCap
                               /\ t.missing <= Len(TunnelOf(t)) - Wire(t, i)
                               /\ t.alien \notin 1 .. i
  BY DEF Inspected
<1>2. /\ Len(t.cuts) \in Nat /\ t.cuts \in Seq(Nat) /\ t.size \in Nat /\ t.alien \in Nat
      /\ t.missing \in Int
  BY TalkIs
<1>3. i \in 1 .. Len(t.cuts) /\ Carried(t, i) >= 2 + t.size
  <2>1. DOMAIN t.cuts = 1 .. Len(t.cuts)
    BY ONLY <1>2, LenProperties
  <2> QED BY <2>1 DEF Carrying
<1>4. /\ i \in 0 .. Len(t.cuts) /\ k \in 0 .. Len(t.cuts)
      /\ Carried(t, i) \in Nat /\ Carried(t, k) \in Nat /\ Wire(t, i) \in Nat
  BY <1>3, <1>2, WiresGrow
<1>5. k < i
  <2>1. i < k => Carried(t, i) <= Carried(t, k)
    BY <1>4, WiresGrow
  <2>2. i # k
    BY <1>3, <1>4, <1>2
  <2> QED BY <2>1, <2>2, <1>2, <1>3, <1>4
<1>6. k + 1 \in 0 .. Len(t.cuts) /\ k < Len(t.cuts) /\ k + 1 \in 1 .. i
  BY <1>3, <1>5, <1>2
<1>7. Wire(t, k + 1) <= Wire(t, i) /\ Wire(t, k + 1) \in Nat
  <2>1. k + 1 < i => Wire(t, k + 1) + 2 <= Wire(t, i)
    BY <1>4, <1>6, WiresGrow
  <2>2. Wire(t, k + 1) \in Nat
    BY <1>6, WiresGrow
  <2>3. k + 1 < i \/ k + 1 = i
    BY <1>6, <1>3, <1>2
  <2> QED BY <2>1, <2>2, <2>3, <1>4
<1>8. Wire(t, k + 1) <= PeekCap
  <2>1. PeekCap \in Nat
    BY ProxyAssumption
  <2> QED BY <2>1, <1>1, <1>4, <1>7
<1>9. Wire(t, k + 1) <= Written(t)
  <2>1. Len(TunnelOf(t)) \in Nat /\ Written(t) = Len(TunnelOf(t)) - t.missing
    BY TunnelIs DEF Written
  <2> QED BY <2>1, <1>1, <1>2, <1>4, <1>7
<1>10. 2 + t.size + 2 <= PeekCap
  BY DEF Inspected
<1>11. t.alien # k + 1
  BY <1>1, <1>6
<1> QED BY <1>6, <1>8, <1>9, <1>10, <1>11

\* The record that brings the rest of the hello is the one it is inspected at.
LEMMA InspectedHere ==
  ASSUME NEW t \in Talks, NEW k \in 0 .. Len(t.cuts), k < Len(t.cuts),
         Carried(t, k) < 2 + t.size, Carried(t, k + 1) >= 2 + t.size,
         Wire(t, k + 1) <= PeekCap, Wire(t, k + 1) <= Written(t),
         t.alien \notin 1 .. k + 1, 2 + t.size + 2 <= PeekCap
  PROVE  Inspected(t)
<1>1. /\ Len(t.cuts) \in Nat /\ t.cuts \in Seq(Nat) /\ t.size \in Nat /\ t.missing \in Int
  BY TalkIs
<1>2. DOMAIN t.cuts = 1 .. Len(t.cuts)
  BY ONLY <1>1, LenProperties
<1>3. k + 1 \in Carrying(t)
  BY <1>1, <1>2 DEF Carrying
<1>4. t.missing <= Len(TunnelOf(t)) - Wire(t, k + 1)
  <2>1. Len(TunnelOf(t)) \in Nat /\ Written(t) = Len(TunnelOf(t)) - t.missing
    BY TunnelIs DEF Written
  <2>2. Wire(t, k + 1) \in Nat
    <3>1. k + 1 \in 0 .. Len(t.cuts)
      BY <1>1
    <3> QED BY <3>1, WiresGrow
  <2> QED BY <2>1, <2>2, <1>1
<1>5. \A i \in 1 .. (k + 1) - 1 : i \notin Carrying(t)
  <2> TAKE i \in 1 .. (k + 1) - 1
  <2>1. i \in 0 .. Len(t.cuts) /\ (i < k \/ i = k)
    BY <1>1
  <2>2. Carried(t, i) \in Nat /\ Carried(t, k) \in Nat
    BY <2>1, WiresGrow
  <2>3. Carried(t, i) <= Carried(t, k)
    <3>1. i < k => Carried(t, i) <= Carried(t, k)
      BY <2>1, WiresGrow
    <3> QED BY <3>1, <2>1, <2>2
  <2> QED BY <2>2, <2>3, <1>1 DEF Carrying
<1> QED BY <1>3, <1>4, <1>5 DEF Inspected

\* A connection that is over, with nothing passed on.
LEMMA NothingPassed ==
  ASSUME talk \in Talks, talk' = talk, upstream' = <<>>, fate' # "tunnelled",
         ~stalled' =>
           \/ fate' = Promised(talk)
           \/ fate' = "502" /\ Promised(talk) \in {"tunnelled", "refused"}
           \/ fate' = "dropped" /\ talk.head + 4 > HeadCap
  PROVE  BytesDecide'
<1>1. Len(TunnelOf(talk)) \in Nat
  BY TunnelIs
<1>2. Len(<<>>) = 0 /\ SubSeq(<<>>, 1, 0) = <<>> /\ SubSeq(TunnelOf(talk), 1, 0) = <<>>
  BY SubSeqEmpty
<1>3. IsPrefix(<<>>, TunnelOf(talk))
  BY <1>1, <1>2 DEF IsPrefix
<1> QED BY <1>3 DEF BytesDecide

\* What is in hand is the first of what was sent.
LEMMA InHandIs ==
  ASSUME ProxyIInv, stage \in {"asked", "dial", "forward"} \cup Peeks
  PROVE  /\ talk \in Talks /\ Written(talk) \in Nat
         /\ inHand \in Seq(Octets(talk)) /\ unread \in Seq(Octets(talk))
         /\ Len(inHand) \in Nat /\ Len(unread) \in Nat
         /\ Len(inHand) + Len(unread) = Written(talk)
         /\ \A i \in 1 .. Len(inHand) : inHand[i] = TunnelOf(talk)[i]
<1>1. /\ talk \in Talks /\ Written(talk) >= 0 /\ inHand \o unread = Sent(talk)
      /\ inHand \in Seq(Octets(talk)) /\ unread \in Seq(Octets(talk))
  BY DEF ProxyIInv, PastTheHead, ProxyShape, ProxyTypeOK
<1>2. /\ Written(talk) \in Nat /\ Len(Sent(talk)) = Written(talk)
      /\ \A i \in 1 .. Written(talk) : Sent(talk)[i] = TunnelOf(talk)[i]
  BY <1>1, TunnelIs, WireIs
<1>3. /\ Len(inHand \o unread) = Len(inHand) + Len(unread)
      /\ \A i \in 1 .. Len(inHand) : inHand[i] = (inHand \o unread)[i]
  BY <1>1, TwoParts
<1>4. Len(inHand) \in Nat /\ Len(unread) \in Nat
  <2>1. inHand \in Seq(Octets(talk)) /\ unread \in Seq(Octets(talk))
    BY <1>1
  <2> QED BY ONLY <2>1, LenProperties
<1>5. \A i \in 1 .. Len(inHand) : i \in 1 .. Written(talk)
  BY <1>1, <1>2, <1>3, <1>4
<1> QED BY <1>1, <1>2, <1>3, <1>4, <1>5

\* While the records are taken apart there is something in hand and a first record,
\* so the hello decides.
LEMMA HelloDecides ==
  ASSUME ProxyIInv, stage \in {"header", "body"}, NEW k \in 0 .. Len(talk.cuts), TakenApart(k)
  PROVE  Promised(talk) = IF Inspected(talk) /\ talk.name \in {talk.host, NoName}
                          THEN "tunnelled" ELSE "refused"
<1>1. /\ talk \in Talks /\ Written(talk) >= 0 /\ Written(talk) # 0
  <2>1. Len(inHand) >= 1
    BY DEF TakenApart
  <2>2. stage \in {"asked", "dial", "forward"} \cup Peeks
    BY DEF Peeks
  <2> QED BY <2>1, <2>2, InHandIs
<1>2. Refusal = "none"
  BY DEF ProxyIInv, NotRefused, Peeks
<1>3. talk.cuts # <<>> /\ talk.alien # 1
  BY DEF TakenApart
<1> QED BY <1>1, <1>2, <1>3, PromisedIs

\* The length of the record whose header is in hand.
LEMMA BodyTarget ==
  ASSUME ProxyIInv, stage \in {"header", "body"},
         NEW k \in 0 .. Len(talk.cuts), TakenApart(k), k < Len(talk.cuts),
         Len(inHand) >= consumed + 2
  PROVE  /\ inHand[consumed + 1] = IF talk.alien = k + 1 THEN Other ELSE Handshake
         /\ consumed + 2 + inHand[consumed + 2] = Wire(talk, k + 1)
         /\ Carried(talk, k) \in Nat /\ Carried(talk, k + 1) \in Nat
         /\ inHand[consumed + 2] = Carried(talk, k + 1) - Carried(talk, k)
         /\ Carried(talk, k) <= Carried(talk, k + 1)
         /\ consumed = Wire(talk, k) /\ consumed \in Nat
<1>1. /\ talk \in Talks /\ Len(inHand) \in Nat
      /\ \A i \in 1 .. Len(inHand) : inHand[i] = TunnelOf(talk)[i]
  BY InHandIs DEF Peeks
<1>2. Len(talk.cuts) \in Nat
  BY <1>1, TalkIs
<1>3. k \in 0 .. Len(talk.cuts) /\ k + 1 \in 0 .. Len(talk.cuts) /\ k < k + 1 /\ k \in Nat
  BY <1>2
<1>4. /\ Carried(talk, k) \in Nat /\ Carried(talk, k + 1) \in Nat
      /\ Wire(talk, k) \in Nat /\ Wire(talk, k + 1) \in Nat
      /\ Carried(talk, k) <= Carried(talk, k + 1)
      /\ Wire(talk, k) + 2 <= Wire(talk, k + 1)
  BY <1>1, <1>3, WiresGrow
<1>5. consumed = Wire(talk, k)
  BY DEF TakenApart
<1>6. /\ TunnelOf(talk)[Wire(talk, k) + 1] = RecordByte(talk, k + 1, 1)
      /\ TunnelOf(talk)[Wire(talk, k) + 2] = RecordByte(talk, k + 1, 2)
  <2>1. 1 <= Wire(talk, k + 1) - Wire(talk, k) /\ 2 <= Wire(talk, k + 1) - Wire(talk, k)
    BY <1>4
  <2> QED BY <2>1, <1>1, <1>3, RecordBytes
<1>7. (k + 1) - 1 = k
  BY <1>3
<1>8. /\ inHand[consumed + 1] = RecordByte(talk, k + 1, 1)
      /\ inHand[consumed + 2] = RecordByte(talk, k + 1, 2)
  <2>1. consumed + 1 \in 1 .. Len(inHand) /\ consumed + 2 \in 1 .. Len(inHand)
    BY <1>1, <1>4, <1>5
  <2> QED BY <2>1, <1>1, <1>5, <1>6
<1>9. RecordByte(talk, k + 1, 1) = IF talk.alien = k + 1 THEN Other ELSE Handshake
  BY DEF RecordByte
<1>10. RecordByte(talk, k + 1, 2) = Carried(talk, k + 1) - Carried(talk, k)
  BY <1>7 DEF RecordByte
<1>11. Wire(talk, k) + 2 + (Carried(talk, k + 1) - Carried(talk, k)) = Wire(talk, k + 1)
  BY <1>3, <1>4 DEF Wire
<1> QED BY <1>4, <1>5, <1>8, <1>9, <1>10, <1>11

LEMMA ProxyInitially == ProxyInit => ProxyIInv
<1> SUFFICES ASSUME ProxyInit PROVE ProxyIInv
  OBVIOUS
<1>1. /\ talk \in Talks /\ stage = "head" /\ unread = WireOf(talk)
      /\ inHand = <<>> /\ consumed = 0 /\ handshake = <<>>
      /\ upstream = <<>> /\ fate = "none" /\ stalled = FALSE
  BY DEF ProxyInit
<1>2. ProxyTypeOK
  BY <1>1 DEF ProxyTypeOK
<1>3. ProxyShape
  <2>1. <<>> \in Seq(Octets(talk))
    OBVIOUS
  <2> QED BY <1>1, <1>2, <2>1, WireIs DEF ProxyShape
<1>4. InTheHead
  <2>1. <<>> \o WireOf(talk) = WireOf(talk)
    BY <1>1, WireIs, ConcatEmptySeq
  <2>2. Len(<<>>) = 0 /\ 0 < talk.head + 4
    BY <1>1, HeadIs
  <2> QED BY <1>1, <2>1, <2>2 DEF InTheHead
<1> QED BY <1>1, <1>3, <1>4 DEF ProxyIInv, Unspent, PastTheHead, InTheTunnel, NotRefused,
        InTheRecords, Granted, Peeks

\* What is left to show of a step to the end, and of one that stays before it.
LEMMA ProxyEnds ==
  ASSUME ProxyShape', stage' = "over", BytesDecide'
  PROVE  ProxyIInv'
BY DEF ProxyIInv, Unspent, InTheHead, PastTheHead, InTheTunnel, NotRefused,
       InTheRecords, Granted, Peeks

LEMMA ReadHeadKeeps == ProxyIInv /\ ReadHead => ProxyIInv'
<1> SUFFICES ASSUME ProxyIInv, ReadHead PROVE ProxyIInv'
  OBVIOUS
<1> DEFINE h == talk.head + 4
<1>1. /\ talk \in Talks /\ stage = "head" /\ fate = "none" /\ stalled \in BOOLEAN
      /\ inHand \in Seq(Octets(talk)) /\ unread \in Seq(Octets(talk))
      /\ inHand \o unread = WireOf(talk) /\ Len(inHand) < h
      /\ upstream = <<>> /\ consumed = 0 /\ handshake = <<>>
  BY DEF ProxyIInv, ProxyShape, ProxyTypeOK, Unspent, InTheHead, ReadHead
<1>2. /\ talk' = talk /\ consumed' = consumed /\ handshake' = handshake
      /\ upstream' = upstream /\ stalled' = stalled
  BY DEF ReadHead, Peeking
<1>3. PICK n \in 1 .. HeadRead :
        LET all == inHand \o SubSeq(unread, 1, n)
            found == Terminators(Len(inHand), all)
        IN /\ n <= Len(unread)
           /\ unread' = SubSeq(unread, n + 1, Len(unread))
           /\ inHand' = IF found = {} THEN all
                        ELSE SubSeq(all, (CHOOSE i \in found : \A j \in found : i <= j) + 4,
                                    Len(all))
           /\ CASE found # {} -> On("asked")
                [] found = {} /\ Len(all) > HeadCap -> Drop("dropped")
                [] OTHER -> On("head")
  BY DEF ReadHead
<1>n. n \in 0 .. Len(unread)
  <2>1. HeadRead \in Nat /\ Len(unread) \in Nat
    BY <1>1, ProxyAssumption
  <2> QED BY <2>1, <1>3
<1>a. PICK all : all = inHand \o SubSeq(unread, 1, n)
  OBVIOUS
<1>b. PICK found : found = Terminators(Len(inHand), all)
  OBVIOUS
<1>c. PICK first : first = CHOOSE i \in found : \A j \in found : i <= j
  OBVIOUS
<1>5. /\ unread' = SubSeq(unread, n + 1, Len(unread))
      /\ inHand' = IF found = {} THEN all ELSE SubSeq(all, first + 4, Len(all))
      /\ CASE found # {} -> On("asked")
           [] found = {} /\ Len(all) > HeadCap -> Drop("dropped")
           [] OTHER -> On("head")
  BY <1>3, <1>a, <1>b, <1>c
<1>6. /\ all \in Seq(Octets(talk)) /\ unread' \in Seq(Octets(talk))
      /\ all \o unread' = WireOf(talk)
      /\ Len(all) \in Nat /\ Len(unread') \in Nat
  <2>1. /\ inHand \o SubSeq(unread, 1, n) \in Seq(Octets(talk))
        /\ SubSeq(unread, n + 1, Len(unread)) \in Seq(Octets(talk))
        /\ (inHand \o SubSeq(unread, 1, n)) \o SubSeq(unread, n + 1, Len(unread))
             = inHand \o unread
    <3>1. Kept(Octets(talk), inHand, unread, n)
      BY <1>1, <1>n, ReadKeeps
    <3> QED BY <3>1 DEF Kept
  <2>2. /\ all \in Seq(Octets(talk)) /\ unread' \in Seq(Octets(talk))
        /\ all \o unread' = WireOf(talk)
    BY <2>1, <1>1, <1>5, <1>a
  <2> QED BY <2>2
<1>7. /\ WireOf(talk) \in Seq(Octets(talk)) /\ Len(WireOf(talk)) = h + Written(talk)
      /\ \A i \in 1 .. Len(WireOf(talk)) : i <= h => WireOf(talk)[i] = HeadOf(talk)[i]
      /\ Written(talk) \in Int /\ h \in Nat
  <2>1. Written(talk) \in Int /\ h \in Nat
    <3>1. talk.head \in Nat
      BY <1>1, TalkIs
    <3> QED BY <1>1, <3>1, TunnelIs
  <2> QED BY <1>1, <2>1, WireIs
<1>8. /\ Len(WireOf(talk)) = Len(all) + Len(unread')
      /\ \A i \in 1 .. Len(all) : all[i] = WireOf(talk)[i]
  BY <1>6, FirstBytes
<1>9. \A i \in 1 .. Len(all) : i <= h => all[i] = HeadOf(talk)[i]
  BY <1>6, <1>7, <1>8
<1>10. /\ Len(all) < h => found = {}
       /\ Len(all) >= h => found # {} /\ first = talk.head + 1
  <2>1. Len(inHand) \in Nat
    BY <1>1
  <2>2. /\ Len(all) < h => Terminators(Len(inHand), all) = {}
        /\ Len(all) >= h =>
             /\ Terminators(Len(inHand), all) # {}
             /\ (CHOOSE i \in Terminators(Len(inHand), all) :
                   \A j \in Terminators(Len(inHand), all) : i <= j) = talk.head + 1
    BY <1>1, <1>6, <1>9, <2>1, HeadScan
  <2> QED BY <2>2, <1>b, <1>c, Zenon
<1>d. /\ found = {} => inHand' = all
      /\ found # {} => inHand' = SubSeq(all, first + 4, Len(all)) /\ On("asked")
      /\ found = {} /\ Len(all) > HeadCap => Drop("dropped")
      /\ found = {} /\ ~(Len(all) > HeadCap) => On("head")
  BY <1>5
<1>11. CASE found = {}
  <2>1. Len(all) < h /\ inHand' = all
    BY <1>d, <1>6, <1>7, <1>10, <1>11
  <2>2. /\ Octets(talk)' = Octets(talk) /\ WireOf(talk)' = WireOf(talk)
    BY <1>2
  <2>3. {unread, inHand, handshake, upstream}' \subseteq Seq(Octets(talk)')
    BY <1>1, <1>2, <1>d, <1>6, <2>1, <2>2
  <2>4. CASE Len(all) > HeadCap
    <3>1. stage' = "over" /\ fate' = "dropped"
      BY <1>d, <1>11, <2>4 DEF Drop
    <3>2. ProxyShape'
      BY <1>1, <1>2, <2>3, <3>1 DEF ProxyShape, ProxyTypeOK
    <3>3. talk.head + 4 > HeadCap
      <4>1. HeadCap \in Nat
        BY ProxyAssumption
      <4> QED BY <4>1, <1>2, <1>6, <1>7, <2>1, <2>4
    <3>4. BytesDecide'
      BY <1>1, <1>2, <3>1, <3>3, NothingPassed
    <3> QED BY <3>1, <3>2, <3>4, ProxyEnds
  <2>5. CASE ~(Len(all) > HeadCap)
    <3>1. stage' = "head" /\ fate' = fate
      BY <1>d, <1>11, <2>5 DEF On
    <3>2. ProxyShape'
      BY <1>1, <1>2, <2>3, <3>1 DEF ProxyShape, ProxyTypeOK
    <3>3. InTheHead'
      BY <1>2, <1>d, <1>6, <2>1, <2>2 DEF InTheHead, h
    <3> QED BY <1>1, <1>2, <3>1, <3>2, <3>3 DEF ProxyIInv, Unspent, PastTheHead,
            InTheTunnel, NotRefused, InTheRecords, Granted, Peeks
  <2> QED BY <2>4, <2>5
<1>12. CASE found # {}
  <2>1. Len(all) >= h /\ first + 4 = h + 1
    <3>1. talk.head \in Nat
      BY <1>1, HeadIs
    <3> QED BY <3>1, <1>6, <1>7, <1>10, <1>12, SMTT(60)
  <2>2. Written(talk) >= 0
    BY <1>6, <1>7, <1>8, <2>1
  <2>3. /\ HeadOf(talk) \in Seq(Octets(talk)) /\ Len(HeadOf(talk)) = h
        /\ Sent(talk) \in Seq(Octets(talk)) /\ HeadOf(talk) \o Sent(talk) = WireOf(talk)
    BY <1>1, <2>2, HeadIs, WireIs
  <2>4. inHand' \in Seq(Octets(talk)) /\ inHand' \o unread' = Sent(talk)
    <3>1. inHand' = SubSeq(all, Len(HeadOf(talk)) + 1, Len(all))
      BY <1>d, <1>12, <2>1, <2>3
    <3>2. /\ SubSeq(all, Len(HeadOf(talk)) + 1, Len(all)) \in Seq(Octets(talk))
          /\ SubSeq(all, Len(HeadOf(talk)) + 1, Len(all)) \o unread' = Sent(talk)
      <4>1. /\ all \in Seq(Octets(talk)) /\ unread' \in Seq(Octets(talk))
            /\ HeadOf(talk) \in Seq(Octets(talk)) /\ Sent(talk) \in Seq(Octets(talk))
            /\ all \o unread' = HeadOf(talk) \o Sent(talk)
            /\ Len(all) >= Len(HeadOf(talk))
        BY <1>6, <2>1, <2>3
      <4>2. Past(Octets(talk), all, unread', HeadOf(talk), Sent(talk))
        BY ONLY <4>1, CutPast
      <4> QED BY <4>2 DEF Past
    <3> QED BY <3>1, <3>2
  <2>5. stage' = "asked" /\ fate' = fate
    BY <1>d, <1>12 DEF On
  <2>6. ProxyShape'
    <3>1. Octets(talk)' = Octets(talk)
      BY <1>2
    <3> QED BY <1>1, <1>2, <1>d, <1>6, <2>4, <2>5, <3>1 DEF ProxyShape, ProxyTypeOK
  <2>7. PastTheHead'
    <3>1. Written(talk)' = Written(talk) /\ Sent(talk)' = Sent(talk)
      BY <1>2
    <3> QED BY <3>1, <1>d, <2>2, <2>4 DEF PastTheHead
  <2> QED BY <1>1, <1>2, <2>5, <2>6, <2>7 DEF ProxyIInv, Unspent, InTheHead,
          InTheTunnel, NotRefused, InTheRecords, Granted, Peeks
<1> QED BY <1>11, <1>12

\* A step that moves no byte and ends the connection before its tunnel.
LEMMA EndsUnmoved ==
  ASSUME ProxyIInv, Unmoved, upstream = <<>>, stage' = "over", stalled' \in BOOLEAN,
         fate' \in {"dropped", "405", "403", "400", "502", "refused"},
         ~stalled' =>
           \/ fate' = Promised(talk)
           \/ fate' = "502" /\ Promised(talk) \in {"tunnelled", "refused"}
           \/ fate' = "dropped" /\ talk.head + 4 > HeadCap
  PROVE  ProxyIInv'
<1>1. /\ talk \in Talks
      /\ {unread, inHand, handshake, upstream} \subseteq Seq(Octets(talk))
  BY DEF ProxyIInv, ProxyShape, ProxyTypeOK
<1>2. /\ talk' = talk /\ unread' = unread /\ inHand' = inHand /\ consumed' = consumed
      /\ handshake' = handshake /\ upstream' = upstream
  BY DEF Unmoved, Peeking
<1>3. ProxyShape'
  <2>1. Octets(talk)' = Octets(talk)
    BY <1>2
  <2>2. {unread, inHand, handshake, upstream}' \subseteq Seq(Octets(talk)')
    BY <1>1, <1>2, <2>1
  <2> QED BY <1>1, <1>2, <2>2 DEF ProxyShape, ProxyTypeOK
<1>4. BytesDecide'
  <2>1. upstream' = <<>> /\ fate' # "tunnelled"
    BY <1>2
  <2> QED BY <1>1, <1>2, <2>1, NothingPassed
<1> QED BY <1>3, <1>4, ProxyEnds

LEMMA HeadEndsKeeps == ProxyIInv /\ HeadEnds => ProxyIInv'
<1> SUFFICES ASSUME ProxyIInv, HeadEnds PROVE ProxyIInv'
  OBVIOUS
<1>1. /\ stage = "head" /\ stage' = "over" /\ fate' = "dropped" /\ Unmoved
      /\ Closed \/ TooSlow
  BY DEF HeadEnds, Drop
<1>2. /\ talk \in Talks /\ upstream = <<>> /\ stalled \in BOOLEAN
      /\ inHand \in Seq(Octets(talk))
      /\ inHand \o unread = WireOf(talk) /\ Len(inHand) < talk.head + 4
  BY <1>1 DEF ProxyIInv, ProxyShape, ProxyTypeOK, Unspent, InTheHead
<1>3. stalled' \in BOOLEAN
  BY <1>1, <1>2 DEF Closed, TooSlow
<1>4. Closed => Promised(talk) = "dropped"
  <2> SUFFICES ASSUME Closed PROVE Promised(talk) = "dropped"
    OBVIOUS
  <2>1. inHand \o <<>> = inHand
    BY <1>2, ConcatEmptySeq
  <2>2. Len(WireOf(talk)) < talk.head + 4
    BY <1>2, <2>1 DEF Closed
  <2>3. /\ Len(WireOf(talk)) = talk.head + 4 + Written(talk)
        /\ Written(talk) \in Int /\ talk.head \in Nat
    BY <1>2, WireIs, TunnelIs, TalkIs
  <2>4. Written(talk) < 0
    BY <2>2, <2>3
  <2> QED BY <1>2, <2>4, PromisedIs
<1>5. ~stalled' => fate' = Promised(talk)
  BY <1>1, <1>4 DEF TooSlow
<1> QED BY <1>1, <1>2, <1>3, <1>5, EndsUnmoved

LEMMA AnswerKeeps == ProxyIInv /\ Answer => ProxyIInv'
<1> SUFFICES ASSUME ProxyIInv, Answer PROVE ProxyIInv'
  OBVIOUS
<1>1. /\ stage = "asked" /\ Unmoved /\ stalled' = stalled
      /\ IF Refusal # "none" THEN Drop(Refusal) ELSE On("dial")
  BY DEF Answer
<1>2. /\ talk \in Talks /\ upstream = <<>> /\ stalled \in BOOLEAN /\ fate = "none"
      /\ consumed = 0 /\ handshake = <<>>
      /\ Written(talk) >= 0 /\ inHand \o unread = Sent(talk)
      /\ {unread, inHand, handshake, upstream} \subseteq Seq(Octets(talk))
  BY <1>1 DEF ProxyIInv, ProxyShape, ProxyTypeOK, Unspent, PastTheHead
<1>3. CASE Refusal # "none"
  <2>1. stage' = "over" /\ fate' = Refusal
    BY <1>1, <1>3 DEF Drop
  <2>2. Refusal \in {"405", "403", "400"}
    BY <1>3 DEF Refusal
  <2>3. Promised(talk) = Refusal
    BY <1>2, <1>3, PromisedIs
  <2> QED BY <1>1, <1>2, <2>1, <2>2, <2>3, EndsUnmoved
<1>4. CASE Refusal = "none"
  <2>1. stage' = "dial" /\ fate' = fate
    BY <1>1, <1>4 DEF On
  <2>2. /\ talk' = talk /\ unread' = unread /\ inHand' = inHand /\ consumed' = consumed
        /\ handshake' = handshake /\ upstream' = upstream
    BY <1>1 DEF Unmoved, Peeking
  <2>3. /\ Octets(talk)' = Octets(talk) /\ Written(talk)' = Written(talk)
        /\ Sent(talk)' = Sent(talk)
    BY <2>2
  <2>4. Refusal' = "none"
    BY <1>4, <2>2 DEF Refusal
  <2>5. ProxyShape'
    <3>1. {unread, inHand, handshake, upstream}' \subseteq Seq(Octets(talk)')
      BY <1>2, <2>2, <2>3
    <3> QED BY <1>1, <1>2, <2>1, <2>2, <3>1 DEF ProxyShape, ProxyTypeOK
  <2>6. PastTheHead'
    BY <1>2, <2>2, <2>3 DEF PastTheHead
  <2> QED BY <1>2, <2>1, <2>2, <2>4, <2>5, <2>6 DEF ProxyIInv, Unspent, InTheHead,
          InTheTunnel, NotRefused, InTheRecords, Granted, Peeks
<1> QED BY <1>3, <1>4

LEMMA DialKeeps == ProxyIInv /\ Dial => ProxyIInv'
<1> SUFFICES ASSUME ProxyIInv, Dial PROVE ProxyIInv'
  OBVIOUS
<1>1. /\ stage = "dial" /\ Unmoved
      /\ \/ Drop("502") /\ stalled' = stalled
         \/ Drop("dropped") /\ TooSlow
         \/ On("first") /\ stalled' = stalled
  BY DEF Dial
<1>2. /\ talk \in Talks /\ upstream = <<>> /\ stalled \in BOOLEAN /\ fate = "none"
      /\ consumed = 0 /\ handshake = <<>>
      /\ Written(talk) >= 0 /\ inHand \o unread = Sent(talk) /\ Refusal = "none"
      /\ {unread, inHand, handshake, upstream} \subseteq Seq(Octets(talk))
  BY <1>1 DEF ProxyIInv, ProxyShape, ProxyTypeOK, Unspent, PastTheHead, NotRefused
<1>3. CASE Drop("502") /\ stalled' = stalled
  <2>1. stage' = "over" /\ fate' = "502"
    BY <1>3 DEF Drop
  <2>2. Promised(talk) \in {"tunnelled", "refused"}
    <3>1. Promised(talk) =
            IF \/ Written(talk) = 0 \/ talk.cuts = <<>> \/ talk.alien = 1
               \/ Inspected(talk) /\ talk.name \in {talk.host, NoName}
            THEN "tunnelled" ELSE "refused"
      BY <1>2, PromisedIs
    <3> QED BY <3>1
  <2> QED BY <1>1, <1>2, <1>3, <2>1, <2>2, EndsUnmoved
<1>4. CASE Drop("dropped") /\ TooSlow
  <2>1. stage' = "over" /\ fate' = "dropped" /\ stalled' = TRUE
    BY <1>4 DEF Drop, TooSlow
  <2> QED BY <1>1, <1>2, <2>1, EndsUnmoved
<1>5. CASE On("first") /\ stalled' = stalled
  <2>1. stage' = "first" /\ fate' = fate
    BY <1>5 DEF On
  <2>2. /\ talk' = talk /\ unread' = unread /\ inHand' = inHand /\ consumed' = consumed
        /\ handshake' = handshake /\ upstream' = upstream
    BY <1>1 DEF Unmoved, Peeking
  <2>3. /\ Octets(talk)' = Octets(talk) /\ Written(talk)' = Written(talk)
        /\ Sent(talk)' = Sent(talk)
    BY <2>2
  <2>4. Refusal' = "none"
    BY <1>2, <2>2 DEF Refusal
  <2>5. ProxyShape'
    <3>1. {unread, inHand, handshake, upstream}' \subseteq Seq(Octets(talk)')
      BY <1>2, <2>2, <2>3
    <3> QED BY <1>2, <1>5, <2>1, <2>2, <3>1 DEF ProxyShape, ProxyTypeOK
  <2>6. PastTheHead'
    BY <1>2, <2>2, <2>3 DEF PastTheHead
  <2> QED BY <1>2, <2>1, <2>2, <2>4, <2>5, <2>6 DEF ProxyIInv, Unspent, InTheHead,
          InTheTunnel, NotRefused, InTheRecords, Granted, Peeks
<1> QED BY <1>1, <1>3, <1>4, <1>5

\* A step of the peek that moves no byte and does not end the connection.
LEMMA PeekGoes ==
  ASSUME ProxyIInv, stage \in Peeks, stage' \in {"header", "body", "forward"},
         talk' = talk, unread' = unread, inHand' = inHand, upstream' = upstream,
         handshake' \in Seq(Octets(talk)), fate' = fate, stalled' \in BOOLEAN,
         stage' = "body" => consumed' + 2 <= Len(inHand),
         InTheRecords', Granted'
  PROVE  ProxyIInv'
<1>1. /\ talk \in Talks /\ upstream = <<>> /\ fate = "none"
      /\ Written(talk) >= 0 /\ inHand \o unread = Sent(talk) /\ Refusal = "none"
      /\ unread \in Seq(Octets(talk)) /\ inHand \in Seq(Octets(talk))
      /\ upstream \in Seq(Octets(talk))
  BY DEF ProxyIInv, ProxyShape, ProxyTypeOK, Unspent, PastTheHead, NotRefused, Peeks
<1>2. /\ Octets(talk)' = Octets(talk) /\ Written(talk)' = Written(talk)
      /\ Sent(talk)' = Sent(talk)
  OBVIOUS
<1>3. Refusal' = "none"
  BY <1>1 DEF Refusal
<1>4. ProxyShape'
  <2>1. {unread, inHand, handshake, upstream}' \subseteq Seq(Octets(talk)')
    BY <1>1, <1>2
  <2> QED BY <1>1, <2>1 DEF ProxyShape, ProxyTypeOK
<1>5. PastTheHead'
  BY <1>1, <1>2 DEF PastTheHead
<1> QED BY <1>1, <1>3, <1>4, <1>5 DEF ProxyIInv, Unspent, InTheHead, InTheTunnel,
        NotRefused, Peeks

\* What is wanted is known, and only while the peek goes on.
LEMMA TargetIs ==
  ASSUME ProxyIInv
  PROVE  /\ stage \in Peeks => Target \in Nat
         /\ stage \in {"header", "body"} =>
              \E k \in 0 .. Len(talk.cuts) :
                /\ TakenApart(k) /\ (stage = "body" => Opened(k))
                /\ stage = "header" => Target = Wire(talk, k) + 2
                /\ stage = "body" => Target = Wire(talk, k + 1)
         /\ Wanting => stage \in Peeks
<1>1. CASE stage = "first"
  <2>1. Target = 1
    BY <1>1 DEF Target
  <2> QED BY <2>1, <1>1 DEF Peeks
<1>2. CASE stage \in {"header", "body"}
  <2>1. PICK k \in 0 .. Len(talk.cuts) : TakenApart(k) /\ (stage = "body" => Opened(k))
    BY <1>2 DEF ProxyIInv, InTheRecords
  <2>2. talk \in Talks /\ Len(talk.cuts) \in Nat
    BY TalkIs DEF ProxyIInv, ProxyShape, ProxyTypeOK
  <2>3. consumed = Wire(talk, k) /\ Wire(talk, k) \in Nat
    BY <2>1, <2>2, WiresGrow DEF TakenApart
  <2>4. CASE stage = "header"
    <3>1. Target = Wire(talk, k) + 2
      BY <2>3, <2>4 DEF Target
    <3> QED BY <3>1, <2>1, <2>3, <2>4 DEF Peeks
  <2>5. CASE stage = "body"
    <3>1. k < Len(talk.cuts) /\ Len(inHand) >= consumed + 2
      BY <2>1, <2>5 DEF Opened
    <3>2. consumed + 2 + inHand[consumed + 2] = Wire(talk, k + 1)
      BY <2>1, <2>5, <3>1, BodyTarget
    <3>3. Target = Wire(talk, k + 1)
      BY <3>2, <2>5 DEF Target
    <3>4. Wire(talk, k + 1) \in Nat
      <4>1. k + 1 \in 0 .. Len(talk.cuts)
        BY <2>2, <3>1
      <4> QED BY <4>1, <2>2, WiresGrow
    <3> QED BY <3>3, <3>4, <2>1, <2>5 DEF Peeks
  <2> QED BY <1>2, <2>4, <2>5
<1>3. CASE stage \notin Peeks
  <2>1. Target = 0
    BY <1>3 DEF Target, Peeks
  <2>2. Len(inHand) \in Nat
    BY DEF ProxyIInv, ProxyShape
  <2>3. ~Wanting
    BY <2>1, <2>2 DEF Wanting
  <2> QED BY <2>3, <1>3 DEF Peeks
<1> QED BY <1>1, <1>2, <1>3 DEF Peeks

LEMMA FillKeeps == ProxyIInv /\ Fill => ProxyIInv'
<1> SUFFICES ASSUME ProxyIInv, Fill PROVE ProxyIInv'
  OBVIOUS
<1>1. /\ Wanting /\ talk' = talk /\ consumed' = consumed /\ handshake' = handshake
      /\ upstream' = upstream /\ stage' = stage /\ fate' = fate /\ stalled' = stalled
  BY DEF Fill, Peeking
<1>2. stage \in Peeks /\ Target \in Nat
  BY <1>1, TargetIs
<1>3. /\ talk \in Talks /\ upstream = <<>> /\ fate = "none" /\ stalled \in BOOLEAN
      /\ Written(talk) >= 0 /\ inHand \o unread = Sent(talk) /\ Refusal = "none"
      /\ unread \in Seq(Octets(talk)) /\ inHand \in Seq(Octets(talk))
      /\ handshake \in Seq(Octets(talk)) /\ upstream \in Seq(Octets(talk))
      /\ stage = "first" => consumed = 0 /\ handshake = <<>>
      /\ stage = "body" => consumed + 2 <= Len(inHand)
  BY <1>2 DEF ProxyIInv, ProxyShape, ProxyTypeOK, Unspent, PastTheHead, NotRefused, Peeks
<1>l. Len(inHand) \in Nat /\ Len(unread) \in Nat
  BY <1>3
<1>4. \E n \in 0 .. Len(unread) :
        /\ inHand' = inHand \o SubSeq(unread, 1, n)
        /\ unread' = SubSeq(unread, n + 1, Len(unread))
  <2>1. PICK n \in 1 .. Target - Len(inHand) : Read(Target - Len(inHand), n)
    BY DEF Fill
  <2>2. n \in 0 .. Len(unread)
    <3>1. n \in 1 .. Less(Target - Len(inHand), Len(unread))
      BY <2>1 DEF Read
    <3>2. /\ Less(Target - Len(inHand), Len(unread)) \in Int
          /\ Less(Target - Len(inHand), Len(unread)) <= Len(unread)
      BY <1>2, <1>l DEF Less
    <3> QED BY <3>1, <3>2, <1>l
  <2> QED BY <2>1, <2>2 DEF Read
<1>5. PICK n \in 0 .. Len(unread) :
        /\ inHand' = inHand \o SubSeq(unread, 1, n)
        /\ unread' = SubSeq(unread, n + 1, Len(unread))
  BY <1>4
<1>6. Kept(Octets(talk), inHand, unread, n)
  BY <1>3, ReadKeeps
<1>7. /\ inHand' \in Seq(Octets(talk)) /\ unread' \in Seq(Octets(talk))
      /\ inHand' \o unread' = Sent(talk) /\ Len(inHand') = Len(inHand) + n
  BY <1>3, <1>5, <1>6 DEF Kept
<1>8. Len(inHand') \in Nat /\ Len(inHand') >= Len(inHand)
  BY <1>7, <1>l
<1>9. /\ Octets(talk)' = Octets(talk) /\ Written(talk)' = Written(talk)
      /\ Sent(talk)' = Sent(talk)
  BY <1>1
<1>10. Refusal' = "none"
  BY <1>1, <1>3 DEF Refusal
<1>11. InTheRecords'
  <2> SUFFICES ASSUME stage \in {"header", "body"}
               PROVE  \E k \in 0 .. Len(talk.cuts) :
                        TakenApart(k)' /\ (stage = "body" => Opened(k)')
    BY <1>1 DEF InTheRecords
  <2>1. PICK k \in 0 .. Len(talk.cuts) : TakenApart(k) /\ (stage = "body" => Opened(k))
    BY DEF ProxyIInv, InTheRecords
  <2>2. consumed \in Nat
    BY <2>1, <1>3, WiresGrow DEF TakenApart
  <2>3. TakenApart(k)'
    BY <2>1, <2>2, <1>1, <1>8, <1>l DEF TakenApart
  <2>4. stage = "body" => Opened(k)'
    BY <2>1, <2>2, <1>1, <1>8, <1>l DEF Opened
  <2> QED BY <2>3, <2>4
<1>12. ProxyShape'
  <2>1. {unread, inHand, handshake, upstream}' \subseteq Seq(Octets(talk)')
    BY <1>1, <1>3, <1>7, <1>9
  <2>2. stage' = "body" => consumed' + 2 <= Len(inHand')
    <3> SUFFICES ASSUME stage = "body" PROVE consumed + 2 <= Len(inHand')
      BY <1>1
    <3>1. PICK k \in 0 .. Len(talk.cuts) : TakenApart(k)
      BY DEF ProxyIInv, InTheRecords
    <3>2. consumed \in Nat
      BY <3>1, <1>3, WiresGrow DEF TakenApart
    <3> QED BY <3>2, <1>3, <1>8, <1>l
  <2> QED BY <1>1, <1>2, <1>3, <2>1, <2>2 DEF ProxyShape, ProxyTypeOK, Peeks
<1>13. PastTheHead'
  BY <1>3, <1>7, <1>9 DEF PastTheHead
<1> QED BY <1>1, <1>2, <1>3, <1>10, <1>11, <1>12, <1>13 DEF ProxyIInv, Unspent, InTheHead,
        InTheTunnel, NotRefused, Granted, Peeks

\* The steps of the peek start from these.
LEMMA PeekFacts ==
  ASSUME ProxyIInv, stage \in Peeks
  PROVE  /\ talk \in Talks /\ upstream = <<>> /\ fate = "none" /\ stalled \in BOOLEAN
         /\ Written(talk) \in Nat /\ Refusal = "none"
         /\ inHand \in Seq(Octets(talk)) /\ handshake \in Seq(Octets(talk))
         /\ Len(inHand) \in Nat /\ Len(unread) \in Nat
         /\ Len(inHand) + Len(unread) = Written(talk)
         /\ \A i \in 1 .. Len(inHand) : inHand[i] = TunnelOf(talk)[i]
         /\ Promised(talk) =
              IF \/ Written(talk) = 0 \/ talk.cuts = <<>> \/ talk.alien = 1
                 \/ Inspected(talk) /\ talk.name \in {talk.host, NoName}
              THEN "tunnelled" ELSE "refused"
<1>1. /\ talk \in Talks /\ upstream = <<>> /\ fate = "none" /\ stalled \in BOOLEAN
      /\ Refusal = "none" /\ handshake \in Seq(Octets(talk)) /\ Written(talk) >= 0
  BY DEF ProxyIInv, ProxyShape, ProxyTypeOK, Unspent, PastTheHead, NotRefused, Peeks
<1>2. stage \in {"asked", "dial", "forward"} \cup Peeks
  OBVIOUS
<1> QED BY <1>1, <1>2, InHandIs, PromisedIs

LEMMA FillEndsKeeps == ProxyIInv /\ FillEnds => ProxyIInv'
<1> SUFFICES ASSUME ProxyIInv, FillEnds PROVE ProxyIInv'
  OBVIOUS
<1>1. /\ Wanting /\ Unmoved
      /\ \/ Closed /\ IF stage = "first" THEN On("forward") ELSE Drop("refused")
         \/ TooSlow /\ Drop("refused")
  BY DEF FillEnds
<1>2. /\ talk' = talk /\ unread' = unread /\ inHand' = inHand /\ consumed' = consumed
      /\ handshake' = handshake /\ upstream' = upstream
  BY <1>1 DEF Unmoved, Peeking
<1>3. stage \in Peeks /\ Target \in Nat /\ Len(inHand) < Target
  BY <1>1, TargetIs DEF Wanting
<1>4. CASE TooSlow /\ Drop("refused")
  <2>1. stage' = "over" /\ fate' = "refused" /\ stalled' = TRUE
    BY <1>4 DEF Drop, TooSlow
  <2> QED BY <1>1, <1>3, <2>1, PeekFacts, EndsUnmoved
<1>5. CASE Closed /\ stage = "first" /\ On("forward")
  <2>1. stage' = "forward" /\ fate' = fate /\ stalled' = stalled /\ unread = <<>>
    BY <1>5 DEF On, Closed
  <2>2. Target = 1
    BY <1>5 DEF Target
  <2>3. Written(talk) = 0
    BY <1>3, <2>1, <2>2, PeekFacts
  <2>4. Promised(talk) = "tunnelled"
    BY <1>3, <2>3, PeekFacts
  <2>5. Granted'
    <3>1. Promised(talk)' = Promised(talk)
      BY <1>2
    <3> QED BY <2>4, <3>1 DEF Granted
  <2>6. InTheRecords'
    BY <2>1 DEF InTheRecords
  <2>7. handshake' \in Seq(Octets(talk)) /\ stalled' \in BOOLEAN
    BY <1>2, <1>3, <2>1, PeekFacts
  <2> QED BY <1>2, <1>3, <2>1, <2>5, <2>6, <2>7, PeekGoes
<1>6. CASE Closed /\ stage # "first" /\ Drop("refused")
  <2>1. /\ stage' = "over" /\ fate' = "refused" /\ stalled' = stalled /\ unread = <<>>
        /\ stage \in {"header", "body"}
    BY <1>3, <1>6 DEF Drop, Closed, Peeks
  <2>2. Written(talk) = Len(inHand)
    <3>1. Len(unread) = 0
      BY <2>1
    <3> QED BY <1>3, <3>1, PeekFacts
  <2>3. PICK k \in 0 .. Len(talk.cuts) :
          /\ TakenApart(k)
          /\ stage = "header" => Target = Wire(talk, k) + 2
          /\ stage = "body" => Target = Wire(talk, k + 1)
    BY <2>1, TargetIs
  <2>4. talk \in Talks /\ Len(talk.cuts) \in Nat
    BY <1>3, PeekFacts, TalkIs
  <2>5. Carried(talk, k) < 2 + talk.size
    BY <2>3 DEF TakenApart
  <2>6. ~Inspected(talk)
    <3> SUFFICES ASSUME Inspected(talk) PROVE FALSE
      OBVIOUS
    <3>1. k < Len(talk.cuts) /\ Wire(talk, k + 1) <= Written(talk)
      BY <2>4, <2>5, InspectedLater
    <3>2. k + 1 \in 0 .. Len(talk.cuts) /\ k < k + 1
      BY <2>4, <3>1
    <3>3. /\ Wire(talk, k) + 2 <= Wire(talk, k + 1)
          /\ Wire(talk, k) \in Nat /\ Wire(talk, k + 1) \in Nat
      BY <2>4, <3>2, WiresGrow
    <3>4. Target <= Wire(talk, k + 1)
      BY <2>1, <2>3, <3>3
    <3>5. Len(inHand) \in Nat
      BY <1>3, PeekFacts
    <3> QED BY <1>3, <2>2, <3>1, <3>3, <3>4, <3>5
  <2>7. Promised(talk) = "refused"
    BY <2>1, <2>3, <2>6, HelloDecides
  <2> QED BY <1>1, <1>3, <2>1, <2>7, PeekFacts, EndsUnmoved
<1> QED BY <1>1, <1>4, <1>5, <1>6

LEMMA FirstKeeps == ProxyIInv /\ First => ProxyIInv'
<1> SUFFICES ASSUME ProxyIInv, First PROVE ProxyIInv'
  OBVIOUS
<1>1. /\ stage = "first" /\ ~Wanting /\ Unmoved /\ stalled' = stalled
      /\ On(IF inHand[1] = Handshake THEN "header" ELSE "forward")
  BY DEF First, Filled
<1>2. /\ talk' = talk /\ unread' = unread /\ inHand' = inHand /\ consumed' = consumed
      /\ handshake' = handshake /\ upstream' = upstream
  BY <1>1 DEF Unmoved, Peeking
<1>3. stage \in Peeks
  BY <1>1 DEF Peeks
<1>4. /\ talk \in Talks /\ Len(inHand) \in Nat /\ Len(inHand) <= Written(talk)
      /\ \A i \in 1 .. Len(inHand) : inHand[i] = TunnelOf(talk)[i]
  BY <1>3, PeekFacts
<1>5. Len(inHand) >= 1
  <2>1. Target = 1
    BY <1>1 DEF Target
  <2> QED BY <1>1, <1>4, <2>1 DEF Wanting
<1>6. consumed = 0 /\ handshake = <<>>
  BY <1>1 DEF ProxyIInv, Unspent
<1>7. /\ Len(talk.cuts) \in Nat /\ talk.alien \in Nat /\ talk.size \in Nat
      /\ talk.cuts \in Seq(Nat)
  BY <1>4, TalkIs
<1>8. Carried(talk, 0) = 0 /\ Wire(talk, 0) = 0
  BY DEF Carried, Wire
<1>9. inHand[1] = TunnelOf(talk)[1] /\ 1 \in 1 .. Len(TunnelOf(talk))
  <2>1. 1 \in 1 .. Len(inHand)
    BY <1>4, <1>5
  <2>2. Len(TunnelOf(talk)) \in Nat /\ Written(talk) \in Int /\ Written(talk) <= Len(TunnelOf(talk))
    BY <1>4, TunnelIs
  <2> QED BY <1>4, <1>5, <2>1, <2>2
<1>10. talk.cuts = <<>> => inHand[1] = Text
  <2> SUFFICES ASSUME talk.cuts = <<>> PROVE TunnelOf(talk)[1] = Text
    BY <1>9
  <2>1. Len(talk.cuts) = 0
    OBVIOUS
  <2>2. 1 > Wire(talk, Len(talk.cuts))
    BY <1>8, <2>1
  <2> QED BY <1>4, <1>9, <2>2, PlainBytes
<1>11. talk.cuts # <<>> => inHand[1] = IF talk.alien = 1 THEN Other ELSE Handshake
  <2> SUFFICES ASSUME talk.cuts # <<>>
               PROVE  TunnelOf(talk)[1] = IF talk.alien = 1 THEN Other ELSE Handshake
    BY <1>9
  <2>1. 0 < Len(talk.cuts)
    BY <1>7, EmptySeq
  <2>2. /\ 0 \in 0 .. Len(talk.cuts) /\ 1 \in 0 .. Len(talk.cuts)
        /\ 0 + 1 = 1 /\ 0 \in Nat /\ 1 \in Nat
    BY <1>7, <2>1
  <2>3. Wire(talk, 0) + 2 <= Wire(talk, 1) /\ Wire(talk, 1) \in Nat
    BY <1>4, <2>2, WiresGrow
  <2>4. 1 <= Wire(talk, 0 + 1) - Wire(talk, 0)
    BY <1>8, <2>2, <2>3
  <2>5. TunnelOf(talk)[Wire(talk, 0) + 1] = RecordByte(talk, 0 + 1, 1)
    BY <1>4, <2>1, <2>2, <2>4, RecordBytes
  <2>6. RecordByte(talk, 1, 1) = IF talk.alien = 1 THEN Other ELSE Handshake
    BY DEF RecordByte
  <2> QED BY <1>8, <2>2, <2>5, <2>6
<1>12. handshake' \in Seq(Octets(talk)) /\ stalled' \in BOOLEAN
  BY <1>1, <1>2, <1>3, PeekFacts
<1>13. CASE inHand[1] = Handshake
  <2>1. stage' = "header" /\ fate' = fate
    BY <1>1, <1>13 DEF On
  <2>2. talk.cuts # <<>> /\ talk.alien # 1
    BY <1>10, <1>11, <1>13 DEF Handshake, Text, Other
  <2>3. TakenApart(0)'
    <3>1. 0 \in 0 .. Len(talk.cuts) /\ talk.alien \notin 1 .. 0
      BY <1>7
    <3>2. Len(<<>>) = 0 /\ PeekCap \in Nat
      BY ProxyAssumption
    <3>3. /\ Len(handshake) = 0 /\ \A j \in 1 .. Len(handshake) : handshake[j] = HelloByte(talk, j)
      BY <1>6, <3>2
    <3> QED BY <1>2, <1>4, <1>5, <1>6, <1>7, <1>8, <2>2, <3>1, <3>2, <3>3 DEF TakenApart
  <2>4. InTheRecords'
    <3>1. 0 \in 0 .. Len(talk'.cuts)
      BY <1>2, <1>7
    <3> QED BY <2>1, <2>3, <3>1 DEF InTheRecords
  <2>5. Granted'
    BY <2>1 DEF Granted
  <2> QED BY <1>1, <1>2, <1>3, <1>12, <2>1, <2>4, <2>5, PeekGoes
<1>14. CASE inHand[1] # Handshake
  <2>1. stage' = "forward" /\ fate' = fate
    BY <1>1, <1>14 DEF On
  <2>2. talk.cuts = <<>> \/ talk.alien = 1
    BY <1>11, <1>14
  <2>3. Promised(talk) = "tunnelled"
    BY <1>3, <2>2, PeekFacts
  <2>4. Granted'
    <3>1. Promised(talk)' = Promised(talk)
      BY <1>2
    <3> QED BY <2>3, <3>1 DEF Granted
  <2>5. InTheRecords'
    BY <2>1 DEF InTheRecords
  <2> QED BY <1>1, <1>2, <1>3, <1>12, <2>1, <2>4, <2>5, PeekGoes
<1> QED BY <1>13, <1>14

LEMMA HeaderKeeps == ProxyIInv /\ Header => ProxyIInv'
<1> SUFFICES ASSUME ProxyIInv, Header PROVE ProxyIInv'
  OBVIOUS
<1> DEFINE goes == /\ inHand[consumed + 1] = Handshake
                   /\ consumed + 2 + inHand[consumed + 2] <= PeekCap
<1>1. /\ stage = "header" /\ ~Wanting /\ Unmoved /\ stalled' = stalled
      /\ IF goes THEN On("body") ELSE Drop("refused")
  BY DEF Header, Filled
<1> HIDE DEF goes
<1>2. /\ talk' = talk /\ unread' = unread /\ inHand' = inHand /\ consumed' = consumed
      /\ handshake' = handshake /\ upstream' = upstream
  BY <1>1 DEF Unmoved, Peeking
<1>3. stage \in Peeks /\ stage \in {"header", "body"}
  BY <1>1 DEF Peeks
<1>4. /\ talk \in Talks /\ Len(inHand) \in Nat /\ Len(inHand) <= Written(talk)
      /\ \A i \in 1 .. Len(inHand) : inHand[i] = TunnelOf(talk)[i]
      /\ upstream = <<>> /\ stalled \in BOOLEAN
  BY <1>3, PeekFacts
<1>5. PICK k \in 0 .. Len(talk.cuts) : TakenApart(k) /\ Target = Wire(talk, k) + 2
  BY <1>1, TargetIs
<1>6. /\ Len(talk.cuts) \in Nat /\ talk.alien \in Nat /\ talk.size \in Nat
      /\ PeekCap \in Nat /\ talk.cuts \in Seq(Nat)
  BY <1>4, TalkIs, ProxyAssumption
<1>7. consumed = Wire(talk, k) /\ consumed \in Nat /\ Carried(talk, k) < 2 + talk.size
  BY <1>4, <1>5, WiresGrow DEF TakenApart
<1>8. Len(inHand) >= consumed + 2
  BY <1>1, <1>4, <1>5, <1>7 DEF Wanting
<1>9. k < Len(talk.cuts) =>
        /\ inHand[consumed + 1] = IF talk.alien = k + 1 THEN Other ELSE Handshake
        /\ consumed + 2 + inHand[consumed + 2] = Wire(talk, k + 1)
  BY <1>3, <1>5, <1>8, BodyTarget
<1>10. k = Len(talk.cuts) => inHand[consumed + 1] = Text
  <2> SUFFICES ASSUME k = Len(talk.cuts) PROVE inHand[consumed + 1] = Text
    OBVIOUS
  <2>1. Len(TunnelOf(talk)) \in Nat /\ Written(talk) \in Int /\ Written(talk) <= Len(TunnelOf(talk))
    BY <1>4, TunnelIs
  <2>2. /\ consumed + 1 \in 1 .. Len(inHand) /\ consumed + 1 \in 1 .. Len(TunnelOf(talk))
        /\ consumed + 1 > Wire(talk, Len(talk.cuts))
    BY <1>4, <1>7, <1>8, <2>1
  <2> QED BY <1>4, <2>2, PlainBytes
<1>11. CASE goes
  <2>1. stage' = "body" /\ fate' = fate
    BY <1>1, <1>11 DEF On
  <2>2. k < Len(talk.cuts) /\ talk.alien # k + 1 /\ Wire(talk, k + 1) <= PeekCap
    <3>1. inHand[consumed + 1] = Handshake /\ consumed + 2 + inHand[consumed + 2] <= PeekCap
      BY <1>11 DEF goes
    <3>2. k < Len(talk.cuts)
      BY <3>1, <1>6, <1>10 DEF Handshake, Text
    <3> QED BY <3>1, <3>2, <1>9 DEF Handshake, Other
  <2>3. InTheRecords'
    <3>1. TakenApart(k)'
      BY <1>2, <1>5 DEF TakenApart
    <3>2. Opened(k)'
      BY <1>2, <1>8, <2>2 DEF Opened
    <3> QED BY <1>2, <3>1, <3>2 DEF InTheRecords
  <2>4. Granted'
    BY <2>1 DEF Granted
  <2>5. handshake' \in Seq(Octets(talk)) /\ stalled' \in BOOLEAN
    BY <1>1, <1>2, <1>3, PeekFacts
  <2>6. consumed' + 2 <= Len(inHand)
    BY <1>2, <1>4, <1>7, <1>8
  <2> QED BY <1>2, <1>3, <2>1, <2>3, <2>4, <2>5, <2>6, PeekGoes
<1>12. CASE ~goes
  <2>1. stage' = "over" /\ fate' = "refused"
    BY <1>1, <1>12 DEF Drop
  <2>2. ~Inspected(talk)
    <3> SUFFICES ASSUME Inspected(talk) PROVE FALSE
      OBVIOUS
    <3>1. /\ k < Len(talk.cuts) /\ talk.alien # k + 1 /\ Wire(talk, k + 1) <= PeekCap
      BY <1>4, <1>7, InspectedLater
    <3>2. goes
      BY <1>9, <3>1 DEF goes
    <3> QED BY <1>12, <3>2
  <2>3. Promised(talk) = "refused"
    BY <1>3, <1>5, <2>2, HelloDecides
  <2> QED BY <1>1, <1>4, <2>1, <2>3, EndsUnmoved
<1> QED BY <1>11, <1>12

\* The bodies of the first k + 1 records are the hello's first bytes.
LEMMA BodiesAre ==
  ASSUME ProxyIInv, stage = "body", ~Wanting,
         NEW k \in 0 .. Len(talk.cuts), TakenApart(k), Opened(k),
         NEW bodies, bodies = handshake \o SubSeq(inHand, consumed + 3, Target)
  PROVE  /\ bodies \in Seq(Octets(talk)) /\ Len(bodies) = Carried(talk, k + 1)
         /\ \A j \in 1 .. Len(bodies) : bodies[j] = HelloByte(talk, j)
         /\ Target = Wire(talk, k + 1) /\ Target <= Len(inHand)
<1>1. stage \in Peeks /\ stage \in {"header", "body"}
  BY DEF Peeks
<1>2. /\ talk \in Talks /\ Len(inHand) \in Nat /\ Len(inHand) <= Written(talk)
      /\ inHand \in Seq(Octets(talk)) /\ handshake \in Seq(Octets(talk))
      /\ \A i \in 1 .. Len(inHand) : inHand[i] = TunnelOf(talk)[i]
  BY <1>1, PeekFacts
<1>3. /\ Len(talk.cuts) \in Nat /\ k < Len(talk.cuts) /\ k \in Nat
  BY <1>2, TalkIs DEF Opened
<1>4. /\ consumed + 2 + inHand[consumed + 2] = Wire(talk, k + 1)
      /\ Carried(talk, k) \in Nat /\ Carried(talk, k + 1) \in Nat
      /\ Carried(talk, k) <= Carried(talk, k + 1)
      /\ consumed = Wire(talk, k) /\ consumed \in Nat
  BY <1>1, <1>3, BodyTarget DEF Opened
<1>5. Target = Wire(talk, k + 1)
  BY <1>4 DEF Target
<1>6. Wire(talk, k + 1) = consumed + 2 + (Carried(talk, k + 1) - Carried(talk, k))
  BY <1>3, <1>4 DEF Wire
<1>a. /\ Carried(talk, k) \in Nat /\ Carried(talk, k + 1) \in Nat
      /\ Carried(talk, k) <= Carried(talk, k + 1)
      /\ consumed \in Nat /\ Len(inHand) \in Nat
  BY <1>2, <1>4
<1>t. Target = consumed + 2 + (Carried(talk, k + 1) - Carried(talk, k))
  BY <1>5, <1>6
<1>7. Target \in Nat /\ Target <= Len(inHand)
  <2>1. Target \in Nat
    BY <1>a, <1>t
  <2> QED BY <2>1, <1>a DEF Wanting
<1>8. PICK d \in Nat : d = Carried(talk, k + 1) - Carried(talk, k) /\ Target = consumed + 2 + d
  BY <1>a, <1>t
<1>w. consumed = Wire(talk, k) /\ Wire(talk, k + 1) = consumed + 2 + d
  BY <1>4, <1>5, <1>8
<1>9. PICK body : body = SubSeq(inHand, consumed + 3, Target)
  OBVIOUS
<1>10. /\ body \in Seq(Octets(talk)) /\ Len(body) = d
       /\ \A j \in 1 .. d : body[j] = inHand[consumed + 2 + j]
  <2>1. \A i \in consumed + 3 .. Target : inHand[i] \in Octets(talk)
    BY <1>2, <1>a, <1>7
  <2>2. consumed + 3 \in Int /\ Target \in Int
    BY <1>a, <1>7
  <2>3. /\ body \in Seq(Octets(talk))
        /\ Len(body) = IF consumed + 3 <= Target THEN Target - (consumed + 3) + 1 ELSE 0
        /\ \A j \in 1 .. Target - (consumed + 3) + 1 : body[j] = inHand[consumed + 3 + j - 1]
    BY <1>9, <2>1, <2>2, SubSeqProperties, SMTT(60)
  <2>4. /\ Target - (consumed + 3) + 1 = d
        /\ \A j \in 1 .. d : consumed + 3 + j - 1 = consumed + 2 + j
    BY <1>a, <1>8
  <2>5. (IF consumed + 3 <= Target THEN Target - (consumed + 3) + 1 ELSE 0) = d
    BY <1>a, <1>8, SMTT(60)
  <2>6. ASSUME NEW j \in 1 .. d PROVE body[j] = inHand[consumed + 2 + j]
    <3>1. body[j] = inHand[consumed + 3 + j - 1]
      BY <2>3, <2>4
    <3> QED BY <3>1, <2>4
  <2> QED BY <2>3, <2>5, <2>6
<1>11. \A j \in 1 .. d : body[j] = HelloByte(talk, Carried(talk, k) + j)
  <2> TAKE j \in 1 .. d
  <2>1. body[j] = TunnelOf(talk)[consumed + 2 + j]
    <3>1. consumed + 2 + j \in 1 .. Len(inHand)
      BY <1>2, <1>a, <1>7, <1>8, SMTT(60)
    <3> QED BY <3>1, <1>2, <1>10
  <2>2. TunnelOf(talk)[Wire(talk, k) + (2 + j)] = RecordByte(talk, k + 1, 2 + j)
    <3>1. 2 + j \in Nat /\ 2 + j >= 1 /\ 2 + j <= Wire(talk, k + 1) - Wire(talk, k)
      <4>1. Wire(talk, k + 1) - Wire(talk, k) = 2 + d
        BY <1>a, <1>w, <1>8, SMTT(60)
      <4>2. j \in Nat /\ 2 + j \in Nat /\ 2 + j >= 1 /\ 2 + j <= 2 + d
        BY <1>8
      <4> QED BY <4>1, <4>2
    <3> QED BY <3>1, <1>2, <1>3, RecordBytes
  <2>3. RecordByte(talk, k + 1, 2 + j) = HelloByte(talk, Carried(talk, k) + j)
    <3>1. (k + 1) - 1 = k /\ 2 + j # 1 /\ 2 + j # 2
      BY <1>3
    <3>2. Carried(talk, k) + (2 + j) - 2 = Carried(talk, k) + j
      BY <1>a
    <3> QED BY <3>1, <3>2 DEF RecordByte
  <2>4. consumed + 2 + j = Wire(talk, k) + (2 + j)
    BY <1>w, <1>a
  <2> QED BY <2>1, <2>2, <2>3, <2>4
<1>12. /\ Len(handshake) = Carried(talk, k)
       /\ \A j \in 1 .. Len(handshake) : handshake[j] = HelloByte(talk, j)
  BY DEF TakenApart
<1>13. /\ bodies \in Seq(Octets(talk)) /\ Len(bodies) = Carried(talk, k) + d
       /\ \A j \in 1 .. Carried(talk, k) + d :
            bodies[j] = IF j <= Carried(talk, k) THEN handshake[j] ELSE body[j - Carried(talk, k)]
  <2>1. /\ handshake \o body \in Seq(Octets(talk))
        /\ Len(handshake \o body) = Len(handshake) + Len(body)
        /\ \A j \in 1 .. Len(handshake) + Len(body) :
             (handshake \o body)[j] =
               IF j <= Len(handshake) THEN handshake[j] ELSE body[j - Len(handshake)]
    BY <1>2, <1>10, ConcatProperties
  <2> QED BY <2>1, <1>9, <1>10, <1>12
<1>14. Len(bodies) = Carried(talk, k + 1)
  BY <1>a, <1>8, <1>13
<1>15. ASSUME NEW j \in 1 .. Len(bodies) PROVE bodies[j] = HelloByte(talk, j)
  <2>1. CASE j <= Carried(talk, k)
    BY <2>1, <1>a, <1>12, <1>13
  <2>2. CASE ~(j <= Carried(talk, k))
    <3>1. /\ j - Carried(talk, k) \in 1 .. d
          /\ Carried(talk, k) + (j - Carried(talk, k)) = j
      BY <2>2, <1>a, <1>13, SMTT(60)
    <3>2. body[j - Carried(talk, k)] = HelloByte(talk, j)
      BY <3>1, <1>11
    <3> QED BY <3>2, <2>2, <1>13
  <2> QED BY <2>1, <2>2
<1> QED BY <1>5, <1>7, <1>13, <1>14, <1>15

LEMMA BodyKeeps == ProxyIInv /\ Body => ProxyIInv'
<1> SUFFICES ASSUME ProxyIInv, Body PROVE ProxyIInv'
  OBVIOUS
<1>1. /\ stage = "body" /\ ~Wanting /\ stage \in Peeks /\ stage \in {"header", "body"}
      /\ talk' = talk /\ unread' = unread /\ inHand' = inHand /\ upstream' = upstream
      /\ stalled' = stalled /\ consumed' = Target
  BY DEF Body, Filled, Peeks
<1>2. PICK bodies : bodies = handshake \o SubSeq(inHand, consumed + 3, Target)
  OBVIOUS
<1>3. PICK message : message = SubSeq(bodies, 1, Less(2 + bodies[2], Len(bodies)))
  OBVIOUS
<1>4. PICK over \in BOOLEAN : over <=> (Len(bodies) >= 2 /\ 2 + bodies[2] + 2 > PeekCap)
  OBVIOUS
<1>5. /\ handshake' = bodies
      /\ CASE over -> Drop("refused")
           [] ~over /\ Whole(bodies) ->
                IF Names(message) \in {talk.host, NoName}
                  THEN On("forward") ELSE Drop("refused")
           [] OTHER -> IF Target >= PeekCap THEN Drop("refused") ELSE On("header")
  BY <1>2, <1>3, <1>4 DEF Body
<1>6. /\ talk \in Talks /\ Len(inHand) \in Nat /\ Len(inHand) <= Written(talk)
      /\ upstream = <<>> /\ stalled \in BOOLEAN /\ fate = "none" /\ Written(talk) \in Nat
  BY <1>1, PeekFacts
<1>7. PICK k \in 0 .. Len(talk.cuts) : TakenApart(k) /\ Opened(k)
  BY <1>1 DEF ProxyIInv, InTheRecords
<1>8. /\ Len(talk.cuts) \in Nat /\ talk.alien \in Nat /\ talk.size \in Nat /\ talk.size >= 1
      /\ PeekCap \in Nat
  BY <1>6, TalkIs, ProxyAssumption
<1>9. /\ bodies \in Seq(Octets(talk)) /\ Len(bodies) = Carried(talk, k + 1)
      /\ \A j \in 1 .. Len(bodies) : bodies[j] = HelloByte(talk, j)
      /\ Target = Wire(talk, k + 1) /\ Target <= Len(inHand)
  BY <1>1, <1>2, <1>7, BodiesAre
<1>10. /\ k < Len(talk.cuts) /\ talk.alien # k + 1 /\ Wire(talk, k + 1) <= PeekCap
       /\ talk.cuts # <<>> /\ talk.alien \notin 1 .. k /\ talk.alien # 1
       /\ Carried(talk, k) < 2 + talk.size /\ Len(inHand) >= 1
  BY <1>7 DEF TakenApart, Opened
<1>11. /\ k + 1 \in 0 .. Len(talk.cuts) /\ talk.alien \notin 1 .. k + 1
       /\ Carried(talk, k + 1) \in Nat /\ Wire(talk, k + 1) \in Nat
  <2>1. k + 1 \in 0 .. Len(talk.cuts) /\ talk.alien \notin 1 .. k + 1
    BY <1>8, <1>10
  <2> QED BY <2>1, <1>6, WiresGrow
<1>12. Len(bodies) >= 2 => bodies[2] = talk.size
  <2> SUFFICES ASSUME Len(bodies) >= 2 PROVE bodies[2] = talk.size
    OBVIOUS
  <2>1. 2 \in 1 .. Len(bodies)
    BY <1>9, <1>11
  <2>2. HelloByte(talk, 2) = talk.size
    BY <1>8 DEF HelloByte
  <2> QED BY <2>1, <2>2, <1>9
<1>13. over <=> (Len(bodies) >= 2 /\ 2 + talk.size + 2 > PeekCap)
  BY <1>4, <1>12
<1>14. Whole(bodies) <=> (Carried(talk, k + 1) >= 2 + talk.size)
  <2>1. Whole(bodies) <=> (Len(bodies) >= 2 /\ Len(bodies) >= 2 + talk.size)
    BY <1>12 DEF Whole
  <2> QED BY <2>1, <1>8, <1>9, <1>11
<1>15. Whole(bodies) => Names(message) = talk.name
  <2> SUFFICES ASSUME Whole(bodies) PROVE Names(message) = talk.name
    OBVIOUS
  <2> DEFINE n == 2 + talk.size
  <2>1. n \in Nat /\ n >= 3 /\ Len(bodies) >= n /\ Len(bodies) >= 2 /\ Len(bodies) \in Nat
    BY <1>8, <1>9, <1>11, <1>14
  <2>2. Less(2 + bodies[2], Len(bodies)) = n
    BY <1>12, <2>1 DEF Less
  <2> HIDE DEF n
  <2>3. \A i \in 1 .. n : bodies[i] \in Octets(talk)
    BY <1>9, <2>1
  <2>4. /\ Len(message) = n /\ message[n] = bodies[n]
    <3>1. 1 \in Int /\ n \in Int
      BY <2>1
    <3>2. message = SubSeq(bodies, 1, n)
      BY <1>3, <2>2
    <3>3. /\ Len(message) = IF 1 <= n THEN n - 1 + 1 ELSE 0
          /\ \A i \in 1 .. n - 1 + 1 : message[i] = bodies[1 + i - 1]
      BY <2>3, <3>1, <3>2, SubSeqProperties
    <3>4. n - 1 + 1 = n /\ n \in 1 .. n /\ 1 + n - 1 = n /\ 1 <= n
      BY <2>1
    <3> QED BY <3>3, <3>4
  <2>5. bodies[n] = HelloByte(talk, n)
    <3>1. n \in 1 .. Len(bodies)
      BY <2>1
    <3> QED BY <3>1, <1>9
  <2>6. HelloByte(talk, n) = talk.name
    <3>1. n # 1 /\ n # 2 /\ n = 2 + talk.size
      BY <2>1 DEF n
    <3> QED BY <3>1 DEF HelloByte
  <2> QED BY <2>4, <2>5, <2>6 DEF Names
<1>16. Promised(talk) = IF Inspected(talk) /\ talk.name \in {talk.host, NoName}
                        THEN "tunnelled" ELSE "refused"
  BY <1>1, <1>7, HelloDecides
<1>17. handshake' \in Seq(Octets(talk)) /\ stalled' \in BOOLEAN
  BY <1>1, <1>5, <1>6, <1>9
<1>18. ASSUME Drop("refused"), Promised(talk) = "refused" PROVE ProxyIInv'
  <2>1. stage' = "over" /\ fate' = "refused"
    BY <1>18 DEF Drop
  <2>2. ProxyShape'
    <3>1. /\ unread \in Seq(Octets(talk)) /\ inHand \in Seq(Octets(talk))
          /\ upstream \in Seq(Octets(talk))
      BY DEF ProxyIInv, ProxyShape
    <3>2. Octets(talk)' = Octets(talk)
      BY <1>1
    <3>3. {unread, inHand, handshake, upstream}' \subseteq Seq(Octets(talk)')
      BY <1>1, <1>17, <3>1, <3>2
    <3> QED BY <1>1, <1>6, <1>17, <2>1, <3>3 DEF ProxyShape, ProxyTypeOK
  <2>3. BytesDecide'
    BY <1>1, <1>6, <1>18, <2>1, NothingPassed
  <2> QED BY <2>1, <2>2, <2>3, ProxyEnds
<1>19. CASE over
  <2>1. Drop("refused")
    BY <1>5, <1>19
  <2>2. ~Inspected(talk)
    BY <1>8, <1>13, <1>19 DEF Inspected
  <2> QED BY <1>16, <1>18, <2>1, <2>2
<1>20. CASE ~over /\ Whole(bodies)
  <2>1. IF Names(message) \in {talk.host, NoName} THEN On("forward") ELSE Drop("refused")
    BY <1>5, <1>20
  <2>2. CASE Names(message) \in {talk.host, NoName}
    <3>1. stage' = "forward" /\ fate' = fate
      BY <2>1, <2>2 DEF On
    <3>2. Inspected(talk)
      <4>1. Carried(talk, k + 1) >= 2 + talk.size
        BY <1>14, <1>20
      <4>2. Wire(talk, k + 1) <= Written(talk)
        BY <1>6, <1>9, <1>11
      <4>3. 2 + talk.size + 2 <= PeekCap
        BY <1>8, <1>9, <1>11, <1>13, <1>20, <4>1
      <4> QED BY <1>6, <1>10, <1>11, <4>1, <4>2, <4>3, InspectedHere
    <3>3. Promised(talk) = "tunnelled"
      BY <1>15, <1>16, <1>20, <2>2, <3>2
    <3>4. Granted'
      <4>1. Promised(talk)' = Promised(talk)
        BY <1>1
      <4> QED BY <3>3, <4>1 DEF Granted
    <3>5. InTheRecords'
      BY <3>1 DEF InTheRecords
    <3> QED BY <1>1, <1>17, <3>1, <3>4, <3>5, PeekGoes
  <2>3. CASE Names(message) \notin {talk.host, NoName}
    BY <1>15, <1>16, <1>18, <1>20, <2>1, <2>3
  <2> QED BY <2>2, <2>3
<1>21. CASE ~over /\ ~Whole(bodies)
  <2>1. IF Target >= PeekCap THEN Drop("refused") ELSE On("header")
    BY <1>5, <1>21
  <2>2. Carried(talk, k + 1) < 2 + talk.size
    BY <1>8, <1>11, <1>14, <1>21
  <2>3. CASE Target >= PeekCap
    <3>1. ~Inspected(talk)
      <4> SUFFICES ASSUME Inspected(talk) PROVE FALSE
        OBVIOUS
      <4>1. /\ k + 1 < Len(talk.cuts) /\ Wire(talk, (k + 1) + 1) <= PeekCap
        BY <1>6, <1>11, <2>2, InspectedLater
      <4>2. (k + 1) + 1 \in 0 .. Len(talk.cuts) /\ k + 1 < (k + 1) + 1
        BY <1>8, <1>11, <4>1
      <4>3. /\ Wire(talk, k + 1) + 2 <= Wire(talk, (k + 1) + 1)
            /\ Wire(talk, (k + 1) + 1) \in Nat
        BY <1>6, <1>11, <4>2, WiresGrow
      <4>4. Wire(talk, k + 1) >= PeekCap
        BY <1>9, <2>3
      <4> QED BY <1>8, <1>11, <4>1, <4>3, <4>4
    <3> QED BY <1>16, <1>18, <2>1, <2>3, <3>1
  <2>4. CASE ~(Target >= PeekCap)
    <3>1. stage' = "header" /\ fate' = fate
      BY <2>1, <2>4 DEF On
    <3>2. Carried(talk, k + 1) >= 2 => talk.size + 4 <= PeekCap
      BY <1>8, <1>9, <1>11, <1>13, <1>21
    <3>3. TakenApart(k + 1)'
      <4>1. /\ Wire(talk, k + 1) <= Len(inHand) /\ consumed' = Wire(talk, k + 1)
        BY <1>1, <1>9
      <4> QED BY <1>1, <1>5, <1>9, <1>10, <1>11, <2>2, <3>2, <4>1 DEF TakenApart
    <3>4. InTheRecords'
      <4>1. k + 1 \in 0 .. Len(talk'.cuts)
        BY <1>1, <1>11
      <4> QED BY <3>1, <3>3, <4>1 DEF InTheRecords
    <3>5. Granted'
      BY <3>1 DEF Granted
    <3> QED BY <1>1, <1>17, <3>1, <3>4, <3>5, PeekGoes
  <2> QED BY <2>3, <2>4
<1> QED BY <1>4, <1>19, <1>20, <1>21

\* What has gone to the host is the first of what the client sent.
LEMMA PrefixOfSent ==
  ASSUME NEW t \in Talks, Written(t) >= 0,
         NEW a \in Seq(Octets(t)), NEW b \in Seq(Octets(t)), a \o b = Sent(t)
  PROVE  IsPrefix(a, TunnelOf(t)) /\ Len(a) + Len(b) = Written(t)
<1>1. /\ Len(Sent(t)) = Len(a) + Len(b)
      /\ \A i \in 1 .. Len(a) : a[i] = Sent(t)[i]
  BY FirstBytes
<1>2. /\ Len(Sent(t)) = Written(t)
      /\ \A i \in 1 .. Written(t) : Sent(t)[i] = TunnelOf(t)[i]
  BY WireIs
<1>3. /\ TunnelOf(t) \in Seq(Octets(t)) /\ Len(TunnelOf(t)) \in Nat
      /\ Written(t) \in Int /\ Written(t) <= Len(TunnelOf(t))
  BY TunnelIs
<1>4. Len(a) \in Nat /\ Len(b) \in Nat
  OBVIOUS
<1>5. Len(a) <= Written(t) /\ Len(a) <= Len(TunnelOf(t))
  BY <1>1, <1>2, <1>3, <1>4
<1>6. PICK n \in Nat : n = Len(a)
  BY <1>4
<1>7. PICK c : c = SubSeq(TunnelOf(t), 1, n)
  OBVIOUS
<1>8. c \in Seq(Octets(t)) /\ Len(c) = n /\ \A i \in 1 .. n : c[i] = TunnelOf(t)[i]
  <2>1. \A i \in 1 .. n : TunnelOf(t)[i] \in Octets(t)
    BY <1>3, <1>5, <1>6
  <2>2. /\ c \in Seq(Octets(t)) /\ Len(c) = IF 1 <= n THEN n - 1 + 1 ELSE 0
        /\ \A i \in 1 .. n - 1 + 1 : c[i] = TunnelOf(t)[1 + i - 1]
    <3>1. 1 \in Int /\ n \in Int
      BY <1>6
    <3> QED BY <2>1, <3>1, <1>7, SubSeqProperties
  <2>3. n - 1 + 1 = n /\ \A i \in 1 .. n : 1 + i - 1 = i
    OBVIOUS
  <2> QED BY <2>2, <2>3
<1>9. \A i \in 1 .. n : a[i] = c[i]
  BY <1>1, <1>2, <1>3, <1>4, <1>5, <1>6, <1>8
<1>10. a = c
  <2>1. Len(a) = Len(c) /\ \A i \in 1 .. Len(a) : a[i] = c[i]
    BY <1>6, <1>8, <1>9
  <2> QED BY <2>1, <1>8, SeqEqual
<1>11. SubSeq(a, 1, Len(a)) = a
  BY SubSeqFull
<1>12. SubSeq(TunnelOf(t), 1, Len(a)) = a
  BY <1>6, <1>7, <1>10
<1>13. IsPrefix(a, TunnelOf(t))
  BY <1>5, <1>11, <1>12 DEF IsPrefix
<1> QED BY <1>1, <1>2, <1>13

LEMMA ForwardKeeps == ProxyIInv /\ Forward => ProxyIInv'
<1> SUFFICES ASSUME ProxyIInv, Forward PROVE ProxyIInv'
  OBVIOUS
<1>1. /\ stage = "forward" /\ inHand' = <<>> /\ talk' = talk /\ unread' = unread
      /\ consumed' = consumed /\ handshake' = handshake
      /\ \/ upstream' = upstream \o inHand /\ On("tunnel") /\ stalled' = stalled
         \/ Drop("dropped") /\ TooSlow /\ upstream' = upstream
  BY DEF Forward
<1>2. /\ talk \in Talks /\ upstream = <<>> /\ fate = "none" /\ stalled \in BOOLEAN
      /\ Written(talk) >= 0 /\ inHand \o unread = Sent(talk) /\ Refusal = "none"
      /\ unread \in Seq(Octets(talk)) /\ inHand \in Seq(Octets(talk))
      /\ handshake \in Seq(Octets(talk)) /\ Promised(talk) = "tunnelled"
  BY <1>1 DEF ProxyIInv, ProxyShape, ProxyTypeOK, Unspent, PastTheHead, NotRefused, Granted
<1>3. <<>> \in Seq(Octets(talk)) /\ <<>> \o inHand = inHand
  BY <1>2, ConcatEmptySeq
<1>4. /\ Octets(talk)' = Octets(talk) /\ Written(talk)' = Written(talk)
      /\ Sent(talk)' = Sent(talk) /\ Promised(talk)' = Promised(talk)
  BY <1>1
<1>5. CASE upstream' = upstream \o inHand /\ On("tunnel") /\ stalled' = stalled
  <2>1. stage' = "tunnel" /\ fate' = fate /\ upstream' = inHand
    BY <1>2, <1>3, <1>5 DEF On
  <2>2. Refusal' = "none"
    BY <1>1, <1>2 DEF Refusal
  <2>3. ProxyShape'
    <3>1. {unread, inHand, handshake, upstream}' \subseteq Seq(Octets(talk)')
      BY <1>1, <1>2, <1>3, <1>4, <2>1
    <3> QED BY <1>1, <1>2, <1>5, <2>1, <3>1 DEF ProxyShape, ProxyTypeOK
  <2>4. InTheTunnel'
    BY <1>1, <1>2, <1>4, <2>1 DEF InTheTunnel
  <2>5. Granted'
    BY <1>2, <1>4 DEF Granted
  <2> QED BY <2>1, <2>2, <2>3, <2>4, <2>5 DEF ProxyIInv, Unspent, InTheHead, PastTheHead,
          NotRefused, InTheRecords, Peeks
<1>6. CASE Drop("dropped") /\ TooSlow /\ upstream' = upstream
  <2>1. stage' = "over" /\ fate' = "dropped" /\ stalled' = TRUE /\ upstream' = <<>>
    BY <1>2, <1>6 DEF Drop, TooSlow
  <2>2. ProxyShape'
    <3>1. {unread, inHand, handshake, upstream}' \subseteq Seq(Octets(talk)')
      BY <1>1, <1>2, <1>3, <1>4, <2>1
    <3> QED BY <1>1, <1>2, <2>1, <3>1 DEF ProxyShape, ProxyTypeOK
  <2>3. BytesDecide'
    BY <1>1, <1>2, <2>1, NothingPassed
  <2> QED BY <2>1, <2>2, <2>3, ProxyEnds
<1> QED BY <1>1, <1>5, <1>6

LEMMA CarryKeeps == ProxyIInv /\ Carry => ProxyIInv'
<1> SUFFICES ASSUME ProxyIInv, Carry PROVE ProxyIInv'
  OBVIOUS
<1>1. /\ stage = "tunnel" /\ talk' = talk /\ stage' = stage /\ inHand' = inHand
      /\ consumed' = consumed /\ handshake' = handshake /\ fate' = fate /\ stalled' = stalled
  BY DEF Carry
<1>2. PICK n \in 1 .. Len(unread) :
        /\ upstream' = upstream \o SubSeq(unread, 1, n)
        /\ unread' = SubSeq(unread, n + 1, Len(unread))
  BY DEF Carry
<1>3. /\ talk \in Talks /\ stalled \in BOOLEAN /\ fate = "none"
      /\ Written(talk) >= 0 /\ upstream \o unread = Sent(talk) /\ Refusal = "none"
      /\ unread \in Seq(Octets(talk)) /\ inHand \in Seq(Octets(talk))
      /\ handshake \in Seq(Octets(talk)) /\ upstream \in Seq(Octets(talk))
      /\ Promised(talk) = "tunnelled"
  BY <1>1 DEF ProxyIInv, ProxyShape, ProxyTypeOK, InTheTunnel, NotRefused, Granted
<1>4. Kept(Octets(talk), upstream, unread, n)
  <2>1. n \in 0 .. Len(unread)
    OBVIOUS
  <2> QED BY <1>3, <2>1, ReadKeeps
<1>5. /\ upstream' \in Seq(Octets(talk)) /\ unread' \in Seq(Octets(talk))
      /\ upstream' \o unread' = Sent(talk)
  BY <1>2, <1>3, <1>4 DEF Kept
<1>6. /\ Octets(talk)' = Octets(talk) /\ Written(talk)' = Written(talk)
      /\ Sent(talk)' = Sent(talk) /\ Promised(talk)' = Promised(talk)
  BY <1>1
<1>7. Refusal' = "none"
  BY <1>1, <1>3 DEF Refusal
<1>8. ProxyShape'
  <2>1. {unread, inHand, handshake, upstream}' \subseteq Seq(Octets(talk)')
    BY <1>1, <1>3, <1>5, <1>6
  <2> QED BY <1>1, <1>3, <2>1 DEF ProxyShape, ProxyTypeOK
<1>9. InTheTunnel' /\ Granted'
  BY <1>3, <1>5, <1>6 DEF InTheTunnel, Granted
<1> QED BY <1>1, <1>7, <1>8, <1>9 DEF ProxyIInv, Unspent, InTheHead, PastTheHead,
        NotRefused, InTheRecords, Peeks

LEMMA TunnelEndsKeeps == ProxyIInv /\ TunnelEnds => ProxyIInv'
<1> SUFFICES ASSUME ProxyIInv, TunnelEnds PROVE ProxyIInv'
  OBVIOUS
<1>1. /\ stage = "tunnel" /\ stage' = "over" /\ fate' = "tunnelled"
      /\ Closed \/ TooSlow
      /\ talk' = talk /\ unread' = unread /\ inHand' = inHand /\ consumed' = consumed
      /\ handshake' = handshake /\ upstream' = upstream
  BY DEF TunnelEnds, Drop, Unmoved, Peeking
<1>2. /\ talk \in Talks /\ stalled \in BOOLEAN
      /\ Written(talk) >= 0 /\ upstream \o unread = Sent(talk)
      /\ unread \in Seq(Octets(talk)) /\ inHand \in Seq(Octets(talk))
      /\ handshake \in Seq(Octets(talk)) /\ upstream \in Seq(Octets(talk))
      /\ Promised(talk) = "tunnelled"
  BY <1>1 DEF ProxyIInv, ProxyShape, ProxyTypeOK, InTheTunnel, Granted
<1>3. ProxyShape'
  <2>1. Octets(talk)' = Octets(talk)
    BY <1>1
  <2>2. {unread, inHand, handshake, upstream}' \subseteq Seq(Octets(talk)')
    BY <1>1, <1>2, <2>1
  <2>3. stalled' \in BOOLEAN
    BY <1>1, <1>2 DEF Closed, TooSlow
  <2> QED BY <1>1, <1>2, <2>2, <2>3 DEF ProxyShape, ProxyTypeOK
<1>4. IsPrefix(upstream, TunnelOf(talk)) /\ Len(upstream) + Len(unread) = Written(talk)
  BY <1>2, PrefixOfSent
<1>5. ~stalled' => Len(upstream) = Len(TunnelOf(talk)) - talk.missing
  <2> SUFFICES ASSUME ~stalled' PROVE Len(upstream) = Len(TunnelOf(talk)) - talk.missing
    OBVIOUS
  <2>1. unread = <<>>
    BY <1>1 DEF Closed, TooSlow
  <2>2. Len(unread) = 0 /\ Len(upstream) \in Nat
    BY <1>2, <2>1
  <2> QED BY <1>4, <2>2 DEF Written
<1>6. BytesDecide'
  BY <1>1, <1>2, <1>4, <1>5 DEF BytesDecide
<1> QED BY <1>1, <1>3, <1>6, ProxyEnds

LEMMA ProxyStutters == ProxyIInv /\ UNCHANGED proxyVars => ProxyIInv'
<1> SUFFICES ASSUME ProxyIInv, UNCHANGED proxyVars PROVE ProxyIInv'
  OBVIOUS
<1>1. /\ talk' = talk /\ stage' = stage /\ unread' = unread /\ inHand' = inHand
      /\ consumed' = consumed /\ handshake' = handshake /\ upstream' = upstream
      /\ fate' = fate /\ stalled' = stalled
  BY DEF proxyVars
<1>2. ProxyShape' /\ Unspent' /\ InTheHead' /\ PastTheHead' /\ InTheTunnel'
  BY <1>1 DEF ProxyIInv, ProxyShape, ProxyTypeOK, Unspent, InTheHead, PastTheHead, InTheTunnel
<1>3. NotRefused'
  BY <1>1 DEF ProxyIInv, NotRefused, Refusal
<1>4. InTheRecords'
  BY <1>1 DEF ProxyIInv, InTheRecords, TakenApart, Opened
<1>5. Granted' /\ (stage' = "over" => BytesDecide')
  BY <1>1 DEF ProxyIInv, Granted, BytesDecide
<1> QED BY <1>2, <1>3, <1>4, <1>5 DEF ProxyIInv

LEMMA ProxyInductive == ProxySpec => []ProxyIInv
<1>1. ProxyIInv /\ [ProxyNext]_proxyVars => ProxyIInv'
  BY ReadHeadKeeps, HeadEndsKeeps, AnswerKeeps, DialKeeps, FillKeeps, FillEndsKeeps,
     FirstKeeps, HeaderKeeps, BodyKeeps, ForwardKeeps, CarryKeeps, TunnelEndsKeeps,
     ProxyStutters DEF ProxyNext, Serving, ProxyOver
<1> QED BY <1>1, ProxyInitially, PTL DEF ProxySpec

\* What becomes of a connection is decided by what the client wrote, however the
\* reads cut it and however many records its hello is in, for every client, every
\* size of read and every cap (proxy.rs, handle).
THEOREM BytesAloneDecide == ProxySpec => []BytesDecide
<1>1. ProxyIInv => BytesDecide
  <2> SUFFICES ASSUME ProxyIInv PROVE BytesDecide
    OBVIOUS
  <2>1. CASE stage = "over"
    BY <2>1 DEF ProxyIInv
  <2>2. CASE stage = "tunnel"
    <3>1. /\ talk \in Talks /\ Written(talk) >= 0 /\ upstream \o unread = Sent(talk)
          /\ unread \in Seq(Octets(talk)) /\ upstream \in Seq(Octets(talk))
          /\ Promised(talk) = "tunnelled" /\ fate = "none"
      BY <2>2 DEF ProxyIInv, ProxyShape, ProxyTypeOK, InTheTunnel, Granted
    <3>2. IsPrefix(upstream, TunnelOf(talk))
      BY <3>1, PrefixOfSent
    <3> QED BY <2>2, <3>1, <3>2 DEF BytesDecide
  <2>3. CASE stage \notin {"over", "tunnel"}
    <3>1. /\ talk \in Talks /\ upstream = <<>> /\ fate = "none"
      BY <2>3 DEF ProxyIInv, ProxyShape, ProxyTypeOK, Unspent, Peeks
    <3>2. Len(TunnelOf(talk)) \in Nat
      BY <3>1, TunnelIs
    <3>3. Len(<<>>) = 0 /\ SubSeq(<<>>, 1, 0) = <<>> /\ SubSeq(TunnelOf(talk), 1, 0) = <<>>
      BY SubSeqEmpty
    <3>4. IsPrefix(<<>>, TunnelOf(talk))
      BY <3>2, <3>3 DEF IsPrefix
    <3> QED BY <2>3, <3>1, <3>4 DEF BytesDecide
  <2> QED BY <2>1, <2>2, <2>3
<1> QED BY <1>1, ProxyInductive, PTL

-----------------------------------------------------------------------------
(* Nothing goes round                                                       *)

\* What a connection that is not in its tunnel has still to go through: bytes to
\* read, bytes of records to take apart, steps.  A byte taken apart is not read again.
StepsOf(at) == CASE at = "body" -> 2 [] at = "header" -> 3 [] at = "first" -> 4
                 [] at = "dial" -> 5 [] at = "asked" -> 6 [] OTHER -> 7

StillAhead ==
  CASE stage \in {"tunnel", "over"} -> 0
    [] stage = "forward" -> 1
    [] OTHER -> Len(unread) + 2 * (PeekCap - consumed) + StepsOf(stage)

Settling == stage \notin {"tunnel", "over"} => StillAhead' < StillAhead

LEMMA AheadIs ==
  ASSUME ProxyIInv
  PROVE  /\ StillAhead \in Nat
         /\ stage \in {"head", "asked", "dial"} \cup Peeks =>
              /\ Len(unread) \in Nat /\ consumed \in Nat /\ PeekCap \in Nat
              /\ consumed <= PeekCap
              /\ StillAhead = Len(unread) + 2 * (PeekCap - consumed) + StepsOf(stage)
              /\ StillAhead > 1
<1>1. /\ unread \in Seq(Octets(talk)) /\ talk \in Talks
      /\ stage \in {"head", "asked", "dial", "forward", "tunnel", "over"} \cup Peeks
  BY DEF ProxyIInv, ProxyShape, ProxyTypeOK, Peeks
<1>2. Len(unread) \in Nat /\ PeekCap \in Nat
  BY <1>1, ProxyAssumption
<1>3. CASE stage \in {"head", "asked", "dial"} \cup Peeks
  <2>1. consumed \in Nat /\ consumed <= PeekCap
    <3>1. CASE stage \in {"header", "body"}
      <4>1. PICK k \in 0 .. Len(talk.cuts) : TakenApart(k)
        BY <3>1 DEF ProxyIInv, InTheRecords
      <4> QED BY <4>1, <1>1, WiresGrow DEF TakenApart
    <3>2. CASE stage \in {"head", "asked", "dial", "first"}
      <4>1. consumed = 0
        BY <3>2 DEF ProxyIInv, Unspent
      <4> QED BY <4>1, <1>2
    <3> QED BY <1>3, <3>1, <3>2 DEF Peeks
  <2>2. StillAhead = Len(unread) + 2 * (PeekCap - consumed) + StepsOf(stage)
    BY <1>3 DEF StillAhead, Peeks
  <2>3. StepsOf(stage) \in 2 .. 7
    BY DEF StepsOf
  <2>4. PICK s \in 2 .. 7 : s = StepsOf(stage)
    BY <2>3
  <2> QED BY <1>2, <2>1, <2>2, <2>4
<1>4. CASE stage \notin {"head", "asked", "dial"} \cup Peeks
  BY <1>1, <1>4 DEF StillAhead
<1> QED BY <1>3, <1>4

\* What a step that goes on to the same or a later stage comes to.
LEMMA StepsOn ==
  ASSUME ProxyIInv, ProxyIInv', stage \in {"head", "asked", "dial"} \cup Peeks,
         \/ stage' \in {"forward", "tunnel", "over"}
         \/ /\ stage' \in {"head", "asked", "dial"} \cup Peeks
            /\ \/ /\ Len(unread') <= Len(unread) /\ consumed' = consumed
                  /\ StepsOf(stage') < StepsOf(stage)
               \/ /\ Len(unread') < Len(unread) /\ consumed' = consumed
                  /\ StepsOf(stage') <= StepsOf(stage)
               \/ /\ Len(unread') <= Len(unread) /\ consumed' > consumed
                  /\ StepsOf(stage') <= StepsOf(stage) + 1
  PROVE  StillAhead' < StillAhead
<1>1. CASE stage' \in {"forward", "tunnel", "over"}
  <2>1. StillAhead' \in {0, 1}
    BY <1>1 DEF StillAhead
  <2> QED BY <2>1, AheadIs
<1>2. CASE stage' \in {"head", "asked", "dial"} \cup Peeks
  <2>1. /\ Len(unread) \in Nat /\ consumed \in Nat /\ PeekCap \in Nat
        /\ StillAhead = Len(unread) + 2 * (PeekCap - consumed) + StepsOf(stage)
    BY AheadIs
  <2>2. /\ Len(unread') \in Nat /\ consumed' \in Nat
        /\ StillAhead' = Len(unread') + 2 * (PeekCap - consumed') + StepsOf(stage')
    <3>1. StillAhead' = Len(unread') + 2 * (PeekCap - consumed') + StepsOf(stage')
      BY <1>2 DEF StillAhead, Peeks
    <3>2. unread' \in Seq(Octets(talk)')
      BY DEF ProxyIInv, ProxyShape
    <3>3. consumed' \in Nat
      <4>1. CASE stage' \in {"header", "body"}
        <5>1. PICK k \in 0 .. Len(talk'.cuts) : TakenApart(k)'
          BY <4>1 DEF ProxyIInv, InTheRecords
        <5>2. talk' \in Talks
          BY DEF ProxyIInv, ProxyShape, ProxyTypeOK
        <5>3. Wire(talk', k) \in Nat
          BY <5>1, <5>2, WiresGrow
        <5> QED BY <5>1, <5>3 DEF TakenApart
      <4>2. CASE stage' \in {"head", "asked", "dial", "first"}
        BY <4>2 DEF ProxyIInv, Unspent
      <4> QED BY <1>2, <4>1, <4>2 DEF Peeks
    <3> QED BY <3>1, <3>2, <3>3
  <2>3. PICK s \in 2 .. 7 : s = StepsOf(stage)
    BY DEF StepsOf
  <2>4. PICK r \in 2 .. 7 : r = StepsOf(stage')
    BY DEF StepsOf
  <2>5. ASSUME NEW l \in Nat, NEW m \in Nat, NEW c \in Nat, NEW d \in Nat, NEW cap \in Nat,
               NEW from \in 2 .. 7, NEW to \in 2 .. 7,
               \/ m <= l /\ d = c /\ to < from
               \/ m < l /\ d = c /\ to <= from
               \/ m <= l /\ d > c /\ to <= from + 1
        PROVE  m + 2 * (cap - d) + to < l + 2 * (cap - c) + from
    BY ONLY <2>5
  <2> QED BY <1>2, <2>1, <2>2, <2>3, <2>4, <2>5 DEF Peeks
<1> QED BY <1>1, <1>2

LEMMA ServingSettles ==
  ASSUME ProxyIInv, ProxyIInv', Serving
  PROVE  StillAhead' < StillAhead
<1>1. Len(unread) \in Nat
  BY DEF ProxyIInv, ProxyShape
<1>r. ASSUME NEW n \in Nat \ {0}, n <= Len(unread), unread' = SubSeq(unread, n + 1, Len(unread))
      PROVE  Len(unread') < Len(unread)
  <2>1. unread \in Seq(Octets(talk)) /\ n \in 0 .. Len(unread)
    BY <1>r, <1>1 DEF ProxyIInv, ProxyShape
  <2>2. Kept(Octets(talk), <<>>, unread, n)
    BY <2>1, ReadKeeps, EmptySeq
  <2>3. Len(unread') = Len(unread) - n
    BY <2>2, <1>r DEF Kept
  <2> QED BY <2>3, <1>1, <1>r
<1>2. CASE ReadHead
  <2>1. /\ stage = "head" /\ consumed' = consumed
        /\ \E n \in 1 .. HeadRead : n <= Len(unread) /\ unread' = SubSeq(unread, n + 1, Len(unread))
        /\ stage' \in {"head", "asked", "over"}
    BY <1>2 DEF ReadHead, Peeking, On, Drop
  <2>2. Len(unread') < Len(unread)
    <3>1. PICK n \in 1 .. HeadRead : n <= Len(unread) /\ unread' = SubSeq(unread, n + 1, Len(unread))
      BY <2>1
    <3>2. n \in Nat \ {0}
      BY ProxyAssumption
    <3> QED BY <3>1, <3>2, <1>r
  <2>3. StepsOf(stage') <= StepsOf(stage) \/ stage' = "over"
    BY <2>1 DEF StepsOf
  <2> QED BY <2>1, <2>2, <2>3, StepsOn
<1>3. CASE HeadEnds
  <2>1. stage = "head" /\ stage' = "over"
    BY <1>3 DEF HeadEnds, Drop
  <2> QED BY <2>1, StepsOn
<1>4. CASE Answer
  <2>1. stage = "asked" /\ stage' \in {"over", "dial"} /\ unread' = unread /\ consumed' = consumed
    BY <1>4 DEF Answer, Drop, On, Unmoved, Peeking
  <2>2. stage' = "dial" => StepsOf(stage') < StepsOf(stage)
    BY <2>1 DEF StepsOf
  <2> QED BY <2>1, <2>2, <1>1, StepsOn
<1>5. CASE Dial
  <2>1. stage = "dial" /\ stage' \in {"over", "first"} /\ unread' = unread /\ consumed' = consumed
    BY <1>5 DEF Dial, Drop, On, Unmoved, Peeking
  <2>2. stage' = "first" => StepsOf(stage') < StepsOf(stage)
    BY <2>1 DEF StepsOf
  <2> QED BY <2>1, <2>2, <1>1, StepsOn DEF Peeks
<1>6. CASE Fill
  <2>1. Wanting /\ stage' = stage /\ consumed' = consumed
    BY <1>6 DEF Fill, Peeking
  <2>2. stage \in Peeks /\ Target \in Nat
    BY <2>1, TargetIs
  <2>3. PICK n \in 1 .. Target - Len(inHand) : Read(Target - Len(inHand), n)
    BY <1>6 DEF Fill
  <2>4. Len(inHand) \in Nat
    BY DEF ProxyIInv, ProxyShape
  <2>5. /\ n \in Nat \ {0} /\ n <= Len(unread)
        /\ unread' = SubSeq(unread, n + 1, Len(unread))
    <3>1. n \in 1 .. Less(Target - Len(inHand), Len(unread))
      BY <2>3 DEF Read
    <3>2. /\ Less(Target - Len(inHand), Len(unread)) \in Int
          /\ Less(Target - Len(inHand), Len(unread)) <= Len(unread)
      BY <2>2, <2>4, <1>1 DEF Less
    <3> QED BY <3>1, <3>2, <2>3, <1>1 DEF Read
  <2>6. Len(unread') < Len(unread)
    BY <2>5, <1>r
  <2>7. StepsOf(stage') <= StepsOf(stage)
    BY <2>1 DEF StepsOf
  <2> QED BY <2>1, <2>2, <2>6, <2>7, StepsOn
<1>7. CASE FillEnds
  <2>1. Wanting /\ stage' \in {"forward", "over"}
    BY <1>7 DEF FillEnds, On, Drop
  <2>2. stage \in Peeks
    BY <2>1, TargetIs
  <2> QED BY <2>1, <2>2, StepsOn
<1>8. CASE First
  <2>1. stage = "first" /\ stage' \in {"header", "forward"} /\ unread' = unread /\ consumed' = consumed
    BY <1>8 DEF First, Filled, On, Unmoved, Peeking
  <2>2. stage' = "header" => StepsOf(stage') < StepsOf(stage)
    BY <2>1 DEF StepsOf
  <2> QED BY <2>1, <2>2, <1>1, StepsOn DEF Peeks
<1>9. CASE Header
  <2>1. stage = "header" /\ stage' \in {"body", "over"} /\ unread' = unread /\ consumed' = consumed
    BY <1>9 DEF Header, Filled, On, Drop, Unmoved, Peeking
  <2>2. stage' = "body" => StepsOf(stage') < StepsOf(stage)
    BY <2>1 DEF StepsOf
  <2> QED BY <2>1, <2>2, <1>1, StepsOn DEF Peeks
<1>10. CASE Body
  <2>1. /\ stage = "body" /\ stage' \in {"header", "forward", "over"}
        /\ unread' = unread /\ consumed' = Target
    BY <1>10 DEF Body, Filled, On, Drop
  <2>2. Target > consumed
    <3>1. PICK k \in 0 .. Len(talk.cuts) :
            TakenApart(k) /\ Opened(k) /\ Target = Wire(talk, k + 1)
      BY <2>1, TargetIs
    <3>2. talk \in Talks /\ Len(talk.cuts) \in Nat
      BY TalkIs DEF ProxyIInv, ProxyShape, ProxyTypeOK
    <3>3. k + 1 \in 0 .. Len(talk.cuts) /\ k < k + 1
      BY <3>1, <3>2 DEF Opened
    <3>4. Wire(talk, k) + 2 <= Wire(talk, k + 1) /\ Wire(talk, k) \in Nat /\ Wire(talk, k + 1) \in Nat
      BY <3>2, <3>3, WiresGrow
    <3>5. consumed = Wire(talk, k)
      BY <3>1 DEF TakenApart
    <3> QED BY <3>1, <3>4, <3>5
  <2>3. stage' = "header" => StepsOf(stage') <= StepsOf(stage) + 1
    BY <2>1 DEF StepsOf
  <2> QED BY <2>1, <2>2, <2>3, <1>1, StepsOn DEF Peeks
<1>11. CASE Forward
  <2>1. stage = "forward" /\ stage' \in {"tunnel", "over"}
    BY <1>11 DEF Forward, On, Drop
  <2>2. StillAhead = 1 /\ StillAhead' = 0
    BY <2>1 DEF StillAhead
  <2> QED BY <2>2
<1> QED BY <1>2, <1>3, <1>4, <1>5, <1>6, <1>7, <1>8, <1>9, <1>10, <1>11 DEF Serving

\* However a client dribbles its head, its hello and its records, each step short
\* of the tunnel lowers one natural number (read_head, peek_client_hello): no
\* connection goes round in them, whatever the reads, the records and the caps.
THEOREM NoConnectionGoesRound ==
  ProxySpec => [](StillAhead \in Nat) /\ [][Settling]_proxyVars
<1>1. ProxyIInv => StillAhead \in Nat
  BY AheadIs
<1>2. ProxyIInv /\ ProxyIInv' /\ [ProxyNext]_proxyVars => [Settling]_proxyVars
  <2> SUFFICES ASSUME ProxyIInv, ProxyIInv', ProxyNext PROVE Settling
    OBVIOUS
  <2>1. CASE Serving
    BY <2>1, ServingSettles DEF Settling
  <2>2. CASE Carry \/ TunnelEnds \/ ProxyOver
    BY <2>2 DEF Carry, TunnelEnds, ProxyOver, Settling
  <2> QED BY <2>1, <2>2 DEF ProxyNext
<1> QED BY <1>1, <1>2, ProxyInductive, PTL DEF ProxySpec

\* What an apply has still to go through: two steps to each pass of its poll, and
\* those of its launch before.
StillToDo ==
  CASE doing = "over" -> 0
    [] doing = "decide" -> 2 * Passes + 5
    [] doing = "launch" -> 2 * Passes + 4
    [] doing = "record" -> 2 * Passes + 3
    [] doing = "settle" -> 2 * Passes + 2
    [] doing = "ask" -> 2 * (Passes - passes) + 1
    [] OTHER -> 2 * (Passes - passes)

\* A step of an apply, its death included, leads to the next apply or brings its own
\* end nearer; what servers do meanwhile takes nothing of that back.
ComesNearer ==
  /\ Advance \/ Killed =>
       \/ current' = current + 1
       \/ current' = current /\ StillToDo' < StillToDo
  /\ World => current' = current /\ StillToDo' = StillToDo

LEMMA ToDoIs ==
  ASSUME LaunchIInv
  PROVE  /\ StillToDo \in Nat /\ (doing # "over" => StillToDo > 0)
         /\ passes \in Nat /\ Passes \in Nat /\ current \in Applies
         /\ doing \in {"ask", "look"} => passes < Passes
<1>1. /\ passes \in Nat /\ Passes \in Nat /\ current \in Applies /\ doing \in Doings
      /\ doing \in {"ask", "look"} => passes < Passes
  BY LaunchAssumption DEF LaunchIInv, LaunchShape, LaunchTypeOK, PollBounded
<1> QED BY <1>1 DEF StillToDo, Doings

LEMMA ApplyAdvances ==
  ASSUME LaunchIInv, LaunchIInv', Advance \/ Killed
  PROVE  current' = current + 1 \/ (current' = current /\ StillToDo' < StillToDo)
<1>1. /\ passes \in Nat /\ Passes \in Nat /\ StillToDo \in Nat
      /\ doing # "over" => StillToDo > 0
      /\ doing \in {"ask", "look"} => passes < Passes
  BY ToDoIs
<1>2. ASSUME NEW word, EndsWith(word), doing # "over"
      PROVE  current' = current + 1 \/ (current' = current /\ StillToDo' < StillToDo)
  <2>1. CASE current = LastApply
    <3>1. doing' = "over" /\ current' = current
      BY <1>2, <2>1 DEF EndsWith
    <3>2. StillToDo' = 0
      BY <3>1 DEF StillToDo
    <3> QED BY <1>1, <1>2, <3>1, <3>2
  <2>2. CASE current # LastApply
    BY <1>2, <2>2 DEF EndsWith
  <2> QED BY <2>1, <2>2
<1>3. CASE Decide
  <2>1. doing = "decide" /\ doing' \in {"launch", "ask"} /\ passes' = 0 /\ current' = current
    BY <1>3 DEF Decide, Quiet
  <2> QED BY <1>1, <2>1 DEF StillToDo
<1>4. CASE Spawn
  BY <1>1, <1>4 DEF Spawn, Quiet, StillToDo
<1>5. CASE WritePid
  BY <1>1, <1>5 DEF WritePid, Quiet, StillToDo
<1>6. CASE Settle
  <2>1. CASE Exists(current)
    <3>1. doing = "settle" /\ doing' = "ask" /\ passes' = passes /\ current' = current
      BY <1>6, <2>1 DEF Settle, Quiet, Poll
    <3>2. passes' < Passes
      BY <3>1 DEF LaunchIInv, PollBounded
    <3> QED BY <1>1, <3>1, <3>2 DEF StillToDo
  <2>2. CASE ~Exists(current)
    BY <1>2, <1>6, <2>2 DEF Settle
  <2> QED BY <2>1, <2>2
<1>7. CASE Ask
  <2>1. CASE EndsWith("ready")
    BY <1>2, <1>7, <2>1 DEF Ask
  <2>2. CASE doing' = "look" /\ Quiet
    <3>1. doing = "ask" /\ passes' = passes /\ current' = current
      BY <1>7, <2>2 DEF Ask, Quiet, Poll
    <3> QED BY <1>1, <2>2, <3>1 DEF StillToDo
  <2> QED BY <1>7, <2>1, <2>2 DEF Ask
<1>8. CASE Look
  <2>1. CASE Fatal \/ passes + 1 = Passes
    <3>1. EndsWith("died waiting") \/ EndsWith("timed out")
      BY <1>8, <2>1 DEF Look
    <3> QED BY <1>2, <1>8, <3>1 DEF Look
  <2>2. CASE ~(Fatal \/ passes + 1 = Passes)
    <3>1. doing = "look" /\ doing' = "ask" /\ passes' = passes + 1 /\ current' = current
      BY <1>8, <2>2 DEF Look, Quiet
    <3> QED BY <1>1, <3>1 DEF StillToDo
  <2> QED BY <2>1, <2>2
<1>9. CASE Killed
  BY <1>2, <1>9 DEF Killed
<1> QED BY <1>3, <1>4, <1>5, <1>6, <1>7, <1>8, <1>9 DEF Advance

\* Whatever its servers do, each step of an apply brings its verdict nearer
\* (Service, the poll): the passes of a poll are numbered and a pass is never gone back on.
THEOREM EveryApplyComesNearer ==
  LaunchSpec => [](StillToDo \in Nat /\ current <= LastApply) /\ [][ComesNearer]_launchVars
<1>1. LaunchIInv => StillToDo \in Nat /\ current <= LastApply
  BY ToDoIs, LaunchAssumption DEF Applies
<1>2. LaunchIInv /\ [LaunchNext]_launchVars => LaunchIInv'
  BY LaunchStepKeeps
<1>3. LaunchIInv /\ LaunchIInv' /\ [LaunchNext]_launchVars => [ComesNearer]_launchVars
  <2> SUFFICES ASSUME LaunchIInv, LaunchIInv', LaunchNext PROVE [ComesNearer]_launchVars
    OBVIOUS
  <2>1. CASE Advance \/ Killed
    <3>1. World => current' = current /\ doing' = doing /\ passes' = passes
      BY DEF World
    <3> QED BY <2>1, <3>1, ApplyAdvances DEF ComesNearer, StillToDo
  <2>2. CASE World /\ ~(Advance \/ Killed)
    BY <2>2 DEF World, ComesNearer, StillToDo
  <2>3. CASE AppliesOver
    BY <2>3 DEF AppliesOver
  <2> QED BY <2>1, <2>2, <2>3 DEF LaunchNext
<1> QED BY <1>1, <1>2, <1>3, LaunchInitially, PTL DEF LaunchSpec
=============================================================================
