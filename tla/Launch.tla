------------------------------- MODULE Launch -------------------------------
(***************************************************************************)
(* One service of a pod over several applies: the detached launch, the     *)
(* condition that skips it, the pid file and the readiness poll            *)
(* (crates/lm-provision/src/exec/lifecycle.rs, the two process predicates  *)
(* of exec/assert.rs, and their reading in exec/observe.rs).               *)
(*                                                                         *)
(* The applies come one after another; each may be a resume that only      *)
(* polls, and may be killed.  Servers start slowly, compete for one port,  *)
(* and die when they like: their numbers go to strangers, or stay behind   *)
(* as zombies where nobody reaps them.                                     *)
(***************************************************************************)
EXTENDS Integers, Sequences, FiniteSets, SequencesExt

CONSTANTS
  LastApply,  \* the applies are 1 .. LastApply; each launches at most once
  Argvs,      \* what a profile may declare
  Passes      \* the poll's deadline, in passes

ASSUME LaunchAssumption == LastApply \in Nat \ {0} /\ Passes \in Nat \ {0}

VARIABLES
  declared,   \* of each apply: [argv, launches]
  doing,      \* and where it stands
  current,    \* the apply under way
  proc,       \* of each pid: [life, argv]
  pidFile,    \* Absent, Unusable, or the pid in it
  armed,      \* the poll has seen the launch running
  passes,
  witnessed,  \* the pids the poll has seen alive
  verdict,    \* of each apply
  lost        \* a launch was cut off before its pid was recorded

launchVars == <<declared, doing, current, proc, pidFile, armed, passes, witnessed,
                verdict, lost>>

Applies == 1 .. LastApply
Pids == 1 .. LastApply
Absent == 0
Unusable == -1

Lives == {"free", "starting", "serving", "zombie", "gone", "stranger"}
Exists(pid) == proc[pid].life \notin {"free", "gone"}
Servers == {p \in Pids : proc[p].life \in {"starting", "serving"}}

LaunchInit ==
  /\ declared \in [Applies -> [argv : Argvs, launches : BOOLEAN]]
  /\ doing = "decide" /\ current = 1
  /\ proc = [p \in Pids |-> [life |-> "free", argv |-> "none"]]
  /\ pidFile = Absent
  /\ armed = FALSE /\ passes = 0 /\ witnessed = {}
  /\ verdict = [a \in Applies |-> "none"]
  /\ lost = FALSE

Profile == declared[current]
Quiet == UNCHANGED <<declared, current, verdict>>
Poll == UNCHANGED <<armed, passes, witnessed>>

-----------------------------------------------------------------------------
(* The servers                                                              *)

Becomes(p, life) == proc' = [proc EXCEPT ![p].life = life]

Serve(p) == /\ proc[p].life = "starting"
            /\ \A o \in Pids : proc[o].life # "serving"
            /\ Becomes(p, "serving")

Die(p) == proc[p].life \in {"starting", "serving"} /\ Becomes(p, "gone")

DieUnreaped(p) == proc[p].life \in {"starting", "serving"} /\ Becomes(p, "zombie")

Reuse(p) == /\ proc[p].life = "gone"
            /\ proc' = [proc EXCEPT ![p] = [life |-> "stranger", argv |-> "other"]]

World == /\ \E p \in Pids : Serve(p) \/ Die(p) \/ DieUnreaped(p) \/ Reuse(p)
         /\ UNCHANGED <<declared, doing, current, pidFile, armed, passes, witnessed,
                        verdict, lost>>

-----------------------------------------------------------------------------
(* The condition                                                            *)

\* fold_all: what does not hold decides, then what could not be read.
FoldAll(children) ==
  CASE "unsatisfied" \in Range(children) -> "unsatisfied"
    [] "unsatisfied" \notin Range(children) /\ "failed" \in Range(children) -> "failed"
    [] OTHER -> "satisfied"

Holds(condition) == IF condition THEN "satisfied" ELSE "unsatisfied"

ProcessAlive == CASE pidFile = Absent -> "unsatisfied"
                  [] pidFile = Unusable -> "failed"
                  [] OTHER -> Holds(Exists(pidFile))

\* A zombie shows no command line.
ProcessArgv == CASE pidFile = Absent -> "unsatisfied"
                 [] pidFile = Unusable -> "failed"
                 [] OTHER -> Holds(/\ Exists(pidFile) /\ proc[pidFile].life # "zombie"
                                   /\ proc[pidFile].argv = Profile.argv)

\* Mutant: a server is done when it answers, too.
DoneWhenAnswering ==
  FoldAll(<<ProcessAlive, ProcessArgv, Holds(\E p \in Pids : proc[p].life = "serving")>>)

\* Service::done.
Done == FoldAll(<<ProcessAlive, ProcessArgv>>)

-----------------------------------------------------------------------------
(* One apply                                                                *)

Decide ==
  /\ doing = "decide"
  /\ doing' = IF Profile.launches /\ Done # "satisfied" THEN "launch" ELSE "ask"
  /\ armed' = FALSE /\ passes' = 0 /\ witnessed' = {}
  /\ UNCHANGED <<proc, pidFile, lost>> /\ Quiet

\* nohup ... &, and the file its pid goes to is truncated.
Spawn ==
  /\ doing = "launch"
  /\ proc' = [proc EXCEPT ![current] = [life |-> "starting", argv |-> Profile.argv]]
  /\ pidFile' = Unusable
  /\ doing' = "record"
  /\ Poll /\ UNCHANGED lost /\ Quiet

WritePid ==
  /\ doing = "record"
  /\ pidFile' = current
  /\ doing' = "settle"
  /\ Poll /\ UNCHANGED <<proc, lost>> /\ Quiet

EndsWith(word) ==
  /\ verdict' = [verdict EXCEPT ![current] = word]
  /\ doing' = IF current = LastApply THEN "over" ELSE "decide"
  /\ current' = IF current = LastApply THEN current ELSE current + 1
  /\ UNCHANGED declared

\* sleep 1; kill -0.
Settle ==
  /\ doing = "settle"
  /\ IF Exists(current) THEN doing' = "ask" /\ Quiet ELSE EndsWith("died at once")
  /\ Poll /\ UNCHANGED <<proc, pidFile, lost>>

\* Whoever serves on the port answers, with 2xx or not yet.
Ask ==
  /\ doing = "ask"
  /\ \/ (\E p \in Pids : proc[p].life = "serving") /\ EndsWith("ready")
     \/ doing' = "look" /\ Quiet
  /\ Poll /\ UNCHANGED <<proc, pidFile, lost>>

\* Mutant: a dead pid is a death, seen alive or not.
FatalUnarmed == pidFile \in Pids /\ ~Exists(pidFile)

\* The arming rule: only a poll that saw a launch running reports a death.
Fatal == pidFile \in Pids /\ ~Exists(pidFile) /\ armed

Look ==
  /\ doing = "look"
  /\ passes' = passes + 1
  /\ IF pidFile \in Pids /\ Exists(pidFile)
       THEN armed' = TRUE /\ witnessed' = witnessed \cup {pidFile}
       ELSE UNCHANGED <<armed, witnessed>>
  /\ CASE Fatal -> EndsWith("died waiting")
       [] ~Fatal /\ passes + 1 = Passes -> EndsWith("timed out")
       [] OTHER -> doing' = "ask" /\ Quiet
  /\ UNCHANGED <<proc, pidFile, lost>>

\* The apply is killed; what it launched goes on.
Killed ==
  /\ doing \notin {"decide", "over"}
  /\ lost' = (lost \/ doing = "record")
  /\ EndsWith("killed")
  /\ Poll /\ UNCHANGED <<proc, pidFile>>

AppliesOver == doing = "over" /\ UNCHANGED launchVars

Advance == Decide \/ Spawn \/ WritePid \/ Settle \/ Ask \/ Look

LaunchNext == Advance \/ World \/ Killed \/ AppliesOver

\* The provisioner runs; nothing is assumed of the servers.
LaunchFairness == WF_launchVars(Advance)

LaunchSpec == LaunchInit /\ [][LaunchNext]_launchVars /\ LaunchFairness

-----------------------------------------------------------------------------
(* Properties                                                               *)

LaunchTypeOK ==
  /\ declared \in [Applies -> [argv : Argvs, launches : BOOLEAN]]
  /\ current \in Applies /\ passes \in 0 .. Passes
  /\ proc \in [Pids -> [life : Lives, argv : Argvs \cup {"none", "other"}]]
  /\ pidFile \in Pids \cup {Absent, Unusable} /\ witnessed \subseteq Pids

\* "Process died during readiness wait" names a process the same poll saw
\* running: a pid file an earlier apply left behind fails no resume.
DeathIsWitnessed ==
  [][\A a \in Applies :
       verdict[a] = "none" /\ verdict'[a] = "died waiting" =>
         pidFile \in witnessed /\ ~Exists(pidFile)]_launchVars

\* While every launch declares the same argv, re-applying never starts a second
\* server beside one that is still coming up or serving, and the pid file names
\* the one there is, unless an apply was killed before it recorded its launch.
OneServer ==
  (~lost /\ \A a, b \in Applies : declared[a].argv = declared[b].argv) =>
     /\ Cardinality(Servers) <= 1
     /\ doing # "record" => Servers \subseteq {pidFile}

\* Every apply comes to a verdict: a poll has a deadline.
AppliesEnd == <>(doing = "over")
=============================================================================
