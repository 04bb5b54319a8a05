------------------------------- MODULE Session -------------------------------
(***************************************************************************)
(* Push sessions against one pod (crates/lm-provision-driver/src/          *)
(* session.rs over the ssh transport of ssh.rs, called by the CLI's        *)
(* run_apply and by the MCP server's lm_apply): the preflight, the binary  *)
(* and the profile placed on the pod, the hash compared, the invocation,   *)
(* the artifact pulled back, the ledger row.                               *)
(*                                                                         *)
(* Nothing keeps two sessions off one pod: they share its two files, and   *)
(* an invocation goes on when the session that began it is gone.  scp      *)
(* truncates and writes in place; the kernel lets no file be executed      *)
(* while it is written, or written while it is executed.                   *)
(***************************************************************************)
EXTENDS Integers, Sequences, FiniteSets, SequencesExt

CONSTANTS
  Sessions,
  Jobs       \* what a session may be asked for

\* The operator's two files go to one directory under their own names, and these
\* differ.
ASSUME SessionAssumption == \A j \in Jobs : j.name # "binary"

VARIABLES
  job,       \* of each session
  at,        \* and its step
  pod,       \* the files on the pod: "absent", "torn", or what was written
  writing,   \* <<session, file>>: the uploads under way
  clean,     \* of an upload: no other one touched the file since it began
  invoked,   \* the invocation on the pod: what it runs of what, or NoneRuns
  report,    \* what came back: "none", "ok", "failed"
  latest,    \* whose apply last wrote the artifact on the pod, or 0
  kept,      \* whose artifact stands at the session's destination, or 0
  pulled,    \* the session's artifact row: "none", "owed", "collected"
  ledger,
  exit,
  ran,       \* what the session's last invocation ran
  disturbed  \* files another session has written since this one vouched for them

sessionVars == <<job, at, pod, writing, clean, invoked, report, latest, kept,
                 pulled, ledger, exit, ran, disturbed>>

NoneRuns == [binary |-> "absent", text |-> "absent"]
Running == -1

Binary(s) == "binary"
Profile(s) == job[s].name
Files == {"binary"} \cup {j.name : j \in Jobs}

Busy(file) == \E w \in writing : w[2] = file
Executed == \E s \in Sessions : invoked[s] # NoneRuns

SessionInit ==
  /\ job \in [Sessions -> Jobs]
  /\ at = [s \in Sessions |-> "preflight"]
  /\ pod = [f \in Files |-> "absent"]
  /\ writing = {} /\ clean = [s \in Sessions |-> TRUE]
  /\ invoked = [s \in Sessions |-> NoneRuns]
  /\ report = [s \in Sessions |-> "none"]
  /\ latest = 0 /\ kept = 0
  /\ pulled = [s \in Sessions |-> "none"]
  /\ ledger = <<>>
  /\ exit = [s \in Sessions |-> Running]
  /\ ran = [s \in Sessions |-> NoneRuns]
  /\ disturbed = [s \in Sessions |-> {}]

Goes(s, to) == at' = [at EXCEPT ![s] = to] /\ UNCHANGED exit
Ends(s, code) == /\ at' = [at EXCEPT ![s] = "done"]
                 /\ exit' = [exit EXCEPT ![s] = code]

\* The steps that only read the pod, or nothing on it.
Untouched == UNCHANGED <<pod, writing, clean, invoked, latest, kept, ran>>
Reads == Untouched /\ UNCHANGED disturbed
Vouches(s, file) == /\ disturbed' = [disturbed EXCEPT ![s] = @ \ {file}]
                    /\ Untouched
Quiet == UNCHANGED <<report, pulled, ledger>>

-----------------------------------------------------------------------------
(* Steps 0 to 2                                                             *)

AfterPreflight(s) == IF job[s].install THEN "probe" ELSE "place"

\* Load, resolve, validate, hash and look up every secret, on this host.
Preflight(s) ==
  /\ at[s] = "preflight"
  /\ IF job[s].sound THEN Goes(s, AfterPreflight(s)) ELSE Ends(s, 1)
  /\ Reads /\ Quiet /\ UNCHANGED job

\* Mutant: whatever lies at the destination is the binary.
ProbedAnything(s) == pod[Binary(s)] # "absent"

\* sha256sum: a file that is not there is not identical.
Identical(s) == pod[Binary(s)] = job[s].binary

Probe(s) ==
  /\ at[s] = "probe"
  /\ Goes(s, IF Identical(s) THEN "place" ELSE "push")
  /\ Vouches(s, Binary(s)) /\ Quiet /\ UNCHANGED job

Opens(s, file) ==
  /\ pod' = [pod EXCEPT ![file] = "torn"]
  /\ clean' = [o \in Sessions |->
                 IF o = s THEN ~Busy(file) ELSE clean[o] /\ <<o, file>> \notin writing]
  /\ writing' = writing \cup {<<s, file>>}
  /\ disturbed' = [o \in Sessions |->
                     IF o = s THEN disturbed[o] ELSE disturbed[o] \cup {file}]
  /\ UNCHANGED <<job, invoked, latest, kept, ran>>

Closes(s, file, holds) ==
  /\ pod' = [pod EXCEPT ![file] = IF clean[s] THEN holds ELSE "torn"]
  /\ writing' = writing \ {<<s, file>>}
  /\ disturbed' = [o \in Sessions |->
                     IF o = s THEN disturbed[o] ELSE disturbed[o] \cup {file}]
  /\ UNCHANGED <<job, clean, invoked, latest, kept, ran>>

Push(s) ==
  /\ at[s] = "push"
  /\ IF Executed THEN Ends(s, 1) /\ Reads /\ UNCHANGED job
                 ELSE Goes(s, "pushing") /\ Opens(s, Binary(s))
  /\ Quiet

Pushed(s) ==
  /\ at[s] = "pushing"
  /\ Closes(s, Binary(s), job[s].binary)
  /\ Goes(s, "place")
  /\ Quiet

Place(s) ==
  /\ at[s] = "place"
  /\ Opens(s, Profile(s))
  /\ Goes(s, "placing")
  /\ Quiet

Placed(s) ==
  /\ at[s] = "placing"
  /\ Closes(s, Profile(s), job[s].text)
  /\ Goes(s, IF job[s].verify THEN "verify" ELSE "invoke")
  /\ Quiet

\* The pod can run what lies at the binary's path, and read the profile.
Runnable(s) == pod[Binary(s)] \notin {"absent", "torn"} /\ ~Busy(Binary(s))
Readable(s) == pod[Profile(s)] \notin {"absent", "torn"}

\* The pod's own `hash` of what it holds, against the one computed here.
Matches(s) == Runnable(s) /\ pod[Profile(s)] = job[s].text

Verify(s) ==
  /\ at[s] = "verify"
  /\ IF Matches(s) THEN Goes(s, "invoke") ELSE Ends(s, 1)
  /\ Vouches(s, Profile(s)) /\ Quiet /\ UNCHANGED job

-----------------------------------------------------------------------------
(* Steps 3 and 4: an invocation that cannot start prints no report          *)

Invoke(s) ==
  /\ at[s] = "invoke"
  /\ IF Runnable(s) /\ Readable(s)
       THEN LET now == [binary |-> pod[Binary(s)], text |-> pod[Profile(s)]] IN
            /\ invoked' = [invoked EXCEPT ![s] = now]
            /\ ran' = [ran EXCEPT ![s] = now]
            /\ Goes(s, "wait")
       ELSE Ends(s, 1) /\ UNCHANGED <<invoked, ran>>
  /\ UNCHANGED <<job, pod, writing, clean, latest, kept, disturbed>> /\ Quiet

AfterReport(s) == IF job[s].mode = "apply" /\ job[s].artifact # "none"
                    THEN "pull" ELSE "record"

\* The invocation ends; a real apply that gets that far leaves its artifact.
InvocationEnds(s) ==
  /\ invoked[s] # NoneRuns
  /\ invoked' = [invoked EXCEPT ![s] = NoneRuns]
  /\ \E ok \in BOOLEAN, wrote \in BOOLEAN :
       /\ ok => wrote
       /\ latest' = IF wrote /\ job[s].mode = "apply" THEN s ELSE latest
       /\ IF at[s] = "wait"
            THEN /\ report' = [report EXCEPT ![s] = IF ok THEN "ok" ELSE "failed"]
                 /\ Goes(s, AfterReport(s))
            ELSE UNCHANGED <<at, exit, report>>
  /\ UNCHANGED <<job, pod, writing, clean, kept, pulled, ledger, ran, disturbed>>

\* A call of the transport fails, or its output cannot be read: the session
\* ends, and its upload is left as it is.  What it invoked goes on.
TransportFails(s) ==
  /\ at[s] \in {"probe", "push", "pushing", "place", "placing", "verify",
                "invoke", "wait"}
  /\ Ends(s, 1)
  /\ writing' = {w \in writing : w[1] # s}
  /\ UNCHANGED <<job, pod, clean, invoked, latest, kept, ran, disturbed>> /\ Quiet

\* The session's process dies.
Killed(s) ==
  /\ at[s] \notin {"done", "dead"}
  /\ at' = [at EXCEPT ![s] = "dead"]
  /\ writing' = {w \in writing : w[1] # s}
  /\ UNCHANGED <<job, pod, clean, invoked, latest, kept, ran, disturbed, exit>>
  /\ Quiet

-----------------------------------------------------------------------------
(* Steps 4b and 5, and the exit code                                        *)

\* scp -r: a file is written over, and a directory that stands at the
\* destination gets the new one inside it.
Lands(s) == IF job[s].artifact = "directory" /\ kept # 0 THEN kept ELSE latest

\* pull_artifacts: what is gated off, or did not come, is owed.
PulledAs(s, came) == IF job[s].pull /\ came THEN "collected" ELSE "owed"

Pull(s) ==
  /\ at[s] = "pull"
  /\ \E came \in BOOLEAN :
       /\ came => job[s].pull /\ latest # 0
       /\ kept' = IF came THEN Lands(s) ELSE kept
       /\ pulled' = [pulled EXCEPT ![s] = PulledAs(s, came)]
  /\ Goes(s, "record")
  /\ UNCHANGED <<job, pod, writing, clean, invoked, report, latest, ledger, ran,
                 disturbed>>

Records(s) == job[s].ledger /\ job[s].mode # "validate"

LedgerRow(s) == [by |-> s, hash |-> job[s].text, real |-> job[s].mode = "apply",
           artifact |-> pulled[s], held |-> kept]

\* Mutant: an append that fails is only warned about.
ExitForgiving(s, appended) ==
  IF report[s] = "ok" /\ pulled[s] # "owed" THEN 0 ELSE 1

\* exit_status: the report, the row and the artifact, all of them.
ExitOf(s, appended) ==
  IF report[s] = "ok" /\ (Records(s) => appended) /\ pulled[s] # "owed" THEN 0 ELSE 1

Record(s) ==
  /\ at[s] = "record"
  /\ \E appended \in BOOLEAN :
       /\ appended => Records(s)
       /\ ledger' = IF appended THEN Append(ledger, LedgerRow(s)) ELSE ledger
       /\ Ends(s, ExitOf(s, appended))
  /\ Reads /\ UNCHANGED <<job, report, pulled>>

Steps(s) == \/ Preflight(s) \/ Probe(s) \/ Push(s) \/ Pushed(s) \/ Place(s)
            \/ Placed(s) \/ Verify(s) \/ Invoke(s) \/ Pull(s) \/ Record(s)

AllOver == /\ \A s \in Sessions : at[s] \in {"done", "dead"} /\ invoked[s] = NoneRuns
           /\ UNCHANGED sessionVars

SessionNext ==
  \/ \E s \in Sessions : Steps(s) \/ InvocationEnds(s) \/ TransportFails(s) \/ Killed(s)
  \/ AllOver

\* A session's own calls return; an invocation may go on for ever.
SessionFairness == \A s \in Sessions : WF_sessionVars(Steps(s))

SessionSpec == SessionInit /\ [][SessionNext]_sessionVars /\ SessionFairness

-----------------------------------------------------------------------------
(* Properties                                                               *)

\* Every variable keeps to its values.
SessionTypeOK ==
  /\ job \in [Sessions -> Jobs]
  /\ \A s \in Sessions :
       /\ exit[s] \in {Running, 0, 1} /\ (exit[s] # Running) = (at[s] = "done")
       /\ report[s] \in {"none", "ok", "failed"}
       /\ pulled[s] \in {"none", "owed", "collected"}
  /\ DOMAIN pod = Files /\ writing \subseteq Sessions \X Files
  /\ {latest, kept} \subseteq Sessions \cup {0}
  /\ \A i \in DOMAIN ledger : ledger[i].by \in Sessions

\* What a session invokes is its own binary on the profile it hashed, unless it
\* was asked to skip the step or another session wrote the file since that step:
\* nothing an earlier or a parallel session left, whole or half written, is run
\* for it (ensure_binary's digest, session step 2).
RunsItsOwn ==
  \A s \in Sessions :
    ran[s] # NoneRuns =>
      /\ job[s].install /\ "binary" \notin disturbed[s] => ran[s].binary = job[s].binary
      /\ job[s].verify /\ Profile(s) \notin disturbed[s] => ran[s].text = job[s].text

\* Exit 0 is an invocation that reported ok, a row of it in the ledger unless
\* none was asked for, and nothing owed: a declared artifact stands at the
\* destination of the operator's host (exit_status).
ZeroMeansAll ==
  \A s \in Sessions :
    exit[s] = 0 =>
      /\ report[s] = "ok" /\ pulled[s] # "owed"
      /\ Records(s) =>
           \E row \in Range(ledger) :
             /\ row.by = s
             /\ AfterReport(s) = "pull" => row.artifact = "collected" /\ row.held # 0

\* A session comes to its end, unless what it invoked does not.
SessionsEnd == <>[](\A s \in Sessions : at[s] \in {"done", "dead", "wait"})
=============================================================================
