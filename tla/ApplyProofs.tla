---------------------------- MODULE ApplyProofs ----------------------------
(***************************************************************************)
(* What holds of every profile, every number of applies of it and every    *)
(* number of failures, panics and crashes (Apply): no step outlives its    *)
(* run, what one apply has finished no later one does again, a real run    *)
(* does what the dry run before it said, the verdict is that of the        *)
(* steps, and a run that reports ok has left the disk as the profile asks. *)
(* ApplyIInv relates the disk to who is writing it, to what the runs have  *)
(* reported and to what the last dry run foretold; ReportIInv the report   *)
(* to the steps passed; DiskIInv the steps passed to what they left.       *)
(***************************************************************************)
EXTENDS Apply, FiniteSetTheorems, TLAPS

Pairs == Nat \X Nat

Contents == [there : BOOLEAN, open : SUBSET Pairs, by : SUBSET Pairs]

WaveStates ==
  {"pending", "spawned", "due", "doubted", "doing", "ok", "failed"}

Words == {"ran", "skipped", "denied", "would run", "would skip", "undecided"}

Entries == [phase : Nat, step : Nat, ok : BOOLEAN, said : Words]

Typed ==
  /\ profile \in Profiles
  /\ disk \in [Files -> Contents]
  /\ dry \in BOOLEAN
  /\ stage \in {"idle", "running", "ended"}
  /\ at \in Nat
  /\ wave \in [DOMAIN wave -> WaveStates]
  /\ stage = "running" => report \in Seq(Entries)
  /\ runs \in 0 .. MaxRuns /\ faults \in 0 .. MaxFaults

\* The engine blocks on steps of the phase it is in: on all of a parallel one,
\* on one of any other, on the op of a phase that kept it.
WaveShape ==
  /\ stage # "running" => DOMAIN wave = {}
  /\ stage = "running" => at \in 1 .. Len(profile) + 1
  /\ at \notin DOMAIN profile => DOMAIN wave = {}
  /\ stage = "running" /\ at \in DOMAIN profile =>
       /\ Phase.lifecycle /\ ~Projected(Phase) => DOMAIN wave = {0}
       /\ Parallel(Phase) => DOMAIN wave = DOMAIN Phase.steps
       /\ ~Parallel(Phase) /\ (Projected(Phase) \/ ~Phase.lifecycle) =>
            \E n \in DOMAIN Phase.steps : DOMAIN wave = {n}
  /\ 0 \in DOMAIN wave => wave[0] \in {"pending", "ok", "failed"}
  /\ dry => \A n \in DOMAIN wave :
              wave[n] \in {"pending", "spawned", "ok", "failed"}

\* Whoever has a file open is a step of the wave that writes it.
OpenTrue ==
  \A f \in Files : \A w \in disk[f].open :
    /\ w[1] = at /\ w[2] \in DOMAIN wave \ {0}
    /\ wave[w[2]] = "doing" /\ FileOf(w[2]) = f

\* The steps the engine has not reached, or not answered.
Unbegun == {"pending", "spawned", "due", "doubted"}

Unanswered == Unbegun \cup {"doing"}

\* A declared entry is of a step that has been answered.
Answers ==
  stage = "running" =>
    \A k \in DOMAIN report : report[k].step # 0 =>
      /\ report[k].phase <= at
      /\ report[k].phase = at =>
           /\ \E m \in DOMAIN wave : report[k].step <= m
           /\ report[k].step \in DOMAIN wave =>
                wave[report[k].step] \in {"ok", "failed"}

\* A step with a condition, and the only one that writes what it is about.
Sole(i, n) ==
  /\ i \in DOMAIN profile /\ n \in DOMAIN profile[i].steps
  /\ profile[i].steps[n].done # "none"
  /\ OnlyWriter(i, n)

Holds(i, n) ==
  LET step == profile[i].steps[n] IN
  \/ step.done = "exists" /\ disk[step.file].there
  \/ step.done = "content" /\ Whole(step.file, i, n)

\* What a run has reported as done so far.
Credited(i, n) ==
  /\ stage = "running" /\ ~dry
  /\ \E k \in DOMAIN report :
       report[k].ok /\ report[k].phase = i /\ report[k].step = n

\* A step at work is nobody's finished one.
BegunIsNotKept ==
  \A n \in DOMAIN wave : wave[n] = "doing" => <<at, n>> \notin kept

\* A step at work on a file of its own is the only one in it.
AloneInIt ==
  \A n \in DOMAIN wave :
    wave[n] = "doing" /\ Sole(at, n) =>
      disk[FileOf(n)] =
        [there |-> TRUE, open |-> {<<at, n>>}, by |-> {<<at, n>>}]

KeptTrue ==
  \A i, n \in Nat :
    Sole(i, n) /\ (<<i, n>> \in kept \/ Credited(i, n)) => Holds(i, n)

\* What a dry run said of a step holds of the disk.
Predicted(e) ==
  /\ e.said = "would skip" => Holds(e.phase, e.step)
  /\ e.said = "would run" => ~Holds(e.phase, e.step)

Foreseen(e) ==
  /\ e.phase \in DOMAIN profile /\ e.step \in DOMAIN profile[e.phase].steps
  /\ OnlyWriter(e.phase, e.step)

Ahead(i, n) ==
  \/ i > at
  \/ i = at /\ n \in DOMAIN wave /\ wave[n] \in Unbegun
  \/ i = at /\ n \notin DOMAIN wave /\ \A m \in DOMAIN wave : m < n

ForeTrue ==
  /\ \A e \in foretold :
       Foreseen(e) /\ (stage = "running" /\ ~dry => Ahead(e.phase, e.step))
         => Predicted(e)
  /\ stage = "running" /\ dry =>
       \A k \in DOMAIN report : Foreseen(report[k]) => Predicted(report[k])

\* A real run skips nothing that would have run.
SkipsForetold ==
  stage = "running" /\ ~dry =>
    \A k \in DOMAIN report : \A e \in foretold :
      /\ report[k].phase = e.phase /\ report[k].step = e.step
      /\ Foreseen(e) /\ report[k].said = "skipped"
      => e.said # "would run"

ApplyIInv ==
  /\ Typed /\ WaveShape /\ OpenTrue /\ Answers
  /\ BegunIsNotKept /\ AloneInIt /\ KeptTrue /\ FinishedIsKept
  /\ ForeTrue /\ SkipsForetold /\ DryForetells

-----------------------------------------------------------------------------
(* What follows from the state alone                                        *)

LEMMA ProfileTyped ==
  ASSUME Typed
  PROVE  /\ profile \in Seq(Phases)
         /\ \A i \in DOMAIN profile :
              /\ profile[i] \in Phases /\ i \in Nat \ {0}
              /\ profile[i].steps \in Seq(Steps)
              /\ \A n \in DOMAIN profile[i].steps :
                   /\ profile[i].steps[n] \in Steps /\ n \in Nat \ {0}
                   /\ profile[i].steps[n].done # "none" =>
                        profile[i].steps[n].file \in Files
              /\ ~profile[i].lifecycle =>
                   Len(profile[i].steps) = 1 /\ profile[i].steps[1].done = "none"
<1>1. profile \in Seq(Phases)
  BY ApplyAssumption DEF Typed
<1>2. ASSUME NEW i \in DOMAIN profile
      PROVE  profile[i] \in Phases /\ i \in Nat \ {0}
             /\ profile[i].steps \in Seq(Steps)
  <2>1. i \in 1 .. Len(profile) /\ Len(profile) \in Nat
    BY <1>1
  <2>2. profile[i] \in Phases
    BY <1>1, <2>1
  <2> QED BY <2>1, <2>2 DEF Phases
<1>3. ASSUME NEW i \in DOMAIN profile, NEW n \in DOMAIN profile[i].steps
      PROVE  /\ profile[i].steps[n] \in Steps /\ n \in Nat \ {0}
             /\ profile[i].steps[n].done # "none" =>
                  profile[i].steps[n].file \in Files
  <2>1. profile[i].steps[n] \in Steps /\ n \in Nat \ {0}
    BY <1>2
  <2>2. profile[i].steps[n].done # "none" => profile[i].steps[n].file # NoFile
    BY ApplyAssumption DEF Typed
  <2> QED BY <2>1, <2>2 DEF Steps
<1>4. \A i \in DOMAIN profile : ~profile[i].lifecycle =>
        Len(profile[i].steps) = 1 /\ profile[i].steps[1].done = "none"
  BY ApplyAssumption DEF Typed
<1> QED BY <1>1, <1>2, <1>3, <1>4

\* Every step of a wave is a step of the phase the engine is in.
LEMMA WaveSteps ==
  ASSUME Typed, WaveShape, NEW n \in DOMAIN wave \ {0}
  PROVE  /\ stage = "running"
         /\ at \in DOMAIN profile /\ n \in DOMAIN Phase.steps
         /\ at \in Nat \ {0} /\ n \in Nat \ {0}
         /\ Step(n) \in Steps
         /\ Step(n).done # "none" => FileOf(n) \in Files
         /\ FileOf(n) # NoFile => FileOf(n) \in Files
<1>1. stage = "running" /\ at \in DOMAIN profile
  BY DEF WaveShape
<1>2. n \in DOMAIN Phase.steps
  <2>1. CASE Phase.lifecycle /\ ~Projected(Phase)
    BY <1>1, <2>1 DEF WaveShape
  <2>2. CASE Parallel(Phase)
    BY <1>1, <2>2 DEF WaveShape
  <2>3. CASE ~Parallel(Phase) /\ (Projected(Phase) \/ ~Phase.lifecycle)
    <3>1. PICK k \in DOMAIN Phase.steps : DOMAIN wave = {k}
      BY <1>1, <2>3 DEF WaveShape
    <3> QED BY <3>1
  <2> QED BY <2>1, <2>2, <2>3
<1>3. Step(n) \in Steps /\ n \in Nat \ {0} /\ at \in Nat \ {0}
      /\ (Step(n).done # "none" => FileOf(n) \in Files)
  BY <1>1, <1>2, ProfileTyped DEF Step, Phase, FileOf
<1> QED BY <1>1, <1>2, <1>3 DEF Steps, FileOf

\* The condition of a step of the wave.
LEMMA SatisfiedIsHolds ==
  ASSUME NEW n
  PROVE  Satisfied(n) <=> Holds(at, n)
BY DEF Satisfied, Holds, Step, Phase

\* What is said of a profile is the same as long as it is.
LEMMA SameProfile ==
  ASSUME profile' = profile, NEW i, NEW n
  PROVE  /\ Sole(i, n)' <=> Sole(i, n)
         /\ OnlyWriter(i, n)' <=> OnlyWriter(i, n)
         /\ disk' = disk => (Holds(i, n)' <=> Holds(i, n))
BY DEF Sole, OnlyWriter, Writers, Ids, Holds, Whole

-----------------------------------------------------------------------------
(* A step that touches no file                                              *)

Quiet(n, to) ==
  /\ stage = "running" /\ n \in DOMAIN wave
  /\ wave[n] \in {"pending", "spawned"}
  /\ Moved(n, to)
  /\ to \in WaveStates \ {"pending", "doing"}
  /\ n = 0 => to \in {"ok", "failed"}
  /\ dry => to \in {"spawned", "ok", "failed"}
  /\ to = "due" => ~Satisfied(n)
  /\ runs' \in 0 .. MaxRuns /\ faults' \in 0 .. MaxFaults
  /\ UNCHANGED <<profile, disk, dry, stage, at, kept, foretold>>

\* What a quiet step may say: an entry of its own is true of the disk.
Says(n, to, e) ==
  /\ e \in Entries /\ Pushed(e)
  /\ e.phase = at
  /\ e.step # 0 => e.step = n /\ to = "ok"
  /\ e.step # 0 /\ ~dry /\ e.ok => Satisfied(n)
  /\ e.step # 0 /\ dry => Predicted(e)
  /\ e.said = "skipped" => e.ok

LEMMA QuietIsSafe ==
  ASSUME ApplyIInv, NEW n, NEW to, Quiet(n, to),
         report' = report \/ \E e \in Entries : Says(n, to, e)
  PROVE  ApplyIInv'
<1> USE DEF ApplyIInv
<1>1. /\ profile' = profile /\ disk' = disk /\ dry' = dry /\ stage' = stage
      /\ at' = at /\ kept' = kept /\ foretold' = foretold
      /\ stage = "running" /\ n \in DOMAIN wave
      /\ wave[n] \in {"pending", "spawned"}
      /\ to \in WaveStates \ {"pending", "doing"}
      /\ DOMAIN wave' = DOMAIN wave /\ wave'[n] = to
      /\ \A m \in DOMAIN wave : m # n => wave'[m] = wave[m]
  BY DEF Quiet, Moved
<1>2. /\ report \in Seq(Entries) /\ report' \in Seq(Entries)
      /\ DOMAIN report \subseteq DOMAIN report'
      /\ \A k \in DOMAIN report : report'[k] = report[k]
      /\ \A k \in DOMAIN report' \ DOMAIN report :
           report'[k] \in Entries /\ Says(n, to, report'[k])
  <2>1. report \in Seq(Entries)
    BY <1>1 DEF Typed
  <2>2. CASE report' = report
    BY <2>1, <2>2
  <2>3. CASE \E e \in Entries : Says(n, to, e)
    <3>1. PICK e \in Entries : Says(n, to, e)
      BY <2>3
    <3>2. report' = Append(report, e)
      BY <3>1 DEF Says, Pushed
    <3> QED BY <2>1, <3>1, <3>2
  <2> QED BY <2>2, <2>3
<1>3. Typed'
  <2>1. wave' \in [DOMAIN wave' -> WaveStates]
    BY <1>1 DEF Typed, Quiet, Moved
  <2> QED BY <1>1, <1>2, <2>1 DEF Typed, Quiet
<1>4. WaveShape'
  <2>1. /\ DOMAIN wave' = DOMAIN wave /\ Phase' = Phase
        /\ Len(profile)' = Len(profile)
    BY <1>1 DEF Phase
  <2>2. 0 \in DOMAIN wave' => wave'[0] \in {"pending", "ok", "failed"}
    BY <1>1 DEF WaveShape, Quiet
  <2>3. dry' => \A m \in DOMAIN wave' :
                  wave'[m] \in {"pending", "spawned", "ok", "failed"}
    BY <1>1 DEF WaveShape, Quiet
  <2> QED BY <1>1, <2>1, <2>2, <2>3 DEF WaveShape, Parallel, Projected, Independent
<1>5. OpenTrue'
  BY <1>1 DEF OpenTrue, FileOf, Step, Phase
<1>6. Answers'
  <2> SUFFICES ASSUME NEW k \in DOMAIN report', report'[k].step # 0
               PROVE  /\ report'[k].phase <= at
                      /\ report'[k].phase = at =>
                           /\ \E m \in DOMAIN wave : report'[k].step <= m
                           /\ report'[k].step \in DOMAIN wave =>
                                wave'[report'[k].step] \in {"ok", "failed"}
    BY <1>1 DEF Answers
  <2>1. CASE k \in DOMAIN report
    BY <1>1, <1>2, <2>1 DEF Answers
  <2>2. CASE k \notin DOMAIN report
    <3>1. report'[k].phase = at /\ report'[k].step = n /\ to = "ok"
          /\ report'[k] \in Entries
      BY <1>2, <2>2 DEF Says
    <3>2. at <= at /\ n <= n
      BY <3>1 DEF Entries
    <3> QED BY <1>1, <3>1, <3>2
  <2> QED BY <2>1, <2>2
<1>7. BegunIsNotKept'
  BY <1>1 DEF BegunIsNotKept
<1>8. AloneInIt'
  BY <1>1, SameProfile DEF AloneInIt, FileOf, Step, Phase
<1>9. KeptTrue'
  <2> SUFFICES ASSUME NEW i \in Nat, NEW j \in Nat, Sole(i, j),
                      <<i, j>> \in kept \/ Credited(i, j)'
               PROVE  Holds(i, j)
    BY <1>1, SameProfile DEF KeptTrue
  <2>1. CASE <<i, j>> \in kept \/ Credited(i, j)
    BY <2>1 DEF KeptTrue
  <2>2. CASE ~Credited(i, j) /\ Credited(i, j)'
    <3>1. PICK k \in DOMAIN report' : report'[k].ok /\ report'[k].phase = i
                                      /\ report'[k].step = j
      BY <2>2 DEF Credited
    <3>2. k \notin DOMAIN report /\ ~dry
      BY <1>1, <1>2, <2>2, <3>1 DEF Credited
    <3>3. j # 0
      BY ProfileTyped DEF Sole
    <3>4. i = at /\ j = n /\ Satisfied(n)
      BY <1>2, <3>1, <3>2, <3>3 DEF Says
    <3> QED BY <3>4, SatisfiedIsHolds
  <2> QED BY <2>1, <2>2
\* What a foretold entry says of a step still ahead is true before the step,
\* which is no nearer than after it.
<1>10. ASSUME NEW e \in foretold, Foreseen(e),
              stage = "running" /\ ~dry => Ahead(e.phase, e.step)
       PROVE  Predicted(e)
  BY <1>10 DEF ForeTrue
<1>11. ASSUME NEW i, NEW j, Ahead(i, j)'
       PROVE  Ahead(i, j)
  BY <1>1, <1>11 DEF Ahead, Unbegun
<1>12. ForeTrue'
  <2>1. ASSUME NEW e
        PROVE  /\ Foreseen(e)' <=> Foreseen(e)
               /\ Predicted(e)' <=> Predicted(e)
    BY <1>1, SameProfile DEF Foreseen, Predicted
  <2>2. ASSUME NEW e \in foretold, Foreseen(e),
               stage = "running" /\ ~dry => Ahead(e.phase, e.step)'
        PROVE  Predicted(e)
    BY <1>10, <1>11, <2>2
  <2>3. ASSUME dry, NEW k \in DOMAIN report', Foreseen(report'[k])
        PROVE  Predicted(report'[k])
    <3>1. CASE k \in DOMAIN report
      BY <1>1, <1>2, <2>3, <3>1 DEF ForeTrue
    <3>2. CASE k \notin DOMAIN report
      <4>1. report'[k].step # 0
        BY <2>3, ProfileTyped DEF Foreseen
      <4> QED BY <1>2, <2>3, <3>2, <4>1 DEF Says
    <3> QED BY <3>1, <3>2
  <2>4. \A e \in foretold :
          Foreseen(e) /\ (stage = "running" /\ ~dry => Ahead(e.phase, e.step)')
            => Predicted(e)
    BY <2>2
  <2>5. \A e \in foretold' :
          Foreseen(e)' /\ (stage' = "running" /\ ~dry' => Ahead(e.phase, e.step)')
            => Predicted(e)'
    BY <1>1, <2>1, <2>4
  <2>6. ASSUME dry, NEW k \in DOMAIN report'
        PROVE  (Foreseen(report[k]) => Predicted(report[k]))'
    <3>1. Foreseen(report[k])' <=> Foreseen(report'[k])
      BY <1>1, SameProfile DEF Foreseen
    <3>2. Predicted(report[k])' <=> Predicted(report'[k])
      BY <1>1, SameProfile DEF Predicted
    <3> QED BY <2>3, <2>6, <3>1, <3>2
  <2> QED BY <1>1, <2>5, <2>6 DEF ForeTrue
<1>13. SkipsForetold'
  <2> SUFFICES ASSUME ~dry, NEW k \in DOMAIN report', NEW e \in foretold,
                      report'[k].phase = e.phase, report'[k].step = e.step,
                      Foreseen(e), report'[k].said = "skipped"
               PROVE  e.said # "would run"
    BY <1>1, SameProfile DEF SkipsForetold, Foreseen
  <2>1. CASE k \in DOMAIN report
    BY <1>1, <1>2, <2>1 DEF SkipsForetold
  <2>2. CASE k \notin DOMAIN report
    <3>1. e.step # 0
      BY ProfileTyped DEF Foreseen
    <3>2. e.phase = at /\ e.step = n /\ Satisfied(n)
      BY <1>2, <2>2, <3>1 DEF Says
    <3>3. Predicted(e)
      BY <1>1, <1>10, <3>2 DEF Ahead, Unbegun
    <3> QED BY <3>2, <3>3, SatisfiedIsHolds DEF Predicted
  <2> QED BY <2>1, <2>2
<1>14. FinishedIsKept'
  <2> SUFFICES ASSUME NEW m \in DOMAIN wave, wave'[m] = "due",
                      Step(m).done # "none", OnlyWriter(at, m)
               PROVE  <<at, m>> \notin kept
    BY <1>1, SameProfile DEF FinishedIsKept, Step, Phase
  <2>1. CASE m # n
    BY <1>1, <2>1 DEF FinishedIsKept
  <2>2. CASE m = n
    <3>1. ~Satisfied(n) /\ n # 0
      BY <1>1, <2>2 DEF Quiet
    <3>2. Sole(at, n) /\ at \in Nat /\ n \in Nat
      BY <1>1, <2>2, <3>1, WaveSteps DEF Sole, Step, Phase
    <3> QED BY <2>2, <3>1, <3>2, SatisfiedIsHolds DEF KeptTrue
  <2> QED BY <2>1, <2>2
<1>15. DryForetells'
  <2> SUFFICES ASSUME ~dry, at \in DOMAIN profile, NEW m \in DOMAIN wave, m # 0,
                      Phase.lifecycle, OnlyWriter(at, m),
                      NEW e \in foretold, e.phase = at, e.step = m
               PROVE  /\ e.said = "would skip" => wave'[m] # "due"
                      /\ e.said = "would run" =>
                           ~\E k \in DOMAIN report' :
                              report'[k].phase = at /\ report'[k].step = m
                                /\ report'[k].said = "skipped"
    BY <1>1, SameProfile, ZenonT(60) DEF DryForetells, Phase
  <2>1. Foreseen(e)
    BY WaveSteps DEF Foreseen, Phase
  <2>2. e.said = "would skip" => wave'[m] # "due"
    <3>1. CASE m # n
      BY <1>1, <3>1 DEF DryForetells
    <3>2. CASE m = n /\ to = "due" /\ e.said = "would skip"
      <4>1. ~Satisfied(n)
        BY <3>2 DEF Quiet
      <4>2. Predicted(e)
        BY <1>1, <1>10, <2>1, <3>2 DEF Ahead, Unbegun
      <4> QED BY <3>2, <4>1, <4>2, SatisfiedIsHolds DEF Predicted
    <3> QED BY <1>1, <3>1, <3>2
  <2>3. e.said = "would run" =>
          ~\E k \in DOMAIN report' :
             report'[k].phase = at /\ report'[k].step = m
               /\ report'[k].said = "skipped"
    <3>1. Foreseen(e)'
      BY <1>1, <2>1, SameProfile DEF Foreseen
    <3> QED BY <1>1, <1>13, <3>1 DEF SkipsForetold
  <2> QED BY <2>2, <2>3
<1> QED BY <1>3, <1>4, <1>5, <1>6, <1>7, <1>8, <1>9, <1>12, <1>13, <1>14, <1>15

\* Foretelling never says of a step what its condition denies.
LEMMA ForetellsTruly ==
  ASSUME Typed, WaveShape, NEW n \in DOMAIN wave \ {0}
  PROVE  /\ Foretelling(n) = "would skip" => Satisfied(n)
         /\ Foretelling(n) = "would run" => ~Satisfied(n)
         /\ Foretelling(n) \in Words \ {"skipped"}
<1> DEFINE there == disk[Step(n).file].there
<1>1. Step(n).done \in Conditions /\ Step(n).shape \in Shapes
  BY WaveSteps DEF Steps
<1>2. Step(n).done # "none" => there \in BOOLEAN
  BY WaveSteps DEF FileOf, Typed, Contents
<1>3. CASE Step(n).done = "none"
  BY <1>3 DEF Foretelling, Satisfied, Words
<1>4. CASE Step(n).done # "none" /\ ~there
  BY <1>4 DEF Foretelling, Satisfied, Words, Whole
<1>5. CASE Step(n).done = "content" /\ there /\ Step(n).shape = "transfer"
  BY <1>5 DEF Foretelling, Words
<1>6. CASE there /\ Step(n).done # "none"
           /\ ~(Step(n).done = "content" /\ Step(n).shape = "transfer")
  <2>1. Foretelling(n) = IF Satisfied(n) THEN "would skip" ELSE "would run"
    BY <1>6 DEF Foretelling
  <2> QED BY <2>1 DEF Words
<1> QED BY <1>2, <1>3, <1>4, <1>5, <1>6

LEMMA QuietSteps ==
  ASSUME ApplyIInv, stage = "running", NEW n \in DOMAIN wave \ {0},
         Spawn(n) \/ Deny(n) \/ Foretell(n) \/ Skip(n) \/ Due(n) \/ Doubt(n)
  PROVE  ApplyIInv'
<1> USE DEF ApplyIInv
<1>1. /\ at \in DOMAIN profile /\ n \in DOMAIN Phase.steps
      /\ at \in Nat /\ n \in Nat \ {0} /\ runs \in 0 .. MaxRuns
      /\ faults \in 0 .. MaxFaults /\ MaxFaults \in Nat
  BY WaveSteps, ApplyAssumption DEF Typed
<1>2. CASE Spawn(n)
  <2>1. Quiet(n, "spawned") /\ report' = report
    BY <1>1, <1>2 DEF Spawn, Quiet, WaveStates
  <2> QED BY <2>1, QuietIsSafe
<1>3. CASE Deny(n)
  <2> DEFINE e == Entry(0, FALSE, "denied")
  <2>1. Quiet(n, "failed")
    BY <1>1, <1>3 DEF Deny, Quiet, WaveStates
  <2>2. e \in Entries /\ e.phase = at /\ e.step = 0 /\ e.said # "skipped"
    BY <1>1 DEF Entry, Entries, Words
  <2>3. report' = report \/ Says(n, "failed", e)
    BY <1>3, <2>2 DEF Deny, StatedOnce, Says
  <2> QED BY <2>1, <2>2, <2>3, QuietIsSafe
<1>4. CASE Foretell(n)
  <2> DEFINE e == Entry(EntryOf(n), TRUE, Foretelling(n))
  <2>1. Quiet(n, "ok")
    BY <1>1, <1>4 DEF Foretell, Quiet, WaveStates
  <2>2. e \in Entries /\ e.phase = at /\ (e.step # 0 => e.step = n)
        /\ e.said = Foretelling(n) /\ e.said # "skipped"
    BY <1>1, ForetellsTruly DEF Entry, EntryOf, Entries
  <2>3. e.step # 0 => Predicted(e)
    BY <2>2, ForetellsTruly, SatisfiedIsHolds DEF Predicted
  <2>4. Says(n, "ok", e)
    BY <1>4, <2>2, <2>3 DEF Foretell, Says
  <2> QED BY <2>1, <2>2, <2>4, QuietIsSafe
<1>5. CASE Skip(n)
  <2> DEFINE e == Entry(EntryOf(n), TRUE, "skipped")
  <2>1. Quiet(n, "ok")
    BY <1>1, <1>5 DEF Skip, Quiet, WaveStates
  <2>2. e \in Entries /\ e.phase = at /\ (e.step # 0 => e.step = n) /\ e.ok
    BY <1>1 DEF Entry, EntryOf, Entries, Words
  <2>3. Says(n, "ok", e)
    BY <1>5, <2>2 DEF Skip, Says
  <2> QED BY <2>1, <2>2, <2>3, QuietIsSafe
<1>6. CASE Due(n)
  <2>1. Quiet(n, "due") /\ report' = report
    BY <1>1, <1>6 DEF Due, Quiet, WaveStates
  <2> QED BY <2>1, QuietIsSafe
<1>7. CASE Doubt(n)
  <2>1. Quiet(n, "doubted") /\ report' = report
    BY <1>1, <1>7 DEF Doubt, Quiet, WaveStates, Faulty
  <2> QED BY <2>1, QuietIsSafe
<1> QED BY <1>2, <1>3, <1>4, <1>5, <1>6, <1>7

LEMMA UnprojectedIsSafe ==
  ASSUME ApplyIInv, stage = "running", RunUnprojected
  PROVE  ApplyIInv'
<1> USE DEF ApplyIInv
<1> DEFINE e == Entry(0, FALSE, "denied")
<1>1. runs \in 0 .. MaxRuns /\ faults \in 0 .. MaxFaults /\ at \in Nat
  BY DEF Typed
<1>2. e \in Entries /\ e.phase = at /\ e.step = 0 /\ e.said # "skipped"
  BY <1>1 DEF Entry, Entries, Words
<1>3. CASE Phase.env /\ Phase.expands
  <2>1. Quiet(0, "ok") /\ report' = report
    BY <1>1, <1>3 DEF RunUnprojected, Quiet, WaveStates
  <2> QED BY <2>1, QuietIsSafe
<1>4. CASE ~(Phase.env /\ Phase.expands)
  <2>1. Quiet(0, "failed")
    BY <1>1, <1>4 DEF RunUnprojected, Quiet, WaveStates
  <2>2. report' = report \/ Says(0, "failed", e)
    BY <1>2, <1>4 DEF RunUnprojected, StatedOnce, Says
  <2> QED BY <1>2, <2>1, <2>2, QuietIsSafe
<1> QED BY <1>3, <1>4

-----------------------------------------------------------------------------
(* A step that is at work on its file                                       *)

Works(n, to) ==
  /\ wave[n] \in {"due", "doubted", "doing"}
  /\ to \in {"doing", "ok", "failed"}
  /\ to = "doing" <=> wave[n] # "doing"
  /\ Moved(n, to)
  /\ \/ to = "doing" /\ report' = report /\ kept' = kept \ {<<at, n>>}
     \/ to # "doing" /\ Pushed(Entry(EntryOf(n), to = "ok", "ran"))
          /\ kept' = kept
  /\ disk' \in [Files -> Contents]
  /\ \A f \in Files : f # FileOf(n) => disk'[f] = disk[f]
  /\ runs' \in 0 .. MaxRuns /\ faults' \in 0 .. MaxFaults
  /\ UNCHANGED <<profile, dry, stage, at, foretold>>

\* What it leaves its own file in.
Leaves(n, to) ==
  /\ FileOf(n) \in Files =>
       \A w \in disk'[FileOf(n)].open :
         \/ w \in disk[FileOf(n)].open \ {<<at, n>>}
         \/ w = <<at, n>> /\ to = "doing"
  /\ Sole(at, n) =>
       /\ to = "doing" =>
            disk'[FileOf(n)] =
              [there |-> TRUE, open |-> {<<at, n>>}, by |-> {<<at, n>>}]
       /\ to = "ok" => Holds(at, n)'

\* A file with one writer is not touched by another step.
LEMMA Elsewhere ==
  ASSUME Typed, WaveShape, NEW n \in DOMAIN wave \ {0}, profile' = profile,
         \A f \in Files : f # FileOf(n) => disk'[f] = disk[f],
         NEW i, NEW j, Sole(i, j), <<i, j>> # <<at, n>>
  PROVE  /\ disk'[profile[i].steps[j].file] = disk[profile[i].steps[j].file]
         /\ Holds(i, j)' <=> Holds(i, j)
<1>1. profile[i].steps[j].file \in Files
  BY ProfileTyped DEF Sole
<1>2. profile[i].steps[j].file # FileOf(n)
  <2> SUFFICES ASSUME profile[i].steps[j].file = FileOf(n) PROVE FALSE
    OBVIOUS
  <2>1. <<at, n>> \in Writers(FileOf(n))
    BY WaveSteps DEF Writers, Ids, FileOf, Step, Phase
  <2> QED BY <2>1 DEF Sole, OnlyWriter
<1> QED BY <1>1, <1>2 DEF Holds, Whole

LEMMA WorkIsSafe ==
  ASSUME ApplyIInv, NEW n \in DOMAIN wave \ {0}, NEW to,
         Works(n, to), Leaves(n, to)
  PROVE  ApplyIInv'
<1> USE DEF ApplyIInv
<1>1. /\ profile' = profile /\ dry' = dry /\ stage' = stage
      /\ at' = at /\ foretold' = foretold
      /\ wave[n] \in {"due", "doubted", "doing"}
      /\ to \in {"doing", "ok", "failed"}
      /\ DOMAIN wave' = DOMAIN wave /\ wave'[n] = to
      /\ \A m \in DOMAIN wave : m # n => wave'[m] = wave[m]
      /\ kept' \subseteq kept /\ <<at, n>> \notin kept'
  BY DEF Works, Moved, BegunIsNotKept
<1>2. /\ stage = "running" /\ ~dry /\ at \in DOMAIN profile
      /\ n \in DOMAIN Phase.steps /\ at \in Nat /\ n \in Nat \ {0}
  BY <1>1, WaveSteps DEF WaveShape, Typed
<1>3. /\ report \in Seq(Entries) /\ report' \in Seq(Entries)
      /\ DOMAIN report \subseteq DOMAIN report'
      /\ \A k \in DOMAIN report : report'[k] = report[k]
      /\ \A k \in DOMAIN report' \ DOMAIN report :
           /\ report'[k].phase = at /\ report'[k].said = "ran"
           /\ report'[k].step # 0 => report'[k].step = n
           /\ report'[k].ok => to = "ok"
           /\ to # "doing"
  <2>1. report \in Seq(Entries)
    BY <1>2 DEF Typed
  <2>2. CASE report' = report
    BY <2>1, <2>2
  <2>3. CASE report' # report
    <3> DEFINE e == Entry(EntryOf(n), to = "ok", "ran")
    <3>1. e \in Entries
      BY <1>2 DEF Entry, EntryOf, Entries, Words
    <3>2. report' = Append(report, e) /\ to # "doing"
      BY <2>3 DEF Works, Pushed
    <3>3. e.phase = at /\ e.said = "ran" /\ (e.step # 0 => e.step = n)
          /\ (e.ok => to = "ok")
      BY DEF Entry, EntryOf
    <3> HIDE DEF e
    <3> QED BY <2>1, <3>1, <3>2, <3>3
  <2> QED BY <2>2, <2>3
<1>4. Typed'
  <2>1. wave' \in [DOMAIN wave' -> WaveStates]
    BY <1>1 DEF Typed, Works, Moved, WaveStates
  <2> QED BY <1>1, <1>3, <2>1 DEF Typed, Works
<1>5. WaveShape'
  <2>1. DOMAIN wave' = DOMAIN wave /\ Phase' = Phase
        /\ Len(profile)' = Len(profile)
    BY <1>1 DEF Phase
  <2>2. 0 \in DOMAIN wave' => wave'[0] \in {"pending", "ok", "failed"}
    BY <1>1 DEF WaveShape
  <2> QED BY <1>1, <1>2, <2>1, <2>2
         DEF WaveShape, Parallel, Projected, Independent
<1>6. OpenTrue'
  <2> SUFFICES ASSUME NEW f \in Files, NEW w \in disk'[f].open
               PROVE  /\ w[1] = at /\ w[2] \in DOMAIN wave \ {0}
                      /\ wave'[w[2]] = "doing" /\ FileOf(w[2]) = f
    BY <1>1 DEF OpenTrue, FileOf, Step, Phase
  <2>1. CASE f # FileOf(n)
    <3>1. w \in disk[f].open
      BY <2>1 DEF Works
    <3>2. w[2] # n
      BY <2>1, <3>1 DEF OpenTrue
    <3> QED BY <1>1, <3>1, <3>2 DEF OpenTrue
  <2>2. CASE f = FileOf(n) /\ w \in disk[f].open \ {<<at, n>>}
    <3>1. w \in Pairs
      BY <2>2 DEF Typed, Contents
    <3>2. w[2] # n
      BY <2>2, <3>1 DEF OpenTrue, Pairs
    <3> QED BY <1>1, <2>2, <3>2 DEF OpenTrue
  <2>3. CASE f = FileOf(n) /\ w = <<at, n>> /\ to = "doing"
    BY <1>1, <2>3
  <2> QED BY <2>1, <2>2, <2>3 DEF Leaves
<1>7. Answers'
  <2> SUFFICES ASSUME NEW k \in DOMAIN report', report'[k].step # 0
               PROVE  /\ report'[k].phase <= at
                      /\ report'[k].phase = at =>
                           /\ \E m \in DOMAIN wave : report'[k].step <= m
                           /\ report'[k].step \in DOMAIN wave =>
                                wave'[report'[k].step] \in {"ok", "failed"}
    BY <1>1 DEF Answers
  <2>1. CASE k \in DOMAIN report
    BY <1>1, <1>2, <1>3, <2>1 DEF Answers
  <2>2. CASE k \notin DOMAIN report
    <3>1. report'[k].phase = at /\ report'[k].step = n /\ to # "doing"
      BY <1>3, <2>2
    <3>2. at <= at /\ n <= n
      BY <1>2
    <3> QED BY <1>1, <3>1, <3>2
  <2> QED BY <2>1, <2>2
<1>8. BegunIsNotKept'
  BY <1>1 DEF BegunIsNotKept
<1>9. AloneInIt'
  <2> SUFFICES ASSUME NEW m \in DOMAIN wave, wave'[m] = "doing", Sole(at, m)
               PROVE  disk'[FileOf(m)] =
                        [there |-> TRUE, open |-> {<<at, m>>},
                         by |-> {<<at, m>>}]
    BY <1>1, SameProfile DEF AloneInIt, FileOf, Step, Phase
  <2>1. CASE m = n
    BY <1>1, <2>1 DEF Leaves
  <2>2. CASE m # n
    <3>1. disk'[FileOf(m)] = disk[FileOf(m)]
      BY <1>1, <2>2, Elsewhere DEF Works, FileOf, Step, Phase
    <3> QED BY <1>1, <2>2, <3>1 DEF AloneInIt
  <2> QED BY <2>1, <2>2
\* The step itself has been credited with nothing before this answer.
<1>10. ~Credited(at, n)
  BY <1>1, <1>2 DEF Credited, Answers
<1>11. ASSUME NEW i, NEW j, Credited(i, j)', j # 0
       PROVE  Credited(i, j) \/ (i = at /\ j = n /\ to = "ok")
  <2>1. PICK k \in DOMAIN report' : report'[k].ok /\ report'[k].phase = i
                                    /\ report'[k].step = j
    BY <1>11 DEF Credited
  <2> QED BY <1>1, <1>2, <1>3, <1>11, <2>1 DEF Credited
<1>12. KeptTrue'
  <2> SUFFICES ASSUME NEW i \in Nat, NEW j \in Nat, Sole(i, j),
                      <<i, j>> \in kept' \/ Credited(i, j)'
               PROVE  Holds(i, j)'
    BY <1>1, SameProfile DEF KeptTrue
  <2>1. j # 0
    BY ProfileTyped DEF Sole
  <2>2. CASE <<i, j>> = <<at, n>>
    BY <1>1, <1>10, <1>11, <2>1, <2>2 DEF Leaves
  <2>3. CASE <<i, j>> # <<at, n>>
    <3>1. Holds(i, j)' <=> Holds(i, j)
      BY <1>1, <2>3, Elsewhere DEF Works
    <3>2. <<i, j>> \in kept \/ Credited(i, j)
      BY <1>1, <1>11, <2>1, <2>3
    <3> QED BY <3>1, <3>2 DEF KeptTrue
  <2> QED BY <2>2, <2>3
<1>13. ForeTrue'
  <2> SUFFICES ASSUME NEW e \in foretold, Foreseen(e),
                      Ahead(e.phase, e.step)'
               PROVE  Predicted(e)'
    BY <1>1, <1>2, SameProfile DEF ForeTrue, Foreseen
  <2>1. Ahead(e.phase, e.step) /\ <<e.phase, e.step>> # <<at, n>>
    BY <1>1, <1>2 DEF Ahead, Unbegun
  <2>2. Predicted(e)
    BY <2>1 DEF ForeTrue
  <2>3. CASE profile[e.phase].steps[e.step].done # "none"
    <3>1. Holds(e.phase, e.step)' <=> Holds(e.phase, e.step)
      BY <1>1, <2>1, <2>3, Elsewhere DEF Works, Sole, Foreseen
    <3> QED BY <2>2, <3>1 DEF Predicted
  <2>4. CASE profile[e.phase].steps[e.step].done = "none"
    BY <1>1, <2>2, <2>4 DEF Predicted, Holds
  <2> QED BY <2>3, <2>4
<1>14. SkipsForetold'
  <2> SUFFICES ASSUME NEW k \in DOMAIN report', NEW e \in foretold,
                      report'[k].phase = e.phase, report'[k].step = e.step,
                      Foreseen(e), report'[k].said = "skipped"
               PROVE  e.said # "would run"
    BY <1>1, SameProfile DEF SkipsForetold, Foreseen
  <2> QED BY <1>2, <1>3 DEF SkipsForetold
<1>15. FinishedIsKept'
  <2> SUFFICES ASSUME NEW m \in DOMAIN wave, wave'[m] = "due",
                      Step(m).done # "none", OnlyWriter(at, m)
               PROVE  <<at, m>> \notin kept'
    BY <1>1, SameProfile DEF FinishedIsKept, Step, Phase
  <2> QED BY <1>1 DEF FinishedIsKept
<1>16. DryForetells'
  <2> SUFFICES ASSUME NEW m \in DOMAIN wave, m # 0,
                      Phase.lifecycle, OnlyWriter(at, m),
                      NEW e \in foretold, e.phase = at, e.step = m
               PROVE  /\ e.said = "would skip" => wave'[m] # "due"
                      /\ e.said = "would run" =>
                           ~\E k \in DOMAIN report' :
                              report'[k].phase = at /\ report'[k].step = m
                                /\ report'[k].said = "skipped"
    BY <1>1, SameProfile, ZenonT(60) DEF DryForetells, Phase
  <2>1. e.said = "would skip" => wave'[m] # "due"
    BY <1>1, <1>2 DEF DryForetells
  <2>2. e.said = "would run" =>
          ~\E k \in DOMAIN report' :
             report'[k].phase = at /\ report'[k].step = m
               /\ report'[k].said = "skipped"
    BY <1>2, <1>3 DEF DryForetells
  <2> QED BY <2>1, <2>2
<1> QED BY <1>4, <1>5, <1>6, <1>7, <1>8, <1>9, <1>12, <1>13, <1>14, <1>15, <1>16

LEMMA WorkSteps ==
  ASSUME ApplyIInv, NEW n \in DOMAIN wave \ {0}, Begin(n) \/ Answer(n)
  PROVE  ApplyIInv'
<1> USE DEF ApplyIInv
<1> DEFINE f == FileOf(n)
<1>1. /\ runs \in 0 .. MaxRuns /\ faults \in 0 .. MaxFaults /\ at \in Nat
      /\ n \in Nat /\ MaxFaults \in Nat
      /\ disk \in [Files -> Contents] /\ f \in Files \cup {NoFile}
      /\ NoFile \notin Files /\ <<at, n>> \in Pairs
      /\ (f \in Files => disk[f] \in Contents)
  BY WaveSteps, ApplyAssumption DEF Typed, Pairs
<1>2. Sole(at, n) => f \in Files /\ f = profile[at].steps[n].file
  BY WaveSteps DEF Sole, Step, Phase, FileOf
<1>3. ASSUME NEW state \in Contents, Wrote(n, state)
      PROVE  /\ disk' \in [Files -> Contents]
             /\ \A g \in Files : g # f => disk'[g] = disk[g]
             /\ f \in Files => disk'[f] = state
  BY <1>1, <1>3 DEF Wrote
<1>4. CASE Begin(n)
  <2> DEFINE holders == disk[f].open \cup {<<at, n>>}
             state == [there |-> TRUE, open |-> holders, by |-> holders]
  <2>1. CASE f = NoFile
    <3>1. disk' = disk
      BY <1>4, <2>1 DEF Begin, Wrote
    <3>2. Works(n, "doing") /\ Leaves(n, "doing")
      BY <1>1, <1>2, <1>4, <2>1, <3>1 DEF Begin, Works, Leaves
    <3> QED BY <3>2, WorkIsSafe
  <2>2. CASE f \in Files
    <3>1. state \in Contents
      BY <1>1, <2>2 DEF Contents
    <3>2. Works(n, "doing")
      BY <1>1, <1>3, <1>4, <3>1 DEF Begin, Works
    <3>3. disk'[f] = state
      BY <1>3, <1>4, <2>2, <3>1 DEF Begin
    <3>4. Sole(at, n) => holders = {<<at, n>>}
      <4> SUFFICES ASSUME Sole(at, n), NEW w \in disk[f].open
                   PROVE  w = <<at, n>>
        OBVIOUS
      <4>1. w \in Pairs /\ w[1] = at /\ w[2] \in DOMAIN wave \ {0}
            /\ FileOf(w[2]) = f
        BY <1>1, <2>2 DEF OpenTrue, Contents
      <4>2. w = <<at, w[2]>>
        BY <4>1 DEF Pairs
      <4>3. w \in Writers(f)
        BY <4>1, <4>2, WaveSteps DEF Writers, Ids, FileOf, Step, Phase
      <4> QED BY <1>2, <4>3 DEF Sole, OnlyWriter
    <3>5. disk'[f].open = disk[f].open \cup {<<at, n>>}
      BY <3>3
    <3>6. Sole(at, n) =>
            disk'[f] =
              [there |-> TRUE, open |-> {<<at, n>>}, by |-> {<<at, n>>}]
      BY <3>3, <3>4
    <3>7. Leaves(n, "doing")
      BY <3>5, <3>6 DEF Leaves
    <3> QED BY <3>2, <3>7, WorkIsSafe
  <2> QED BY <1>1, <2>1, <2>2
<1>5. f \in Files => Closed(n) \in Contents
  BY <1>1 DEF Closed, Contents
<1>6. CASE Succeed(n)
  <2>1. CASE f = NoFile
    <3>1. disk' = disk
      BY <1>6, <2>1 DEF Succeed, Wrote
    <3>2. Works(n, "ok") /\ Leaves(n, "ok")
      BY <1>1, <1>2, <1>6, <2>1, <3>1 DEF Succeed, Works, Leaves
    <3> QED BY <3>2, WorkIsSafe
  <2>2. CASE f \in Files
    <3>1. Works(n, "ok")
      BY <1>1, <1>3, <1>5, <1>6, <2>2 DEF Succeed, Works
    <3>2. disk'[f] = Closed(n) /\ profile' = profile
      BY <1>3, <1>5, <1>6, <2>2 DEF Succeed
    <3>3. disk'[f].open = disk[f].open \ {<<at, n>>}
      BY <1>1, <2>2, <3>2 DEF Closed, Contents
    <3>4. Sole(at, n) => Holds(at, n)'
      <4> SUFFICES ASSUME Sole(at, n) PROVE Holds(at, n)'
        OBVIOUS
      <4>1. disk[f] = [there |-> TRUE, open |-> {<<at, n>>}, by |-> {<<at, n>>}]
        BY <1>6 DEF Succeed, AloneInIt
      <4>2. disk'[f].there /\ disk'[f].open = {} /\ disk'[f].by = {<<at, n>>}
        BY <3>2, <4>1 DEF Closed
      <4>3. profile[at].steps[n].done \in {"exists", "content"}
        BY ProfileTyped DEF Sole, Steps, Conditions
      <4>4. at' = at
        BY <1>6 DEF Succeed
      <4> QED BY <1>2, <3>2, <4>2, <4>3, <4>4 DEF Holds, Whole
    <3>5. Leaves(n, "ok")
      BY <3>3, <3>4 DEF Leaves
    <3> QED BY <3>1, <3>5, WorkIsSafe
  <2> QED BY <1>1, <2>1, <2>2
<1>7. CASE Fail(n)
  <2>3. Pushed(Entry(EntryOf(n), "failed" = "ok", "ran"))
    <3>1. ("failed" = "ok") = FALSE
      OBVIOUS
    <3> QED BY <1>7, <3>1 DEF Fail
  <2>1. CASE f = NoFile
    <3>1. disk' = disk
      BY <1>7, <2>1 DEF Fail, Wrote
    <3>2. Works(n, "failed") /\ Leaves(n, "failed")
      BY <1>1, <1>2, <1>7, <2>1, <2>3, <3>1 DEF Fail, Works, Leaves, Faulty
    <3> QED BY <3>2, WorkIsSafe
  <2>2. CASE f \in Files
    <3>1. Leftover(n) \in Contents
      BY <1>1, <1>5, <2>2 DEF Leftover, Absent, Contents
    <3>2. Works(n, "failed")
      BY <1>1, <1>3, <1>7, <2>3, <3>1 DEF Fail, Works, Faulty
    <3>3. disk'[f] = Leftover(n)
      BY <1>3, <1>7, <2>2, <3>1 DEF Fail
    <3>4. disk'[f].open \subseteq disk[f].open \ {<<at, n>>}
      BY <1>1, <1>5, <2>2, <3>3 DEF Leftover, Absent, Closed, Contents
    <3>5. Leaves(n, "failed")
      BY <3>4 DEF Leaves
    <3> QED BY <3>2, <3>5, WorkIsSafe
  <2> QED BY <1>1, <2>1, <2>2
<1> QED BY <1>4, <1>6, <1>7 DEF Answer

-----------------------------------------------------------------------------
(* The engine turns to another wave                                         *)

\* The wave a phase opens with.
LEMMA OpeningShape ==
  ASSUME Typed, profile' = profile, stage' = "running",
         at' \in 1 .. Len(profile) + 1, wave' = OpeningOf(at')
  PROVE  WaveShape' /\ wave' \in [DOMAIN wave' -> {"pending"}]
<1>1. profile \in Seq(Phases) /\ at' \in Nat
  BY ProfileTyped
<1>2. CASE at' \notin DOMAIN profile
  <2>1. wave' = << >> /\ DOMAIN wave' = {}
    BY <1>2 DEF OpeningOf
  <2> QED BY <1>1, <1>2, <2>1 DEF WaveShape
<1>3. CASE at' \in DOMAIN profile
  <2> DEFINE p == profile[at']
  <2>1. /\ p.lifecycle \in BOOLEAN /\ p.steps \in Seq(Steps)
        /\ ~p.lifecycle => Len(p.steps) = 1
    BY <1>3, ProfileTyped DEF Phases
  <2>2. /\ wave' = [n \in Opening(p) |-> "pending"]
        /\ DOMAIN wave' = Opening(p) /\ Phase' = p
    BY <1>3 DEF OpeningOf, Asked, Phase
  <2>3. CASE ~p.lifecycle
    <3>1. Opening(p) = {1} /\ 1 \in DOMAIN p.steps
      BY <2>1, <2>3 DEF Opening
    <3>2. ~Parallel(p) /\ ~Projected(p)
      BY <2>3 DEF Parallel, Projected
    <3> QED BY <1>3, <2>2, <2>3, <3>1, <3>2 DEF WaveShape
  <2>4. CASE p.lifecycle /\ ~Projected(p)
    <3>1. Opening(p) = {0} /\ ~Parallel(p)
      BY <2>4 DEF Opening, Parallel
    <3> QED BY <1>3, <2>2, <2>4, <3>1 DEF WaveShape
  <2>5. CASE Parallel(p)
    <3>1. Opening(p) = DOMAIN p.steps /\ Projected(p) /\ p.lifecycle
      BY <2>5 DEF Opening, Parallel, Projected
    <3>2. 0 \notin DOMAIN p.steps
      BY <2>1
    <3> QED BY <1>3, <2>2, <2>5, <3>1, <3>2 DEF WaveShape
  <2>6. CASE p.lifecycle /\ Projected(p) /\ ~Parallel(p)
    <3>1. Opening(p) = {1}
      BY <2>6 DEF Opening
    <3>2. 1 \in DOMAIN p.steps
      BY <2>1, <2>6 DEF Projected
    <3> QED BY <1>3, <2>2, <2>6, <3>1, <3>2 DEF WaveShape
  <2> QED BY <2>3, <2>4, <2>5, <2>6
<1> QED BY <1>2, <1>3

LEMMA TurnIsSafe ==
  ASSUME ApplyIInv, Typed', WaveShape', stage' = "running",
         UNCHANGED <<profile, disk, kept, foretold>>,
         wave' \in [DOMAIN wave' -> {"pending"}],
         \A f \in Files : disk[f].open = {},
         Answers',
         \/ report' = << >> /\ stage # "running"
         \/ /\ stage = "running" /\ report' = report /\ dry' = dry
            /\ \A i, j \in Nat : Ahead(i, j)' => Ahead(i, j)
  PROVE  ApplyIInv'
<1> USE DEF ApplyIInv
<1>1. /\ \A n \in DOMAIN wave' : wave'[n] = "pending"
      /\ report' = << >> => DOMAIN report' = {}
  OBVIOUS
<1>2. OpenTrue'
  BY DEF OpenTrue
<1>3. BegunIsNotKept' /\ AloneInIt' /\ FinishedIsKept'
  BY <1>1 DEF BegunIsNotKept, AloneInIt, FinishedIsKept
<1>4. KeptTrue'
  <2>1. ASSUME NEW i, NEW j, Credited(i, j)'
        PROVE  Credited(i, j)
    BY <2>1 DEF Credited
  <2> QED BY <2>1, SameProfile DEF KeptTrue
<1>5. ASSUME NEW e, Foreseen(e)
      PROVE  e.phase \in Nat /\ e.step \in Nat \ {0}
  BY <1>5, ProfileTyped DEF Foreseen
<1>6. ForeTrue'
  <2>1. ASSUME NEW e
        PROVE  /\ Foreseen(e)' <=> Foreseen(e)
               /\ Predicted(e)' <=> Predicted(e)
    BY SameProfile DEF Foreseen, Predicted
  <2>2. ASSUME NEW e \in foretold, Foreseen(e),
               stage' = "running" /\ ~dry' => Ahead(e.phase, e.step)'
        PROVE  Predicted(e)
    <3>1. CASE report' = << >> /\ stage # "running"
      BY <2>2, <3>1 DEF ForeTrue
    <3>2. CASE stage = "running" /\ dry
      BY <2>2, <3>2 DEF ForeTrue
    <3>3. CASE stage = "running" /\ ~dry /\ dry' = dry
               /\ \A i, j \in Nat : Ahead(i, j)' => Ahead(i, j)
      BY <1>5, <2>2, <3>3 DEF ForeTrue
    <3> QED BY <3>1, <3>2, <3>3
  <2>3. ASSUME dry', NEW k \in DOMAIN report'
        PROVE  (Foreseen(report[k]) => Predicted(report[k]))'
    <3>1. report' = report /\ stage = "running" /\ dry
      BY <1>1, <2>3
    <3>2. Foreseen(report[k])' <=> Foreseen(report[k])
      BY <3>1, SameProfile DEF Foreseen
    <3>3. Predicted(report[k])' <=> Predicted(report[k])
      BY <3>1, SameProfile DEF Predicted
    <3> QED BY <2>3, <3>1, <3>2, <3>3 DEF ForeTrue
  <2> QED BY <2>1, <2>2, <2>3 DEF ForeTrue
<1>7. SkipsForetold'
  <2> SUFFICES ASSUME ~dry', NEW k \in DOMAIN report', NEW e \in foretold,
                      report'[k].phase = e.phase, report'[k].step = e.step,
                      Foreseen(e), report'[k].said = "skipped"
               PROVE  e.said # "would run"
    BY SameProfile DEF SkipsForetold, Foreseen
  <2> QED BY <1>1 DEF SkipsForetold
<1>8. DryForetells'
  <2> SUFFICES ASSUME ~dry', at' \in DOMAIN profile, NEW m \in DOMAIN wave',
                      m # 0, OnlyWriter(at, m)',
                      NEW e \in foretold, e.phase = at', e.step = m
               PROVE  /\ e.said = "would skip" => wave'[m] # "due"
                      /\ e.said = "would run" =>
                           ~\E k \in DOMAIN report' :
                              report'[k].phase = at' /\ report'[k].step = m
                                /\ report'[k].said = "skipped"
    BY DEF DryForetells
  <2>1. Foreseen(e)'
    <3>1. m \in DOMAIN profile'[at'].steps
      BY WaveSteps DEF WaveShape, Phase
    <3> QED BY <3>1 DEF Foreseen, OnlyWriter, Writers, Ids
  <2> QED BY <1>1, <1>7, <2>1 DEF SkipsForetold
<1> QED BY <1>2, <1>3, <1>4, <1>6, <1>7, <1>8

LEMMA StartIsSafe ==
  ASSUME ApplyIInv, Start
  PROVE  ApplyIInv'
<1> USE DEF ApplyIInv
<1>1. /\ stage # "running" /\ stage' = "running" /\ at' = 1
      /\ wave' = OpeningOf(at') /\ report' = << >>
      /\ UNCHANGED <<profile, disk, kept, foretold>>
  BY DEF Start
<1>2. profile \in Seq(Phases) /\ at' \in 1 .. Len(profile) + 1
  BY <1>1, ProfileTyped
<1>3. WaveShape' /\ wave' \in [DOMAIN wave' -> {"pending"}]
  BY <1>1, <1>2, OpeningShape
<1>4. Typed'
  <2>1. runs' \in 0 .. MaxRuns /\ dry' \in BOOLEAN /\ faults' = faults
    BY ApplyAssumption DEF Start, Typed
  <2>2. wave' \in [DOMAIN wave' -> WaveStates]
    BY <1>3 DEF WaveStates
  <2> QED BY <1>1, <2>1, <2>2 DEF Typed
<1>5. \A f \in Files : disk[f].open = {}
  BY <1>1 DEF OpenTrue, WaveShape
<1>6. Answers'
  <2>1. DOMAIN report' = {}
    BY <1>1
  <2> QED BY <2>1 DEF Answers
<1> QED BY <1>1, <1>3, <1>4, <1>5, <1>6, TurnIsSafe

LEMMA AdvanceIsSafe ==
  ASSUME ApplyIInv, stage = "running", Advance
  PROVE  ApplyIInv'
<1> USE DEF ApplyIInv
<1>1. /\ stage' = "running" /\ report' = report /\ dry' = dry
      /\ at \in DOMAIN profile /\ runs' = runs /\ faults' = faults
      /\ UNCHANGED <<profile, disk, kept, foretold>>
      /\ \A n \in DOMAIN wave : wave[n] \in {"ok", "failed"}
  BY DEF Advance, Answered
<1>2. /\ profile \in Seq(Phases) /\ at \in Nat \ {0}
      /\ Phase.steps \in Seq(Steps) /\ report \in Seq(Entries)
  BY <1>1, ProfileTyped DEF Phase, Typed
<1>3. \A f \in Files : disk[f].open = {}
  BY <1>1 DEF OpenTrue
<1>4. CASE Following # {}
  <2>1. Projected(Phase) /\ ~Parallel(Phase)
    BY <1>4 DEF Following
  <2>2. PICK k \in DOMAIN Phase.steps : DOMAIN wave = {k}
    BY <1>1, <2>1 DEF WaveShape
  <2>3. k \in Nat \ {0} /\ Following = {k + 1} /\ k + 1 \in DOMAIN Phase.steps
    BY <1>2, <1>4, <2>1, <2>2 DEF Following
  <2>4. at' = at /\ wave' = [n \in {k + 1} |-> "pending"]
    BY <1>4, <2>3 DEF Advance, Asked
  <2>5. wave' \in [DOMAIN wave' -> {"pending"}] /\ DOMAIN wave' = {k + 1}
    BY <2>4
  <2>6. Typed'
    <3>1. wave' \in [DOMAIN wave' -> WaveStates]
      BY <2>5 DEF WaveStates
    <3> QED BY <1>1, <1>2, <2>4, <3>1 DEF Typed
  <2>7. WaveShape'
    <3>1. Phase' = Phase
      BY <1>1, <2>4 DEF Phase
    <3> QED BY <1>1, <2>1, <2>3, <2>4, <2>5, <3>1
            DEF WaveShape, Projected, Parallel, Independent
  <2>8. Answers'
    <3> SUFFICES ASSUME NEW j \in DOMAIN report, report[j].step # 0
                 PROVE  /\ report[j].phase <= at
                        /\ report[j].phase = at =>
                             /\ report[j].step <= k + 1
                             /\ report[j].step # k + 1
      BY <1>1, <2>4, <2>5 DEF Answers
    <3>1. report[j] \in Entries
      BY <1>2
    <3> QED BY <1>1, <2>2, <2>3, <3>1 DEF Answers, Entries
  <2>9. \A i, j \in Nat : Ahead(i, j)' => Ahead(i, j)
    BY <1>1, <2>2, <2>3, <2>4, <2>5 DEF Ahead
  <2> QED BY <1>1, <1>3, <2>5, <2>6, <2>7, <2>8, <2>9, TurnIsSafe
<1>5. CASE Following = {}
  <2>1. at' = at + 1 /\ wave' = OpeningOf(at')
    BY <1>5 DEF Advance
  <2>2. at' \in 1 .. Len(profile) + 1 /\ at' \in Nat
    BY <1>1, <1>2, <2>1
  <2>3. WaveShape' /\ wave' \in [DOMAIN wave' -> {"pending"}]
    BY <1>1, <2>1, <2>2, OpeningShape
  <2>4. Typed'
    <3>1. wave' \in [DOMAIN wave' -> WaveStates]
      BY <2>3 DEF WaveStates
    <3> QED BY <1>1, <1>2, <2>2, <3>1 DEF Typed
  <2>5. Answers'
    <3> SUFFICES ASSUME NEW j \in DOMAIN report, report[j].step # 0
                 PROVE  report[j].phase <= at' /\ report[j].phase # at'
      BY <1>1 DEF Answers
    <3>1. report[j] \in Entries
      BY <1>2
    <3>2. report[j].phase \in Nat /\ report[j].phase <= at
      BY <3>1 DEF Answers, Entries
    <3> QED BY <1>2, <2>1, <3>2
  <2>6. \A i, j \in Nat : Ahead(i, j)' => Ahead(i, j)
    BY <1>2, <2>1 DEF Ahead
  <2> QED BY <1>1, <1>3, <2>3, <2>4, <2>5, <2>6, TurnIsSafe
<1> QED BY <1>4, <1>5

-----------------------------------------------------------------------------
(* A run is over                                                            *)

LEMMA EndIsSafe ==
  ASSUME ApplyIInv, stage = "running", Typed', stage' # "running",
         DOMAIN wave' = {}, profile' = profile,
         \A f \in Files : disk'[f].open = {},
         \A f \in Files : disk[f].open = {} => disk'[f] = disk[f],
         \A i, j \in Nat : <<i, j>> \in kept' => <<i, j>> \in kept \/ Credited(i, j),
         \A e \in foretold' :
           dry /\ (e \in foretold \/ \E k \in DOMAIN report : e = report[k])
  PROVE  ApplyIInv'
<1> USE DEF ApplyIInv
<1>1. WaveShape' /\ OpenTrue' /\ Answers' /\ BegunIsNotKept' /\ AloneInIt'
      /\ FinishedIsKept' /\ SkipsForetold' /\ DryForetells'
  BY ZenonT(60) DEF WaveShape, OpenTrue, Answers, BegunIsNotKept, AloneInIt, FinishedIsKept,
         SkipsForetold, DryForetells
<1>2. KeptTrue'
  <2> SUFFICES ASSUME NEW i \in Nat, NEW j \in Nat, Sole(i, j), <<i, j>> \in kept'
               PROVE  Holds(i, j)'
    BY SameProfile DEF KeptTrue, Credited
  <2> DEFINE f == profile[i].steps[j].file
  <2>1. (<<i, j>> \in kept \/ Credited(i, j)) /\ Holds(i, j)
    BY DEF KeptTrue
  <2>2. f \in Files /\ j # 0
    BY ProfileTyped DEF Sole
  <2>3. disk[f].open = {}
    <3> SUFFICES ASSUME NEW w \in disk[f].open PROVE FALSE
      OBVIOUS
    <3>1. /\ w \in Pairs /\ w[1] = at /\ w[2] \in DOMAIN wave \ {0}
          /\ wave[w[2]] = "doing" /\ FileOf(w[2]) = f
      BY <2>2 DEF OpenTrue, Typed, Contents
    <3>2. w = <<at, w[2]>>
      BY <3>1 DEF Pairs
    <3>3. w \in Writers(f)
      BY <3>1, <3>2, WaveSteps DEF Writers, Ids, FileOf, Step, Phase
    <3>4. w = <<i, j>>
      BY <3>3 DEF Sole, OnlyWriter
    <3>5. i = at /\ j \in DOMAIN wave /\ wave[j] = "doing"
      BY <3>1, <3>2, <3>4
    <3>6. ~Credited(i, j)
      BY <2>2, <3>5 DEF Credited, Answers
    <3> QED BY <2>1, <3>5, <3>6 DEF BegunIsNotKept
  <2> QED BY <2>1, <2>2, <2>3 DEF Holds, Whole
<1>3. ForeTrue'
  <2> SUFFICES ASSUME NEW e \in foretold', Foreseen(e)
               PROVE  Predicted(e)'
    BY SameProfile DEF ForeTrue, Foreseen
  <2>1. dry /\ Predicted(e)
    BY DEF ForeTrue
  <2>2. \A f \in Files : disk'[f] = disk[f]
    BY <2>1, SMTT(60) DEF OpenTrue, WaveShape
  <2>3. Holds(e.phase, e.step)' <=> Holds(e.phase, e.step)
    <3>1. profile[e.phase].steps[e.step].done # "none" =>
            profile[e.phase].steps[e.step].file \in Files
      BY ProfileTyped DEF Foreseen
    <3> QED BY <2>2, <3>1 DEF Holds, Whole
  <2> QED BY <2>1, <2>3 DEF Predicted
<1> QED BY <1>1, <1>2, <1>3

\* What is remembered of the report of a run that is over.
LEMMA RememberedOf ==
  ASSUME stage = "running", dry \in BOOLEAN, Remembered(report, dry)
  PROVE  /\ \A i, j \in Nat :
              <<i, j>> \in kept' => <<i, j>> \in kept \/ Credited(i, j)
         /\ \A e \in foretold' : dry /\ \E k \in DOMAIN report : e = report[k]
BY DEF Remembered, Credited

LEMMA EndsAreSafe ==
  ASSUME ApplyIInv, stage = "running", Conclude \/ Panic \/ Crash
  PROVE  ApplyIInv'
<1> USE DEF ApplyIInv
<1>1. /\ runs \in 0 .. MaxRuns /\ faults \in 0 .. MaxFaults /\ at \in Nat
      /\ MaxFaults \in Nat /\ dry \in BOOLEAN /\ profile \in Profiles
      /\ disk \in [Files -> Contents]
  BY ApplyAssumption DEF Typed
<1>2. wave' = << >> =>
        DOMAIN wave' = {} /\ wave' \in [DOMAIN wave' -> WaveStates]
  OBVIOUS
<1>3. CASE Conclude
  <2>1. \A f \in Files : disk[f].open = {}
    <3>1. CASE at \notin DOMAIN profile
      BY <3>1 DEF OpenTrue, WaveShape
    <3>2. CASE Answered
      BY <3>2 DEF OpenTrue, Answered
    <3> QED BY <1>3, <3>1, <3>2 DEF Conclude
  <2>2. Typed' /\ DOMAIN wave' = {}
    BY <1>1, <1>2, <1>3 DEF Conclude, Typed
  <2>3. /\ stage' # "running" /\ profile' = profile /\ disk' = disk
        /\ Remembered(report, dry)
    BY <1>3 DEF Conclude
  <2> QED BY <1>1, <2>1, <2>2, <2>3, RememberedOf, EndIsSafe
<1>4. CASE Panic
  <2>1. ASSUME NEW f \in Files
        PROVE  /\ disk'[f] \in Contents /\ disk'[f].open = {}
               /\ disk[f].open = {} => disk'[f] = disk[f]
    <3>1. disk[f] \in Contents
      BY <1>1
    <3>2. disk'[f] = CASE Guarded(f) -> Absent
                       [] ~Guarded(f) /\ disk[f].open # {} -> Torn(f)
                       [] OTHER -> disk[f]
      BY <1>4 DEF Panic
    <3>3. CASE Guarded(f)
      BY <3>2, <3>3 DEF Absent, Contents, Guarded
    <3>4. CASE ~Guarded(f) /\ disk[f].open # {}
      BY <3>1, <3>2, <3>4 DEF Torn, Contents
    <3>5. CASE ~Guarded(f) /\ disk[f].open = {}
      BY <3>1, <3>2, <3>5
    <3> QED BY <3>3, <3>4, <3>5
  <2>2. disk' \in [Files -> Contents]
    <3>1. disk' = [f \in Files |-> disk'[f]]
      BY <1>4 DEF Panic
    <3> QED BY <2>1, <3>1
  <2>3. Typed' /\ DOMAIN wave' = {}
    BY <1>1, <1>2, <1>4, <2>2 DEF Panic, Typed, Faulty
  <2>4. /\ stage' # "running" /\ profile' = profile
        /\ Remembered(report, dry)
    BY <1>4 DEF Panic
  <2> QED BY <1>1, <2>1, <2>3, <2>4, RememberedOf, EndIsSafe
<1>5. CASE Crash
  <2>1. Foreign \in Contents /\ Foreign.open = {}
    BY DEF Foreign, Contents, Pairs
  <2>2. /\ disk' = [f \in Files |->
                     IF disk[f].open # {} THEN Foreign ELSE disk[f]]
        /\ stage' = "idle" /\ wave' = << >> /\ profile' = profile
        /\ kept' = kept /\ foretold' = IF dry THEN foretold ELSE {}
        /\ at' = 0 /\ dry' = dry /\ runs' = runs /\ faults' = faults + 1
        /\ faults < MaxFaults
    BY <1>5 DEF Crash, Faulty
  <2>3. disk' \in [Files -> Contents]
    BY <1>1, <2>1, <2>2
  <2>4. Typed' /\ DOMAIN wave' = {}
    BY <1>1, <1>2, <2>2, <2>3 DEF Typed
  <2> QED BY <2>1, <2>2, <2>4, EndIsSafe
<1> QED BY <1>3, <1>4, <1>5

-----------------------------------------------------------------------------

LEMMA InitIsSafe ==
  ASSUME Init
  PROVE  ApplyIInv
<1>1. /\ DOMAIN wave = {} /\ wave \in [DOMAIN wave -> WaveStates]
      /\ stage = "idle" /\ kept = {} /\ foretold = {} /\ dry = FALSE /\ at = 0
      /\ profile \in Profiles
  BY DEF Init
<1>2. /\ disk \in [Files -> Contents]
      /\ \A f \in Files : disk[f].open = {}
  <2>1. Absent \in Contents /\ Foreign \in Contents
        /\ Absent.open = {} /\ Foreign.open = {}
    BY DEF Absent, Foreign, Contents, Pairs
  <2> QED BY <2>1 DEF Init
<1>3. Typed
  <2>1. runs \in 0 .. MaxRuns /\ faults \in 0 .. MaxFaults
    BY ApplyAssumption DEF Init
  <2> QED BY <1>1, <1>2, <2>1 DEF Typed
<1>4. WaveShape
  BY <1>1 DEF WaveShape
<1> QED BY <1>1, <1>2, <1>3, <1>4
        DEF ApplyIInv, OpenTrue, Answers, BegunIsNotKept, AloneInIt,
            KeptTrue, FinishedIsKept, ForeTrue, SkipsForetold, DryForetells,
            Credited

LEMMA StutterIsSafe ==
  ASSUME ApplyIInv, UNCHANGED vars
  PROVE  ApplyIInv'
<1> USE DEF ApplyIInv, vars
<1>1. Typed' /\ WaveShape' /\ OpenTrue' /\ Answers' /\ BegunIsNotKept'
  BY ZenonT(60) DEF Typed, WaveShape, OpenTrue, Answers, BegunIsNotKept, Phase, FileOf,
         Step, Projected, Parallel, Independent
<1>2. AloneInIt' /\ KeptTrue'
  BY SameProfile DEF AloneInIt, KeptTrue, Credited, FileOf, Step, Phase
<1>3. FinishedIsKept' /\ DryForetells' /\ SkipsForetold'
  BY SameProfile DEF FinishedIsKept, DryForetells, SkipsForetold, Foreseen,
                     Step, Phase
<1>4. ForeTrue'
  BY SameProfile DEF ForeTrue, Foreseen, Predicted, Ahead
<1> QED BY <1>1, <1>2, <1>3, <1>4

LEMMA NextIsSafe ==
  ASSUME ApplyIInv, [Next]_vars
  PROVE  ApplyIInv'
<1>1. CASE Start
  BY <1>1, StartIsSafe
<1>2. CASE Progress
  <2>1. ASSUME NEW n \in DOMAIN wave \ {0}, StepMoves(n)
        PROVE  ApplyIInv'
    BY <1>2, <2>1, QuietSteps, WorkSteps DEF StepMoves, Progress
  <2> QED BY <1>2, <2>1, UnprojectedIsSafe, AdvanceIsSafe, EndsAreSafe DEF Progress
<1>3. CASE Break
  BY <1>3, EndsAreSafe DEF Break
<1>4. CASE UNCHANGED vars
  BY <1>4, StutterIsSafe
<1> QED BY <1>1, <1>2, <1>3, <1>4 DEF Next

\* The disk, who writes it, what was reported of it and what was foretold of it
\* agree in every state of every apply.
THEOREM ApplyInductive == Spec => []ApplyIInv
<1>1. Init => ApplyIInv
  BY InitIsSafe
<1>2. ApplyIInv /\ [Next]_vars => ApplyIInv'
  BY NextIsSafe
<1> QED BY <1>1, <1>2, PTL DEF Spec

\* A report is out only when no step is still writing: resolve_wave answers a
\* whole wave or drops it, whatever fails, panics or crashes.
THEOREM NoStepOutlivesItsRun == Spec => []NoStrayWriter
<1>1. ApplyIInv => NoStrayWriter
  BY DEF ApplyIInv, NoStrayWriter, OpenTrue, WaveShape
<1> QED BY <1>1, ApplyInductive, PTL

\* A step that has a file of its own and was reported done is never found due
\* again, whatever failed, panicked or crashed since (execute_step).
THEOREM FinishedStaysFinished == Spec => []FinishedIsKept
<1>1. ApplyIInv => FinishedIsKept
  BY DEF ApplyIInv
<1> QED BY <1>1, ApplyInductive, PTL

\* A real run right after a dry run runs no step that was foretold to be skipped
\* and skips none that was foretold to run (dry_run_step, execute_step).
THEOREM TheDryRunForetells == Spec => []DryForetells
<1>1. ApplyIInv => DryForetells
  BY DEF ApplyIInv
<1> QED BY <1>1, ApplyInductive, PTL

-----------------------------------------------------------------------------
(* The report of a run                                                      *)

\* The steps this run has passed: it answered them, and none of them failed.
Passed(i, n) ==
  \/ i < at
  \/ i = at /\ n \in DOMAIN wave /\ wave[n] = "ok"
  \/ i = at /\ n \notin DOMAIN wave /\ \E m \in DOMAIN wave : n < m

\* The phases whose entries are of their steps, and not of the phase.
Declares(p) == Projected(p) /\ ~Denied(p, 0)

\* A step that is past its gate was allowed, and an op that had nothing to run
\* expands to nothing.
GateTrue ==
  \A n \in DOMAIN wave :
    /\ wave[n] \in {"due", "doubted", "doing"} => ~Denied(Phase, n)
    /\ n = 0 /\ wave[n] = "ok" => Phase.expands

\* The entries come phase by phase, each phase's of one kind and of different
\* steps.
InPhases ==
  \A k \in DOMAIN report :
    /\ report[k].phase \in DOMAIN profile /\ report[k].phase <= at
    /\ Declared(report[k]) <=> Declares(profile[report[k].phase])
    /\ \A j \in DOMAIN report :
         /\ k < j => report[k].phase <= report[j].phase
         /\ /\ report[j].phase = report[k].phase
            /\ report[j].step = report[k].step /\ report[k].step # 0
            => j = k

\* A failed entry stops the phase it is of.
FailuresStop ==
  \A k \in Failing(report) : report[k].phase = at /\ Stopped

\* Every step passed has its entry.
Recorded(r, i, n) ==
  \E k \in DOMAIN r :
    /\ r[k].phase = i
    /\ r[k].step = IF profile[i].lifecycle THEN n ELSE 0

PassedIsRecorded ==
  \A i \in DOMAIN profile : \A n \in DOMAIN profile[i].steps :
    Passed(i, n) => Recorded(report, i, n)

Told == stage = "running" => InPhases /\ FailuresStop /\ PassedIsRecorded

ReportIInv == GateTrue /\ Told /\ VerdictTrue

-----------------------------------------------------------------------------
(* What a run leaves behind                                                 *)

\* A step at work has its file to itself.
WorksAlone ==
  \A n \in DOMAIN wave :
    wave[n] = "doing" /\ FileOf(n) # NoFile =>
      disk[FileOf(n)] =
        [there |-> TRUE, open |-> {<<at, n>>}, by |-> {<<at, n>>}]

\* A file with nobody's bytes in it was left so by a command, which this run
\* has not passed.
Blamed ==
  \A f \in Files :
    disk[f].there /\ disk[f].by = {} =>
      \E w \in Writers(f) :
        /\ profile[w[1]].steps[w[2]].shape # "transfer"
        /\ stage = "running" /\ ~dry => ~Passed(w[1], w[2])

\* The file of a step is as its success leaves it.
LeftBy(w, f) ==
  IF profile[w[1]].steps[w[2]].done = "exists"
    THEN disk[f].there /\ disk[f].by # {}
    ELSE Whole(f, w[1], w[2])

\* Once its last writer is passed, a file is left as that one leaves it.
Settled ==
  stage = "running" /\ ~dry =>
    \A f \in Files :
      Writers(f) # {} /\ Passed(LastWriter(f)[1], LastWriter(f)[2]) =>
        LeftBy(LastWriter(f), f)

DiskIInv == ~Aliased => WorksAlone /\ Blamed /\ Settled

-----------------------------------------------------------------------------
(* Finite orders                                                            *)

\* Of some subsets of a finite set one contains no other.
LEMMA SmallestSubset ==
  ASSUME NEW S, IsFiniteSet(S), NEW T, T \subseteq SUBSET S, T # {}
  PROVE  \E V \in T : \A U \in T : U \subseteq V => U = V
<1>1. IsWellFoundedOn(StrictSubsetOrdering(S), SUBSET S)
  BY FS_StrictSubsetOrderingWellFounded, FS_FiniteSubsetsOfFinite
<1>2. PICK V \in T : \A U \in T : <<U, V>> \notin StrictSubsetOrdering(S)
  BY <1>1, WFMin
<1> QED BY <1>2 DEF StrictSubsetOrdering

\* R orders S, strictly and totally.
Orders(R, S) ==
  /\ \A x \in S : <<x, x>> \notin R
  /\ \A x, y \in S : x # y => <<x, y>> \in R \/ <<y, x>> \in R
  /\ \A x, y, z \in S : <<x, y>> \in R /\ <<y, z>> \in R => <<x, z>> \in R

IsTop(x, R, S) == \A y \in S : y # x => <<y, x>> \in R

LEMMA TopExists ==
  ASSUME NEW S, IsFiniteSet(S), S # {}, NEW R, Orders(R, S)
  PROVE  \E x \in S : IsTop(x, R, S)
<1> DEFINE T == {V \in SUBSET S : V # {} /\ ~\E x \in V : IsTop(x, R, V)}
<1> SUFFICES ASSUME T # {} PROVE FALSE
  OBVIOUS
<1>0. T \subseteq SUBSET S
  OBVIOUS
<1>1. PICK V \in T : \A U \in T : U \subseteq V => U = V
  <2> HIDE DEF T
  <2> QED BY <1>0, SmallestSubset
<1>2. PICK u \in V : TRUE
  OBVIOUS
<1>3. CASE V \ {u} = {}
  BY <1>2, <1>3 DEF IsTop
<1>4. CASE V \ {u} # {}
  <2>1. V \ {u} \notin T
    BY <1>1, <1>2
  <2>2. PICK x \in V \ {u} : IsTop(x, R, V \ {u})
    BY <1>4, <2>1
  <2>3. CASE <<u, x>> \in R
    BY <2>2, <2>3 DEF IsTop
  <2>4. CASE <<x, u>> \in R
    <3>1. IsTop(u, R, V)
      BY <1>2, <2>2, <2>4 DEF IsTop, Orders
    <3> QED BY <1>2, <3>1
  <2> QED BY <1>2, <2>2, <2>3, <2>4 DEF Orders
<1> QED BY <1>3, <1>4

Below(x, R, S) == {y \in S : <<y, x>> \in R}

\* Every rank below the number of elements is somebody's.
LEMMA RankExists ==
  ASSUME NEW S, IsFiniteSet(S), NEW R, Orders(R, S),
         NEW m \in Nat, m < Cardinality(S)
  PROVE  \E x \in S : Cardinality(Below(x, R, S)) = m
<1> DEFINE Lacks(V, n) == \A x \in V : Cardinality(Below(x, R, V)) # n
           T == {V \in SUBSET S : \E n \in Nat : n < Cardinality(V) /\ Lacks(V, n)}
<1> SUFFICES ASSUME T # {} PROVE FALSE
  OBVIOUS
<1>0. T \subseteq SUBSET S
  OBVIOUS
<1>1. PICK V \in T : \A U \in T : U \subseteq V => U = V
  <2> HIDE DEF T
  <2> QED BY <1>0, SmallestSubset
<1>2. PICK n \in Nat : n < Cardinality(V) /\ Lacks(V, n)
  OBVIOUS
<1>3. V \in SUBSET S /\ IsFiniteSet(V) /\ Cardinality(V) \in Nat /\ Orders(R, V)
  <2>1. IsFiniteSet(V)
    BY FS_Subset
  <2> QED BY <2>1, FS_CardinalityType DEF Orders
<1>4. V # {}
  BY <1>2, <1>3, FS_EmptySet
<1>5. PICK x \in V : IsTop(x, R, V)
  BY <1>3, <1>4, TopExists
<1>6. IsFiniteSet(V \ {x}) /\ Cardinality(V \ {x}) = Cardinality(V) - 1
  BY <1>3, FS_RemoveElement
<1>7. CASE n = Cardinality(V) - 1
  <2>1. Below(x, R, V) = V \ {x}
    BY <1>3, <1>5 DEF IsTop, Below, Orders
  <2> QED BY <1>2, <1>6, <1>7, <2>1
<1>8. CASE n # Cardinality(V) - 1
  <2>1. n < Cardinality(V \ {x})
    BY <1>2, <1>3, <1>6, <1>8
  <2>2. V \ {x} \notin T
    BY <1>1
  <2>3. PICK y \in V \ {x} : Cardinality(Below(y, R, V \ {x})) = n
    BY <1>3, <2>1, <2>2
  <2>4. <<x, y>> \notin R
    BY <1>3, <1>5, <2>3 DEF IsTop, Orders
  <2>5. Below(y, R, V) = Below(y, R, V \ {x})
    BY <2>4 DEF Below
  <2> QED BY <1>2, <2>3, <2>5
<1> QED BY <1>7, <1>8

\* Ranks grow along the order.
LEMMA RanksGrow ==
  ASSUME NEW S, IsFiniteSet(S), NEW R, Orders(R, S),
         NEW x \in S, NEW y \in S, <<x, y>> \in R
  PROVE  /\ Cardinality(Below(x, R, S)) < Cardinality(Below(y, R, S))
         /\ Cardinality(Below(y, R, S)) < Cardinality(S)
<1>1. IsFiniteSet(Below(x, R, S)) /\ IsFiniteSet(Below(y, R, S))
  BY FS_Subset DEF Below
<1>2. Below(x, R, S) \subseteq Below(y, R, S)
  BY DEF Below, Orders
<1>3. x \in Below(y, R, S) /\ x \notin Below(x, R, S) /\ y \notin Below(y, R, S)
      /\ Below(y, R, S) \subseteq S
  BY DEF Below, Orders
<1>4. /\ Cardinality(Below(x, R, S)) <= Cardinality(Below(y, R, S))
      /\ Cardinality(Below(x, R, S)) # Cardinality(Below(y, R, S))
  BY <1>1, <1>2, <1>3, FS_Subset
<1>5. /\ Cardinality(Below(y, R, S)) <= Cardinality(S)
      /\ Cardinality(Below(y, R, S)) # Cardinality(S)
  BY <1>1, <1>3, FS_Subset
<1> QED BY <1>1, <1>4, <1>5, FS_CardinalityType

LEMMA RankIsBelowSize ==
  ASSUME NEW S, IsFiniteSet(S), NEW R, Orders(R, S), NEW x \in S
  PROVE  /\ Cardinality(Below(x, R, S)) \in Nat
         /\ Cardinality(Below(x, R, S)) < Cardinality(S)
<1>1. IsFiniteSet(Below(x, R, S)) /\ Below(x, R, S) \subseteq S
      /\ x \notin Below(x, R, S)
  BY FS_Subset DEF Below, Orders
<1>2. /\ Cardinality(Below(x, R, S)) <= Cardinality(S)
      /\ Cardinality(Below(x, R, S)) # Cardinality(S)
  BY <1>1, FS_Subset
<1> QED BY <1>1, <1>2, FS_CardinalityType

-----------------------------------------------------------------------------
(* The report in declaration order                                          *)

Distinct(r) ==
  \A j, k \in DOMAIN r :
    /\ Declared(r[j]) /\ Declared(r[k])
    /\ r[j].phase = r[k].phase /\ r[j].step = r[k].step
    => j = k

ByEntry(r, S) == {w \in S \X S : Before(r[w[1]], r[w[2]])}

ByPlace(S) == {w \in S \X S : w[1] < w[2]}

Rank(r, S, j) == Cardinality({i \in S : Before(r[i], r[j])})

Place(S, k) == Cardinality({i \in S : i < k})

LEMMA BeforeOrders ==
  ASSUME NEW a \in Entries, NEW b \in Entries, NEW c \in Entries
  PROVE  /\ ~Before(a, a)
         /\ Before(a, b) => ~Before(b, a)
         /\ Before(a, b) /\ Before(b, c) => Before(a, c)
         /\ a.phase # b.phase \/ a.step # b.step => Before(a, b) \/ Before(b, a)
BY DEF Before, Entries

LEMMA RunOf ==
  ASSUME NEW r \in Seq(Entries), Distinct(r),
         NEW k \in DOMAIN r, Declared(r[k])
  PROVE  LET near == RunAround(r, k) IN
         /\ k \in near /\ near \subseteq DOMAIN r /\ IsFiniteSet(near)
         /\ \A j \in near : Declared(r[j]) /\ RunAround(r, j) = near
         /\ Orders(ByEntry(r, near), near)
         /\ Orders(ByPlace(near), near)
<1> DEFINE near == RunAround(r, k)
<1>1. Len(r) \in Nat /\ DOMAIN r = 1 .. Len(r)
  OBVIOUS
<1>2. near \subseteq DOMAIN r /\ near \subseteq Nat
  BY <1>1 DEF RunAround
<1>3. IsFiniteSet(near)
  <2>1. IsFiniteSet(1 .. Len(r))
    BY <1>1, FS_Interval
  <2> QED BY <1>1, <1>2, <2>1, FS_Subset
<1>4. k \in near
  BY <1>1 DEF RunAround
<1>5. ASSUME NEW j \in near
      PROVE  Declared(r[j]) /\ RunAround(r, j) = near
  <2>1. j \in Nat /\ k \in Nat /\ j \in DOMAIN r
        /\ \A i \in DOMAIN r :
             i \in Nat /\ ((j <= i /\ i <= k) \/ (k <= i /\ i <= j) => Declared(r[i]))
    BY <1>1, <1>2 DEF RunAround
  <2>2. Declared(r[j])
    BY <2>1
  <2>3. ASSUME NEW m \in DOMAIN r
        PROVE  m \in RunAround(r, j) <=> m \in near
    BY <2>1, <2>3 DEF RunAround
  <2> QED BY <2>2, <2>3 DEF RunAround
<1>6. Orders(ByPlace(near), near)
  BY <1>2 DEF Orders, ByPlace
<1>7. Orders(ByEntry(r, near), near)
  <2>1. \A j \in near : r[j] \in Entries
    BY <1>2
  <2>2. ASSUME NEW x \in near, NEW y \in near, x # y
        PROVE  Before(r[x], r[y]) \/ Before(r[y], r[x])
    BY <1>2, <1>5, <2>1, <2>2, BeforeOrders DEF Distinct
  <2>3. \A x \in near : ~Before(r[x], r[x])
    BY <2>1, BeforeOrders
  <2>4. \A x, y, z \in near :
          Before(r[x], r[y]) /\ Before(r[y], r[z]) => Before(r[x], r[z])
    BY <2>1, BeforeOrders
  <2> HIDE DEF near
  <2> QED BY <2>2, <2>3, <2>4 DEF Orders, ByEntry
<1> QED BY <1>2, <1>3, <1>4, <1>5, <1>6, <1>7

LEMMA RanksAndPlaces ==
  ASSUME NEW r, NEW S, NEW j \in S
  PROVE  /\ Rank(r, S, j) = Cardinality(Below(j, ByEntry(r, S), S))
         /\ Place(S, j) = Cardinality(Below(j, ByPlace(S), S))
<1>1. {i \in S : Before(r[i], r[j])} = Below(j, ByEntry(r, S), S)
  BY DEF Below, ByEntry
<1>2. {i \in S : i < j} = Below(j, ByPlace(S), S)
  BY DEF Below, ByPlace
<1> QED BY <1>1, <1>2 DEF Rank, Place

\* The entry that comes to stand at k is the one of its run whose rank is k's.
LEMMA ComesToStand ==
  ASSUME NEW r \in Seq(Entries), Distinct(r),
         NEW k \in DOMAIN r, Declared(r[k])
  PROVE  \E j \in RunAround(r, k) :
           /\ InDeclarationOrder(r)[k] = r[j]
           /\ Rank(r, RunAround(r, k), j) = Place(RunAround(r, k), k)
<1> DEFINE near == RunAround(r, k)
<1>1. k \in near /\ IsFiniteSet(near)
      /\ Orders(ByEntry(r, near), near) /\ Orders(ByPlace(near), near)
  BY RunOf
<1>2. InDeclarationOrder(r)[k] =
        r[CHOOSE j \in near : Rank(r, near, j) = Place(near, k)]
  BY DEF InDeclarationOrder, Rank, Place
<1> HIDE DEF near
<1>3. Place(near, k) \in Nat /\ Place(near, k) < Cardinality(near)
  BY <1>1, RankIsBelowSize, RanksAndPlaces
<1>4. \E j \in near : Cardinality(Below(j, ByEntry(r, near), near)) = Place(near, k)
  BY <1>1, <1>3, RankExists
<1>5. \E j \in near : Rank(r, near, j) = Place(near, k)
  BY <1>4, RanksAndPlaces
<1> QED BY <1>2, <1>5 DEF near

\* Every entry comes to stand somewhere in its run.
LEMMA FindsAPlace ==
  ASSUME NEW r \in Seq(Entries), Distinct(r),
         NEW j \in DOMAIN r, Declared(r[j])
  PROVE  \E k \in RunAround(r, j) : InDeclarationOrder(r)[k] = r[j]
<1> DEFINE near == RunAround(r, j)
<1>1. j \in near /\ near \subseteq DOMAIN r /\ IsFiniteSet(near)
      /\ Orders(ByEntry(r, near), near) /\ Orders(ByPlace(near), near)
      /\ \A i \in near : Declared(r[i]) /\ RunAround(r, i) = near
  BY RunOf
<1>2. \A k \in near : \E i \in near :
        InDeclarationOrder(r)[k] = r[i] /\ Rank(r, near, i) = Place(near, k)
  <2> SUFFICES ASSUME NEW k \in near
               PROVE  \E i \in near : /\ InDeclarationOrder(r)[k] = r[i]
                                      /\ Rank(r, near, i) = Place(near, k)
    OBVIOUS
  <2>1. k \in DOMAIN r /\ Declared(r[k]) /\ RunAround(r, k) = near
    BY <1>1
  <2>2. \E i \in RunAround(r, k) :
          /\ InDeclarationOrder(r)[k] = r[i]
          /\ Rank(r, RunAround(r, k), i) = Place(RunAround(r, k), k)
    BY <2>1, ComesToStand
  <2> QED BY <2>1, <2>2
<1> HIDE DEF near
<1>3. Rank(r, near, j) \in Nat /\ Rank(r, near, j) < Cardinality(near)
  BY <1>1, RankIsBelowSize, RanksAndPlaces
<1>4. \E k \in near : Cardinality(Below(k, ByPlace(near), near)) = Rank(r, near, j)
  BY <1>1, <1>3, RankExists
<1>5. PICK k \in near : Place(near, k) = Rank(r, near, j)
  BY <1>4, RanksAndPlaces
<1>6. PICK i \in near : InDeclarationOrder(r)[k] = r[i]
                        /\ Rank(r, near, i) = Rank(r, near, j)
  BY <1>2, <1>5
<1>7. i = j
  <2> SUFFICES ASSUME i # j PROVE FALSE
    OBVIOUS
  <2>1. CASE <<i, j>> \in ByEntry(r, near)
    BY <1>1, <1>3, <1>6, <2>1, RanksGrow, RanksAndPlaces
  <2>2. CASE <<j, i>> \in ByEntry(r, near)
    BY <1>1, <1>3, <1>6, <2>2, RanksGrow, RanksAndPlaces
  <2> QED BY <1>1, <2>1, <2>2 DEF Orders
<1> QED BY <1>6, <1>7 DEF near

\* Within a run the entries stand in the order of the profile.
LEMMA StandInOrder ==
  ASSUME NEW r \in Seq(Entries), Distinct(r),
         NEW k \in DOMAIN r, Declared(r[k]),
         NEW m \in RunAround(r, k), k < m
  PROVE  Before(InDeclarationOrder(r)[k], InDeclarationOrder(r)[m])
<1> DEFINE near == RunAround(r, k)
<1>1. k \in near /\ near \subseteq DOMAIN r /\ IsFiniteSet(near)
      /\ Orders(ByEntry(r, near), near) /\ Orders(ByPlace(near), near)
      /\ Declared(r[m]) /\ RunAround(r, m) = near /\ m \in near
  BY RunOf
<1>2. PICK i \in near : /\ InDeclarationOrder(r)[k] = r[i]
                        /\ Rank(r, near, i) = Place(near, k)
  BY ComesToStand
<1>3. PICK j \in near : /\ InDeclarationOrder(r)[m] = r[j]
                        /\ Rank(r, near, j) = Place(near, m)
  <2>1. \E j \in RunAround(r, m) :
          /\ InDeclarationOrder(r)[m] = r[j]
          /\ Rank(r, RunAround(r, m), j) = Place(RunAround(r, m), m)
    BY <1>1, ComesToStand
  <2> QED BY <1>1, <2>1
<1> HIDE DEF near
<1>4. <<k, m>> \in ByPlace(near)
  BY <1>1 DEF ByPlace
<1>5. Place(near, k) < Place(near, m) /\ Place(near, k) \in Nat
      /\ Place(near, m) \in Nat
  BY <1>1, <1>4, RanksGrow, RankIsBelowSize, RanksAndPlaces
<1>6. <<i, j>> \in ByEntry(r, near)
  <2>1. i # j
    BY <1>2, <1>3, <1>5
  <2>2. CASE <<j, i>> \in ByEntry(r, near)
    BY <1>1, <1>2, <1>3, <1>5, <2>2, RanksGrow, RanksAndPlaces
  <2> QED BY <1>1, <2>1, <2>2 DEF Orders
<1> QED BY <1>2, <1>3, <1>6 DEF ByEntry

LEMMA InOrderOf ==
  ASSUME NEW r \in Seq(Entries), Distinct(r)
  PROVE  /\ DOMAIN InDeclarationOrder(r) = DOMAIN r
         /\ \A k \in DOMAIN r : \E j \in DOMAIN r :
              /\ InDeclarationOrder(r)[k] = r[j]
              /\ Declared(r[k]) => j \in RunAround(r, k)
              /\ ~Declared(r[k]) => j = k
         /\ \A j \in DOMAIN r : \E k \in DOMAIN r :
              InDeclarationOrder(r)[k] = r[j]
<1>1. /\ DOMAIN InDeclarationOrder(r) = DOMAIN r
      /\ \A k \in DOMAIN r : ~Declared(r[k]) => InDeclarationOrder(r)[k] = r[k]
  BY DEF InDeclarationOrder
<1>2. \A k \in DOMAIN r : RunAround(r, k) \subseteq DOMAIN r
  BY DEF RunAround
<1>3. ASSUME NEW k \in DOMAIN r, Declared(r[k])
      PROVE  \E j \in DOMAIN r :
               InDeclarationOrder(r)[k] = r[j] /\ j \in RunAround(r, k)
  BY <1>2, <1>3, ComesToStand
<1>4. ASSUME NEW j \in DOMAIN r, Declared(r[j])
      PROVE  \E k \in DOMAIN r : InDeclarationOrder(r)[k] = r[j]
  BY <1>2, <1>4, FindsAPlace
<1> QED BY <1>1, <1>3, <1>4

\* Of the failing entries one stands first.
LEMMA FirstFailing ==
  ASSUME NEW r \in Seq(Entries), Failing(r) # {}
  PROVE  \E k \in Failing(r) : \A j \in Failing(r) : k <= j
<1> DEFINE S == Failing(r)
           R == {w \in S \X S : w[1] > w[2]}
<1>1. S \subseteq 1 .. Len(r) /\ Len(r) \in Nat
  BY DEF Failing
<1>2. S \subseteq Nat
  BY <1>1
<1>3. IsFiniteSet(S)
  <2>1. IsFiniteSet(1 .. Len(r))
    BY <1>1, FS_Interval
  <2> HIDE DEF S
  <2> QED BY <1>1, <2>1, FS_Subset
<1> HIDE DEF S
<1>4. Orders(R, S)
  BY <1>2 DEF Orders
<1>5. S # {}
  BY DEF S
<1> HIDE DEF R
<1>6. PICK k \in S : IsTop(k, R, S)
  BY <1>3, <1>4, <1>5, TopExists
<1>7. ASSUME NEW j \in S
      PROVE  k <= j
  <2>1. CASE j = k
    BY <1>2, <2>1
  <2>2. CASE j # k
    <3>1. <<j, k>> \in R
      BY <1>6, <2>2 DEF IsTop
    <3>2. j > k
      BY <3>1 DEF R
    <3> QED BY <1>2, <3>2
  <2> QED BY <2>1, <2>2
<1> QED BY <1>7 DEF S

\* A run that is over is told as it went.
LEMMA VerdictOfTheEnd ==
  ASSUME ApplyIInv, Told, stage = "running", NEW failed \in BOOLEAN,
         at \in DOMAIN profile => failed = TRUE,
         profile' = profile, report' = InDeclarationOrder(report),
         verdict' = Envelope(InDeclarationOrder(report), failed)
  PROVE  VerdictTrue'
<1> DEFINE r == report
           N == InDeclarationOrder(report)
<1>1. /\ r \in Seq(Entries) /\ InPhases /\ FailuresStop /\ PassedIsRecorded
      /\ at \in 1 .. Len(profile) + 1 /\ profile \in Seq(Phases)
  BY ProfileTyped DEF ApplyIInv, Typed, Told, WaveShape
<1>2. Distinct(r)
  BY <1>1 DEF Distinct, InPhases, Declared
<1>3. /\ DOMAIN N = DOMAIN r
      /\ \A k \in DOMAIN r : \E j \in DOMAIN r :
           /\ N[k] = r[j]
           /\ Declared(r[k]) => j \in RunAround(r, k)
           /\ ~Declared(r[k]) => j = k
      /\ \A j \in DOMAIN r : \E k \in DOMAIN r : N[k] = r[j]
  BY <1>1, <1>2, InOrderOf
<1>4. \A k \in DOMAIN r : r[k] \in Entries
  BY <1>1
<1>5. N \in Seq(Entries)
  <2>1. \A k \in DOMAIN N : N[k] \in Entries
    BY <1>3, <1>4
  <2>2. N = [k \in 1 .. Len(r) |-> N[k]] /\ Len(r) \in Nat
    BY <1>1 DEF InDeclarationOrder
  <2>3. \A k \in 1 .. Len(r) : N[k] \in Entries
    BY <1>1, <1>3, <2>1
  <2> HIDE DEF N
  <2> QED BY <2>2, <2>3
\* A failing entry is of the phase the engine stopped in.
<1>6. ASSUME NEW k \in Failing(N)
      PROVE  at \in DOMAIN profile /\ N[k].phase = at
             /\ N[k] \in Entries
  <2>1. k \in DOMAIN r /\ ~N[k].ok
    BY <1>3 DEF Failing
  <2>2. PICK j \in DOMAIN r : N[k] = r[j]
    BY <1>3, <2>1
  <2>3. j \in Failing(r)
    BY <2>1, <2>2 DEF Failing
  <2> QED BY <1>1, <1>4, <2>2, <2>3 DEF FailuresStop, InPhases
<1>7. ASSUME verdict'.ok
      PROVE  /\ Failing(N) = {}
             /\ \A i \in DOMAIN profile : \A n \in DOMAIN profile[i].steps :
                  Recorded(N, i, n)
  <2>1. failed = FALSE
    <3> SUFFICES ASSUME failed = TRUE PROVE FALSE
      OBVIOUS
    <3>1. CASE Failing(N) # {}
      BY <1>7, <3>1 DEF Envelope
    <3>2. CASE Failing(N) = {}
      BY <1>7, <3>2 DEF Envelope, NoVerdict
    <3> QED BY <3>1, <3>2
  <2>2. at \notin DOMAIN profile
    BY <2>1
  <2>3. Failing(N) = {}
    BY <1>6, <2>2
  <2>4. \A i \in DOMAIN profile : i < at
    BY <1>1, <2>2
  <2>5. ASSUME NEW i \in DOMAIN profile, NEW n \in DOMAIN profile[i].steps
        PROVE  Recorded(N, i, n)
    <3>1. Recorded(r, i, n)
      BY <1>1, <2>4 DEF PassedIsRecorded, Passed
    <3> HIDE DEF N, r
    <3> QED BY <1>3, <3>1 DEF Recorded
  <2> QED BY <2>3, <2>5
<1>8. ASSUME Failing(N) # {}
      PROVE  /\ verdict'.ok = FALSE
             /\ \E k \in Failing(N) :
                  /\ verdict'.phase = N[k].phase /\ verdict'.step = N[k].step
                  /\ \A j \in Failing(N) : ~Before(N[j], N[k])
  <2>1. at \in DOMAIN profile /\ failed = TRUE
    BY <1>6, <1>8
  <2> DEFINE first == CHOOSE k \in Failing(N) : \A j \in Failing(N) : k <= j
  <2>2. first \in Failing(N) /\ \A j \in Failing(N) : first <= j
    <3>1. \E k \in Failing(N) : \A j \in Failing(N) : k <= j
      BY <1>5, <1>8, FirstFailing
    <3> QED BY <3>1
  <2>3. verdict' =
          [ok |-> FALSE, phase |-> N[first].phase, step |-> N[first].step]
    BY <1>8, <2>1 DEF Envelope
  <2> HIDE DEF first
  <2>4. ASSUME NEW j \in Failing(N)
        PROVE  ~Before(N[j], N[first])
    <3>1. /\ N[j].phase = at /\ N[first].phase = at /\ at \in Nat
          /\ N[j] \in Entries /\ N[first] \in Entries
      BY <1>6, <2>2, <1>1
    <3>2. CASE N[first].step = 0
      BY <3>1, <3>2 DEF Before, Entries
    <3>3. CASE N[first].step # 0
      <4>1. first \in DOMAIN r /\ j \in DOMAIN r /\ first \in Nat /\ j \in Nat
        <5>1. Failing(N) \subseteq DOMAIN r
          BY <1>3 DEF Failing
        <5>2. DOMAIN r \subseteq Nat
          BY <1>1
        <5> HIDE DEF N, r
        <5> QED BY <2>2, <5>1, <5>2
      <4>2. PICK a \in DOMAIN r : /\ N[first] = r[a]
                                  /\ Declared(r[first]) => a \in RunAround(r, first)
                                  /\ ~Declared(r[first]) => a = first
        BY <1>3, <4>1
      <4>3. Declared(r[a]) /\ r[a].phase = at
        BY <3>1, <3>3, <4>2 DEF Declared
      <4>4. Declared(r[first]) /\ a \in RunAround(r, first)
        BY <4>2, <4>3
      \* What follows an entry of this phase is of this phase, and like it.
      <4>5. ASSUME NEW i \in DOMAIN r, a <= i
            PROVE  Declared(r[i])
        <5>1. r[i].phase = at
          <6>1. r[a].phase <= r[i].phase /\ r[i].phase <= at
            <7>1. a \in Nat /\ i \in Nat
              BY <1>1
            <7>2. r[a].phase \in Nat
              BY <1>4 DEF Entries
            <7>3. a < i => r[a].phase <= r[i].phase
              BY <1>1 DEF InPhases
            <7>4. r[i].phase <= at
              BY <1>1 DEF InPhases
            <7> QED BY <4>5, <7>1, <7>2, <7>3, <7>4
          <6> QED BY <1>1, <1>4, <3>1, <4>3, <6>1 DEF Entries
        <5> QED BY <1>1, <4>3, <5>1 DEF InPhases
      <4>6. \A i \in DOMAIN r : first <= i => Declared(r[i])
        BY <1>1, <4>1, <4>4, <4>5 DEF RunAround
      <4>7. first <= j /\ j \in RunAround(r, first)
        <5>1. first <= j
          BY <2>2
        <5>2. \A i \in DOMAIN r : i \in Nat
          BY <1>1
        <5> QED BY <4>1, <4>6, <5>1, <5>2 DEF RunAround
      <4>8. CASE first = j
        BY <3>1, <4>8, BeforeOrders
      <4>9. CASE first # j
        <5>1. Before(N[first], N[j])
          BY <1>1, <1>2, <4>1, <4>4, <4>7, <4>9, StandInOrder
        <5> QED BY <3>1, <5>1, BeforeOrders
      <4> QED BY <4>8, <4>9
    <3> QED BY <3>2, <3>3
  <2> QED BY <2>2, <2>3, <2>4
<1> HIDE DEF N, r
<1>9. report' = N
  BY DEF N
<1>10. Failing(report') = Failing(N)
  BY <1>9
<1>11. verdict'.ok =>
         /\ Failing(report') = {}
         /\ \A i \in DOMAIN profile' : \A n \in DOMAIN profile'[i].steps :
              \E k \in DOMAIN report' :
                /\ report'[k].phase = i
                /\ report'[k].step = IF profile'[i].lifecycle THEN n ELSE 0
  BY <1>7, <1>9 DEF Recorded
<1>12. Failing(report') # {} =>
         /\ ~verdict'.ok
         /\ \E k \in Failing(report') :
              /\ verdict'.phase = report'[k].phase
              /\ verdict'.step = report'[k].step
              /\ \A j \in Failing(report') : ~Before(report'[j], report'[k])
  BY <1>8, <1>9
<1> QED BY <1>11, <1>12 DEF VerdictTrue

\* What a move of a wave adds to the report.
Tells(n, to, e) ==
  /\ e \in Entries /\ Pushed(e)
  /\ e.phase = at
  /\ Declared(e) <=> Declares(Phase)
  /\ e.step # 0 => e.step = n
  /\ e.ok \/ to = "failed"
  /\ to = "ok" => e.step = EntryOf(n)

LEMMA MoveIsTold ==
  ASSUME ApplyIInv, GateTrue, Told, stage = "running",
         NEW n \in DOMAIN wave, NEW to, Moved(n, to),
         wave[n] \notin {"ok", "failed"},
         UNCHANGED <<profile, stage, at>>,
         to \in {"due", "doubted", "doing"} => ~Denied(Phase, n),
         to = "ok" /\ n = 0 => Phase.expands,
         \/ report' = report /\ (to = "ok" => n = 0)
         \/ \E e \in Entries : Tells(n, to, e)
  PROVE  GateTrue' /\ Told'
<1>1. /\ profile' = profile /\ stage' = stage /\ at' = at /\ Phase' = Phase
      /\ DOMAIN wave' = DOMAIN wave /\ wave'[n] = to
      /\ \A m \in DOMAIN wave : m # n => wave'[m] = wave[m]
      /\ at \in DOMAIN profile /\ at \in Nat
  BY DEF Moved, Phase, ApplyIInv, WaveShape, Typed
<1>2. /\ report \in Seq(Entries) /\ report' \in Seq(Entries)
      /\ DOMAIN report \subseteq DOMAIN report'
      /\ \A k \in DOMAIN report : report'[k] = report[k]
      /\ \A k \in DOMAIN report' \ DOMAIN report :
           /\ report'[k] \in Entries /\ Tells(n, to, report'[k])
           /\ \A j \in DOMAIN report : j < k
           /\ \A j \in DOMAIN report' \ DOMAIN report : j = k
  <2>1. report \in Seq(Entries)
    BY DEF ApplyIInv, Typed
  <2>2. CASE report' = report
    BY <2>1, <2>2
  <2>3. CASE \E e \in Entries : Tells(n, to, e)
    <3>1. PICK e \in Entries : Tells(n, to, e)
      BY <2>3
    <3>2. report' = Append(report, e)
      BY <3>1 DEF Tells, Pushed
    <3> QED BY <2>1, <3>1, <3>2
  <2> QED BY <2>2, <2>3
<1>3. GateTrue'
  BY <1>1 DEF GateTrue, Denied
<1>4. InPhases'
  <2> SUFFICES ASSUME NEW k \in DOMAIN report'
               PROVE  /\ report'[k].phase \in DOMAIN profile
                      /\ report'[k].phase <= at
                      /\ Declared(report'[k])
                           <=> Declares(profile[report'[k].phase])
                      /\ \A j \in DOMAIN report' :
                           /\ k < j => report'[k].phase <= report'[j].phase
                           /\ /\ report'[j].phase = report'[k].phase
                              /\ report'[j].step = report'[k].step
                              /\ report'[k].step # 0
                              => j = k
    BY <1>1 DEF InPhases, Declared, Declares, Projected, Denied
  <2>1. InPhases /\ Answers
    BY DEF Told, ApplyIInv
  <2>2. ASSUME NEW j \in DOMAIN report'
        PROVE  report'[j].phase \in Nat /\ j \in Nat
    <3>1. report'[j] \in Entries /\ j \in Nat
      BY <1>2
    <3> QED BY <3>1 DEF Entries
  <2>3. \A j \in DOMAIN report : report[j].step # 0 /\ report[j].phase = at =>
          report[j].step # n
    BY <2>1 DEF Answers
  <2>4. CASE k \in DOMAIN report
    <3>1. /\ report[k].phase \in DOMAIN profile /\ report[k].phase <= at
          /\ Declared(report[k]) <=> Declares(profile[report[k].phase])
      BY <2>1, <2>4 DEF InPhases
    <3>2. ASSUME NEW j \in DOMAIN report'
          PROVE  /\ k < j => report'[k].phase <= report'[j].phase
                 /\ /\ report'[j].phase = report'[k].phase
                    /\ report'[j].step = report'[k].step
                    /\ report'[k].step # 0
                    => j = k
      <4>1. CASE j \in DOMAIN report
        BY <1>2, <2>1, <2>4, <4>1 DEF InPhases
      <4>2. CASE j \notin DOMAIN report
        BY <1>2, <2>3, <2>4, <3>1, <4>2 DEF Tells
      <4> QED BY <4>1, <4>2
    <3> QED BY <1>2, <2>4, <3>1, <3>2
  <2>5. CASE k \notin DOMAIN report
    <3>1. /\ report'[k].phase = at /\ at <= at
          /\ Declared(report'[k]) <=> Declares(Phase)
          /\ report'[k].step # 0 => report'[k].step = n
      BY <1>1, <1>2, <2>5 DEF Tells
    <3>2. ASSUME NEW j \in DOMAIN report'
          PROVE  /\ k < j => report'[k].phase <= report'[j].phase
                 /\ /\ report'[j].phase = report'[k].phase
                    /\ report'[j].step = report'[k].step
                    /\ report'[k].step # 0
                    => j = k
      <4>1. CASE j \in DOMAIN report
        BY <1>2, <2>2, <2>3, <2>5, <3>1, <4>1
      <4>2. CASE j \notin DOMAIN report
        BY <1>2, <2>2, <2>5, <4>2
      <4> QED BY <4>1, <4>2
    <3> QED BY <1>1, <3>1, <3>2 DEF Phase
  <2> QED BY <2>4, <2>5
<1>5. FailuresStop'
  <2> SUFFICES ASSUME NEW k \in DOMAIN report', ~report'[k].ok
               PROVE  report'[k].phase = at /\ Stopped'
    BY <1>1 DEF FailuresStop, Failing
  <2>1. CASE k \in DOMAIN report
    <3>1. report[k].phase = at /\ Stopped
      BY <1>2, <2>1 DEF Told, FailuresStop, Failing
    <3> QED BY <1>1, <1>2, <2>1, <3>1 DEF Stopped
  <2>2. CASE k \notin DOMAIN report
    <3>1. report'[k].phase = at /\ to = "failed"
      BY <1>2, <2>2 DEF Tells
    <3> QED BY <1>1, <3>1 DEF Stopped
  <2> QED BY <2>1, <2>2
<1>6. PassedIsRecorded'
  <2> SUFFICES ASSUME NEW i \in DOMAIN profile, NEW m \in DOMAIN profile[i].steps,
                      Passed(i, m)'
               PROVE  Recorded(report', i, m)
    BY <1>1 DEF PassedIsRecorded, Recorded
  <2>1. CASE Passed(i, m)
    <3>1. Recorded(report, i, m)
      BY <2>1 DEF Told, PassedIsRecorded
    <3> QED BY <1>2, <3>1 DEF Recorded
  <2>2. CASE ~Passed(i, m)
    <3>1. i = at /\ m = n /\ to = "ok"
      BY <1>1, <2>2 DEF Passed
    <3>2. n # 0
      BY <3>1, ProfileTyped DEF ApplyIInv
    <3>3. PICK e \in Entries : Tells(n, to, e)
      BY <3>1, <3>2
    <3>4. e.phase = i /\ e.step = EntryOf(n) /\ report' = Append(report, e)
      BY <3>1, <3>3 DEF Tells, Pushed
    <3>5. Len(report) + 1 \in DOMAIN report' /\ report'[Len(report) + 1] = e
      BY <1>2, <3>4
    <3> QED BY <3>1, <3>4, <3>5 DEF Recorded, EntryOf, Phase
  <2> QED BY <2>1, <2>2
<1> QED BY <1>3, <1>4, <1>5, <1>6 DEF Told

\* An entry of a step of the wave is declared just if its phase's are.
LEMMA EntryIsDeclared ==
  ASSUME ApplyIInv, NEW n \in DOMAIN wave \ {0}, ~Denied(Phase, n)
  PROVE  /\ Declares(Phase) <=> EntryOf(n) # 0
         /\ EntryOf(n) # 0 => EntryOf(n) = n
         /\ EntryOf(n) \in Nat /\ at \in Nat
<1>1. n \in Nat \ {0} /\ at \in Nat /\ stage = "running" /\ at \in DOMAIN profile
  BY WaveSteps DEF ApplyIInv
<1>2. Phase.lifecycle => Projected(Phase)
  BY <1>1 DEF ApplyIInv, WaveShape
<1>3. Declares(Phase) <=> Projected(Phase)
  BY DEF Declares, Denied
<1> QED BY <1>1, <1>2, <1>3 DEF Projected, EntryOf

LEMMA WaveIsTold ==
  ASSUME ApplyIInv, GateTrue, Told, stage = "running",
         NEW n \in DOMAIN wave \ {0}, StepMoves(n)
  PROVE  GateTrue' /\ Told'
<1>1. at \in DOMAIN profile /\ at \in Nat /\ n \in Nat \ {0}
  BY WaveSteps DEF ApplyIInv
<1>2. CASE Spawn(n)
  BY <1>2, MoveIsTold DEF Spawn
<1>3. CASE Deny(n)
  <2> DEFINE e == Entry(0, FALSE, "denied")
  <2>1. e \in Entries /\ e.phase = at /\ e.step = 0
    BY <1>1 DEF Entry, Entries, Words
  <2>2. ~Declares(Phase) /\ ~Declared(e)
    BY <1>3, <2>1 DEF Deny, Declares, Denied, Declared
  <2>3. report' = report \/ Tells(n, "failed", e)
    BY <1>3, <2>1, <2>2 DEF Deny, StatedOnce, Tells
  <2>4. /\ Moved(n, "failed") /\ wave[n] \notin {"ok", "failed"}
        /\ UNCHANGED <<profile, stage, at>>
    BY <1>3 DEF Deny
  <2> QED BY <2>1, <2>3, <2>4, MoveIsTold
<1>4. ASSUME NEW ok \in BOOLEAN, NEW said \in Words, NEW to,
             ~Denied(Phase, n), wave[n] \notin {"ok", "failed"},
             Moved(n, to), UNCHANGED <<profile, stage, at>>,
             Pushed(Entry(EntryOf(n), ok, said)),
             to \in {"ok", "failed"}, ok = TRUE \/ to = "failed"
      PROVE  GateTrue' /\ Told'
  <2> DEFINE e == Entry(EntryOf(n), ok, said)
  <2>1. e \in Entries /\ e.phase = at /\ e.step = EntryOf(n) /\ e.ok = ok
    BY <1>4, EntryIsDeclared DEF Entry, Entries
  <2>2. Tells(n, to, e)
    BY <1>4, <2>1, EntryIsDeclared DEF Tells, Declared
  <2> QED BY <1>4, <2>1, <2>2, MoveIsTold
<1>5. CASE Foretell(n)
  <2>1. Foretelling(n) \in Words
    BY ForetellsTruly DEF ApplyIInv
  <2> QED BY <1>4, <1>5, <2>1 DEF Foretell
<1>6. CASE Skip(n)
  BY <1>4, <1>6 DEF Skip, Words
<1>7. CASE Due(n)
  BY <1>7, MoveIsTold DEF Due
<1>8. CASE Doubt(n)
  BY <1>8, MoveIsTold DEF Doubt
<1>9. CASE Begin(n)
  BY <1>9, MoveIsTold DEF Begin, GateTrue
<1>10. CASE Succeed(n)
  BY <1>4, <1>10 DEF Succeed, GateTrue, Words
<1>11. CASE Fail(n)
  BY <1>4, <1>11 DEF Fail, GateTrue, Words
<1> QED BY <1>2, <1>3, <1>5, <1>6, <1>7, <1>8, <1>9, <1>10, <1>11
        DEF StepMoves, Answer

LEMMA UnprojectedIsTold ==
  ASSUME ApplyIInv, GateTrue, Told, stage = "running", RunUnprojected
  PROVE  GateTrue' /\ Told'
<1> DEFINE e == Entry(0, FALSE, "denied")
<1>1. /\ 0 \in DOMAIN wave /\ wave[0] = "pending"
      /\ UNCHANGED <<profile, stage, at>>
      /\ at \in DOMAIN profile /\ at \in Nat
  BY DEF RunUnprojected, ApplyIInv, WaveShape, Typed
<1>2. e \in Entries /\ e.phase = at /\ e.step = 0
  BY <1>1 DEF Entry, Entries, Words
<1>3. ~Projected(Phase)
  <2>1. Phase.steps \in Seq(Steps)
    BY <1>1, ProfileTyped DEF ApplyIInv, Phase
  <2>2. 0 \notin DOMAIN Phase.steps
    BY <2>1
  <2> QED BY <1>1, <2>2 DEF ApplyIInv, WaveShape
<1>4. CASE Phase.env /\ Phase.expands
  BY <1>1, <1>4, MoveIsTold DEF RunUnprojected
<1>5. CASE ~(Phase.env /\ Phase.expands)
  <2>1. Moved(0, "failed") /\ StatedOnce
    BY <1>5 DEF RunUnprojected
  <2>2. report' = report \/ Tells(0, "failed", e)
    BY <1>2, <1>3, <2>1 DEF StatedOnce, Tells, Declares, Declared
  <2> QED BY <1>1, <1>2, <2>1, <2>2, MoveIsTold
<1> QED BY <1>4, <1>5

\* Of a phase that has just been opened nothing is passed.
LEMMA NothingPassed ==
  ASSUME Typed, profile' = profile, at' \in Nat, wave' = OpeningOf(at'),
         NEW i \in DOMAIN profile, NEW n \in DOMAIN profile[i].steps
  PROVE  Passed(i, n)' => i < at'
<1> SUFFICES ASSUME i = at', n \in DOMAIN wave' => wave'[n] # "ok" PROVE
               n \notin DOMAIN wave' => \A m \in DOMAIN wave' : ~(n < m)
  <2>1. i = at' => wave' = [k \in Opening(profile[i]) |-> "pending"]
    BY DEF OpeningOf, Asked
  <2> QED BY <2>1 DEF Passed
<1>1. DOMAIN wave' = Opening(profile[i]) /\ n \in Nat \ {0}
  BY ProfileTyped DEF OpeningOf, Asked
<1>2. Opening(profile[i]) \in {{0}, {1}, DOMAIN profile[i].steps}
  BY DEF Opening
<1> QED BY <1>1, <1>2

\* When the engine leaves a phase, all of it is passed.
LEMMA PhaseIsPassed ==
  ASSUME ApplyIInv, GateTrue, stage = "running", at \in DOMAIN profile,
         Answered, ~Stopped, Following = {},
         NEW n \in DOMAIN Phase.steps
  PROVE  Passed(at, n)
<1>1. /\ WaveShape /\ n \in Nat \ {0} /\ Phase.steps \in Seq(Steps)
      /\ ~Phase.lifecycle => Len(Phase.steps) = 1
      /\ \A m \in DOMAIN wave : wave[m] = "ok"
  BY ProfileTyped DEF ApplyIInv, Phase, Answered, Stopped
<1>2. CASE Phase.lifecycle /\ ~Projected(Phase)
  <2>1. wave[0] = "ok" /\ 0 \in DOMAIN wave
    BY <1>1, <1>2 DEF WaveShape
  <2>2. Phase.steps = << >>
    BY <1>2, <2>1 DEF GateTrue, Projected
  <2>3. DOMAIN Phase.steps = {}
    BY <2>2
  <2> QED BY <2>3
<1>3. CASE Parallel(Phase)
  BY <1>1, <1>3 DEF WaveShape, Passed
<1>4. CASE ~Parallel(Phase) /\ (Projected(Phase) \/ ~Phase.lifecycle)
  <2>1. PICK k \in DOMAIN Phase.steps : DOMAIN wave = {k}
    BY <1>1, <1>4 DEF WaveShape
  <2>2. k = Len(Phase.steps)
    <3>1. CASE Projected(Phase)
      <4>1. k \in 1 .. Len(Phase.steps) /\ Len(Phase.steps) \in Nat
        BY <1>1, <2>1
      <4>2. k + 1 \notin DOMAIN Phase.steps
        <5>1. Following = {m \in DOMAIN Phase.steps : m - 1 \in DOMAIN wave}
          BY <1>4, <3>1 DEF Following
        <5>2. (k + 1) - 1 \in DOMAIN wave
          BY <2>1, <4>1
        <5> QED BY <5>1, <5>2
      <4> QED BY <1>1, <4>1, <4>2
    <3>2. CASE ~Phase.lifecycle
      <4>1. DOMAIN Phase.steps = 1 .. 1
        BY <1>1, <3>2
      <4> QED BY <1>1, <2>1, <3>2, <4>1
    <3> QED BY <1>4, <3>1, <3>2
  <2>3. n = k \/ n < k
    BY <1>1, <2>1, <2>2
  <2> QED BY <1>1, <2>1, <2>3 DEF Passed
<1> QED BY <1>2, <1>3, <1>4

\* What is passed after the engine has turned to another wave was before.
LEMMA PassedBefore ==
  ASSUME ApplyIInv, GateTrue, stage = "running", Advance,
         NEW i \in DOMAIN profile, NEW n \in DOMAIN profile[i].steps
  PROVE  Passed(i, n)' => Passed(i, n)
<1>1. /\ profile' = profile /\ at \in DOMAIN profile /\ at \in Nat
      /\ Answered /\ ~Stopped /\ Typed /\ WaveShape
      /\ i \in Nat /\ n \in Nat
      /\ \A m \in DOMAIN wave : wave[m] = "ok"
  BY ProfileTyped DEF Advance, ApplyIInv, Typed, Answered, Stopped
<1>2. CASE Following # {}
  <2>1. Projected(Phase) /\ ~Parallel(Phase)
    BY <1>2 DEF Following
  <2>2. PICK k \in DOMAIN Phase.steps : DOMAIN wave = {k}
    BY <1>1, <2>1 DEF WaveShape
  <2>3. k \in Nat \ {0} /\ Following = {k + 1}
    <3>1. Phase.steps \in Seq(Steps)
      BY <1>1, ProfileTyped DEF Phase
    <3> QED BY <1>2, <2>1, <2>2, <3>1 DEF Following
  <2>4. at' = at /\ wave' = [m \in {k + 1} |-> "pending"]
    BY <1>2, <2>3 DEF Advance, Asked
  <2> QED BY <1>1, <2>2, <2>3, <2>4 DEF Passed
<1>3. CASE Following = {}
  <2>1. at' = at + 1 /\ wave' = OpeningOf(at')
    BY <1>3 DEF Advance
  <2>2. Passed(i, n)' => i < at + 1
    BY <1>1, <2>1, NothingPassed
  <2>3. i < at => Passed(i, n)
    BY DEF Passed
  <2>4. i = at => Passed(i, n)
    BY <1>1, <1>3, PhaseIsPassed DEF Phase
  <2> QED BY <1>1, <2>2, <2>3, <2>4
<1> QED BY <1>2, <1>3

LEMMA TurnIsTold ==
  ASSUME ApplyIInv, GateTrue, Told, stage = "running", Advance
  PROVE  GateTrue' /\ Told'
<1>1. /\ profile' = profile /\ report' = report /\ stage' = stage
      /\ at \in DOMAIN profile /\ at \in Nat /\ ~Stopped
      /\ at' = at \/ at' = at + 1
  BY DEF Advance, ApplyIInv, Typed
<1>2. \A n \in DOMAIN wave' : wave'[n] = "pending"
  BY DEF Advance, OpeningOf, Asked
<1>3. GateTrue'
  BY <1>2 DEF GateTrue
<1>4. InPhases'
  <2> SUFFICES ASSUME NEW k \in DOMAIN report
               PROVE  /\ report[k].phase \in DOMAIN profile
                      /\ report[k].phase <= at'
                      /\ Declared(report[k]) <=> Declares(profile[report[k].phase])
                      /\ \A j \in DOMAIN report :
                           /\ k < j => report[k].phase <= report[j].phase
                           /\ /\ report[j].phase = report[k].phase
                              /\ report[j].step = report[k].step
                              /\ report[k].step # 0
                              => j = k
    BY <1>1 DEF InPhases, Declared, Declares, Projected, Denied
  <2>1. InPhases
    BY DEF Told
  <2>2. report[k].phase \in Nat /\ report[k].phase <= at
    BY <2>1, ProfileTyped DEF InPhases, ApplyIInv
  <2> QED BY <1>1, <2>1, <2>2 DEF InPhases
<1>5. FailuresStop'
  BY <1>1 DEF Told, FailuresStop, Failing
<1>6. PassedIsRecorded'
  <2> SUFFICES ASSUME NEW i \in DOMAIN profile, NEW n \in DOMAIN profile[i].steps,
                      Passed(i, n)'
               PROVE  Recorded(report, i, n)
    BY <1>1 DEF PassedIsRecorded, Recorded
  <2> QED BY PassedBefore DEF Told, PassedIsRecorded
<1> QED BY <1>3, <1>4, <1>5, <1>6 DEF Told

LEMMA StartIsTold ==
  ASSUME ApplyIInv, Start
  PROVE  GateTrue' /\ Told'
<1>1. /\ profile' = profile /\ at' = 1 /\ wave' = OpeningOf(at')
      /\ DOMAIN report' = {}
  BY DEF Start
<1>2. \A n \in DOMAIN wave' : wave'[n] = "pending"
  BY <1>1 DEF OpeningOf, Asked
<1>3. GateTrue'
  BY <1>2 DEF GateTrue
<1>4. InPhases' /\ FailuresStop'
  BY <1>1 DEF InPhases, FailuresStop, Failing
<1>5. PassedIsRecorded'
  <2> SUFFICES ASSUME NEW i \in DOMAIN profile, NEW n \in DOMAIN profile[i].steps,
                      Passed(i, n)'
               PROVE  FALSE
    BY <1>1 DEF PassedIsRecorded
  <2>1. i < 1
    BY <1>1, NothingPassed DEF ApplyIInv
  <2> QED BY <2>1, ProfileTyped DEF ApplyIInv
<1> QED BY <1>3, <1>4, <1>5 DEF Told

LEMMA EndIsTold ==
  ASSUME ApplyIInv, ReportIInv, stage = "running", Conclude \/ Panic \/ Crash
  PROVE  ReportIInv'
<1>1. DOMAIN wave' = {} /\ stage' # "running"
  <2>1. wave' = << >> /\ stage' # "running"
    BY DEF Conclude, Panic, Crash
  <2> QED BY <2>1
<1>2. GateTrue' /\ Told'
  BY <1>1 DEF GateTrue, Told
<1>3. CASE Conclude
  <2> DEFINE failed == at \in DOMAIN profile
  <2>1. failed \in BOOLEAN /\ (at \in DOMAIN profile => failed = TRUE)
    OBVIOUS
  <2>2. /\ profile' = profile /\ report' = InDeclarationOrder(report)
        /\ verdict' = Envelope(InDeclarationOrder(report), failed)
    BY <1>3 DEF Conclude
  <2> HIDE DEF failed
  <2>3. VerdictTrue'
    BY <2>1, <2>2, VerdictOfTheEnd DEF ReportIInv
  <2> QED BY <1>2, <2>3 DEF ReportIInv
<1>4. CASE Panic
  <2>1. VerdictTrue'
    BY <1>4, VerdictOfTheEnd DEF ReportIInv, Panic
  <2> QED BY <1>2, <2>1 DEF ReportIInv
<1>5. CASE Crash
  BY <1>2, <1>5 DEF Crash, VerdictTrue, ReportIInv
<1> QED BY <1>3, <1>4, <1>5

LEMMA ReportStep ==
  ASSUME ApplyIInv, ReportIInv, [Next]_vars
  PROVE  ReportIInv'
<1>1. stage' = "running" /\ GateTrue' /\ Told' => ReportIInv'
  BY DEF ReportIInv, VerdictTrue
<1>2. CASE Start
  BY <1>1, <1>2, StartIsTold DEF Start
<1>3. CASE Progress
  <2>1. CASE \E n \in DOMAIN wave \ {0} : StepMoves(n)
    <3>1. stage' = "running"
      BY <1>3, <2>1 DEF Progress, StepMoves, Spawn, Deny, Foretell, Skip, Due,
                        Doubt, Begin, Answer, Succeed, Fail
    <3> QED BY <1>1, <1>3, <2>1, <3>1, WaveIsTold DEF Progress, ReportIInv
  <2>2. CASE RunUnprojected
    BY <1>1, <1>3, <2>2, UnprojectedIsTold
       DEF Progress, ReportIInv, RunUnprojected
  <2>3. CASE Advance
    BY <1>1, <1>3, <2>3, TurnIsTold DEF Progress, ReportIInv, Advance
  <2>4. CASE Conclude
    BY <1>3, <2>4, EndIsTold DEF Progress
  <2> QED BY <1>3, <2>1, <2>2, <2>3, <2>4 DEF Progress
<1>4. CASE Break
  BY <1>4, EndIsTold DEF Break
<1>5. CASE UNCHANGED vars
  BY <1>5 DEF vars, ReportIInv, GateTrue, Told, InPhases, FailuresStop, Stopped,
              PassedIsRecorded, Recorded, Passed, VerdictTrue, Failing, Phase,
              Declared, Declares, Projected, Denied
<1> QED BY <1>2, <1>3, <1>4, <1>5 DEF Next

\* ok means that every step of every phase answered and none failed, and an
\* error line names the failing entry nearest the top of the profile, whatever
\* the order in which the wave's steps answered (run_apply_ast_routed,
\* in_declaration_order).
THEOREM TheVerdictIsTrue == Spec => []VerdictTrue
<1>1. Init => ReportIInv
  <2> SUFFICES ASSUME Init PROVE ReportIInv
    OBVIOUS
  <2>1. DOMAIN wave = {} /\ stage = "idle"
    BY DEF Init
  <2> QED BY <2>1 DEF ReportIInv, GateTrue, Told, VerdictTrue
<1>2. ApplyIInv /\ ReportIInv /\ [Next]_vars => ReportIInv'
  BY ReportStep
<1>3. ReportIInv => VerdictTrue
  BY DEF ReportIInv
<1> QED BY <1>1, <1>2, <1>3, ApplyInductive, PTL DEF Spec

-----------------------------------------------------------------------------
(* What a successful run leaves                                             *)

\* Existence answers for a transfer alone, whose guard leaves nothing behind
\* when it fails.
ExistenceIsOfTransfers ==
  \A p \in Profiles : \A i \in DOMAIN p : \A n \in DOMAIN p[i].steps :
    p[i].steps[n].done = "exists" => p[i].steps[n].shape = "transfer"

LEMMA GreatestOf ==
  ASSUME NEW len \in Nat, NEW S, S \subseteq 1 .. len, S # {}
  PROVE  \E x \in S : \A y \in S : y <= x
<1> DEFINE R == {w \in S \X S : w[1] < w[2]}
<1>1. S \subseteq Nat
  OBVIOUS
<1>2. IsFiniteSet(S)
  <2>1. IsFiniteSet(1 .. len)
    BY FS_Interval
  <2> QED BY <2>1, FS_Subset
<1>3. Orders(R, S)
  BY <1>1 DEF Orders
<1> HIDE DEF R
<1>4. PICK x \in S : IsTop(x, R, S)
  BY <1>2, <1>3, TopExists
<1>5. ASSUME NEW y \in S, y # x
      PROVE  y <= x
  <2>1. <<y, x>> \in R
    BY <1>4, <1>5 DEF IsTop
  <2>2. y < x
    BY <2>1 DEF R
  <2> QED BY <1>1, <2>2
<1>6. x <= x
  BY <1>1
<1> QED BY <1>5, <1>6

\* One writer of a file is the last.
LEMMA LastWriterIsLast ==
  ASSUME Typed, NEW f, Writers(f) # {}
  PROVE  /\ LastWriter(f) \in Writers(f)
         /\ \A v \in Writers(f) :
              \/ v[1] < LastWriter(f)[1]
              \/ v[1] = LastWriter(f)[1] /\ v[2] <= LastWriter(f)[2]
<1>1. ASSUME NEW v \in Writers(f)
      PROVE  /\ v[1] \in DOMAIN profile /\ v[2] \in DOMAIN profile[v[1]].steps
             /\ v = <<v[1], v[2]>>
  BY DEF Writers, Ids
<1>2. profile \in Seq(Phases) /\ Len(profile) \in Nat
      /\ DOMAIN profile = 1 .. Len(profile)
  BY ProfileTyped
<1> DEFINE P == {i \in DOMAIN profile : \E n : <<i, n>> \in Writers(f)}
<1>3. P \subseteq 1 .. Len(profile) /\ P # {}
  <2>1. PICK v : v \in Writers(f)
    OBVIOUS
  <2>2. v[1] \in P
    BY <1>1, <2>1
  <2> QED BY <1>2, <2>2
<1>4. PICK i \in P : \A j \in P : j <= i
  <2> HIDE DEF P
  <2> QED BY <1>2, <1>3, GreatestOf
<1> DEFINE S == {n \in DOMAIN profile[i].steps : <<i, n>> \in Writers(f)}
<1>5. profile[i].steps \in Seq(Steps) /\ Len(profile[i].steps) \in Nat
  BY ProfileTyped
<1>6. S \subseteq 1 .. Len(profile[i].steps) /\ S # {}
  <2>1. PICK n : <<i, n>> \in Writers(f)
    OBVIOUS
  <2>2. n \in DOMAIN profile[i].steps
    BY <2>1 DEF Writers
  <2>3. n \in S /\ S \subseteq DOMAIN profile[i].steps
    BY <2>1, <2>2
  <2> HIDE DEF S
  <2> QED BY <1>5, <2>3
<1>7. PICK n \in S : \A m \in S : m <= n
  <2> HIDE DEF S
  <2> QED BY <1>5, <1>6, GreatestOf
<1> DEFINE Last(w) == \A v \in Writers(f) :
                        v[1] < w[1] \/ (v[1] = w[1] /\ v[2] <= w[2])
<1>8. <<i, n>> \in Writers(f) /\ Last(<<i, n>>)
  <2>1. ASSUME NEW v \in Writers(f)
        PROVE  v[1] < i \/ (v[1] = i /\ v[2] <= n)
    <3>1. v[1] \in P
      BY <1>1, <2>1
    <3>4. v[1] \in Nat /\ i \in Nat
      BY <1>2, <3>1
    <3>2. v[1] <= i
      BY <1>4, <3>1
    <3>3. CASE v[1] = i
      <4>1. v[2] \in S
        BY <1>1, <2>1, <3>3
      <4> QED BY <1>7, <3>3, <4>1
    <3> QED BY <3>2, <3>3, <3>4
  <2> QED BY <1>6, <2>1
<1>9. LastWriter(f) = CHOOSE w \in Writers(f) : Last(w)
  BY DEF LastWriter
<1> HIDE DEF Last
<1>10. LastWriter(f) \in Writers(f) /\ Last(LastWriter(f))
  BY <1>8, <1>9
<1> QED BY <1>10 DEF Last

LEMMA SameWriters ==
  ASSUME profile' = profile, NEW f
  PROVE  /\ Writers(f)' = Writers(f) /\ LastWriter(f)' = LastWriter(f)
         /\ Aliased' <=> Aliased
BY DEF Writers, Ids, LastWriter, Aliased

\* Two steps of a wave do not write one file.
LEMMA Solo ==
  ASSUME ApplyIInv, ~Aliased,
         NEW n \in DOMAIN wave \ {0}, NEW m \in DOMAIN wave \ {0},
         FileOf(n) = FileOf(m), FileOf(n) # NoFile
  PROVE  m = n
<1> SUFFICES ASSUME m # n PROVE FALSE
  OBVIOUS
<1>1. /\ WaveShape /\ stage = "running" /\ at \in DOMAIN profile
      /\ n \in DOMAIN Phase.steps /\ m \in DOMAIN Phase.steps
  BY WaveSteps DEF ApplyIInv
<1>2. Parallel(Phase)
  <2>1. /\ Phase.lifecycle /\ ~Projected(Phase) => DOMAIN wave = {0}
        /\ ~Parallel(Phase) /\ (Projected(Phase) \/ ~Phase.lifecycle) =>
             \E k : DOMAIN wave = {k}
    BY <1>1 DEF WaveShape
  <2>2. ASSUME NEW k, DOMAIN wave = {k}
        PROVE  FALSE
    <3>1. n \in {k} /\ m \in {k}
      BY <2>2
    <3> QED BY <3>1
  <2> QED BY <2>1, <2>2
<1>3. Step(n).path # Step(m).path
  BY <1>1, <1>2 DEF Parallel, Independent, Step
<1> QED BY <1>1, <1>3 DEF Aliased, Step, Phase, FileOf

LEMMA IsWriter ==
  ASSUME Typed, WaveShape, NEW n \in DOMAIN wave \ {0}
  PROVE  <<at, n>> \in Writers(FileOf(n))
BY WaveSteps DEF Writers, Ids, FileOf, Step, Phase

\* The last writer of a file that a step of the wave is yet to write is not
\* passed, and all other writers of the file it writes last are.
LEMMA LastIsAhead ==
  ASSUME ApplyIInv, ~Aliased, NEW n \in DOMAIN wave \ {0},
         FileOf(n) # NoFile, wave[n] # "ok"
  PROVE  ~Passed(LastWriter(FileOf(n))[1], LastWriter(FileOf(n))[2])
<1> DEFINE f == FileOf(n)
           w == LastWriter(f)
<1>1. /\ Typed /\ WaveShape /\ at \in DOMAIN profile /\ stage = "running"
      /\ n \in DOMAIN Phase.steps /\ n \in Nat /\ at \in Nat
  BY WaveSteps DEF ApplyIInv
<1>2. <<at, n>> \in Writers(f)
  BY <1>1, IsWriter
<1>3. /\ w \in Writers(f)
      /\ at < w[1] \/ (at = w[1] /\ n <= w[2])
  BY <1>1, <1>2, LastWriterIsLast
<1>4. /\ w[1] \in DOMAIN profile /\ w[2] \in DOMAIN profile[w[1]].steps
      /\ profile[w[1]].steps[w[2]].file = f
      /\ w[1] \in Nat /\ w[2] \in Nat \ {0}
  <2>1. ASSUME NEW v \in Writers(f)
        PROVE  /\ v[1] \in DOMAIN profile /\ v[2] \in DOMAIN profile[v[1]].steps
               /\ profile[v[1]].steps[v[2]].file = f
    BY DEF Writers, Ids
  <2> HIDE DEF w
  <2> QED BY <1>1, <1>3, <2>1, ProfileTyped
<1> SUFFICES ASSUME Passed(w[1], w[2]) PROVE FALSE
  OBVIOUS
<1>5. w[1] = at /\ n <= w[2]
  BY <1>1, <1>3, <1>4 DEF Passed
<1>6. FileOf(w[2]) = f /\ w[2] \in DOMAIN Phase.steps
  BY <1>4, <1>5 DEF FileOf, Step, Phase
<1>7. CASE w[2] \in DOMAIN wave
  <2>1. w[2] = n
    BY <1>4, <1>6, <1>7, Solo
  <2> QED BY <1>1, <1>5, <1>7, <2>1 DEF Passed
<1>8. CASE w[2] \notin DOMAIN wave
  <2>1. DOMAIN wave = {n}
    BY <1>1, <1>6, <1>8 DEF WaveShape
  <2> QED BY <1>1, <1>4, <1>5, <1>8, <2>1 DEF Passed
<1> QED BY <1>7, <1>8

LEMMA OthersAreBehind ==
  ASSUME ApplyIInv, ~Aliased, NEW n \in DOMAIN wave \ {0},
         FileOf(n) # NoFile, LastWriter(FileOf(n)) = <<at, n>>,
         NEW v \in Writers(FileOf(n)), v # <<at, n>>
  PROVE  Passed(v[1], v[2])
<1>1. /\ Typed /\ WaveShape /\ at \in DOMAIN profile /\ stage = "running"
      /\ n \in DOMAIN Phase.steps /\ n \in Nat /\ at \in Nat
  BY WaveSteps DEF ApplyIInv
<1>2. v[1] < at \/ (v[1] = at /\ v[2] <= n)
  BY <1>1, LastWriterIsLast
<1>3. /\ v[1] \in DOMAIN profile /\ v[2] \in DOMAIN profile[v[1]].steps
      /\ profile[v[1]].steps[v[2]].file = FileOf(n) /\ v = <<v[1], v[2]>>
      /\ v[1] \in Nat /\ v[2] \in Nat \ {0}
  BY <1>1, ProfileTyped DEF Writers, Ids
<1>4. CASE v[1] = at
  <2>1. v[2] < n /\ FileOf(v[2]) = FileOf(n) /\ v[2] \in DOMAIN Phase.steps
    BY <1>1, <1>2, <1>3, <1>4 DEF FileOf, Step, Phase
  <2>2. v[2] \notin DOMAIN wave
    BY <1>1, <1>3, <2>1, Solo
  <2> QED BY <1>4, <2>1, <2>2 DEF Passed
<1> QED BY <1>1, <1>2, <1>3, <1>4 DEF Passed

LEMMA QuietIsSettled ==
  ASSUME ExistenceIsOfTransfers, ApplyIInv, DiskIInv, stage = "running",
         NEW n \in DOMAIN wave, NEW to, Moved(n, to), to # "doing",
         to = "ok" /\ n # 0 /\ ~dry => Satisfied(n), wave[n] # "ok",
         UNCHANGED <<profile, disk, dry, stage, at>>
  PROVE  DiskIInv'
<1>1. /\ profile' = profile /\ disk' = disk /\ dry' = dry /\ stage' = stage
      /\ at' = at /\ DOMAIN wave' = DOMAIN wave /\ wave'[n] = to
      /\ \A m \in DOMAIN wave : m # n => wave'[m] = wave[m]
  BY DEF Moved
<1> SUFFICES ASSUME ~Aliased PROVE WorksAlone' /\ Blamed' /\ Settled'
  BY <1>1, SameWriters DEF DiskIInv
<1>2. /\ WorksAlone /\ Blamed /\ Settled /\ Typed /\ WaveShape
  BY DEF DiskIInv, ApplyIInv
<1>3. WorksAlone'
  BY <1>1, <1>2 DEF WorksAlone, FileOf, Step, Phase
\* What is newly passed was found satisfied.
<1>4. ASSUME NEW f \in Files, NEW w \in Writers(f), ~dry,
             w[1] = at, w[2] = n, to = "ok"
      PROVE  /\ w = <<at, n>> /\ n \in DOMAIN wave \ {0} /\ FileOf(n) = f
             /\ Satisfied(n)
  <2>1. /\ w[1] \in DOMAIN profile /\ w[2] \in DOMAIN profile[w[1]].steps
        /\ profile[w[1]].steps[w[2]].file = f /\ w = <<w[1], w[2]>>
    BY DEF Writers, Ids
  <2>2. w[2] # 0
    BY <1>2, <2>1, ProfileTyped
  <2> QED BY <1>4, <2>1, <2>2 DEF FileOf, Step, Phase
\* A file left so by a command answers no condition.
<1>5. ASSUME NEW f \in Files, NEW w \in Writers(f), w = <<at, n>>,
             n # 0, FileOf(n) = f, Satisfied(n)
      PROVE  /\ disk[f].by = {} => profile[w[1]].steps[w[2]].shape = "transfer"
             /\ disk[f].there
             /\ profile[w[1]].steps[w[2]].done # "exists" => Whole(f, at, n)
  <2>1. profile[w[1]].steps[w[2]] = Step(n)
    BY <1>5 DEF Step, Phase
  <2>2. Step(n).done = "exists" => Step(n).shape = "transfer"
    <3>1. at \in DOMAIN profile /\ n \in DOMAIN profile[at].steps
          /\ profile \in Profiles
      BY <1>2, <1>5, WaveSteps DEF Phase, Typed
    <3> QED BY <3>1 DEF ExistenceIsOfTransfers, Step, Phase
  <2> QED BY <1>5, <2>1, <2>2 DEF Satisfied, Whole, FileOf
<1>6. Blamed'
  <2> SUFFICES ASSUME NEW f \in Files, disk[f].there, disk[f].by = {}
               PROVE  \E w \in Writers(f) :
                        /\ profile[w[1]].steps[w[2]].shape # "transfer"
                        /\ ~dry => ~Passed(w[1], w[2])'
    BY <1>1, SameWriters DEF Blamed
  <2>1. PICK w \in Writers(f) :
          /\ profile[w[1]].steps[w[2]].shape # "transfer"
          /\ ~dry => ~Passed(w[1], w[2])
    BY <1>2 DEF Blamed
  <2>2. ~dry => ~Passed(w[1], w[2])'
    <3>1. ~dry /\ Passed(w[1], w[2])' => w[1] = at /\ w[2] = n /\ to = "ok"
      BY <1>1, <2>1 DEF Passed
    <3> QED BY <1>4, <1>5, <2>1, <3>1
  <2> QED BY <2>1, <2>2
<1>7. Settled'
  <2> SUFFICES ASSUME ~dry, NEW f \in Files, Writers(f) # {},
                      Passed(LastWriter(f)[1], LastWriter(f)[2])'
               PROVE  LeftBy(LastWriter(f), f)
    <3>1. ASSUME NEW f \in Files
          PROVE  LeftBy(LastWriter(f), f)' <=> LeftBy(LastWriter(f), f)
      BY <1>1, SameWriters DEF LeftBy, Whole
    <3>2. ASSUME NEW f \in Files
          PROVE  Passed(LastWriter(f)[1], LastWriter(f)[2])'
                   <=> (\/ LastWriter(f)[1] < at
                        \/ LastWriter(f)[1] = at
                           /\ LastWriter(f)[2] \in DOMAIN wave'
                           /\ wave'[LastWriter(f)[2]] = "ok"
                        \/ LastWriter(f)[1] = at
                           /\ LastWriter(f)[2] \notin DOMAIN wave'
                           /\ \E m \in DOMAIN wave' : LastWriter(f)[2] < m)
      BY <1>1, SameWriters DEF Passed
    <3> QED BY <1>1, <3>1, SameWriters DEF Settled
  <2> DEFINE w == LastWriter(f)
  <2>1. w \in Writers(f)
    BY <1>2, LastWriterIsLast
  <2>2. CASE Passed(w[1], w[2])
    BY <1>1, <1>2, <2>2 DEF Settled
  <2>3. CASE ~Passed(w[1], w[2])
    <3>1. Passed(w[1], w[2])' <=>
            (\/ w[1] < at
             \/ w[1] = at /\ w[2] \in DOMAIN wave' /\ wave'[w[2]] = "ok"
             \/ /\ w[1] = at /\ w[2] \notin DOMAIN wave'
                /\ \E m \in DOMAIN wave' : w[2] < m)
      BY <1>1, SameWriters DEF Passed
    <3> HIDE DEF w
    <3>2. w[1] = at /\ w[2] = n /\ to = "ok"
      BY <1>1, <2>3, <3>1 DEF Passed, w
    <3>3. /\ w = <<at, n>> /\ n \in DOMAIN wave \ {0} /\ FileOf(n) = f
          /\ Satisfied(n)
      BY <1>4, <2>1, <3>2
    <3>4. /\ disk[f].by = {} => profile[w[1]].steps[w[2]].shape = "transfer"
          /\ disk[f].there
          /\ profile[w[1]].steps[w[2]].done # "exists" => Whole(f, at, n)
      BY <1>5, <2>1, <3>3
    <3>5. disk[f].by # {}
      <4> SUFFICES ASSUME disk[f].by = {} PROVE FALSE
        OBVIOUS
      <4>1. PICK v \in Writers(f) :
              /\ profile[v[1]].steps[v[2]].shape # "transfer"
              /\ ~Passed(v[1], v[2])
        BY <1>2, <3>4 DEF Blamed
      <4>2. v # w
        BY <3>4, <4>1
      <4>3. f # NoFile
        BY ApplyAssumption
      <4> QED BY <3>3, <4>1, <4>2, <4>3, OthersAreBehind DEF w
    <3>6. LeftBy(w, f)
      BY <3>3, <3>4, <3>5 DEF LeftBy
    <3> QED BY <3>6 DEF w
  <2> QED BY <2>2, <2>3
<1> QED BY <1>3, <1>6, <1>7

\* What a step at work leaves its file in.
Writes(n, to) ==
  LET f == FileOf(n) IN
  f \in Files =>
    /\ to = "doing" =>
         disk'[f] = [there |-> TRUE, open |-> {<<at, n>>}, by |-> {<<at, n>>}]
    /\ to = "ok" =>
         disk'[f].there /\ disk'[f].open = {} /\ disk'[f].by = {<<at, n>>}
    /\ to = "failed" /\ disk'[f].there /\ disk'[f].by = {} =>
         Step(n).shape # "transfer"

LEMMA WorkIsSettled ==
  ASSUME ApplyIInv, DiskIInv, stage = "running",
         NEW n \in DOMAIN wave \ {0}, NEW to, Moved(n, to),
         to \in {"doing", "ok", "failed"}, wave[n] # "ok",
         UNCHANGED <<profile, dry, stage, at>>,
         \A g \in Files : g # FileOf(n) => disk'[g] = disk[g],
         ~Aliased => Writes(n, to)
  PROVE  DiskIInv'
<1>1. /\ profile' = profile /\ dry' = dry /\ stage' = stage
      /\ at' = at /\ DOMAIN wave' = DOMAIN wave /\ wave'[n] = to
      /\ \A m \in DOMAIN wave : m # n => wave'[m] = wave[m]
  BY DEF Moved
<1> SUFFICES ASSUME ~Aliased PROVE WorksAlone' /\ Blamed' /\ Settled'
  BY <1>1, SameWriters DEF DiskIInv
<1> DEFINE f == FileOf(n)
<1>2. /\ WorksAlone /\ Blamed /\ Settled /\ Typed /\ WaveShape
      /\ Writes(n, to) /\ NoFile \notin Files
  BY ApplyAssumption DEF DiskIInv, ApplyIInv
<1>3. WorksAlone'
  <2> SUFFICES ASSUME NEW m \in DOMAIN wave, wave'[m] = "doing", FileOf(m) # NoFile
               PROVE  disk'[FileOf(m)] =
                        [there |-> TRUE, open |-> {<<at, m>>}, by |-> {<<at, m>>}]
    BY <1>1 DEF WorksAlone, FileOf, Step, Phase
  <2>1. m # 0
    BY <1>1, <1>2 DEF WaveShape
  <2>2. FileOf(m) \in Files
    BY <1>2, <2>1, WaveSteps
  <2>3. CASE m = n
    BY <1>1, <1>2, <2>2, <2>3 DEF Writes
  <2>4. CASE m # n
    <3>1. FileOf(m) # FileOf(n)
      BY <2>1, <2>4, Solo
    <3> QED BY <1>1, <1>2, <2>2, <2>4, <3>1 DEF WorksAlone
  <2> QED BY <2>3, <2>4
<1>4. ASSUME NEW g \in Files, NEW w \in Writers(g),
             Passed(w[1], w[2])', ~Passed(w[1], w[2])
      PROVE  w = <<at, n>> /\ f = g /\ to = "ok"
  <2>1. /\ w[1] \in DOMAIN profile /\ w[2] \in DOMAIN profile[w[1]].steps
        /\ profile[w[1]].steps[w[2]].file = g /\ w = <<w[1], w[2]>>
    BY DEF Writers, Ids
  <2>2. w[1] = at /\ w[2] = n /\ to = "ok"
    BY <1>1, <1>4 DEF Passed
  <2> QED BY <2>1, <2>2 DEF FileOf, Step, Phase
<1>5. Blamed'
  <2> SUFFICES ASSUME NEW g \in Files, disk'[g].there, disk'[g].by = {}
               PROVE  \E w \in Writers(g) :
                        /\ profile[w[1]].steps[w[2]].shape # "transfer"
                        /\ ~dry => ~Passed(w[1], w[2])'
    BY <1>1, SameWriters DEF Blamed
  <2>1. CASE g # f
    <3>1. PICK w \in Writers(g) :
            /\ profile[w[1]].steps[w[2]].shape # "transfer"
            /\ ~dry => ~Passed(w[1], w[2])
      BY <1>2, <2>1 DEF Blamed
    <3>2. ~dry => ~Passed(w[1], w[2])'
      BY <1>4, <2>1, <3>1
    <3> QED BY <3>1, <3>2
  <2>2. CASE g = f
    <3>1. to = "failed" /\ Step(n).shape # "transfer"
      <4>1. to = "doing" => disk'[f].by = {<<at, n>>}
        BY <1>2, <2>2 DEF Writes
      <4>2. to = "ok" => disk'[f].by = {<<at, n>>}
        BY <1>2, <2>2 DEF Writes
      <4>3. {<<at, n>>} # {}
        OBVIOUS
      <4> QED BY <1>2, <2>2, <4>1, <4>2, <4>3 DEF Writes
    <3>2. <<at, n>> \in Writers(g)
      BY <1>2, <2>2, IsWriter
    <3>3. profile[at].steps[n].shape # "transfer"
      BY <3>1 DEF Step, Phase
    <3>4. ~Passed(at, n)'
      <4>1. at \in Nat
        BY <1>2 DEF Typed
      <4> QED BY <1>1, <3>1, <4>1 DEF Passed
    <3> QED BY <3>2, <3>3, <3>4
  <2> QED BY <2>1, <2>2
<1>6. Settled'
  <2> SUFFICES ASSUME ~dry, NEW g \in Files, Writers(g) # {},
                      Passed(LastWriter(g)[1], LastWriter(g)[2])'
               PROVE  LeftBy(LastWriter(g), g)'
    BY <1>1, SameWriters DEF Settled
  <2> DEFINE w == LastWriter(g)
  <2>1. w \in Writers(g) /\ w' = w
    BY <1>1, <1>2, LastWriterIsLast, SameWriters
  <2>2. Passed(w[1], w[2])' <=>
          (\/ w[1] < at
           \/ w[1] = at /\ w[2] \in DOMAIN wave' /\ wave'[w[2]] = "ok"
           \/ w[1] = at /\ w[2] \notin DOMAIN wave' /\ \E m \in DOMAIN wave' : w[2] < m)
    BY <1>1, <2>1 DEF Passed
  <2>3. CASE g # f
    <3>1. Passed(w[1], w[2])
      <4>1. w # <<at, n>>
        <5>1. <<at, n>> \notin Writers(g)
          BY <2>3 DEF Writers, FileOf, Step, Phase
        <5> QED BY <2>1, <5>1
      <4>2. w = <<w[1], w[2]>>
        BY <2>1 DEF Writers, Ids
      <4>3. ~(w[1] = at /\ w[2] = n)
        BY <4>1, <4>2
      <4> HIDE DEF w
      <4> QED BY <1>1, <2>2, <4>3 DEF Passed, w
    <3>2. LeftBy(w, g)
      BY <1>2, <3>1 DEF Settled
    <3> QED BY <1>1, <2>1, <2>3, <3>2 DEF LeftBy, Whole
  <2>4. CASE g = f
    <3>1. ~Passed(w[1], w[2])
      BY <1>2, <2>4, LastIsAhead
    <3>2. w[1] = at /\ w[2] = n /\ to = "ok"
      <4> HIDE DEF w
      <4> QED BY <1>1, <2>2, <3>1 DEF Passed, w
    <3>3. disk'[g].there /\ disk'[g].open = {} /\ disk'[g].by = {<<w[1], w[2]>>}
      BY <1>2, <2>4, <3>2 DEF Writes
    <3> QED BY <1>1, <2>1, <3>3 DEF LeftBy, Whole
  <2> QED BY <2>3, <2>4
<1> QED BY <1>3, <1>5, <1>6

LEMMA WaveIsSettled ==
  ASSUME ExistenceIsOfTransfers, ApplyIInv, DiskIInv, stage = "running",
         NEW n \in DOMAIN wave \ {0}, StepMoves(n)
  PROVE  DiskIInv'
<1> DEFINE f == FileOf(n)
<1>1. /\ Typed /\ WaveShape /\ OpenTrue /\ f \in Files \cup {NoFile}
      /\ NoFile \notin Files /\ disk \in [Files -> Contents]
      /\ n \in DOMAIN wave
  BY WaveSteps, ApplyAssumption DEF ApplyIInv, Typed
<1>2. CASE Spawn(n) \/ Deny(n) \/ Due(n) \/ Doubt(n)
  BY <1>1, <1>2, QuietIsSettled DEF Spawn, Deny, Due, Doubt
<1>3. CASE Foretell(n)
  BY <1>1, <1>3, QuietIsSettled DEF Foretell
<1>4. CASE Skip(n)
  BY <1>1, <1>4, QuietIsSettled DEF Skip
<1>5. ASSUME NEW state, Wrote(n, state)
      PROVE  /\ \A g \in Files : g # f => disk'[g] = disk[g]
             /\ f \in Files => disk'[f] = state
  BY <1>1, <1>5 DEF Wrote
<1>6. CASE Begin(n)
  <2> DEFINE holders == disk[f].open \cup {<<at, n>>}
             state == [there |-> TRUE, open |-> holders, by |-> holders]
  <2>1. Wrote(n, state) /\ wave[n] # "doing" /\ wave[n] # "ok"
    BY <1>6 DEF Begin
  <2>2. ASSUME ~Aliased, f \in Files
        PROVE  disk[f].open = {}
    <3> SUFFICES ASSUME NEW w \in disk[f].open PROVE FALSE
      OBVIOUS
    <3>1. w[2] \in DOMAIN wave \ {0} /\ wave[w[2]] = "doing" /\ FileOf(w[2]) = f
      BY <1>1, <2>2 DEF OpenTrue
    <3>2. w[2] = n
      BY <1>1, <2>2, <3>1, Solo
    <3> QED BY <2>1, <3>1, <3>2
  <2>3. ~Aliased => Writes(n, "doing")
    <3> SUFFICES ASSUME ~Aliased, f \in Files
                 PROVE  disk'[f] = [there |-> TRUE, open |-> {<<at, n>>},
                                    by |-> {<<at, n>>}]
      BY DEF Writes
    <3>1. holders = {<<at, n>>}
      BY <2>2
    <3> QED BY <1>5, <2>1, <3>1
  <2>4. \A g \in Files : g # f => disk'[g] = disk[g]
    <3> HIDE DEF state
    <3> QED BY <1>5, <2>1
  <2> QED BY <1>6, <2>1, <2>3, <2>4, WorkIsSettled DEF Begin
<1>7. ASSUME ~Aliased, f \in Files, wave[n] = "doing"
      PROVE  disk[f] = [there |-> TRUE, open |-> {<<at, n>>}, by |-> {<<at, n>>}]
  BY <1>1, <1>7 DEF DiskIInv, WorksAlone
<1>8. CASE Succeed(n)
  <2>1. Wrote(n, Closed(n)) /\ wave[n] = "doing"
    BY <1>8 DEF Succeed
  <2>2. ~Aliased => Writes(n, "ok")
    <3> SUFFICES ASSUME ~Aliased, f \in Files
                 PROVE  disk'[f].there /\ disk'[f].open = {}
                        /\ disk'[f].by = {<<at, n>>}
      BY DEF Writes
    <3>1. disk'[f] = Closed(n)
      BY <1>5, <2>1
    <3> QED BY <1>7, <2>1, <3>1 DEF Closed
  <2> QED BY <1>5, <1>8, <2>1, <2>2, WorkIsSettled DEF Succeed
<1>9. CASE Fail(n)
  <2>1. Wrote(n, Leftover(n)) /\ wave[n] = "doing"
    BY <1>9 DEF Fail
  <2>2. ~Aliased => Writes(n, "failed")
    <3> SUFFICES ASSUME f \in Files, disk'[f].there
                 PROVE  Step(n).shape # "transfer"
      BY DEF Writes
    <3>1. disk'[f] = Leftover(n)
      BY <1>5, <2>1
    <3> QED BY <3>1 DEF Leftover, Absent
  <2> QED BY <1>5, <1>9, <2>1, <2>2, WorkIsSettled DEF Fail
<1> QED BY <1>2, <1>3, <1>4, <1>6, <1>8, <1>9 DEF StepMoves, Answer

\* A turn of the engine leaves the disk alone and passes nothing more.
LEMMA TurnIsSettled ==
  ASSUME DiskIInv, Typed, UNCHANGED <<profile, disk>>, stage' = "running",
         \A n \in DOMAIN wave' : wave'[n] = "pending",
         \/ /\ stage = "running" /\ dry' = dry
            /\ \A i \in DOMAIN profile : \A n \in DOMAIN profile[i].steps :
                 Passed(i, n)' => Passed(i, n)
         \/ \A i \in DOMAIN profile : \A n \in DOMAIN profile[i].steps :
                 ~Passed(i, n)'
  PROVE  DiskIInv'
<1> SUFFICES ASSUME ~Aliased PROVE WorksAlone' /\ Blamed' /\ Settled'
  BY SameWriters DEF DiskIInv
<1>1. WorksAlone'
  BY DEF WorksAlone
<1>2. ASSUME NEW f \in Files, NEW w \in Writers(f)
      PROVE  /\ w[1] \in DOMAIN profile /\ w[2] \in DOMAIN profile[w[1]].steps
  BY DEF Writers, Ids
<1>3. Blamed'
  <2> SUFFICES ASSUME NEW f \in Files, disk[f].there, disk[f].by = {}
               PROVE  \E w \in Writers(f) :
                        /\ profile[w[1]].steps[w[2]].shape # "transfer"
                        /\ ~dry' => ~Passed(w[1], w[2])'
    BY SameWriters DEF Blamed
  <2>1. PICK w \in Writers(f) :
          /\ profile[w[1]].steps[w[2]].shape # "transfer"
          /\ stage = "running" /\ ~dry => ~Passed(w[1], w[2])
    BY DEF DiskIInv, Blamed
  <2>2. ~dry' => ~Passed(w[1], w[2])'
    BY <1>2, <2>1
  <2> QED BY <2>1, <2>2
<1>4. Settled'
  <2> SUFFICES ASSUME ~dry', NEW f \in Files, Writers(f) # {},
                      Passed(LastWriter(f)[1], LastWriter(f)[2])'
               PROVE  LeftBy(LastWriter(f), f)'
    BY SameWriters DEF Settled
  <2>1. LastWriter(f)' = LastWriter(f) /\ LastWriter(f) \in Writers(f)
    BY SameWriters, LastWriterIsLast
  <2>2. PICK w \in Writers(f) : w = LastWriter(f)
    BY <2>1
  <2>3. Passed(w[1], w[2])'
    <3>1. w = LastWriter(f)'
      BY <2>1, <2>2
    <3> QED BY <3>1
  <2>4. stage = "running" /\ ~dry /\ Passed(w[1], w[2])
    BY <1>2, <2>3
  <2>5. LeftBy(w, f)
    BY <2>2, <2>4 DEF DiskIInv, Settled
  <2>6. LeftBy(w, f)'
    BY <2>5 DEF LeftBy, Whole
  <2> QED BY <2>1, <2>2, <2>6
<1> QED BY <1>1, <1>3, <1>4

\* A run that stops in the middle tears only what a command was writing.
LEMMA EndIsSettled ==
  ASSUME ApplyIInv, DiskIInv, stage = "running", Conclude \/ Panic \/ Crash
  PROVE  DiskIInv'
<1>1. profile' = profile /\ stage' # "running" /\ wave' = << >>
  BY DEF Conclude, Panic, Crash
<1> SUFFICES ASSUME ~Aliased PROVE WorksAlone' /\ Blamed' /\ Settled'
  BY <1>1, SameWriters DEF DiskIInv
<1>2. WorksAlone' /\ Settled'
  BY <1>1 DEF WorksAlone, Settled
<1>3. Blamed'
  <2> SUFFICES ASSUME NEW f \in Files, disk'[f].there, disk'[f].by = {}
               PROVE  \E w \in Writers(f) :
                        profile[w[1]].steps[w[2]].shape # "transfer"
    BY <1>1, SameWriters DEF Blamed
  <2>1. CASE disk'[f] = disk[f]
    BY <2>1 DEF DiskIInv, Blamed
  <2>2. CASE disk'[f] # disk[f]
    <3>1. CASE Conclude
      BY <2>2, <3>1 DEF Conclude
    <3>2. CASE Crash
      BY <2>2, <3>2 DEF Crash, Foreign
    <3>3. CASE Panic
      <4>1. ~Guarded(f) /\ disk[f].open # {}
        BY <2>2, <3>3 DEF Panic, Absent
      <4>2. PICK w : w \in disk[f].open
        BY <4>1
      <4>3. /\ w \in Pairs /\ w[1] = at /\ w[2] \in DOMAIN wave \ {0}
            /\ wave[w[2]] = "doing" /\ FileOf(w[2]) = f
        BY <4>2 DEF ApplyIInv, OpenTrue, Typed, Contents
      <4>4. w = <<at, w[2]>>
        BY <4>3 DEF Pairs
      <4>5. w \in Writers(f)
        BY <4>3, <4>4, IsWriter DEF ApplyIInv
      <4>6. Step(w[2]).shape # "transfer"
        BY <4>1, <4>2, <4>3, <4>4 DEF Guarded
      <4> QED BY <4>3, <4>5, <4>6 DEF Step, Phase
    <3> QED BY <3>1, <3>2, <3>3
  <2> QED BY <2>1, <2>2
<1> QED BY <1>2, <1>3

\* A run reports ok only when the engine has passed everything.
LEMMA SuccessAtTheEnd ==
  ASSUME ApplyIInv, DiskIInv, stage = "running", Conclude \/ Panic \/ Crash
  PROVE  SuccessIsDone'
<1> SUFFICES ASSUME stage' = "ended", verdict'.ok, ~dry', ~Aliased',
                    NEW f \in Files, Writers(f)' # {}
             PROVE  LeftBy(LastWriter(f), f)'
  BY DEF SuccessIsDone, LeftBy
<1>1. profile' = profile /\ dry' = dry
  BY DEF Conclude, Panic, Crash
<1>2. ASSUME NEW failed \in BOOLEAN, verdict' = Envelope(InDeclarationOrder(report), failed)
      PROVE  failed = FALSE
  <2>1. CASE failed /\ Failing(InDeclarationOrder(report)) # {}
    BY <1>2, <2>1 DEF Envelope
  <2>2. CASE failed /\ Failing(InDeclarationOrder(report)) = {}
    BY <1>2, <2>2 DEF Envelope, NoVerdict
  <2> QED BY <2>1, <2>2
<1>3. ~Panic
  BY <1>2 DEF Panic
<1>4. Conclude /\ disk' = disk
  BY <1>3 DEF Crash, Conclude
<1>5. at \notin DOMAIN profile
  <2> DEFINE failed == at \in DOMAIN profile
  <2>1. failed \in BOOLEAN
    OBVIOUS
  <2>2. verdict' = Envelope(InDeclarationOrder(report), failed)
    BY <1>4 DEF Conclude
  <2>3. failed = FALSE
    <3> HIDE DEF failed
    <3> QED BY <1>2, <2>1, <2>2
  <2> QED BY <2>3
<1>6. /\ ~Aliased /\ Writers(f) # {} /\ LastWriter(f)' = LastWriter(f) /\ ~dry
      /\ Typed /\ WaveShape
  BY <1>1, SameWriters DEF ApplyIInv
<1> DEFINE w == LastWriter(f)
<1>7. w[1] \in DOMAIN profile
  <2>1. w \in Writers(f)
    BY <1>6, LastWriterIsLast
  <2>2. \A v \in Writers(f) : v[1] \in DOMAIN profile
    BY DEF Writers, Ids
  <2> QED BY <2>1, <2>2
<1>8. Passed(w[1], w[2])
  <2>1. profile \in Seq(Phases) /\ at \in 1 .. Len(profile) + 1
    BY <1>6, ProfileTyped DEF WaveShape
  <2>2. w[1] < at
    <3> HIDE DEF w
    <3> QED BY <1>5, <1>7, <2>1
  <2> QED BY <2>2 DEF Passed
<1>9. LeftBy(w, f)
  BY <1>6, <1>8 DEF DiskIInv, Settled
<1> QED BY <1>1, <1>4, <1>6, <1>9 DEF LeftBy, Whole

SettledIInv == DiskIInv /\ SuccessIsDone

LEMMA SettledStep ==
  ASSUME ExistenceIsOfTransfers, ApplyIInv, GateTrue, SettledIInv, [Next]_vars
  PROVE  SettledIInv'
<1>1. DiskIInv /\ Typed /\ WaveShape
  BY DEF SettledIInv, ApplyIInv
<1>2. stage' = "running" => SuccessIsDone'
  BY DEF SuccessIsDone
<1>3. CASE Start
  <2>1. /\ profile' = profile /\ disk' = disk /\ stage' = "running"
        /\ at' = 1 /\ wave' = OpeningOf(at')
    BY <1>3 DEF Start
  <2>2. \A n \in DOMAIN wave' : wave'[n] = "pending"
    BY <2>1 DEF OpeningOf, Asked
  <2>3. ASSUME NEW i \in DOMAIN profile, NEW n \in DOMAIN profile[i].steps
        PROVE  ~Passed(i, n)'
    <3>1. Passed(i, n)' => i < 1
      BY <1>1, <2>1, NothingPassed
    <3> QED BY <1>1, <3>1, ProfileTyped
  <2>4. DiskIInv'
    BY <1>1, <2>1, <2>2, <2>3, TurnIsSettled
  <2> QED BY <1>2, <2>1, <2>4 DEF SettledIInv
<1>4. CASE Progress
  <2>1. CASE \E n \in DOMAIN wave \ {0} : StepMoves(n)
    <3>1. stage' = "running"
      BY <1>4, <2>1 DEF Progress, StepMoves, Spawn, Deny, Foretell, Skip, Due,
                        Doubt, Begin, Answer, Succeed, Fail
    <3> QED BY <1>1, <1>2, <1>4, <2>1, <3>1, WaveIsSettled DEF Progress, SettledIInv
  <2>2. CASE RunUnprojected
    <3>1. 0 \in DOMAIN wave /\ wave[0] = "pending" /\ stage = "running"
          /\ UNCHANGED <<profile, disk, dry, stage, at>>
          /\ (Moved(0, "ok") \/ Moved(0, "failed"))
      BY <1>4, <2>2 DEF Progress, RunUnprojected
    <3>2. DiskIInv'
      BY <1>1, <3>1, QuietIsSettled
    <3> QED BY <1>2, <3>1, <3>2 DEF SettledIInv
  <2>3. CASE Advance
    <3>1. /\ profile' = profile /\ disk' = disk /\ dry' = dry
          /\ stage = "running" /\ stage' = "running"
      BY <1>4, <2>3 DEF Progress, Advance
    <3>2. \A n \in DOMAIN wave' : wave'[n] = "pending"
      BY <2>3 DEF Advance, OpeningOf, Asked
    <3>3. \A i \in DOMAIN profile : \A n \in DOMAIN profile[i].steps :
            Passed(i, n)' => Passed(i, n)
      BY <2>3, <3>1, PassedBefore
    <3>4. DiskIInv'
      BY <1>1, <3>1, <3>2, <3>3, TurnIsSettled
    <3> QED BY <1>2, <3>1, <3>4 DEF SettledIInv
  <2>4. CASE Conclude
    BY <1>1, <1>4, <2>4, EndIsSettled, SuccessAtTheEnd DEF Progress, SettledIInv
  <2> QED BY <1>4, <2>1, <2>2, <2>3, <2>4 DEF Progress
<1>5. CASE Break
  BY <1>1, <1>5, EndIsSettled, SuccessAtTheEnd DEF Break, SettledIInv
<1>6. CASE UNCHANGED vars
  <2>1. /\ profile' = profile /\ disk' = disk /\ dry' = dry /\ stage' = stage
        /\ at' = at /\ wave' = wave /\ verdict' = verdict
    BY <1>6 DEF vars
  <2>2. \A f : /\ Writers(f)' = Writers(f) /\ LastWriter(f)' = LastWriter(f)
               /\ Aliased' <=> Aliased
    BY <2>1, SameWriters
  <2>3. DiskIInv'
    BY <1>1, <2>1, <2>2
       DEF DiskIInv, WorksAlone, Blamed, Settled, LeftBy, Whole, Passed,
           FileOf, Step, Phase
  <2>4. SuccessIsDone'
    BY <2>1, <2>2 DEF SettledIInv, SuccessIsDone, Whole
  <2> QED BY <2>3, <2>4 DEF SettledIInv
<1> QED BY <1>3, <1>4, <1>5, <1>6 DEF Next

\* After a run that reports ok every file is as the last step that writes it
\* leaves it, whatever earlier runs failed at, panicked in or crashed in, as
\* long as existence alone is the condition of transfers only (CollectAll,
\* resolve_wave, the transfer's guard).
THEOREM SuccessMeansDone ==
  ASSUME ExistenceIsOfTransfers
  PROVE  Spec => []SuccessIsDone
<1>1. Init => ReportIInv /\ SettledIInv
  <2> SUFFICES ASSUME Init PROVE ReportIInv /\ SettledIInv
    OBVIOUS
  <2>1. DOMAIN wave = {} /\ stage = "idle"
    BY DEF Init
  <2>2. ASSUME NEW f \in Files, disk[f].there
        PROVE  disk[f].by # {}
    <3>1. disk[f] \in {Absent, Foreign}
      BY DEF Init
    <3>2. ~Absent.there /\ Foreign.by = {<<0, 0>>}
      BY DEF Absent, Foreign
    <3> QED BY <2>2, <3>1, <3>2
  <2> QED BY <2>1, <2>2 DEF ReportIInv, GateTrue, Told, VerdictTrue, SettledIInv,
                      DiskIInv, WorksAlone, Blamed, Settled, SuccessIsDone
<1>2. ApplyIInv /\ ReportIInv /\ [Next]_vars => ReportIInv'
  BY ReportStep
<1>3. ApplyIInv /\ ReportIInv /\ SettledIInv /\ [Next]_vars => SettledIInv'
  BY SettledStep DEF ReportIInv
<1>4. SettledIInv => SuccessIsDone
  BY DEF SettledIInv
<1> QED BY <1>1, <1>2, <1>3, <1>4, ApplyInductive, PTL DEF Spec

-----------------------------------------------------------------------------
(* No run goes round                                                        *)

\* How far the engine is with a step of the wave.
Level(is) == CASE is = "pending" -> 0 [] is = "spawned" -> 1
               [] is \in {"due", "doubted"} -> 2 [] is = "doing" -> 3
               [] is \in {"ok", "failed"} -> 4

\* Step n of phase i may still come past level k, with the engine in phase a: past
\* the last of them it comes when the engine leaves its wave w.
StillPast(a, w, i, n, k) ==
  \/ i > a
  \/ i = a /\ n \in DOMAIN w /\ k > Level(w[n])
  \/ i = a /\ n \notin DOMAIN w /\ \A m \in DOMAIN w : m < n

StillToPass ==
  {c \in Ids \X (0 .. 5) : StillPast(at, wave, c[1][1], c[1][2], c[2])}

PassesOn ==
  stage = "running" /\ stage' = "running" =>
    StillToPass' \subseteq StillToPass /\ StillToPass' # StillToPass

LEMMA StillToPassFinite == ASSUME Typed PROVE IsFiniteSet(StillToPass)
<1>1. profile \in Seq(Phases) /\ \A i \in DOMAIN profile : profile[i].steps \in Seq(Steps)
  BY ProfileTyped
<1> DEFINE Of(i) == {<<i, n>> : n \in {0} \cup DOMAIN profile[i].steps}
           f == [i \in DOMAIN profile |-> Of(i)]
           F == {Of(i) : i \in DOMAIN profile}
<1>2. IsFiniteSet(F)
  <2>1. DOMAIN profile = 1 .. Len(profile) /\ Len(profile) \in Int /\ 1 \in Int
    BY <1>1
  <2>2. IsFiniteSet(DOMAIN profile)
    BY <2>1, FS_Interval
  <2>3. f \in Surjection(DOMAIN profile, F)
    BY Zenon DEF Surjection
  <2> QED BY <2>2, <2>3, FS_Surjection
<1>3. ASSUME NEW i \in DOMAIN profile PROVE IsFiniteSet(Of(i))
  <2>1. /\ {0} \cup DOMAIN profile[i].steps = 0 .. Len(profile[i].steps)
        /\ Len(profile[i].steps) \in Int /\ 0 \in Int
    BY <1>1
  <2>2. IsFiniteSet({0} \cup DOMAIN profile[i].steps)
    BY <2>1, FS_Interval
  <2>3. [n \in {0} \cup DOMAIN profile[i].steps |-> <<i, n>>]
          \in Surjection({0} \cup DOMAIN profile[i].steps, Of(i))
    BY Zenon DEF Surjection
  <2> QED BY <2>2, <2>3, FS_Surjection
<1>4. IsFiniteSet(Ids)
  <2>1. IsFiniteSet(UNION F)
    BY <1>2, <1>3, FS_UNION
  <2> QED BY <2>1 DEF Ids
<1>5. IsFiniteSet(Ids \X (0 .. 5))
  <2>1. 0 \in Int /\ 5 \in Int
    OBVIOUS
  <2>2. IsFiniteSet(0 .. 5)
    BY <2>1, FS_Interval
  <2> QED BY <1>4, <2>2, FS_Product
<1>6. StillToPass \subseteq Ids \X (0 .. 5)
  BY DEF StillToPass
<1> QED BY <1>5, <1>6, FS_Subset

LEMMA IdsAre ==
  ASSUME Typed, NEW c \in Ids \X (0 .. 5)
  PROVE  c[1][1] \in DOMAIN profile /\ c[1][1] \in Nat /\ c[1][2] \in Nat /\ c[2] \in 0 .. 5
<1>1. c[1] \in Ids /\ c[2] \in 0 .. 5
  OBVIOUS
<1>2. PICK i \in DOMAIN profile : c[1] \in {<<i, n>> : n \in {0} \cup DOMAIN profile[i].steps}
  BY <1>1 DEF Ids
<1>3. PICK n \in {0} \cup DOMAIN profile[i].steps : c[1] = <<i, n>>
  BY <1>2
<1>4. i \in Nat /\ n \in Nat
  BY ProfileTyped
<1> QED BY <1>1, <1>3, <1>4

\* A step of the wave that goes up.
LEMMA UpIsOn ==
  ASSUME ApplyIInv, stage = "running", NEW n \in DOMAIN wave, NEW to \in WaveStates,
         Moved(n, to), Level(to) > Level(wave[n]),
         profile' = profile, at' = at
  PROVE  StillToPass' \subseteq StillToPass /\ StillToPass' # StillToPass
<1>1. /\ DOMAIN wave' = DOMAIN wave /\ wave'[n] = to
      /\ \A m \in DOMAIN wave : m # n => wave'[m] = wave[m]
      /\ Ids' = Ids /\ Typed /\ wave[n] \in WaveStates
  BY DEF Moved, Ids, ApplyIInv, Typed
<1>2. /\ Level(to) \in 0 .. 4 /\ Level(wave[n]) \in 0 .. 4
      /\ \A m \in DOMAIN wave : wave[m] \in WaveStates
  BY <1>1 DEF WaveStates, Level, Typed
<1>3. PICK u, v \in 0 .. 4 : u = Level(to) /\ v = Level(wave[n])
  BY <1>2
<1>4. StillToPass' = {c \in Ids \X (0 .. 5) : StillPast(at, wave', c[1][1], c[1][2], c[2])}
  BY <1>1 DEF StillToPass, StillPast, Level
<1>5. StillToPass' \subseteq StillToPass
  <2> SUFFICES ASSUME NEW c \in Ids \X (0 .. 5), StillPast(at, wave', c[1][1], c[1][2], c[2])
               PROVE  StillPast(at, wave, c[1][1], c[1][2], c[2])
    BY <1>4 DEF StillToPass
  <2>1. c[2] \in 0 .. 5
    OBVIOUS
  <2>2. CASE c[1][2] = n
    <3>1. c[2] > Level(to) => c[2] > Level(wave[n])
      BY <1>3, <2>1
    <3> QED BY <1>1, <2>2, <3>1 DEF StillPast
  <2>3. CASE c[1][2] # n
    BY <1>1, <2>3 DEF StillPast
  <2> QED BY <2>2, <2>3
<1>6. \E c \in StillToPass : c \notin StillToPass'
  <2>1. at \in DOMAIN profile /\ <<at, n>> \in Ids /\ at \in Nat
    <3>1. at \in DOMAIN profile
      BY DEF ApplyIInv, WaveShape
    <3>2. n \in {0} \cup DOMAIN Phase.steps
      <4>1. CASE n # 0
        BY <1>1, <4>1, WaveSteps DEF ApplyIInv
      <4> QED BY <4>1
    <3> QED BY <1>1, <3>1, <3>2, ProfileTyped DEF Ids, Phase
  <2>2. PICK c : c = <<<<at, n>>, u>>
    OBVIOUS
  <2>3. c \in Ids \X (0 .. 5) /\ c[1][1] = at /\ c[1][2] = n /\ c[2] = u
    BY <1>3, <2>1, <2>2
  <2>4. c \in StillToPass
    <3>1. u > Level(wave[n])
      BY <1>3
    <3> QED BY <2>3, <3>1 DEF StillToPass, StillPast
  <2>5. ~StillPast(at, wave', c[1][1], c[1][2], c[2])
    <3>1. ~(u > Level(wave'[n])) /\ ~(at > at)
      BY <1>1, <1>3, <2>1
    <3> QED BY <1>1, <2>3, <3>1 DEF StillPast
  <2> QED BY <1>4, <2>4, <2>5
<1> QED BY <1>5, <1>6

LEMMA StepIsOn ==
  ASSUME ApplyIInv, stage = "running", NEW n \in DOMAIN wave \ {0}, StepMoves(n)
  PROVE  StillToPass' \subseteq StillToPass /\ StillToPass' # StillToPass
<1>1. profile' = profile /\ at' = at
  BY DEF StepMoves, Spawn, Deny, Foretell, Skip, Due, Doubt, Begin, Answer, Succeed, Fail
<1>2. \E to \in WaveStates : Moved(n, to) /\ Level(to) > Level(wave[n])
  <2>1. CASE Spawn(n)
    BY <2>1 DEF Spawn, WaveStates, Level
  <2>2. CASE Deny(n)
    BY <2>2 DEF Deny, WaveStates, Level
  <2>3. CASE Foretell(n)
    BY <2>3 DEF Foretell, WaveStates, Level
  <2>4. CASE Skip(n)
    BY <2>4 DEF Skip, WaveStates, Level
  <2>5. CASE Due(n)
    BY <2>5 DEF Due, WaveStates, Level
  <2>6. CASE Doubt(n)
    BY <2>6 DEF Doubt, WaveStates, Level
  <2>7. CASE Begin(n)
    BY <2>7 DEF Begin, WaveStates, Level
  <2>8. CASE Succeed(n)
    BY <2>8 DEF Succeed, WaveStates, Level
  <2>9. CASE Fail(n)
    BY <2>9 DEF Fail, WaveStates, Level
  <2> QED BY <2>1, <2>2, <2>3, <2>4, <2>5, <2>6, <2>7, <2>8, <2>9 DEF StepMoves, Answer
<1> QED BY <1>1, <1>2, UpIsOn

LEMMA UnprojectedIsOn ==
  ASSUME ApplyIInv, stage = "running", RunUnprojected
  PROVE  StillToPass' \subseteq StillToPass /\ StillToPass' # StillToPass
<1>1. profile' = profile /\ at' = at /\ 0 \in DOMAIN wave
  BY DEF RunUnprojected
<1>2. \E to \in WaveStates : Moved(0, to) /\ Level(to) > Level(wave[0])
  BY DEF RunUnprojected, WaveStates, Level
<1> QED BY <1>1, <1>2, UpIsOn

LEMMA AdvanceIsOn ==
  ASSUME ApplyIInv, stage = "running", Advance
  PROVE  StillToPass' \subseteq StillToPass /\ StillToPass' # StillToPass
<1>1. /\ at \in DOMAIN profile /\ profile' = profile /\ at \in Nat /\ Ids' = Ids
      /\ Phase.steps \in Seq(Steps)
      /\ \A n \in DOMAIN wave : wave[n] \in {"ok", "failed"}
      /\ Typed
  BY ProfileTyped DEF Advance, Answered, ApplyIInv, Phase, Ids, Typed
<1>2. StillToPass' = {c \in Ids \X (0 .. 5) : StillPast(at', wave', c[1][1], c[1][2], c[2])}
  BY <1>1 DEF StillToPass, StillPast, Level
<1>3. \E n \in DOMAIN wave : n \in {0} \cup DOMAIN Phase.steps
  <2>1. CASE Parallel(Phase)
    <3>1. DOMAIN wave = DOMAIN Phase.steps /\ 1 \in DOMAIN Phase.steps
      BY <1>1, <2>1 DEF ApplyIInv, WaveShape, Parallel, Independent
    <3> QED BY <3>1
  <2>2. CASE ~Parallel(Phase)
    BY <1>1, <2>2 DEF ApplyIInv, WaveShape
  <2> QED BY <2>1, <2>2
<1>4. PICK n \in DOMAIN wave : n \in {0} \cup DOMAIN Phase.steps
  BY <1>3
<1>5. PICK c : c = <<<<at, n>>, 5>>
  OBVIOUS
<1>6. c \in Ids \X (0 .. 5) /\ c[1][1] = at /\ c[1][2] = n /\ c[2] = 5
  BY <1>1, <1>4, <1>5 DEF Ids, Phase
<1>7. c \in StillToPass
  <2>1. 5 > Level(wave[n])
    BY <1>1, <1>4 DEF Level
  <2> QED BY <1>4, <1>6, <2>1 DEF StillToPass, StillPast
<1>8. CASE Following # {}
  <2>1. Projected(Phase) /\ ~Parallel(Phase)
    BY <1>8 DEF Following
  <2>2. DOMAIN wave = {n} /\ n \in DOMAIN Phase.steps
    BY <1>1, <1>4, <2>1 DEF ApplyIInv, WaveShape
  <2>3. n \in Nat \ {0} /\ Following = {n + 1}
    BY <1>1, <1>8, <2>1, <2>2 DEF Following
  <2>4. at' = at /\ wave' = [k \in {n + 1} |-> "pending"]
    BY <1>8, <2>3 DEF Advance, Asked
  <2>5. StillToPass' \subseteq StillToPass
    <3> SUFFICES ASSUME NEW d \in Ids \X (0 .. 5), StillPast(at, wave', d[1][1], d[1][2], d[2])
                 PROVE  StillPast(at, wave, d[1][1], d[1][2], d[2])
      BY <1>2, <2>4 DEF StillToPass
    <3>1. d[1][2] \in Nat
      BY <1>1, IdsAre
    <3>2. DOMAIN wave' = {n + 1}
      BY <2>4
    <3>3. \/ d[1][1] > at
          \/ d[1][1] = at /\ (d[1][2] = n + 1 \/ n + 1 < d[1][2])
      BY <3>2 DEF StillPast
    <3> QED BY <2>2, <2>3, <3>1, <3>3 DEF StillPast
  <2>6. ~StillPast(at, wave', c[1][1], c[1][2], c[2])
    BY <1>1, <1>6, <2>3, <2>4 DEF StillPast
  <2> QED BY <1>2, <1>7, <2>4, <2>5, <2>6
<1>9. CASE Following = {}
  <2>1. at' = at + 1
    BY <1>9 DEF Advance
  <2>2. StillToPass' \subseteq StillToPass
    <3> SUFFICES ASSUME NEW d \in Ids \X (0 .. 5), StillPast(at', wave', d[1][1], d[1][2], d[2])
                 PROVE  StillPast(at, wave, d[1][1], d[1][2], d[2])
      BY <1>2 DEF StillToPass
    <3>1. d[1][1] \in Nat
      BY <1>1, IdsAre
    <3>2. d[1][1] > at
      BY <1>1, <2>1, <3>1 DEF StillPast
    <3> QED BY <3>2 DEF StillPast
  <2>3. ~StillPast(at', wave', c[1][1], c[1][2], c[2])
    BY <1>1, <1>6, <2>1 DEF StillPast
  <2> QED BY <1>2, <1>7, <2>2, <2>3
<1> QED BY <1>8, <1>9

\* An apply comes to its verdict or is broken off (drive, resolve_wave): whatever its
\* steps say, each step of the engine leaves fewer of finitely many to take.
THEOREM NoApplyGoesRound ==
  Spec => []IsFiniteSet(StillToPass) /\ [][PassesOn]_vars
<1>1. ApplyIInv => IsFiniteSet(StillToPass)
  BY StillToPassFinite DEF ApplyIInv
<1>2. ApplyIInv /\ [Next]_vars => [PassesOn]_vars
  <2> SUFFICES ASSUME ApplyIInv, Next, stage = "running", stage' = "running" PROVE PassesOn
    BY DEF PassesOn
  <2>1. CASE Progress
    <3>1. ~Conclude
      BY DEF Conclude
    <3> QED BY <2>1, <3>1, StepIsOn, UnprojectedIsOn, AdvanceIsOn DEF Progress, PassesOn
  <2>2. ~Start /\ ~Break
    BY DEF Start, Break, Panic, Crash
  <2> QED BY <2>1, <2>2 DEF Next
<1> QED BY <1>1, <1>2, ApplyInductive, PTL DEF Spec
=============================================================================
