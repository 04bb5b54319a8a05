---------------------------- MODULE OperatorProofs ----------------------------
(* Theorems about the host daemon (Host), the paged listing (Listing), the    *)
(* port forwards (Forward) and push sessions (Session), for every value of    *)
(* their constants.                                                           *)
EXTENDS Host, Listing, Forward, Session, FiniteSetTheorems, SequenceTheorems, TLAPS

(***************************************************************************)
(* The host daemon                                                         *)
(***************************************************************************)

\* The daemon's memory is the reading of the newest sweep and of no other one.
StatusFolds ==
  \/ newest = None /\ status = Started
  \/ newest \in Endings /\ status = Recorded(newest)

HostIInv == TypeOK /\ StatusFolds

LEMMA RecordedTyped ==
  ASSUME NEW end \in Endings
  PROVE  /\ Recorded(end).error \in {"none", "spawn", "exit", "unparseable"}
         /\ Recorded(end).artifact \in Endings \cup {None}
BY DEF Recorded, Interpreted, Endings, None

LEMMA HostInit == Init => HostIInv
<1> SUFFICES ASSUME Init PROVE HostIInv
  OBVIOUS
<1>1. /\ status.error \in {"none", "spawn", "exit", "unparseable"}
      /\ status.artifact \in Endings \cup {None}
  BY DEF Init, Started
<1>2. left \in 0 .. Interval /\ late \in 0 .. MaxLate
  BY HostAssumption DEF Init
<1>3. {sweeping, caught, asked, heard, stopped} \subseteq BOOLEAN /\ ~heard /\ left = 0
  BY DEF Init
<1>4. newest \in Endings \cup {None}
  BY DEF Init
<1>5. TypeOK
  BY <1>1, <1>2, <1>3, <1>4 DEF TypeOK
<1> QED BY <1>5 DEF Init, HostIInv, StatusFolds

LEMMA HostStepKeeps == HostIInv /\ [Next]_vars => HostIInv'
<1> SUFFICES ASSUME HostIInv, [Next]_vars PROVE HostIInv'
  OBVIOUS
<1> USE HostAssumption DEF HostIInv
<1>1. CASE Pass
  <2>1. left' \in 0 .. Interval /\ late' \in 0 .. MaxLate /\ (late' > 0 => left' = 0)
    BY <1>1 DEF Pass, TypeOK, Smaller
  <2>2. caught' \in BOOLEAN
    BY <1>1 DEF Pass, TypeOK
  <2>3. TypeOK'
    BY <1>1, <2>1, <2>2 DEF Pass, TypeOK
  <2> QED BY <1>1, <2>3 DEF Pass, StatusFolds
<1>2. CASE BeginSweep
  <2>1. left' \in 0 .. Interval /\ late' \in 0 .. MaxLate /\ ~(late' > 0) /\ ~heard'
    BY <1>2 DEF BeginSweep, AfterTick
  <2>2. caught' \in BOOLEAN /\ sweeping' \in BOOLEAN
    BY <1>2 DEF BeginSweep, TypeOK
  <2>3. TypeOK'
    BY <1>2, <2>1, <2>2 DEF BeginSweep, TypeOK
  <2> QED BY <1>2, <2>3 DEF BeginSweep, StatusFolds
<1>3. CASE EndSweep
  <2>1. PICK end \in Endings : newest' = end /\ status' = Recorded(end)
    BY <1>3 DEF EndSweep
  <2>2. TypeOK'
    BY <1>3, <2>1, RecordedTyped DEF EndSweep, TypeOK
  <2>3. StatusFolds'
    BY <2>1 DEF StatusFolds
  <2> QED BY <2>2, <2>3
<1>4. CASE Interrupt
  BY <1>4 DEF Interrupt, TypeOK, StatusFolds
<1>5. CASE Stop
  BY <1>5 DEF Stop, TypeOK, StatusFolds
<1>6. CASE UNCHANGED vars
  BY <1>6 DEF vars, TypeOK, StatusFolds
<1> QED BY <1>1, <1>2, <1>3, <1>4, <1>5, <1>6 DEF Next

\* The timer and the daemon's memory keep to their values (Status, Interval).
THEOREM HostTypeCorrect == Spec => []TypeOK
<1>1. HostIInv => TypeOK
  BY DEF HostIInv
<1> QED BY <1>1, HostInit, HostStepKeeps, PTL DEF Spec

LEMMA EarnedByFolding == HostIInv => OkIsEarned
<1> SUFFICES ASSUME HostIInv, Health.ok, newest # None
             PROVE  newest.spawned /\ newest.zero /\ newest.wrote = "artifact"
                                   /\ ~newest.failed
  BY DEF OkIsEarned
<1>1. newest \in Endings /\ status = Recorded(newest)
  BY DEF HostIInv, StatusFolds
<1>2. Interpreted(newest).ok
  BY <1>1 DEF Health, Recorded
<1> QED BY <1>1, <1>2 DEF Interpreted, Endings

\* The health document says ok for no sweep but one that was started, exited 0
\* and wrote an artifact naming no machine it could not release (interpret_sweep,
\* record, health): whatever the interval, and however late the sweeps are.
THEOREM HealthIsEarned == Spec => []OkIsEarned
BY EarnedByFolding, HostInit, HostStepKeeps, PTL DEF Spec

(***************************************************************************)
(* Port forwards                                                           *)
(***************************************************************************)

ForwardStep == {"spawn", "arm", "probe", "carry", "disarm", "list", "rewrite",
                 "append", "over"}

ForwardShape ==
  /\ wanted \in [Commands -> [detach : BOOLEAN, port : Ports]]
  /\ step \in [Commands -> ForwardStep]
  /\ ssh \in [Commands -> {"none", "dialling", "bound", "over"}]
  /\ holder \in [Ports -> Commands \cup {Nobody, Foreign}]
  /\ relays \in [Commands -> BOOLEAN]
  /\ halted \in [Commands -> {"no", "early", "late", "killed"}]
  /\ rows \subseteq Commands
  /\ seen \in [Commands -> SUBSET Commands]
  /\ overlapped \in [Commands -> BOOLEAN]

\* A port is held by an ssh that is bound, and an ssh starts once.
PortsHeld == \A p \in Ports : holder[p] \in Commands => ssh[holder[p]] = "bound"

StartsOnce == \A c \in Commands : step[c] = "spawn" => ssh[c] = "none"

\* A foreground command keeps no record, and lets go of its handler last.
ForegroundWay ==
  \A c \in Commands :
    ~wanted[c].detach => /\ step[c] \notin {"list", "rewrite", "append"}
                         /\ step[c] = "disarm" => ssh[c] = "over"

\* Two commands are at the record at once only if both know it.
ApartOrOverlapped ==
  \A c, o \in Commands :
    c # o /\ step[c] \in Recording /\ step[o] \in Recording => overlapped[c]

\* What a command is about to write holds every row that is still up, and no row
\* that was lost, but for those of commands that overlapped with another.
SeenIsCurrent ==
  \A o, c \in Commands :
    step[o] = "rewrite" /\ ~overlapped[c] /\ ssh[c] # "over" =>
      (c \in rows <=> c \in seen[o])

ForwardIInv ==
  /\ ForwardShape
  /\ PortsHeld
  /\ StartsOnce
  /\ ForegroundWay
  /\ StopTakesSsh
  /\ ApartOrOverlapped
  /\ SeenIsCurrent

LEMMA ForwardInitially == ForwardInit => ForwardIInv
BY ForwardAssumption
  DEF ForwardInit, ForwardIInv, ForwardShape, ForwardStep, PortsHeld, StartsOnce,
    ForegroundWay, StopTakesSsh, ApartOrOverlapped, SeenIsCurrent, Recording,
    Nobody, Foreign

LEMMA SshOverKeeps ==
  ASSUME ForwardIInv, NEW c \in Commands, step[c] # "spawn", SshOver(c)
  PROVE  /\ ssh' \in [Commands -> {"none", "dialling", "bound", "over"}]
         /\ holder' \in [Ports -> Commands \cup {Nobody, Foreign}]
         /\ PortsHeld'
         /\ ssh'[c] = "over"
         /\ \A o \in Commands : o # c => ssh'[o] = ssh[o]
         /\ \A o \in Commands : ssh[o] = "over" => ssh'[o] = "over"
<1> USE ForwardAssumption DEF ForwardIInv, ForwardShape, SshOver
<1>1. ssh' \in [Commands -> {"none", "dialling", "bound", "over"}]
  OBVIOUS
<1>2. holder' \in [Ports -> Commands \cup {Nobody, Foreign}]
  OBVIOUS
<1>3. PortsHeld'
  <2> SUFFICES ASSUME NEW p \in Ports, holder'[p] \in Commands
               PROVE  ssh'[holder'[p]] = "bound"
    BY DEF PortsHeld
  <2>1. holder'[p] = holder[p] /\ holder[p] # c
    BY DEF Nobody, Foreign
  <2> QED BY <2>1 DEF PortsHeld
<1> QED BY <1>1, <1>2, <1>3

\* A command may give up its ssh on the way out.
LEMMA SshOverLeaves ==
  ASSUME ForwardIInv, NEW c \in Commands, step[c] # "spawn", SshOver(c),
         UNCHANGED <<wanted, halted, relays, rows, seen, overlapped>>,
         NEW next \in {"over", "disarm"}, step' = [step EXCEPT ![c] = next]
  PROVE  ForwardIInv'
<1>1. /\ ssh' \in [Commands -> {"none", "dialling", "bound", "over"}]
      /\ holder' \in [Ports -> Commands \cup {Nobody, Foreign}]
      /\ PortsHeld'
      /\ ssh'[c] = "over"
      /\ \A o \in Commands : o # c => ssh'[o] = ssh[o]
      /\ \A o \in Commands : ssh[o] = "over" => ssh'[o] = "over"
  BY SshOverKeeps
<1> USE <1>1 DEF ForwardShape, ForwardStep, Recording
<1>2. ForwardShape'
  BY DEF ForwardIInv
<1>3. StartsOnce'
  BY DEF ForwardIInv, StartsOnce
<1>4. ForegroundWay'
  BY DEF ForwardIInv, ForegroundWay
<1>5. StopTakesSsh'
  BY DEF ForwardIInv, StopTakesSsh
<1>6. ApartOrOverlapped'
  BY DEF ForwardIInv, ApartOrOverlapped
<1>7. SeenIsCurrent'
  BY DEF ForwardIInv, SeenIsCurrent
<1> QED BY <1>2, <1>3, <1>4, <1>5, <1>6, <1>7 DEF ForwardIInv

LEMMA ForwardCommandSteps ==
  ASSUME ForwardIInv, NEW c \in Commands,
         Advance(c) \/ Binds(c) \/ Drops(c) \/ Signal(c) \/ Kill(c)
  PROVE  ForwardIInv'
<1> USE ForwardAssumption DEF ForwardIInv, Recording, ForwardStep
<1>1. CASE Binds(c)
  <2>1. ForwardShape'
    BY <1>1 DEF Binds, RecordKept, ForwardShape
  <2>2. PortsHeld'
    BY <1>1 DEF Binds, RecordKept, ForwardShape, PortsHeld
  <2>3. StartsOnce'
    BY <1>1 DEF Binds, RecordKept, ForwardShape, StartsOnce
  <2>4. ForegroundWay'
    BY <1>1 DEF Binds, RecordKept, ForwardShape, ForegroundWay
  <2>5. StopTakesSsh'
    BY <1>1 DEF Binds, RecordKept, ForwardShape, StopTakesSsh
  <2>6. ApartOrOverlapped'
    BY <1>1 DEF Binds, RecordKept, ForwardShape, ApartOrOverlapped
  <2>7. SeenIsCurrent'
    BY <1>1 DEF Binds, RecordKept, ForwardShape, SeenIsCurrent
  <2> QED BY <2>1, <2>2, <2>3, <2>4, <2>5, <2>6, <2>7
<1>2. CASE Drops(c)
  <2>8. step[c] # "spawn"
    BY <1>2 DEF Drops, StartsOnce
  <2>1. ForwardShape'
    BY <1>2, <2>8, SshOverKeeps DEF Drops, RecordKept, ForwardShape
  <2>2. PortsHeld'
    BY <1>2, <2>8, SshOverKeeps DEF Drops, RecordKept, ForwardShape, PortsHeld
  <2>3. StartsOnce'
    BY <1>2, <2>8, SshOverKeeps DEF Drops, RecordKept, ForwardShape, StartsOnce
  <2>4. ForegroundWay'
    BY <1>2, <2>8, SshOverKeeps
    DEF Drops, RecordKept, ForwardShape, ForegroundWay
  <2>5. StopTakesSsh'
    BY <1>2, <2>8, SshOverKeeps
    DEF Drops, RecordKept, ForwardShape, StopTakesSsh
  <2>6. ApartOrOverlapped'
    BY <1>2, <2>8, SshOverKeeps
    DEF Drops, RecordKept, ForwardShape, ApartOrOverlapped
  <2>7. SeenIsCurrent'
    BY <1>2, <2>8, SshOverKeeps
    DEF Drops, RecordKept, ForwardShape, SeenIsCurrent
  <2> QED BY <2>1, <2>2, <2>3, <2>4, <2>5, <2>6, <2>7
<1>3. CASE Spawn(c)
  <2>1. ForwardShape'
    BY <1>3 DEF Spawn, To, RecordKept, ForwardShape
  <2>2. PortsHeld'
    BY <1>3 DEF Spawn, To, RecordKept, ForwardShape, PortsHeld, StartsOnce
  <2>3. StartsOnce'
    BY <1>3 DEF Spawn, To, RecordKept, ForwardShape, StartsOnce
  <2>4. ForegroundWay'
    BY <1>3 DEF Spawn, To, RecordKept, ForwardShape, ForegroundWay
  <2>5. StopTakesSsh'
    BY <1>3 DEF Spawn, To, RecordKept, ForwardShape, StopTakesSsh
  <2>6. ApartOrOverlapped'
    BY <1>3 DEF Spawn, To, RecordKept, ForwardShape, ApartOrOverlapped
  <2>7. SeenIsCurrent'
    BY <1>3 DEF Spawn, To, RecordKept, ForwardShape, SeenIsCurrent, StartsOnce
  <2> QED BY <2>1, <2>2, <2>3, <2>4, <2>5, <2>6, <2>7
<1>4. CASE Arm(c)
  <2>1. CASE Relay(c, TRUE) /\ To(c, "probe") /\ UNCHANGED <<ssh, holder>>
    <3>1. ForwardShape'
      BY <1>4, <2>1 DEF Arm, Relay, To, RecordKept, ForwardShape
    <3>2. PortsHeld'
      BY <1>4, <2>1 DEF Arm, Relay, To, RecordKept, ForwardShape, PortsHeld
    <3>3. StartsOnce'
      BY <1>4, <2>1 DEF Arm, Relay, To, RecordKept, ForwardShape, StartsOnce
    <3>4. ForegroundWay'
      BY <1>4, <2>1 DEF Arm, Relay, To, RecordKept, ForwardShape, ForegroundWay
    <3>5. StopTakesSsh'
      BY <1>4, <2>1 DEF Arm, Relay, To, RecordKept, ForwardShape, StopTakesSsh
    <3>6. ApartOrOverlapped'
      BY <1>4, <2>1 DEF Arm, Relay, To, RecordKept, ForwardShape, ApartOrOverlapped
    <3>7. SeenIsCurrent'
      BY <1>4, <2>1 DEF Arm, Relay, To, RecordKept, ForwardShape, SeenIsCurrent
    <3> QED BY <3>1, <3>2, <3>3, <3>4, <3>5, <3>6, <3>7
  <2>2. CASE GivesUp(c) /\ Leaves(c, 1) /\ UNCHANGED relays
    <3>8. UNCHANGED <<wanted, halted, relays, rows, seen, overlapped>>
      BY <1>4, <2>2 DEF Arm, RecordKept
    <3>9. step' = [step EXCEPT ![c] = "over"] /\ step[c] = "arm"
      BY <1>4, <2>2 DEF Arm, Leaves
    <3>10. SshOver(c)
      BY <2>2 DEF GivesUp
    <3> QED BY <3>8, <3>9, <3>10, SshOverLeaves
  <2> QED BY <1>4, <2>1, <2>2 DEF Arm
<1>5. CASE ProbePort(c)
  <2>8. UNCHANGED <<wanted, halted, relays, rows, seen, overlapped>> /\ step[c] = "probe"
    BY <1>5 DEF ProbePort, RecordKept
  <2>1. CASE UNCHANGED <<ssh, holder>>
    <3>9. \E next \in {"over", "disarm", "list", "carry"} :
            /\ step' = [step EXCEPT ![c] = next]
            /\ ~wanted[c].detach /\ next \in {"over", "disarm"} => ssh[c] = "over"
            /\ ~wanted[c].detach => next # "list"
      BY <1>5, <2>1, <2>8 DEF ProbePort, To, Leaves, GivesUp, SshOver, ForwardShape
    <3>1. ForwardShape'
      BY <2>1, <2>8, <3>9 DEF ForwardShape
    <3>2. PortsHeld'
      BY <2>1, <2>8, <3>9 DEF ForwardShape, PortsHeld
    <3>3. StartsOnce'
      BY <2>1, <2>8, <3>9 DEF ForwardShape, StartsOnce
    <3>4. ForegroundWay'
      BY <2>1, <2>8, <3>9 DEF ForwardShape, ForegroundWay
    <3>5. StopTakesSsh'
      BY <2>1, <2>8, <3>9 DEF ForwardShape, StopTakesSsh
    <3>6. ApartOrOverlapped'
      BY <2>1, <2>8, <3>9 DEF ForwardShape, ApartOrOverlapped
    <3>7. SeenIsCurrent'
      BY <2>1, <2>8, <3>9 DEF ForwardShape, SeenIsCurrent
    <3> QED BY <3>1, <3>2, <3>3, <3>4, <3>5, <3>6, <3>7
  <2>2. CASE GivesUp(c)
    <3>9. \E next \in {"over", "disarm"} : step' = [step EXCEPT ![c] = next]
      BY <1>5, <2>2 DEF ProbePort, To, Leaves, GivesUp, SshOver, ForwardShape
    <3>10. SshOver(c)
      BY <2>2 DEF GivesUp
    <3> QED BY <2>8, <3>9, <3>10, SshOverLeaves
  <2> QED BY <1>5, <2>1, <2>2 DEF ProbePort
<1>6. CASE Carry(c)
  <2>1. ForwardShape'
    BY <1>6 DEF Carry, To, RecordKept, ForwardShape
  <2>2. PortsHeld'
    BY <1>6 DEF Carry, To, RecordKept, ForwardShape, PortsHeld
  <2>3. StartsOnce'
    BY <1>6 DEF Carry, To, RecordKept, ForwardShape, StartsOnce
  <2>4. ForegroundWay'
    BY <1>6 DEF Carry, To, RecordKept, ForwardShape, ForegroundWay
  <2>5. StopTakesSsh'
    BY <1>6 DEF Carry, To, RecordKept, ForwardShape, StopTakesSsh
  <2>6. ApartOrOverlapped'
    BY <1>6 DEF Carry, To, RecordKept, ForwardShape, ApartOrOverlapped
  <2>7. SeenIsCurrent'
    BY <1>6 DEF Carry, To, RecordKept, ForwardShape, SeenIsCurrent
  <2> QED BY <2>1, <2>2, <2>3, <2>4, <2>5, <2>6, <2>7
<1>7. CASE Disarm(c)
  <2>1. ForwardShape'
    BY <1>7 DEF Disarm, Relay, Leaves, RecordKept, ForwardShape
  <2>2. PortsHeld'
    BY <1>7 DEF Disarm, Relay, Leaves, RecordKept, ForwardShape, PortsHeld
  <2>3. StartsOnce'
    BY <1>7 DEF Disarm, Relay, Leaves, RecordKept, ForwardShape, StartsOnce
  <2>4. ForegroundWay'
    BY <1>7 DEF Disarm, Relay, Leaves, RecordKept, ForwardShape, ForegroundWay
  <2>5. StopTakesSsh'
    BY <1>7
    DEF Disarm, Relay, Leaves, RecordKept, ForwardShape, StopTakesSsh, ForegroundWay
  <2>6. ApartOrOverlapped'
    BY <1>7
    DEF Disarm, Relay, Leaves, RecordKept, ForwardShape, ApartOrOverlapped
  <2>7. SeenIsCurrent'
    BY <1>7 DEF Disarm, Relay, Leaves, RecordKept, ForwardShape, SeenIsCurrent
  <2> QED BY <2>1, <2>2, <2>3, <2>4, <2>5, <2>6, <2>7
<1>8. CASE List(c)
  <2>1. ForwardShape'
    BY <1>8 DEF List, To, Beside, Up, ForwardShape
  <2>2. PortsHeld'
    BY <1>8 DEF List, To, Beside, Up, ForwardShape, PortsHeld
  <2>3. StartsOnce'
    BY <1>8 DEF List, To, Beside, Up, ForwardShape, StartsOnce
  <2>4. ForegroundWay'
    BY <1>8 DEF List, To, Beside, Up, ForwardShape, ForegroundWay
  <2>5. StopTakesSsh'
    BY <1>8 DEF List, To, Beside, Up, ForwardShape, StopTakesSsh
  <2>6. ApartOrOverlapped'
    BY <1>8 DEF List, To, Beside, Up, ForwardShape, ApartOrOverlapped
  <2>7. SeenIsCurrent'
    BY <1>8 DEF List, To, Beside, Up, ForwardShape, SeenIsCurrent
  <2> QED BY <2>1, <2>2, <2>3, <2>4, <2>5, <2>6, <2>7
<1>9. CASE Rewrite(c)
  <2>1. ForwardShape'
    BY <1>9 DEF Rewrite, To, Leaves, ForwardShape
  <2>2. PortsHeld'
    BY <1>9 DEF Rewrite, To, Leaves, ForwardShape, PortsHeld
  <2>3. StartsOnce'
    BY <1>9 DEF Rewrite, To, Leaves, ForwardShape, StartsOnce
  <2>4. ForegroundWay'
    BY <1>9 DEF Rewrite, To, Leaves, ForwardShape, ForegroundWay
  <2>5. StopTakesSsh'
    BY <1>9 DEF Rewrite, To, Leaves, ForwardShape, StopTakesSsh, ForegroundWay
  <2>6. ApartOrOverlapped'
    BY <1>9, SMTT(60) DEF Rewrite, To, Leaves, ForwardShape, ApartOrOverlapped
  <2>7. SeenIsCurrent'
    BY <1>9
    DEF Rewrite, To, Leaves, ForwardShape, SeenIsCurrent, ApartOrOverlapped
  <2> QED BY <2>1, <2>2, <2>3, <2>4, <2>5, <2>6, <2>7
<1>10. CASE AppendRow(c)
  <2>1. ForwardShape'
    BY <1>10 DEF AppendRow, Leaves, ForwardShape
  <2>2. PortsHeld'
    BY <1>10 DEF AppendRow, Leaves, ForwardShape, PortsHeld
  <2>3. StartsOnce'
    BY <1>10 DEF AppendRow, Leaves, ForwardShape, StartsOnce
  <2>4. ForegroundWay'
    BY <1>10 DEF AppendRow, Leaves, ForwardShape, ForegroundWay
  <2>5. StopTakesSsh'
    BY <1>10 DEF AppendRow, Leaves, ForwardShape, StopTakesSsh, ForegroundWay
  <2>6. ApartOrOverlapped'
    BY <1>10 DEF AppendRow, Leaves, ForwardShape, ApartOrOverlapped
  <2>7. SeenIsCurrent'
    BY <1>10
    DEF AppendRow, Leaves, ForwardShape, SeenIsCurrent, ApartOrOverlapped
  <2> QED BY <2>1, <2>2, <2>3, <2>4, <2>5, <2>6, <2>7
<1>11. CASE Signal(c)
  <2>1. ForwardShape'
    BY <1>11, SshOverKeeps
    DEF Signal, Stoppable, Leaves, RecordKept, ForwardShape
  <2>2. PortsHeld'
    BY <1>11, SshOverKeeps
    DEF Signal, Stoppable, Leaves, RecordKept, ForwardShape, PortsHeld
  <2>3. StartsOnce'
    BY <1>11, SshOverKeeps
    DEF Signal, Stoppable, Leaves, RecordKept, ForwardShape, StartsOnce
  <2>4. ForegroundWay'
    BY <1>11, SshOverKeeps
    DEF Signal, Stoppable, Leaves, RecordKept, ForwardShape, ForegroundWay
  <2>5. StopTakesSsh'
    BY <1>11, SshOverKeeps
    DEF Signal, Stoppable, Leaves, RecordKept, ForwardShape, StopTakesSsh
  <2>6. ApartOrOverlapped'
    BY <1>11, SshOverKeeps
    DEF Signal, Stoppable, Leaves, RecordKept, ForwardShape, ApartOrOverlapped
  <2>7. SeenIsCurrent'
    BY <1>11, SshOverKeeps
    DEF Signal, Stoppable, Leaves, RecordKept, ForwardShape, SeenIsCurrent
  <2> QED BY <2>1, <2>2, <2>3, <2>4, <2>5, <2>6, <2>7
<1>12. CASE Kill(c)
  <2>1. ForwardShape'
    BY <1>12 DEF Kill, Stoppable, Leaves, RecordKept, ForwardShape
  <2>2. PortsHeld'
    BY <1>12 DEF Kill, Stoppable, Leaves, RecordKept, ForwardShape, PortsHeld
  <2>3. StartsOnce'
    BY <1>12 DEF Kill, Stoppable, Leaves, RecordKept, ForwardShape, StartsOnce
  <2>4. ForegroundWay'
    BY <1>12
    DEF Kill, Stoppable, Leaves, RecordKept, ForwardShape, ForegroundWay
  <2>5. StopTakesSsh'
    BY <1>12 DEF Kill, Stoppable, Leaves, RecordKept, ForwardShape, StopTakesSsh
  <2>6. ApartOrOverlapped'
    BY <1>12
    DEF Kill, Stoppable, Leaves, RecordKept, ForwardShape, ApartOrOverlapped
  <2>7. SeenIsCurrent'
    BY <1>12
    DEF Kill, Stoppable, Leaves, RecordKept, ForwardShape, SeenIsCurrent
  <2> QED BY <2>1, <2>2, <2>3, <2>4, <2>5, <2>6, <2>7
<1> QED BY <1>1, <1>2, <1>3, <1>4, <1>5, <1>6, <1>7, <1>8, <1>9, <1>10, <1>11, <1>12
    DEF Advance

LEMMA ForwardStepKeeps == ForwardIInv /\ [ForwardNext]_forwardVars => ForwardIInv'
<1> SUFFICES ASSUME ForwardIInv, [ForwardNext]_forwardVars PROVE ForwardIInv'
  OBVIOUS
<1>1. CASE UNCHANGED forwardVars
  BY <1>1 DEF forwardVars, ForwardIInv, ForwardShape, PortsHeld, StartsOnce,
              ForegroundWay, StopTakesSsh, ApartOrOverlapped, SeenIsCurrent
<1>2. CASE ForwardOver
  BY <1>1, <1>2 DEF ForwardOver
<1> QED BY <1>1, <1>2, ForwardCommandSteps DEF ForwardNext

\* A port is never held by an ssh that has ended, and the record names commands.
THEOREM ForwardTypeCorrect == ForwardSpec => []ForwardTypeOK
<1>1. ForwardIInv => ForwardTypeOK
  BY DEF ForwardIInv, ForwardShape, PortsHeld, ForwardTypeOK
<1> QED BY <1>1, ForwardInitially, ForwardStepKeeps, PTL DEF ForwardSpec

\* However many commands share the host, and whenever each is signalled or cut
\* off: a foreground forward that has ended leaves an ssh behind only if it was
\* killed outright or signalled before its handler was there (forward,
\* relay_to_forward).
THEOREM ForegroundTakesItsSsh == ForwardSpec => []StopTakesSsh
<1>1. ForwardIInv => StopTakesSsh
  BY DEF ForwardIInv
<1> QED BY <1>1, ForwardInitially, ForwardStepKeeps, PTL DEF ForwardSpec

\* Only a rewrite takes rows out of the record, and what it writes back has the row
\* of every command that was alone at it.
LEMMA RewriteKeepsRows ==
  ASSUME ForwardIInv, ForwardNext, NEW c \in Commands, c \in rows, c \notin rows'
  PROVE  ssh[c] = "over" \/ overlapped[c]
<1>1. PICK o \in Commands : Rewrite(o) /\ rows' = seen[o]
  BY DEF ForwardNext, Advance, Spawn, Arm, ProbePort, Carry, Disarm, List, Rewrite,
         AppendRow, Binds, Drops, Signal, Kill, RecordKept, ForwardOver, forwardVars
<1>2. step[o] = "rewrite"
  BY <1>1 DEF Rewrite
<1> QED BY <1>1, <1>2 DEF ForwardIInv, SeenIsCurrent

\* A recorded tunnel that is up is in the record until it ends, however many other
\* commands rewrite it over one another, unless its own command was at the record
\* at the same time as one of them (record_forward).
THEOREM RecordKeepsTunnels == ForwardSpec => RowOutlivesCommand
<1> DEFINE Kept ==
      \A c \in Commands :
        c \in rows /\ c \notin rows' => ssh[c] = "over" \/ overlapped[c]
<1>1. ForwardIInv /\ [ForwardNext]_forwardVars => [Kept]_forwardVars
  BY RewriteKeepsRows
<1>2. ForwardSpec => [][Kept]_forwardVars
  BY <1>1, ForwardInitially, ForwardStepKeeps, PTL DEF ForwardSpec
<1> QED BY <1>2 DEF RowOutlivesCommand


(***************************************************************************)
(* The listing                                                             *)
(***************************************************************************)

ListingShape ==
  /\ phase \in [All -> {"unborn", "up", "ending", "gone"}]
  /\ steady \subseteq In({"up"})
  /\ ended \subseteq In({"ending", "gone"})
  /\ page \in Nat \ {0} /\ walked \in Nat /\ departed \in Nat
  /\ found \subseteq All \ ended
  /\ listing \in {"walking", "listed", "failed"}

\* Ids grow: who has not come yet is younger than all who have.
NewestLast == \A m \in In({"unborn"}) : \A k \in All \ In({"unborn"}) : k < m

Missing == steady \ (found \cup Unreadable)

\* The machines that moved to a page already read.
Slipped == {m \in Missing : Rank(m) <= (page - 1) * PerPage}

\* Each row that leaves moves at most one machine over the border of the pages.
SlippedFew == Cardinality(Slipped) <= departed

ListingIInv ==
  /\ ListingShape
  /\ NewestLast
  /\ SlippedFew
  /\ ListingTrue

LEMMA AllFinite ==
  ASSUME NEW S \in SUBSET All
  PROVE  IsFiniteSet(S) /\ Cardinality(S) \in Nat
<1>1. IsFiniteSet(All)
  BY FS_Interval, ListingAssumption DEF All
<1>2. IsFiniteSet(S)
  BY <1>1, FS_Subset
<1> QED BY <1>2, FS_CardinalityType

\* The rows before a machine, and its place among them.
Before(m) == {k \in Listed : k <= m}

LEMMA PlaceTyped ==
  ASSUME NEW m \in Listed
  PROVE  Rank(m) \in Nat /\ 1 <= Rank(m) /\ Rank(m) <= Cardinality(Listed)
<1>1. Before(m) \subseteq Listed /\ Listed \subseteq All /\ m \in Before(m)
  BY ListingAssumption DEF Before, Listed, In, All
<1>2. IsFiniteSet(Before(m)) /\ IsFiniteSet(Listed)
  BY <1>1, AllFinite
<1>3. Cardinality(Before(m)) # 0
  BY <1>1, <1>2, FS_EmptySet
<1>4. Cardinality(Before(m)) \in Nat
  BY <1>2, FS_CardinalityType
<1>5. Cardinality(Before(m)) <= Cardinality(Listed)
  BY <1>1, <1>2, FS_Subset
<1> QED BY <1>3, <1>4, <1>5 DEF Rank, Before

LEMMA PlacesDiffer ==
  ASSUME NEW m \in Listed, NEW k \in Listed, Rank(m) = Rank(k)
  PROVE  m = k
<1>1. Listed \subseteq All /\ All \subseteq Int
  BY DEF Listed, In, All
<1>2. ASSUME NEW a \in Listed, NEW b \in Listed, a < b, Rank(a) = Rank(b) PROVE FALSE
  <2>0. \A i \in Listed : i \in Int
    BY <1>1
  <2>1. Before(a) \subseteq Before(b) /\ b \in Before(b) /\ b \notin Before(a)
    BY <2>0, <1>2 DEF Before
  <2>2. IsFiniteSet(Before(b))
    BY <1>1, AllFinite DEF Before
  <2>3. Before(b) = Before(a)
    BY <1>2, <2>1, <2>2, FS_Subset DEF Rank, Before
  <2> QED BY <2>1, <2>3
<1> QED BY <1>1, <1>2

\* What is read of a page: the machines up in its window whose ids can be read.
Window(p) ==
  {m \in Listed : /\ Rank(m) > (p - 1) * PerPage /\ Rank(m) <= p * PerPage
                  /\ phase[m] = "up" /\ m \notin Unreadable}

LEMMA PageIds ==
  ASSUME NEW p
  PROVE  Ids(Live(OnPage(p))) = Window(p)
<1> DEFINE On == {k \in Listed : Rank(k) > (p - 1) * PerPage /\ Rank(k) <= p * PerPage}
<1>1. OnPage(p) = {Row(m) : m \in On}
  BY DEF OnPage
<1>2. \A m : /\ Row(m).id = m /\ Row(m).live = (phase[m] = "up")
             /\ Row(m).readable = (m \notin Unreadable)
  BY DEF Row
<1>3. Live(OnPage(p)) = {Row(m) : m \in {k \in On : phase[k] = "up"}}
  BY <1>1, <1>2, ZenonT(60) DEF Live
<1>4. Ids(Live(OnPage(p))) = {k \in On : phase[k] = "up" /\ k \notin Unreadable}
  <2> HIDE DEF On
  <2>1. ASSUME NEW k \in Ids(Live(OnPage(p)))
        PROVE  k \in On /\ phase[k] = "up" /\ k \notin Unreadable
    <3>1. PICK row \in Live(OnPage(p)) : row.readable /\ k = row.id
      BY <2>1 DEF Ids
    <3> QED BY <3>1, <1>3, <1>2, ZenonT(60)
  <2>2. ASSUME NEW k \in On, phase[k] = "up", k \notin Unreadable
        PROVE  k \in Ids(Live(OnPage(p)))
    <3>1. Row(k) \in Live(OnPage(p)) /\ Row(k).readable /\ Row(k).id = k
      BY <2>2, <1>3, <1>2
    <3> QED BY <3>1 DEF Ids
  <2> QED BY <2>1, <2>2
<1> QED BY <1>4 DEF Window

LEMMA OneArray ==
  ASSUME NEW rows_, \A row \in rows_ : row.keyed
  PROVE  /\ rows_ = {} => RowsAt(<<rows_>>) = 0 /\ RowsAt(<<{}, rows_>>) = 0
         /\ rows_ # {} => RowsAt(<<rows_>>) = 1 /\ RowsAt(<<{}, rows_>>) = 2
BY DEF RowsAt

LEMMA ReadPage ==
  ASSUME NEW p, NEW arrays \in Documents(p), MachinesOf(arrays) # Unread
  PROVE  MachinesOf(arrays) = Window(p)
<1> DEFINE shown == OnPage(p)
<1>1. \A row \in shown : row.keyed
  BY DEF OnPage, Row
<1>2. shown = {} => Window(p) = {}
  BY PageIds DEF Ids, Live
<1>3. CASE arrays = <<shown>>
  <2>1. CASE shown = {}
    BY <1>1, <1>2, <1>3, <2>1, OneArray DEF MachinesOf
  <2>2. CASE shown # {}
    <3>1. RowsAt(arrays) = 1 /\ arrays[1] = shown
      BY <1>1, <1>3, <2>2, OneArray
    <3> QED BY <3>1, PageIds DEF MachinesOf
  <2> QED BY <2>1, <2>2
<1>4. CASE arrays = <<{}, shown>>
  <2>1. CASE shown = {}
    <3>1. RowsAt(arrays) = 0
      BY <1>1, <1>4, <2>1, OneArray
    <3>2. arrays # <<>> /\ \A i \in DOMAIN arrays : arrays[i] = {}
      BY <1>4, <2>1
    <3> QED BY <3>1, <3>2, <1>2, <2>1 DEF MachinesOf
  <2>2. CASE shown # {}
    <3>1. RowsAt(arrays) = 2 /\ arrays[2] = shown
      BY <1>1, <1>4, <2>2, OneArray
    <3> QED BY <3>1, PageIds DEF MachinesOf
  <2> QED BY <2>1, <2>2
<1>5. CASE arrays = <<>>
  BY <1>5 DEF MachinesOf, RowsAt, Unread
<1>6. CASE arrays = <<{[id |-> 0, live |-> TRUE, readable |-> FALSE, keyed |-> FALSE]}>>
  <2> DEFINE row == [id |-> 0, live |-> TRUE, readable |-> FALSE, keyed |-> FALSE]
  <2>1. RowsAt(arrays) = 0
    BY <1>6 DEF RowsAt
  <2>2. arrays # <<>> /\ arrays[1] # {} /\ 1 \in DOMAIN arrays
    <3> HIDE DEF row
    <3>1. arrays = <<{row}>>
      BY <1>6 DEF row
    <3>2. arrays[1] = {row} /\ DOMAIN arrays = 1 .. 1
      BY <3>1
    <3> QED BY <3>2
  <2> QED BY <2>1, <2>2 DEF MachinesOf, Unread
<1> QED BY <1>3, <1>4, <1>5, <1>6 DEF Documents


LEMMA ListingInitially == ListingInit => ListingIInv
<1> SUFFICES ASSUME NEW start \in [All -> {"unborn", "up", "ending"}],
                    Born(start) = 1 .. Cardinality(Born(start)), Begins(start)
             PROVE  ListingIInv
  BY DEF ListingInit
<1> USE ListingAssumption
<1>1. ListingShape
  BY DEF Begins, ListingShape, In
<1>2. NewestLast
  <2>1. Born(start) \subseteq All /\ Cardinality(Born(start)) \in Nat
    BY AllFinite DEF Born
  <2> SUFFICES ASSUME NEW m \in In({"unborn"}), NEW k \in All \ In({"unborn"})
               PROVE  k < m
    BY DEF NewestLast
  <2>2. m \in All /\ m \notin Born(start) /\ k \in Born(start)
    BY DEF In, Born, Begins
  <2> QED BY <2>1, <2>2 DEF All
<1>3. SlippedFew
  <2>1. Slipped = {}
    <3> SUFFICES ASSUME NEW m \in Slipped PROVE FALSE
      OBVIOUS
    <3>1. m \in Listed /\ Rank(m) <= 0
      BY <1>1 DEF Slipped, Missing, ListingShape, Listed, In, Begins
    <3> QED BY <3>1, PlaceTyped
  <2> QED BY <2>1, FS_EmptySet DEF SlippedFew, Begins
<1>4. ListingTrue
  BY DEF Begins, ListingTrue
<1> QED BY <1>1, <1>2, <1>3, <1>4 DEF ListingIInv

LEMMA SlippedTyped ==
  ASSUME ListingShape
  PROVE  Slipped \subseteq All /\ Missing \subseteq All /\ Missing \subseteq Listed
BY DEF Slipped, Missing, ListingShape, In, Listed

LEMMA ArriveKeeps == ListingIInv /\ Arrive => ListingIInv'
<1> SUFFICES ASSUME ListingIInv, Arrive PROVE ListingIInv'
  OBVIOUS
<1>1. PICK m \in In({"unborn"}) : /\ \A k \in In({"unborn"}) : m <= k
                                  /\ phase' = [phase EXCEPT ![m] = "up"]
  BY DEF Arrive
<1>2. UNCHANGED <<steady, ended, departed, page, walked, found, listing>>
  BY DEF Arrive
<1>3. m \in All /\ phase[m] = "unborn"
  BY <1>1 DEF In
<1>4. ListingShape'
  BY <1>1, <1>2, <1>3 DEF ListingIInv, ListingShape, In
<1>5. NewestLast'
  <2>1. In({"unborn"})' = In({"unborn"}) \ {m}
    BY <1>1, <1>3 DEF ListingIInv, ListingShape, In
  <2>2. \A k \in In({"unborn"}) : k # m => m < k
    BY <1>1, <1>3, ListingAssumption DEF In, All
  <2> QED BY <2>1, <2>2, <1>3 DEF ListingIInv, NewestLast, In, All
<1>6. Slipped' = Slipped
  <2>1. Listed' = Listed \cup {m}
    BY <1>1, <1>3 DEF ListingIInv, ListingShape, Listed, In
  <2>2. ASSUME NEW k \in Missing PROVE Rank(k)' = Rank(k)
    <3>1. k \in All /\ k \notin In({"unborn"})
      BY DEF ListingIInv, ListingShape, Missing, In
    <3>2. k < m
      BY <1>1, <3>1 DEF ListingIInv, NewestLast
    <3>3. {j \in Listed' : j <= k} = {j \in Listed : j <= k}
      BY <2>1, <3>1, <3>2, <1>3 DEF All
    <3> QED BY <3>3 DEF Rank
  <2>3. Missing' = Missing
    BY <1>2 DEF Missing
  <2> QED BY <2>2, <2>3, <1>2 DEF Slipped
<1>7. ListingTrue'
  BY <1>2 DEF ListingIInv, ListingTrue
<1> QED BY <1>2, <1>4, <1>5, <1>6, <1>7 DEF ListingIInv, SlippedFew

LEMMA DepartKeeps == ListingIInv /\ Depart => ListingIInv'
<1> SUFFICES ASSUME ListingIInv, Depart PROVE ListingIInv'
  OBVIOUS
<1>1. PICK m \in Listed, to \in {"ending", "gone"} :
        /\ phase' = [phase EXCEPT ![m] = to]
        /\ steady' = steady \ {m}
        /\ departed' = departed + (IF to = "gone" THEN 1 ELSE 0)
  BY DEF Depart
<1>2. UNCHANGED <<ended, page, walked, found, listing>> /\ listing = "walking"
  BY DEF Depart
<1>3. m \in All /\ phase[m] \in {"up", "ending"}
  BY <1>1 DEF In, Listed
<1>4. ListingShape'
  BY <1>1, <1>2, <1>3 DEF ListingIInv, ListingShape, In
<1>5. NewestLast'
  <2>1. In({"unborn"})' = In({"unborn"})
    BY <1>1, <1>3 DEF ListingIInv, ListingShape, In
  <2> QED BY <2>1 DEF ListingIInv, NewestLast, All
<1>6. Missing' = Missing \ {m}
  BY <1>1, <1>2 DEF Missing
<1>7. SlippedFew'
  <2>1. IsFiniteSet(Slipped) /\ Cardinality(Slipped) \in Nat
    BY SlippedTyped, AllFinite DEF ListingIInv
  <2>2. CASE to = "ending"
    <3>1. Listed' = Listed
      BY <1>1, <1>3, <2>2 DEF ListingIInv, ListingShape, Listed, In
    <3>2. \A k : Rank(k)' = Rank(k)
      BY <3>1 DEF Rank
    <3>3. Slipped' \subseteq Slipped
      BY <1>2, <1>6, <3>2 DEF Slipped
    <3>4. Cardinality(Slipped') <= Cardinality(Slipped)
      BY <2>1, <3>3, FS_Subset
    <3>5. Cardinality(Slipped') \in Nat
      BY <2>1, <3>3, FS_Subset, FS_CardinalityType
    <3> QED BY <1>1, <2>1, <2>2, <3>4, <3>5 DEF ListingIInv, SlippedFew, ListingShape
  <2>3. CASE to = "gone"
    <3>1. Listed' = Listed \ {m}
      BY <1>1, <1>3, <2>3 DEF ListingIInv, ListingShape, Listed, In
    <3>2. ASSUME NEW k \in Missing, k # m
          PROVE  Rank(k)' \in {Rank(k), Rank(k) - 1}
      <4>1. Before(k)' = Before(k) \ {m}
        BY <3>1 DEF Before
      <4>2. IsFiniteSet(Before(k))
        BY AllFinite DEF Before, Listed, In
      <4> QED BY <4>1, <4>2, FS_RemoveElement DEF Rank, Before
    <3> DEFINE border == (page - 1) * PerPage
               next == {k \in Missing : Rank(k) = border + 1}
    <3>3. border \in Int
      BY ListingAssumption DEF ListingIInv, ListingShape
    <3>4. Slipped' \subseteq Slipped \cup next
      <4> SUFFICES ASSUME NEW k \in Slipped' PROVE k \in Slipped \cup next
        OBVIOUS
      <4>1. k \in Missing /\ k # m /\ Rank(k)' <= border
        BY <1>2, <1>6 DEF Slipped
      <4>2. Rank(k) \in Nat
        BY <4>1, PlaceTyped, SlippedTyped DEF ListingIInv
      <4>3. Rank(k) <= border + 1
        BY <3>2, <3>3, <4>1, <4>2
      <4> QED BY <3>3, <4>1, <4>2, <4>3 DEF Slipped
    <3>5. \E x : next \subseteq {x}
      BY PlacesDiffer, SlippedTyped DEF ListingIInv
    <3>6. PICK x : Slipped' \subseteq Slipped \cup {x}
      BY <3>4, <3>5
    <3>7. /\ IsFiniteSet(Slipped \cup {x})
          /\ Cardinality(Slipped \cup {x}) <= Cardinality(Slipped) + 1
      BY <2>1, FS_AddElement, SMTT(60)
    <3>8. /\ Cardinality(Slipped') <= Cardinality(Slipped \cup {x})
          /\ Cardinality(Slipped') \in Nat /\ Cardinality(Slipped \cup {x}) \in Nat
      BY <3>6, <3>7, FS_Subset, FS_CardinalityType
    <3> QED BY <1>1, <2>1, <2>3, <3>7, <3>8 DEF ListingIInv, SlippedFew, ListingShape
  <2> QED BY <2>2, <2>3
<1>8. ListingTrue'
  BY <1>2 DEF ListingIInv, ListingTrue
<1> QED BY <1>4, <1>5, <1>7, <1>8 DEF ListingIInv


\* A page that was read leaves nobody missing in its window.
LEMMA AskKeeps == ListingIInv /\ Ask => ListingIInv'
<1> SUFFICES ASSUME ListingIInv, Ask PROVE ListingIInv'
  OBVIOUS
<1>1. PICK arrays \in Documents(page), next \in NextPages(page) :
        IF MachinesOf(arrays) = Unread
          THEN Outcome("failed") /\ UNCHANGED found
          ELSE /\ found' = found \cup MachinesOf(arrays)
               /\ CASE next = NoNext -> Outcome("listed")
                    [] next # NoNext /\ (~Advances(next) \/ Spent(walked + 1)) ->
                         Outcome("failed")
                    [] OTHER -> page' = next /\ UNCHANGED listing
  BY DEF Ask
<1>2. walked' = walked + 1 /\ UNCHANGED <<phase, steady, ended, departed>>
  BY DEF Ask
<1>3. listing = "walking" /\ page \in Nat \ {0} /\ departed \in Nat
  BY DEF Ask, ListingIInv, ListingShape
<1>4. /\ \A k : Rank(k)' = Rank(k)
      /\ Listed' = Listed /\ NewestLast'
  BY <1>2 DEF Rank, Listed, In, ListingIInv, NewestLast, All
<1>5. IsFiniteSet(Slipped) /\ Cardinality(Slipped) \in Nat
  BY SlippedTyped, AllFinite DEF ListingIInv
<1>6. CASE MachinesOf(arrays) = Unread
  <2>1. Slipped' = Slipped
    BY <1>1, <1>2, <1>4, <1>6 DEF Slipped, Missing, Outcome
  <2>2. ListingShape'
    BY <1>1, <1>2, <1>6 DEF ListingIInv, ListingShape, Outcome, In, All
  <2>3. ListingTrue'
    BY <1>1, <1>2, <1>6 DEF ListingIInv, ListingTrue, Outcome
  <2> QED BY <2>1, <2>2, <2>3, <1>2, <1>4 DEF ListingIInv, SlippedFew
<1>7. CASE MachinesOf(arrays) # Unread
  <2>1. found' = found \cup Window(page)
    BY <1>1, <1>7, ReadPage
  <2>2. \/ listing' = "listed" /\ page' = page /\ next = NoNext
        \/ listing' = "failed" /\ page' = page
        \/ listing' = "walking" /\ page' = next /\ Advances(next)
    BY <1>1, <1>3, <1>7 DEF Outcome
  <2>3. page' \in {page, page + 1} /\ (page' = page + 1 \/ page' = page)
    BY <2>2, <1>3 DEF NextPages, Advances, NoNext
  <2>4. Window(page) \subseteq All /\ Window(page) \cap ended = {}
    BY DEF Window, Listed, In, ListingIInv, ListingShape
  <2>5. ListingShape'
    <3>1. page' \in Nat \ {0} /\ walked' \in Nat
      BY <1>2, <1>3, <2>3 DEF ListingIInv, ListingShape
    <3>2. found' \subseteq All' \ ended'
      BY <1>2, <2>1, <2>4 DEF ListingIInv, ListingShape, All
    <3>3. listing' \in {"walking", "listed", "failed"}
      BY <2>2
    <3> QED BY <1>2, <3>1, <3>2, <3>3 DEF ListingIInv, ListingShape, In, All
  <2>6. ASSUME NEW k \in Missing', Rank(k) <= page * PerPage PROVE k \in Slipped
    <3>1. k \in Missing /\ k \notin Window(page) /\ k \notin Unreadable
      BY <1>2, <2>1 DEF Missing
    <3>2. k \in Listed /\ phase[k] = "up" /\ Rank(k) \in Nat
      BY <3>1, PlaceTyped, SlippedTyped DEF Missing, ListingIInv, ListingShape, In
    <3>3. (page - 1) * PerPage \in Int
      BY <1>3, ListingAssumption
    <3>4. Rank(k) <= (page - 1) * PerPage
      BY <3>1, <3>2, <3>3, <2>6 DEF Window
    <3> QED BY <3>1, <3>4 DEF Slipped
  <2>7. Slipped' \subseteq Slipped
    <3> SUFFICES ASSUME NEW k \in Slipped' PROVE k \in Slipped
      OBVIOUS
    <3>1. k \in Missing' /\ Rank(k) <= (page' - 1) * PerPage
      BY <1>4 DEF Slipped
    <3>2. CASE page' = page
      BY <3>1, <3>2, <2>1, <1>2 DEF Slipped, Missing
    <3>3. CASE page' = page + 1
      <4>1. page' - 1 = page
        BY <1>3, <3>3
      <4> QED BY <3>1, <4>1, <2>6
    <3> QED BY <3>2, <3>3, <2>3
  <2>8. /\ Cardinality(Slipped') <= Cardinality(Slipped)
        /\ Cardinality(Slipped') \in Nat
    BY <1>5, <2>7, FS_Subset, FS_CardinalityType
  <2>9. SlippedFew'
    BY <1>2, <1>3, <1>5, <2>8 DEF ListingIInv, SlippedFew
  <2>10. ListingTrue'
    <3>1. found' \cap ended' = {}
      BY <1>2, <2>1, <2>4 DEF ListingIInv, ListingTrue
    <3>2. ASSUME listing' = "listed" PROVE Cardinality(Missing') <= departed'
      <4>1. next = NoNext
        BY <2>2, <3>2
      <4>2. Cardinality(Listed) <= page * PerPage
        <5>1. ~More(page)
          BY <4>1, <1>3 DEF NextPages, NoNext
        <5>2. Cardinality(Listed) \in Nat /\ page * PerPage \in Int
          BY <1>3, AllFinite, ListingAssumption DEF Listed, In
        <5> QED BY <5>1, <5>2 DEF More
      <4>3. Missing' \subseteq Slipped
        <5> SUFFICES ASSUME NEW k \in Missing' PROVE k \in Slipped
          OBVIOUS
        <5>1. k \in Listed
          BY <1>2, <2>1, SlippedTyped DEF Missing, ListingIInv
        <5>2. Rank(k) <= Cardinality(Listed) /\ Rank(k) \in Nat
          BY <5>1, PlaceTyped
        <5>3. Cardinality(Listed) \in Nat /\ page * PerPage \in Int
          BY <1>3, AllFinite, ListingAssumption DEF Listed, In
        <5> QED BY <5>2, <5>3, <4>2, <2>6
      <4>4. /\ Cardinality(Missing') <= Cardinality(Slipped)
            /\ Cardinality(Missing') \in Nat
        BY <1>5, <4>3, FS_Subset, FS_CardinalityType
      <4> QED BY <1>2, <1>3, <1>5, <4>4 DEF ListingIInv, SlippedFew
    <3> QED BY <3>1, <3>2 DEF ListingTrue, Missing
  <2> QED BY <2>5, <2>9, <2>10, <1>4 DEF ListingIInv
<1> QED BY <1>6, <1>7

LEMMA ListingStepKeeps == ListingIInv /\ [ListingNext]_listingVars => ListingIInv'
<1> SUFFICES ASSUME ListingIInv, [ListingNext]_listingVars PROVE ListingIInv'
  OBVIOUS
<1>1. CASE UNCHANGED listingVars
  BY <1>1 DEF listingVars, ListingIInv, ListingShape, NewestLast, SlippedFew, Slipped,
              Missing, Rank, Listed, In, ListingTrue
<1>2. CASE AskFails
  BY <1>2 DEF AskFails, Outcome, ListingIInv, ListingShape, NewestLast, SlippedFew,
              Slipped, Missing, Rank, Listed, In, ListingTrue
<1>3. CASE ListingOver
  BY <1>1, <1>3 DEF ListingOver
<1> QED BY <1>1, <1>2, <1>3, ArriveKeeps, DepartKeeps, AskKeeps DEF ListingNext

\* A listing that succeeds hides at most as many running machines with a readable
\* row as rows left the account while it was read, and shows none that was over
\* before (list, machines): for any account, page size and limit of pages, and
\* whatever shapes, sibling arrays, newcomers and next pages come.
THEOREM ListingIsTrue == ListingSpec => []ListingTrue
<1>1. ListingIInv => ListingTrue
  BY DEF ListingIInv
<1> QED BY <1>1, ListingInitially, ListingStepKeeps, PTL DEF ListingSpec

(***************************************************************************)
(* Push sessions                                                           *)
(***************************************************************************)

Stages == {"preflight", "probe", "push", "pushing", "place", "placing", "verify",
           "invoke", "wait", "pull", "record", "done", "dead"}

LedgerRows == [by : Sessions, hash : {j.text : j \in Jobs}, real : BOOLEAN,
               artifact : {"none", "owed", "collected"}, held : Sessions \cup {0}]

SessionShape ==
  /\ job \in [Sessions -> Jobs]
  /\ at \in [Sessions -> Stages]
  /\ pod = [f \in Files |-> pod[f]]
  /\ disturbed \in [Sessions -> SUBSET Files]
  /\ ran = [s \in Sessions |-> ran[s]]
  /\ report \in [Sessions -> {"none", "ok", "failed"}]
  /\ pulled \in [Sessions -> {"none", "owed", "collected"}]
  /\ exit \in [Sessions -> {Running, 0, 1}]
  /\ {latest, kept} \subseteq Sessions \cup {0}
  /\ ledger \in Seq(LedgerRows)

\* Past its step 0, a session finds at the binary's path its own binary, or one
\* that does not run, unless another session wrote there since.
OwnBinary ==
  \A s \in Sessions :
    job[s].install /\ at[s] \in {"place", "placing", "verify", "invoke"} =>
      "binary" \in disturbed[s] \/ pod["binary"] \in {job[s].binary, "torn"}

\* Past its step 2, the profile it hashed.
OwnProfile ==
  \A s \in Sessions :
    job[s].verify /\ at[s] = "invoke" =>
      Profile(s) \in disturbed[s] \/ pod[Profile(s)] = job[s].text

Unstarted == {"preflight", "probe", "push", "pushing", "place", "placing", "verify",
              "invoke"}

NotYetRun == \A s \in Sessions : at[s] \in Unstarted => ran[s] = NoneRuns

ExitSaid == \A s \in Sessions : exit[s] # Running => at[s] = "done"

\* What is to be recorded of an artifact is that it is owed, or that it is there.
OwedOrKept ==
  \A s \in Sessions :
    at[s] = "record" /\ AfterReport(s) = "pull" =>
      pulled[s] = "owed" \/ (pulled[s] = "collected" /\ kept # 0)

SessionIInv ==
  /\ SessionShape
  /\ OwnBinary
  /\ OwnProfile
  /\ NotYetRun
  /\ RunsItsOwn
  /\ ExitSaid
  /\ OwedOrKept
  /\ ZeroMeansAll

LEMMA SessionInitially == SessionInit => SessionIInv
<1> SUFFICES ASSUME SessionInit PROVE SessionIInv
  OBVIOUS
<1>1. SessionShape
  BY DEF SessionInit, SessionShape, Stages
<1> QED BY <1>1 DEF SessionInit, SessionIInv, OwnBinary, OwnProfile, NotYetRun,
       RunsItsOwn, ExitSaid, OwedOrKept, ZeroMeansAll, Running

LEMMA FilesNamed ==
  ASSUME SessionShape, NEW s \in Sessions
  PROVE  "binary" \in Files /\ Profile(s) \in Files /\ Profile(s) # "binary"
BY SessionAssumption DEF SessionShape, Files, Profile

\* What an exit of 0 stands for.
ZeroIsAll(s) ==
  /\ report[s] = "ok" /\ pulled[s] # "owed"
  /\ Records(s) =>
       \E row \in Range(ledger) :
         /\ row.by = s
         /\ AfterReport(s) = "pull" => row.artifact = "collected" /\ row.held # 0

\* Nobody comes to an exit of 0, and what those who have it said stands.
AnswersStand ==
  \A o \in Sessions :
    exit'[o] = 0 => /\ exit[o] = 0
                    /\ report'[o] = report[o] /\ pulled'[o] = pulled[o]

LEMMA AnswersKeep ==
  ASSUME SessionIInv, UNCHANGED <<job, ledger>>, AnswersStand
  PROVE  ZeroMeansAll'
BY DEF SessionIInv, AnswersStand, ZeroMeansAll, Records, AfterReport

LEMMA AppendedRange ==
  ASSUME NEW S, NEW q \in Seq(S), NEW x \in S
  PROVE  Range(q) \subseteq Range(Append(q, x)) /\ x \in Range(Append(q, x))
<1>1. /\ \A i \in DOMAIN q : i \in DOMAIN Append(q, x) /\ Append(q, x)[i] = q[i]
      /\ Len(q) + 1 \in DOMAIN Append(q, x) /\ Append(q, x)[Len(q) + 1] = x
  OBVIOUS
<1> QED BY <1>1 DEF Range

LEMMA RowTyped ==
  ASSUME SessionShape, NEW s \in Sessions
  PROVE  LedgerRow(s) \in LedgerRows
BY DEF SessionShape, LedgerRow, LedgerRows

LEMMA SessionSteps ==
  ASSUME SessionIInv, NEW s \in Sessions,
         Steps(s) \/ InvocationEnds(s) \/ TransportFails(s) \/ Killed(s)
  PROVE  SessionIInv'
<1> USE DEF SessionIInv
<1>1. CASE Preflight(s)
  <2>1. SessionShape'
    BY <1>1 DEF Preflight, AfterPreflight, Goes, Ends, Reads, Untouched, Quiet,
       SessionShape, Stages
  <2>2. OwnBinary'
    BY <1>1 DEF Preflight, AfterPreflight, Goes, Ends, Reads, Untouched, SessionShape,
       OwnBinary
  <2>3. OwnProfile'
    BY <1>1, SMTT(60) DEF Preflight, AfterPreflight, Goes, Ends, Reads, Untouched, SessionShape,
       OwnProfile, Files, Profile
  <2>4. NotYetRun'
    BY <1>1 DEF Preflight, Goes, Ends, Reads, Untouched, SessionShape, NotYetRun,
       Unstarted
  <2>5. RunsItsOwn'
    BY <1>1 DEF Preflight, Reads, Untouched, RunsItsOwn, Profile
  <2>6. ExitSaid'
    BY <1>1 DEF Preflight, Goes, Ends, SessionShape, ExitSaid
  <2>7. OwedOrKept'
    BY <1>1 DEF Preflight, AfterPreflight, Goes, Ends, Reads, Untouched, Quiet,
       SessionShape, OwedOrKept, AfterReport
  <2>8. ZeroMeansAll'
    <3>1. UNCHANGED <<job, ledger>> /\ AnswersStand
      BY <1>1 DEF Preflight, Goes, Ends, Quiet, AnswersStand, SessionShape
    <3> QED BY <3>1, AnswersKeep
  <2> QED BY <2>1, <2>2, <2>3, <2>4, <2>5, <2>6, <2>7, <2>8
<1>2. CASE Probe(s)
  <2>1. SessionShape'
    BY <1>2 DEF Probe, Goes, Vouches, Untouched, Quiet, SessionShape, Stages
  <2>2. OwnBinary'
    BY <1>2 DEF Probe, Identical, Binary, Goes, Vouches, Untouched, OwnBinary
  <2>3. OwnProfile'
    BY <1>2 DEF Probe, Goes, Vouches, Untouched, OwnProfile, Profile
  <2>4. NotYetRun'
    BY <1>2 DEF Probe, Goes, Vouches, Untouched, NotYetRun, Unstarted
  <2>5. RunsItsOwn'
    BY <1>2 DEF Probe, Vouches, Untouched, RunsItsOwn, Unstarted, Profile, NotYetRun
  <2>6. ExitSaid'
    BY <1>2 DEF Probe, Goes, ExitSaid
  <2>7. OwedOrKept'
    BY <1>2 DEF Probe, Goes, Vouches, Untouched, Quiet, OwedOrKept, AfterReport
  <2>8. ZeroMeansAll'
    <3>1. UNCHANGED <<job, ledger>> /\ AnswersStand
      BY <1>2 DEF Probe, Goes, Quiet, AnswersStand
    <3> QED BY <3>1, AnswersKeep
  <2> QED BY <2>1, <2>2, <2>3, <2>4, <2>5, <2>6, <2>7, <2>8
<1>3. CASE Push(s)
  <2>1. SessionShape'
    <3>1. CASE Executed
      BY <1>3, <3>1, ZenonT(60) DEF Push, Ends, Reads, Untouched, Quiet, SessionShape, Stages
    <3>2. CASE ~Executed
      <4>1. pod' = [pod EXCEPT !["binary"] = "torn"] /\ "binary" \in Files
        BY <1>3, <3>2, FilesNamed DEF Push, Binary, Opens
      <4>2. disturbed' \in [Sessions -> SUBSET Files]
        BY <1>3, <3>2, <4>1 DEF Push, Binary, Opens, SessionShape
      <4>3. pod' = [f \in Files |-> pod'[f]]
        BY <4>1 DEF SessionShape
      <4>4. at' \in [Sessions -> Stages] /\ UNCHANGED exit
        BY <1>3, <3>2 DEF Push, Goes, SessionShape, Stages
      <4>5. UNCHANGED <<job, ran, report, pulled, latest, kept, ledger>>
        BY <1>3, <3>2 DEF Push, Opens, Quiet
      <4> QED BY <4>2, <4>3, <4>4, <4>5 DEF SessionShape
    <3> QED BY <3>1, <3>2
  <2>2. OwnBinary'
    BY <1>3, FilesNamed DEF Push, Binary, Ends, Reads, Untouched, Opens, SessionShape,
       OwnBinary
  <2>3. OwnProfile'
    <3>1. CASE Executed
      BY <1>3, <3>1 DEF Push, Ends, Reads, Untouched, SessionShape, OwnProfile, Profile
    <3>2. CASE ~Executed
      <4>1. pod' = [pod EXCEPT !["binary"] = "torn"]
        BY <1>3, <3>2 DEF Push, Binary, Opens
      <4>2. disturbed' = [o \in Sessions |-> IF o = s THEN disturbed[o]
                                             ELSE disturbed[o] \cup {"binary"}]
        BY <1>3, <3>2 DEF Push, Binary, Opens
      <4>3. at' = [at EXCEPT ![s] = "pushing"] /\ UNCHANGED job
        BY <1>3, <3>2 DEF Push, Goes, Opens
      <4>4. \A o \in Sessions : Profile(o)' = Profile(o) /\ pod'[Profile(o)] = pod[Profile(o)]
        BY <4>1, <4>3, FilesNamed DEF Profile
      <4> QED BY <4>2, <4>3, <4>4 DEF OwnProfile
    <3> QED BY <3>1, <3>2
  <2>4. NotYetRun'
    BY <1>3 DEF Push, Goes, Ends, Reads, Untouched, Opens, SessionShape, NotYetRun,
       Unstarted
  <2>5. RunsItsOwn'
    BY <1>3 DEF Push, Reads, Untouched, Opens, RunsItsOwn, Profile
  <2>6. ExitSaid'
    BY <1>3 DEF Push, Goes, Ends, SessionShape, ExitSaid
  <2>7. OwedOrKept'
    BY <1>3 DEF Push, Goes, Ends, Reads, Untouched, Opens, Quiet, SessionShape,
       OwedOrKept, AfterReport
  <2>8. ZeroMeansAll'
    <3>1. UNCHANGED <<job, ledger>> /\ AnswersStand
      BY <1>3 DEF Push, Goes, Ends, Opens, Quiet, AnswersStand, SessionShape
    <3> QED BY <3>1, AnswersKeep
  <2> QED BY <2>1, <2>2, <2>3, <2>4, <2>5, <2>6, <2>7, <2>8
<1>4. CASE Pushed(s)
  <2>1. SessionShape'
    BY <1>4, FilesNamed DEF Pushed, Binary, Goes, Closes, Quiet, SessionShape, Stages
  <2>2. OwnBinary'
    BY <1>4, FilesNamed DEF Pushed, Binary, Closes, SessionShape, OwnBinary
  <2>3. OwnProfile'
    BY <1>4 DEF Pushed, Goes, Closes, OwnProfile, Profile
  <2>4. NotYetRun'
    BY <1>4 DEF Pushed, Goes, Closes, NotYetRun, Unstarted
  <2>5. RunsItsOwn'
    BY <1>4 DEF Pushed, Closes, RunsItsOwn, Profile
  <2>6. ExitSaid'
    BY <1>4 DEF Pushed, Goes, ExitSaid
  <2>7. OwedOrKept'
    BY <1>4 DEF Pushed, Goes, Closes, Quiet, OwedOrKept, AfterReport
  <2>8. ZeroMeansAll'
    <3>1. UNCHANGED <<job, ledger>> /\ AnswersStand
      BY <1>4 DEF Pushed, Goes, Closes, Quiet, AnswersStand
    <3> QED BY <3>1, AnswersKeep
  <2> QED BY <2>1, <2>2, <2>3, <2>4, <2>5, <2>6, <2>7, <2>8
<1>5. CASE Place(s)
  <2>1. SessionShape'
    BY <1>5, FilesNamed DEF Place, Goes, Opens, Quiet, SessionShape, Stages
  <2>2. OwnBinary'
    BY <1>5 DEF Place, Goes, Opens, OwnBinary
  <2>3. OwnProfile'
    BY <1>5 DEF Place, Profile, Goes, Opens, OwnProfile
  <2>4. NotYetRun'
    BY <1>5 DEF Place, Goes, Opens, NotYetRun, Unstarted
  <2>5. RunsItsOwn'
    BY <1>5 DEF Place, Profile, Opens, RunsItsOwn
  <2>6. ExitSaid'
    BY <1>5 DEF Place, Goes, ExitSaid
  <2>7. OwedOrKept'
    BY <1>5 DEF Place, Goes, Opens, Quiet, OwedOrKept, AfterReport
  <2>8. ZeroMeansAll'
    <3>1. UNCHANGED <<job, ledger>> /\ AnswersStand
      BY <1>5 DEF Place, Goes, Opens, Quiet, AnswersStand
    <3> QED BY <3>1, AnswersKeep
  <2> QED BY <2>1, <2>2, <2>3, <2>4, <2>5, <2>6, <2>7, <2>8
<1>6. CASE Placed(s)
  <2>1. SessionShape'
    BY <1>6, FilesNamed DEF Placed, Goes, Closes, Quiet, SessionShape, Stages
  <2>2. OwnBinary'
    BY <1>6, FilesNamed DEF Placed, Goes, Closes, OwnBinary
  <2>3. OwnProfile'
    BY <1>6 DEF Placed, Profile, Goes, Closes, OwnProfile
  <2>4. NotYetRun'
    BY <1>6 DEF Placed, Goes, Closes, NotYetRun, Unstarted
  <2>5. RunsItsOwn'
    BY <1>6 DEF Placed, Profile, Closes, RunsItsOwn
  <2>6. ExitSaid'
    BY <1>6 DEF Placed, Goes, ExitSaid
  <2>7. OwedOrKept'
    BY <1>6 DEF Placed, Goes, Closes, Quiet, OwedOrKept, AfterReport
  <2>8. ZeroMeansAll'
    <3>1. UNCHANGED <<job, ledger>> /\ AnswersStand
      BY <1>6 DEF Placed, Goes, Closes, Quiet, AnswersStand
    <3> QED BY <3>1, AnswersKeep
  <2> QED BY <2>1, <2>2, <2>3, <2>4, <2>5, <2>6, <2>7, <2>8
<1>7. CASE Verify(s)
  <2>1. SessionShape'
    BY <1>7 DEF Verify, Goes, Ends, Vouches, Untouched, Quiet, SessionShape, Stages
  <2>2. OwnBinary'
    BY <1>7, FilesNamed DEF Verify, Goes, Ends, Vouches, Untouched, SessionShape,
       OwnBinary
  <2>3. OwnProfile'
    BY <1>7, FilesNamed, SMTT(60) DEF Verify, Matches, Runnable, Profile, Goes, Ends, Vouches,
       Untouched, Quiet, SessionShape, OwnProfile, Stages, Unstarted, Files, AfterReport
  <2>4. NotYetRun'
    BY <1>7 DEF Verify, Goes, Ends, Vouches, Untouched, SessionShape, NotYetRun, Unstarted
  <2>5. RunsItsOwn'
    BY <1>7 DEF Verify, Profile, Vouches, Untouched, RunsItsOwn, Unstarted, NotYetRun
  <2>6. ExitSaid'
    BY <1>7 DEF Verify, Goes, Ends, SessionShape, ExitSaid
  <2>7. OwedOrKept'
    BY <1>7 DEF Verify, Goes, Ends, Vouches, Untouched, Quiet, SessionShape, OwedOrKept,
       AfterReport
  <2>8. ZeroMeansAll'
    <3>1. UNCHANGED <<job, ledger>> /\ AnswersStand
      BY <1>7 DEF Verify, Goes, Ends, Quiet, AnswersStand, SessionShape
    <3> QED BY <3>1, AnswersKeep
  <2> QED BY <2>1, <2>2, <2>3, <2>4, <2>5, <2>6, <2>7, <2>8
<1>8. CASE Invoke(s)
  <2>1. SessionShape'
    BY <1>8 DEF Invoke, Goes, Ends, Quiet, SessionShape, Stages
  <2>2. OwnBinary'
    BY <1>8, FilesNamed DEF Invoke, Goes, Ends, SessionShape, OwnBinary
  <2>3. OwnProfile'
    BY <1>8 DEF Invoke, Profile, Goes, Ends, Quiet, SessionShape, OwnProfile
  <2>4. NotYetRun'
    BY <1>8 DEF Invoke, Goes, Ends, SessionShape, NotYetRun, Unstarted
  <2>5. RunsItsOwn'
    BY <1>8 DEF Invoke, Runnable, Binary, Profile, SessionShape, RunsItsOwn, OwnBinary,
       OwnProfile
  <2>6. ExitSaid'
    BY <1>8 DEF Invoke, Goes, Ends, SessionShape, ExitSaid
  <2>7. OwedOrKept'
    BY <1>8 DEF Invoke, Goes, Ends, Quiet, SessionShape, OwedOrKept, AfterReport
  <2>8. ZeroMeansAll'
    <3>1. UNCHANGED <<job, ledger>> /\ AnswersStand
      BY <1>8 DEF Invoke, Goes, Ends, Quiet, AnswersStand, SessionShape
    <3> QED BY <3>1, AnswersKeep
  <2> QED BY <2>1, <2>2, <2>3, <2>4, <2>5, <2>6, <2>7, <2>8
<1>9. CASE Pull(s)
  <2>1. SessionShape'
    BY <1>9 DEF Pull, Lands, PulledAs, Goes, SessionShape, Stages
  <2>2. OwnBinary'
    BY <1>9 DEF Pull, Goes, OwnBinary
  <2>3. OwnProfile'
    BY <1>9 DEF Pull, Goes, OwnProfile, Profile
  <2>4. NotYetRun'
    BY <1>9 DEF Pull, Goes, NotYetRun, Unstarted
  <2>5. RunsItsOwn'
    BY <1>9 DEF Pull, RunsItsOwn, Profile
  <2>6. ExitSaid'
    BY <1>9 DEF Pull, Goes, ExitSaid
  <2>7. OwedOrKept'
    BY <1>9 DEF Pull, Lands, PulledAs, Goes, SessionShape, OwedOrKept, AfterReport
  <2>8. ZeroMeansAll'
    <3>1. UNCHANGED <<job, ledger>> /\ AnswersStand
      BY <1>9 DEF Pull, Goes, AnswersStand, ExitSaid, Running
    <3> QED BY <3>1, AnswersKeep
  <2> QED BY <2>1, <2>2, <2>3, <2>4, <2>5, <2>6, <2>7, <2>8
<1>10. CASE Record(s)
  <2>1. SessionShape'
    <3>1. LedgerRow(s) \in LedgerRows
      BY RowTyped
    <3>2. ledger' \in Seq(LedgerRows)
      BY <1>10, <3>1 DEF Record, SessionShape
    <3> QED BY <1>10, <3>2 DEF Record, ExitOf, Ends, Reads, Untouched, SessionShape,
           Stages
  <2>2. OwnBinary'
    BY <1>10 DEF Record, Ends, Reads, Untouched, OwnBinary
  <2>3. OwnProfile'
    BY <1>10 DEF Record, Ends, Reads, Untouched, OwnProfile, Profile
  <2>4. NotYetRun'
    BY <1>10 DEF Record, Ends, Reads, Untouched, NotYetRun, Unstarted
  <2>5. RunsItsOwn'
    BY <1>10 DEF Record, Reads, Untouched, RunsItsOwn, Profile
  <2>6. ExitSaid'
    BY <1>10 DEF Record, Ends, SessionShape, ExitSaid
  <2>7. OwedOrKept'
    BY <1>10 DEF Record, Ends, Reads, Untouched, OwedOrKept, AfterReport
  <2>8. ZeroMeansAll'
    <3>1. PICK appended \in BOOLEAN :
            /\ appended => Records(s)
            /\ ledger' = IF appended THEN Append(ledger, LedgerRow(s)) ELSE ledger
            /\ Ends(s, ExitOf(s, appended))
      BY <1>10 DEF Record
    <3>2. UNCHANGED <<job, report, pulled>> /\ at[s] = "record"
      BY <1>10 DEF Record
    <3>7. LedgerRow(s) \in LedgerRows /\ ledger \in Seq(LedgerRows)
      BY RowTyped DEF SessionShape
    <3>8. /\ Range(ledger) \subseteq Range(Append(ledger, LedgerRow(s)))
          /\ LedgerRow(s) \in Range(Append(ledger, LedgerRow(s)))
      BY <3>7, AppendedRange
    <3>3. Range(ledger) \subseteq Range(ledger')
      BY <3>1, <3>8
    <3>4. appended => LedgerRow(s) \in Range(ledger')
      BY <3>1, <3>8
    <3>5. ASSUME NEW o \in Sessions, exit'[o] = 0, o # s
          PROVE  ZeroIsAll(o)'
      <4>1. exit[o] = 0
        BY <3>1, <3>5 DEF Ends
      <4>2. ZeroIsAll(o)
        BY <4>1 DEF ZeroMeansAll, ZeroIsAll
      <4> QED BY <4>2, <3>2, <3>3 DEF ZeroIsAll, Records, AfterReport
    <3>6. ASSUME exit'[s] = 0 PROVE ZeroIsAll(s)'
      <4>1. report[s] = "ok" /\ (Records(s) => appended) /\ pulled[s] # "owed"
        BY <3>1, <3>6 DEF Ends, ExitOf, SessionShape
      <4>2. AfterReport(s) = "pull" => pulled[s] = "collected" /\ kept # 0
        BY <4>1, <3>2 DEF OwedOrKept
      <4> QED BY <4>1, <4>2, <3>2, <3>4 DEF ZeroIsAll, Records, AfterReport, LedgerRow
    <3> QED BY <3>5, <3>6 DEF ZeroMeansAll, ZeroIsAll
  <2> QED BY <2>1, <2>2, <2>3, <2>4, <2>5, <2>6, <2>7, <2>8
<1>11. CASE InvocationEnds(s)
  <2>1. SessionShape'
    BY <1>11, FilesNamed, SMTT(60) DEF InvocationEnds, Goes, SessionShape, Stages, Unstarted,
       Files, Profile, AfterReport
  <2>2. OwnBinary'
    BY <1>11 DEF InvocationEnds, Goes, SessionShape, OwnBinary, AfterReport
  <2>3. OwnProfile'
    BY <1>11 DEF InvocationEnds, Goes, SessionShape, OwnProfile, Profile, AfterReport
  <2>4. NotYetRun'
    BY <1>11 DEF InvocationEnds, Goes, SessionShape, NotYetRun, Unstarted, AfterReport
  <2>5. RunsItsOwn'
    BY <1>11 DEF InvocationEnds, RunsItsOwn, Profile
  <2>6. ExitSaid'
    BY <1>11 DEF InvocationEnds, Goes, SessionShape, ExitSaid
  <2>7. OwedOrKept'
    BY <1>11 DEF InvocationEnds, Goes, SessionShape, OwedOrKept, AfterReport
  <2>8. ZeroMeansAll'
    <3>1. UNCHANGED <<job, ledger>> /\ AnswersStand
      BY <1>11 DEF InvocationEnds, Goes, AnswersStand, ExitSaid, SessionShape, Running
    <3> QED BY <3>1, AnswersKeep
  <2> QED BY <2>1, <2>2, <2>3, <2>4, <2>5, <2>6, <2>7, <2>8
<1>12. CASE TransportFails(s)
  <2>1. SessionShape'
    BY <1>12 DEF TransportFails, Ends, Quiet, SessionShape, Stages
  <2>2. OwnBinary'
    BY <1>12 DEF TransportFails, Ends, OwnBinary
  <2>3. OwnProfile'
    BY <1>12 DEF TransportFails, Ends, OwnProfile, Profile
  <2>4. NotYetRun'
    BY <1>12 DEF TransportFails, Ends, NotYetRun, Unstarted
  <2>5. RunsItsOwn'
    BY <1>12 DEF TransportFails, RunsItsOwn, Profile
  <2>6. ExitSaid'
    BY <1>12 DEF TransportFails, Ends, SessionShape, ExitSaid
  <2>7. OwedOrKept'
    BY <1>12 DEF TransportFails, Ends, Quiet, OwedOrKept, AfterReport
  <2>8. ZeroMeansAll'
    <3>1. UNCHANGED <<job, ledger>> /\ AnswersStand
      BY <1>12 DEF TransportFails, Ends, Quiet, AnswersStand
    <3> QED BY <3>1, AnswersKeep
  <2> QED BY <2>1, <2>2, <2>3, <2>4, <2>5, <2>6, <2>7, <2>8
<1>13. CASE Killed(s)
  <2>1. SessionShape'
    BY <1>13 DEF Killed, Quiet, SessionShape, Stages
  <2>2. OwnBinary'
    BY <1>13 DEF Killed, OwnBinary
  <2>3. OwnProfile'
    BY <1>13 DEF Killed, OwnProfile, Profile
  <2>4. NotYetRun'
    BY <1>13 DEF Killed, NotYetRun, Unstarted
  <2>5. RunsItsOwn'
    BY <1>13 DEF Killed, RunsItsOwn, Profile
  <2>6. ExitSaid'
    BY <1>13 DEF Killed, ExitSaid
  <2>7. OwedOrKept'
    BY <1>13 DEF Killed, Quiet, OwedOrKept, AfterReport
  <2>8. ZeroMeansAll'
    <3>1. UNCHANGED <<job, ledger>> /\ AnswersStand
      BY <1>13 DEF Killed, Quiet, AnswersStand
    <3> QED BY <3>1, AnswersKeep
  <2> QED BY <2>1, <2>2, <2>3, <2>4, <2>5, <2>6, <2>7, <2>8
<1> QED BY <1>1, <1>2, <1>3, <1>4, <1>5, <1>6, <1>7, <1>8, <1>9, <1>10, <1>11, <1>12,
       <1>13 DEF Steps

LEMMA SessionStepKeeps == SessionIInv /\ [SessionNext]_sessionVars => SessionIInv'
<1> SUFFICES ASSUME SessionIInv, [SessionNext]_sessionVars PROVE SessionIInv'
  OBVIOUS
<1>1. CASE UNCHANGED sessionVars
  <2>1. SessionShape'
    BY <1>1 DEF sessionVars, SessionIInv, SessionShape
  <2>2. OwnBinary' /\ OwnProfile' /\ NotYetRun' /\ RunsItsOwn'
    BY <1>1 DEF sessionVars, SessionIInv, OwnBinary, OwnProfile, NotYetRun, RunsItsOwn,
       Profile
  <2>3. ExitSaid' /\ OwedOrKept' /\ ZeroMeansAll'
    BY <1>1 DEF sessionVars, SessionIInv, ExitSaid, OwedOrKept, ZeroMeansAll,
       AfterReport, Records
  <2> QED BY <2>1, <2>2, <2>3 DEF SessionIInv
<1>2. CASE AllOver
  BY <1>1, <1>2 DEF AllOver
<1> QED BY <1>1, <1>2, SessionSteps DEF SessionNext

\* However many sessions share a pod, and wherever each is cut off: what one
\* invokes is its own binary on the profile it hashed, unless it was asked to skip
\* that step or another session wrote the file since (ensure_binary, run's step 2).
THEOREM SessionRunsItsOwn == SessionSpec => []RunsItsOwn
<1>1. SessionIInv => RunsItsOwn
  BY DEF SessionIInv
<1> QED BY <1>1, SessionInitially, SessionStepKeeps, PTL DEF SessionSpec

\* A session exits 0 only on a report that is ok, with its row in the ledger and
\* its artifact at the destination where one was declared (exit_status).
THEOREM SessionZeroMeansAll == SessionSpec => []ZeroMeansAll
<1>1. SessionIInv => ZeroMeansAll
  BY DEF SessionIInv
<1> QED BY <1>1, SessionInitially, SessionStepKeeps, PTL DEF SessionSpec
=============================================================================
