------------------------------ MODULE Forward -------------------------------
(***************************************************************************)
(* Port forwards of one host: `port-forward` in the foreground and with    *)
(* --detach (crates/lm-provision-driver/src/ssh.rs, forward and bound;     *)
(* main.rs, run_port_forward and record_forward), the ssh each one starts, *)
(* and the record of what was left running.                                *)
(*                                                                         *)
(* Several commands run at once on the same ports and the same record; a   *)
(* command is asked to stop, or is killed, at any step.  The start time a  *)
(* row carries makes its pid the name of one process, so rows name theirs. *)
(***************************************************************************)
EXTENDS Integers

CONSTANTS
  Commands,   \* the port-forward commands
  Ports       \* local ports

VARIABLES
  wanted,     \* of each command: [detach, port]
  step,       \* and where it stands
  ssh,        \* its ssh: "none", "dialling", "bound", "over"
  holder,     \* of each port: a command whose ssh is bound, Foreign or Nobody
  relays,     \* the command's handler is installed and names its ssh
  halted,     \* how it was asked to stop: "no", "early", "late", "killed"
  rows,       \* the forwards record: the commands whose rows it holds, in no order
  seen,       \* what the command read of it
  overlapped, \* another command was rewriting the record at the same time
  answer      \* its exit code

forwardVars == <<wanted, step, ssh, holder, relays, halted, rows, seen, overlapped,
                 answer>>

Nobody == 0
Foreign == -1
NoAnswer == -1

ASSUME ForwardAssumption == Commands \cap {Nobody, Foreign} = {}

ForwardInit ==
  /\ wanted \in [Commands -> [detach : BOOLEAN, port : Ports]]
  /\ step = [c \in Commands |-> "spawn"]
  /\ ssh = [c \in Commands |-> "none"]
  /\ holder \in [Ports -> {Nobody, Foreign}]
  /\ relays = [c \in Commands |-> FALSE]
  /\ halted = [c \in Commands |-> "no"]
  /\ rows = {} /\ seen = [c \in Commands |-> {}]
  /\ overlapped = [c \in Commands |-> FALSE]
  /\ answer = [c \in Commands |-> NoAnswer]

To(c, next) == step' = [step EXCEPT ![c] = next] /\ UNCHANGED answer
Leaves(c, code) == /\ step' = [step EXCEPT ![c] = "over"]
                   /\ answer' = [answer EXCEPT ![c] = code]

RecordKept == UNCHANGED <<rows, seen, overlapped>>
Relay(c, to) == relays' = [relays EXCEPT ![c] = to]

\* c's ssh ends, and lets go of its port.
SshOver(c) ==
  /\ ssh' = [ssh EXCEPT ![c] = "over"]
  /\ holder' = [p \in Ports |-> IF holder[p] = c THEN Nobody ELSE holder[p]]

-----------------------------------------------------------------------------
(* The ssh: -N, ExitOnForwardFailure=yes                                    *)

Binds(c) ==
  /\ ssh[c] = "dialling"
  /\ holder[wanted[c].port] = Nobody
  /\ ssh' = [ssh EXCEPT ![c] = "bound"]
  /\ holder' = [holder EXCEPT ![wanted[c].port] = c]
  /\ UNCHANGED <<wanted, step, relays, halted, answer>> /\ RecordKept

\* The dial, the bind or the connection fails, or an operator kills it.
Drops(c) ==
  /\ ssh[c] \in {"dialling", "bound"}
  /\ SshOver(c)
  /\ UNCHANGED <<wanted, step, relays, halted, answer>> /\ RecordKept

-----------------------------------------------------------------------------
(* forward                                                                  *)

Spawn(c) ==
  /\ step[c] = "spawn"
  /\ ssh' = [ssh EXCEPT ![c] = "dialling"]
  /\ To(c, IF wanted[c].detach THEN "probe" ELSE "arm")
  /\ UNCHANGED <<wanted, holder, relays, halted>> /\ RecordKept

\* Mutant: a command that gives up leaves its ssh dialling.
GivesUpAlone(c) == UNCHANGED <<ssh, holder>>

\* child.kill and child.wait, where the command gives up.
GivesUp(c) == SshOver(c)

\* The pid is published and the handlers installed, or the ssh goes too.
Arm(c) ==
  /\ step[c] = "arm"
  /\ \/ Relay(c, TRUE) /\ To(c, "probe") /\ UNCHANGED <<ssh, holder>>
     \/ GivesUp(c) /\ Leaves(c, 1) /\ UNCHANGED relays
  /\ UNCHANGED <<wanted, halted>> /\ RecordKept

\* bound, one pass: ssh ended; or the port accepts, whoever holds it; or the
\* deadline has passed and the child is killed.
ProbePort(c) ==
  /\ step[c] = "probe"
  /\ \/ /\ ssh[c] = "over"
        /\ IF wanted[c].detach THEN Leaves(c, 1) ELSE To(c, "disarm")
        /\ UNCHANGED <<ssh, holder>>
     \/ /\ ssh[c] # "over" /\ holder[wanted[c].port] # Nobody
        /\ To(c, IF wanted[c].detach THEN "list" ELSE "carry")
        /\ UNCHANGED <<ssh, holder>>
     \/ /\ ssh[c] # "over" /\ holder[wanted[c].port] = Nobody
        /\ GivesUp(c)
        /\ IF wanted[c].detach THEN Leaves(c, 1) ELSE To(c, "disarm")
  /\ UNCHANGED <<wanted, relays, halted>> /\ RecordKept

\* The foreground command returns when its ssh does.
Carry(c) ==
  /\ step[c] = "carry" /\ ssh[c] = "over"
  /\ To(c, "disarm")
  /\ UNCHANGED <<wanted, ssh, holder, relays, halted>> /\ RecordKept

Disarm(c) ==
  /\ step[c] = "disarm"
  /\ Relay(c, FALSE) /\ \E code \in {0, 1} : Leaves(c, code)
  /\ UNCHANGED <<wanted, ssh, holder, halted>> /\ RecordKept

-----------------------------------------------------------------------------
(* record_forward                                                           *)

Recording == {"rewrite", "append"}
Beside(c) == \E o \in Commands \ {c} : step[o] \in Recording

\* Mutant: a row is live as long as the command that opened it.
UpByCommand(row) == step[row] # "over"

\* forward_is_live: the process the row names is there.
Up(row) == ssh[row] # "over"

\* The record is read; one that cannot be is appended to as it is.
List(c) ==
  /\ step[c] = "list"
  /\ seen' = [seen EXCEPT ![c] = {row \in rows : Up(row)}]
  /\ overlapped' = [o \in Commands |->
                      overlapped[o] \/ (IF o = c THEN Beside(c) ELSE step[o] \in Recording)]
  /\ \E readable \in BOOLEAN : To(c, IF readable THEN "rewrite" ELSE "append")
  /\ UNCHANGED <<wanted, ssh, holder, relays, halted, rows>>

\* Written aside and renamed, or the row is not recorded: a warning.
Rewrite(c) ==
  /\ step[c] = "rewrite"
  /\ \/ rows' = seen[c] /\ To(c, "append")
     \/ Leaves(c, 0) /\ UNCHANGED rows
  /\ UNCHANGED <<wanted, ssh, holder, relays, halted, seen, overlapped>>

AppendRow(c) ==
  /\ step[c] = "append"
  /\ rows' \in {rows \cup {c}, rows}
  /\ Leaves(c, 0)
  /\ UNCHANGED <<wanted, ssh, holder, relays, halted, seen, overlapped>>

-----------------------------------------------------------------------------
(* Stopping a command                                                       *)

Stoppable(c) == step[c] \notin {"spawn", "over"}

\* SIGINT, SIGTERM or SIGHUP to the command alone: the handler passes it on and
\* the command goes on waiting (relay_to_forward).
Signal(c) ==
  /\ Stoppable(c) /\ halted[c] = "no"
  /\ halted' = [halted EXCEPT ![c] = IF relays[c] THEN "late" ELSE "early"]
  /\ IF relays[c]
       THEN SshOver(c) /\ UNCHANGED <<step, answer>>
       ELSE Leaves(c, 1) /\ UNCHANGED <<ssh, holder>>
  /\ UNCHANGED <<wanted, relays>> /\ RecordKept

\* A signal no handler sees.
Kill(c) ==
  /\ Stoppable(c)
  /\ halted' = [halted EXCEPT ![c] = "killed"]
  /\ Leaves(c, 1)
  /\ UNCHANGED <<wanted, ssh, holder, relays>> /\ RecordKept

ForwardOver == (\A c \in Commands : step[c] = "over") /\ UNCHANGED forwardVars

Advance(c) == \/ Spawn(c) \/ Arm(c) \/ ProbePort(c) \/ Carry(c) \/ Disarm(c)
              \/ List(c) \/ Rewrite(c) \/ AppendRow(c)

ForwardNext ==
  \/ \E c \in Commands : Advance(c) \/ Binds(c) \/ Drops(c) \/ Signal(c) \/ Kill(c)
  \/ ForwardOver

\* The host runs the command; nothing is assumed of its ssh.
ForwardFairness == \A c \in Commands : WF_forwardVars(Advance(c))

ForwardSpec == ForwardInit /\ [][ForwardNext]_forwardVars /\ ForwardFairness

-----------------------------------------------------------------------------
(* Properties                                                               *)

ForwardTypeOK ==
  /\ wanted \in [Commands -> [detach : BOOLEAN, port : Ports]]
  /\ ssh \in [Commands -> {"none", "dialling", "bound", "over"}]
  /\ holder \in [Ports -> Commands \cup {Nobody, Foreign}]
  /\ \A p \in Ports : holder[p] \in Commands => ssh[holder[p]] = "bound"
  /\ rows \subseteq Commands

\* A foreground command that has ended has taken its ssh with it, unless it was
\* killed outright or asked to stop before its handler was there.
StopTakesSsh ==
  \A c \in Commands :
    step[c] = "over" /\ ~wanted[c].detach /\ ssh[c] # "over" =>
      halted[c] \in {"early", "killed"}

\* A tunnel that was recorded stays in the record as long as it is up, however
\* many commands rewrite the record over one another: the only row they lose is
\* that of a command which was at the record at the same time as another.
RowOutlivesCommand ==
  [][\A c \in Commands :
       c \in rows /\ c \notin rows' => ssh[c] = "over" \/ overlapped[c]]_forwardVars

\* A command comes to its answer, or carries a forward that is up.
ForwardsEnd == \A c \in Commands : <>(step[c] \in {"over", "carry"})
=============================================================================
