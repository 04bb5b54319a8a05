-------------------------------- MODULE MCPod --------------------------------
(***************************************************************************)
(* What an apply sets going on its pod: a service (Launch), a connection   *)
(* through the egress proxy (Proxy) and a pinned command (HardPin).  They  *)
(* share no state, so a behaviour here is a behaviour of one of them while *)
(* the others rest, each in a state that ends it.                          *)
(***************************************************************************)
EXTENDS Launch, Proxy, HardPin

\* Whom a hello may name beside nobody: the host of the head, another, or what
\* cannot be read.
Same == 40
Another == 41
Garbled == 43

Hello(name, size, cuts) ==
  [head |-> 2, connect |-> TRUE, allowed |-> TRUE, port |-> TRUE, host |-> Same,
   name |-> name, size |-> size, cuts |-> cuts, alien |-> 0, after |-> 1, missing |-> 0]

\* Hellos whole and in pieces, cut short at every byte, with a foreign record, past
\* the cap; no hello; heads up to, at and past theirs; and every refusal.
PodTalks ==
  {Hello(name, 3, cuts) : name \in {Same, Another, NoName, Garbled},
                          cuts \in {<<5>>, <<3, 5>>, <<1, 1, 5>>, <<5, 5>>, <<7>>}}
  \cup {[Hello(Same, 3, <<2, 5>>) EXCEPT !.missing = m] : m \in 0 .. 14}
  \cup {[Hello(Same, 3, <<2, 5>>) EXCEPT !.alien = a] : a \in 1 .. 2}
  \cup {[Hello(Same, 3, <<>>) EXCEPT !.head = h, !.after = 3] : h \in {0, 5, 6}}
  \cup {Hello(Same, 9, <<11>>), Hello(Same, 7, <<5, 9>>), Hello(Another, 2, <<2, 3>>),
        Hello(Same, 6, <<1, 2, 3, 4, 5, 6, 7, 8>>)}
  \cup {[Hello(Same, 3, <<5>>) EXCEPT !.connect = c, !.allowed = a, !.port = p] :
          c, a, p \in BOOLEAN}

Syscall(op, dests) == [op |-> op, dests |-> dests]

\* Destinations allowed, refused, none, and a zero family each way; what is
\* rewritten is refused.
PodCalls ==
  {Syscall("connect", <<"near">>), Syscall("connect", <<"unspec">>),
   Syscall("connect", <<"local">>),
   Syscall("sendto", <<"unspec">>), Syscall("sendmsg", <<"null">>),
   Syscall("sendmmsg", <<"near", "elsewhere">>), Syscall("sendmmsg", <<>>)}

-----------------------------------------------------------------------------

LaunchRests ==
  /\ declared = [a \in Applies |-> [argv |-> CHOOSE v \in Argvs : TRUE, launches |-> FALSE]]
  /\ doing = "over" /\ current = LastApply
  /\ proc = [p \in Pids |-> [life |-> "free", argv |-> "none"]]
  /\ pidFile = Absent /\ armed = FALSE /\ passes = 0 /\ witnessed = {}
  /\ verdict = [a \in Applies |-> "ready"] /\ lost = FALSE

ProxyRests ==
  /\ talk = CHOOSE t \in PodTalks : ~t.connect
  /\ stage = "over" /\ unread = <<>> /\ inHand = <<>> /\ consumed = 0
  /\ handshake = <<>> /\ upstream = <<>> /\ fate = "405" /\ stalled = FALSE

PinRests ==
  /\ mode = "emulated" /\ main = "over" /\ spawned = FALSE /\ helper = "failed"
  /\ child = "failed" /\ left = "none"
  /\ ends = [p \in {"runner", "child"} |-> {}]
  /\ note = FALSE /\ ack = FALSE /\ holders = {}
  /\ call = [t \in Tracees |-> NoCall]
  /\ supervisor = "none" /\ handling = NothingHandled /\ stop = FALSE
  /\ broke = FALSE /\ reached = NoCall /\ unsettled = {}

PodInit ==
  \/ LaunchInit /\ ProxyRests /\ PinRests
  \/ ProxyInit /\ LaunchRests /\ PinRests
  \/ PinInit /\ LaunchRests /\ ProxyRests

PodNext ==
  \/ LaunchNext /\ UNCHANGED <<proxyVars, pinVars>>
  \/ ProxyNext /\ UNCHANGED <<launchVars, pinVars>>
  \/ PinNext /\ UNCHANGED <<launchVars, proxyVars>>

\* The fairness of each component's own specification.
PodSpec ==
  /\ PodInit /\ [][PodNext]_<<launchVars, proxyVars, pinVars>>
  /\ LaunchFairness /\ ProxyFairness /\ PinFairness

-----------------------------------------------------------------------------

\* What must end ends: applies that poll a service, connections short of their
\* tunnel, and pinned commands, with no descriptor left, short of a connect that
\* never comes back.
PodLives == AppliesEnd /\ ConnectionsSettle /\ PinReturns
=============================================================================
