------------------------------ MODULE HardPin -------------------------------
(***************************************************************************)
(* One pinned command (crates/lm-provision/src/egress/hardpin.rs,          *)
(* run_pinned): the fork, the hand-off of the notification listener over a *)
(* socket pair, and the supervisor that answers the command's trapped      *)
(* calls until the command and the pipes it was given are done with.       *)
(*                                                                         *)
(* A listener, a socket's end and an end-of-file are who still holds what: *)
(* the child inherits both ends by fork, and a call trapped by a filter    *)
(* whose listener nobody holds fails with ENOSYS.  The command may leave a *)
(* process behind, and a thread of it may write to memory at any time.     *)
(***************************************************************************)
EXTENDS Integers, Sequences, FiniteSets, SequencesExt

CONSTANT CallSet  \* the calls a process makes: [op, dests]

Ops == {"connect", "sendto", "sendmsg", "sendmmsg"}
Dests == {"null", "local", "near", "unspec", "elsewhere"}

ASSUME PinAssumption == CallSet \subseteq [op : Ops, dests : Seq(Dests)]

VARIABLES
  mode,       \* whether the host permits pidfd_getfd
  main,       \* the thread that called run_pinned
  spawned,    \* Command::spawn gave it a child
  helper,     \* the thread that receives the listener
  child,      \* the command's process
  left,       \* the one it leaves behind; a "loud" one holds the pipes
  ends,       \* the ends of the socket pair each process holds
  note,       \* what the child wrote to it, not read yet
  ack,        \* what the helper wrote
  holders,    \* who holds the listener; "wire" while it travels
  call,       \* each process's trapped call
  supervisor, \* "parked" in a connect it performs for the command
  handling, stop,
  broke,      \* the supervisor gave up on a failed ioctl, or panicked
  reached,    \* the last call performed
  unsettled   \* the processes a call of which nobody was there to answer

pinVars == <<mode, main, spawned, helper, child, left, ends, note, ack, holders,
             call, supervisor, handling, stop, broke, reached, unsettled>>

Tracees == {"child", "left"}
NoCall == [op |-> "none", dests |-> <<>>]
NothingHandled == [who |-> "none", plan |-> "none", copy |-> NoCall, fresh |-> FALSE]

PinInit ==
  /\ mode \in {"emulated", "connect only"}
  /\ main = "spawning" /\ spawned = FALSE /\ helper = "reading"
  /\ child = "unborn" /\ left = "none"
  /\ ends = [runner |-> {"parent", "child"}, child |-> {}]
  /\ note = FALSE /\ ack = FALSE /\ holders = {}
  /\ call = [t \in Tracees |-> NoCall]
  /\ supervisor = "none" /\ handling = NothingHandled /\ stop = FALSE
  /\ broke = FALSE /\ reached = NoCall /\ unsettled = {}

\* Nobody is left to write to the other end.
EndOfFile(end) == \A p \in {"runner", "child"} : end \notin ends[p]

HandOff == <<note, ack>>
Supervision == <<supervisor, handling, stop, broke>>
Calls == <<call, reached, unsettled>>

-----------------------------------------------------------------------------
(* The child: install_and_signal, and what it runs                          *)

\* Command::spawn forks, or cannot.
Fork ==
  /\ main = "spawning" /\ child = "unborn"
  /\ \/ child' = "forked" /\ ends' = [ends EXCEPT !.child = ends.runner]
     \/ child' = "failed" /\ UNCHANGED ends
  /\ UNCHANGED <<mode, main, spawned, helper, left, holders, HandOff, Supervision, Calls>>

\* Mutant: the child keeps the end it inherited.
KeepsInherited == ends.child

\* The close without which a failed hand-off is no end-of-file.
KeepsItsOwn == ends.child \ {"parent"}

\* A process that is no more holds nothing.
ChildGone(how) ==
  /\ child' = how
  /\ ends' = [ends EXCEPT !.child = {}]
  /\ holders' = holders \ {"child"}

ChildQuiet ==
  UNCHANGED <<mode, main, spawned, helper, left, Supervision, Calls>>

Install ==
  /\ child = "forked"
  /\ \/ /\ child' = "filtered" /\ ends' = [ends EXCEPT !.child = KeepsItsOwn]
        /\ holders' = {"child"}
     \/ ChildGone("failed")
  /\ UNCHANGED HandOff /\ ChildQuiet

\* Its pid and the listener's number, or the listener itself.
Tell ==
  /\ child = "filtered"
  /\ child' = "told" /\ note' = TRUE
  /\ holders' = holders \cup (IF mode = "connect only" THEN {"wire"} ELSE {})
  /\ UNCHANGED <<ack, ends>> /\ ChildQuiet

\* The ack, the listener closed, and the exec; or the end of the file.
Exec ==
  /\ child = "told"
  /\ \/ /\ ack /\ child' = "running"
        /\ holders' = holders \ {"child"}
        /\ ends' = [ends EXCEPT !.child = {}]
     \/ (ack \/ EndOfFile("parent")) /\ ChildGone("failed")
  /\ UNCHANGED HandOff /\ ChildQuiet

Leave ==
  /\ child = "running" /\ call["child"] = NoCall /\ left = "none"
  /\ left' \in {"quiet", "loud"}
  /\ UNCHANGED <<mode, main, spawned, helper, child, ends, holders, HandOff,
                 Supervision, Calls>>

Exit ==
  /\ child = "running" /\ call["child"] = NoCall
  /\ ChildGone("over")
  /\ UNCHANGED HandOff /\ ChildQuiet

\* It ends, or lives on without the pipes and without a call before the return.
Quieten ==
  /\ left \in {"quiet", "loud"} /\ call["left"] = NoCall
  /\ left' \in {"silent", "over"}
  /\ UNCHANGED <<mode, main, spawned, helper, child, ends, holders, HandOff,
                 Supervision, Calls>>

Cancelled(t) ==
  /\ call' = [call EXCEPT ![t] = NoCall]
  /\ handling' = IF handling.who = t THEN [handling EXCEPT !.fresh = FALSE] ELSE handling

\* A signal from outside, at any time.
Kill ==
  /\ child \in {"forked", "filtered", "told", "running"}
  /\ ChildGone("over") /\ Cancelled("child")
  /\ UNCHANGED <<mode, main, spawned, helper, left, HandOff, supervisor, stop, broke,
                 reached, unsettled>>

-----------------------------------------------------------------------------
(* The calls                                                                *)

Trapped == IF mode = "emulated" THEN Ops ELSE {"connect"}

Alive(t) == IF t = "child" THEN child = "running"
            ELSE left \in {"quiet", "loud"} \/ (left = "silent" /\ main = "over")

Call(t) ==
  /\ Alive(t) /\ call[t] = NoCall
  /\ \E c \in CallSet : c.op \in Trapped /\ call' = [call EXCEPT ![t] = c]
  /\ UNCHANGED <<mode, main, spawned, helper, child, left, ends, holders, reached,
                 unsettled, HandOff, Supervision>>

\* A destination in a register stays; in memory, it may become another.
Rewrite(t) ==
  /\ \E i \in DOMAIN call[t].dests :
       /\ call[t].op \in {"connect", "sendto"} => call[t].dests[i] # "null"
       /\ call[t].dests[i] # "elsewhere"
       /\ call' = [call EXCEPT ![t].dests[i] = "elsewhere"]
  /\ UNCHANGED <<mode, main, spawned, helper, child, left, ends, holders, reached,
                 unsettled, HandOff, Supervision>>

\* A signal interrupts the call; its notification is void.
Interrupt(t) ==
  /\ call[t] # NoCall
  /\ Cancelled(t)
  /\ UNCHANGED <<mode, main, spawned, helper, child, left, ends, holders, reached,
                 unsettled, HandOff, supervisor, stop, broke>>

Enosys(t) ==
  /\ call[t] # NoCall /\ holders = {}
  /\ call' = [call EXCEPT ![t] = NoCall]
  /\ unsettled' = unsettled \cup {t}
  /\ UNCHANGED <<mode, main, spawned, helper, child, left, ends, holders, reached,
                 HandOff, Supervision>>

-----------------------------------------------------------------------------
(* The helper: lift_listener and recv_listener                              *)

HelperEnds(with, held) ==
  /\ helper' = with
  /\ holders' = held
  /\ ends' = [ends EXCEPT !.runner = @ \ {"parent"}]
  /\ UNCHANGED <<mode, main, spawned, child, left, Supervision, Calls>>

\* The number means something while the child lives and waits; with it or with
\* the listener itself, receiving, pidfd_getfd or the ack may fail at any time.
Receive ==
  /\ helper = "reading" /\ note /\ note' = FALSE
  /\ \/ /\ mode = "connect only" \/ "child" \in holders
        /\ ~EndOfFile("child")
        /\ ack' = TRUE
        /\ HelperEnds("lifted", (holders \ {"wire"}) \cup {"runner"})
     \/ /\ UNCHANGED ack
        /\ HelperEnds("failed", holders \ {"wire"})

ReceiveNothing ==
  /\ helper = "reading" /\ ~note /\ EndOfFile("child")
  /\ HelperEnds("failed", holders)
  /\ UNCHANGED HandOff

-----------------------------------------------------------------------------
(* The main thread: run_pinned                                              *)

MainQuiet == UNCHANGED <<mode, helper, child, left, HandOff, handling, broke, Calls>>

\* spawn returns when the pipe of its own closes: at the exec, with the error
\* of pre_exec or of the exec, or at the child's death, which it takes for success.
Spawned ==
  /\ main = "spawning" /\ child \in {"running", "over", "failed"}
  /\ spawned' = (child # "failed")
  /\ ends' = [ends EXCEPT !.runner = @ \ {"child"}]
  /\ main' = "joining"
  /\ UNCHANGED <<holders, supervisor, stop>> /\ MainQuiet

Join ==
  /\ main = "joining" /\ helper # "reading"
  /\ CASE ~spawned -> main' = "over" /\ holders' = holders \ {"runner"} /\ UNCHANGED supervisor
       [] spawned /\ helper = "failed" -> main' = "reaping" /\ UNCHANGED <<holders, supervisor>>
       [] OTHER -> main' = "waiting" /\ supervisor' = "polling" /\ UNCHANGED holders
  /\ UNCHANGED <<spawned, ends, stop>> /\ MainQuiet

Reap ==
  /\ main = "reaping" /\ child = "over"
  /\ main' = "over"
  /\ UNCHANGED <<spawned, ends, holders, supervisor, stop>> /\ MainQuiet

\* wait_with_output: the child's end, and the end of its pipes.
Collect ==
  /\ main = "waiting" /\ child = "over" /\ left # "loud"
  /\ main' = "stopping" /\ stop' = TRUE
  /\ UNCHANGED <<spawned, ends, holders, supervisor>> /\ MainQuiet

Return ==
  /\ main = "stopping" /\ supervisor = "ended"
  /\ main' = "over"
  /\ UNCHANGED <<spawned, ends, holders, supervisor, stop>> /\ MainQuiet

-----------------------------------------------------------------------------
(* The supervisor: supervise                                                *)

SupervisorQuiet ==
  UNCHANGED <<mode, main, spawned, helper, child, left, ends, HandOff, stop>>

SupervisorEnds ==
  /\ supervisor' = "ended" /\ handling' = NothingHandled
  /\ holders' = holders \ {"runner"}
  /\ UNCHANGED Calls

Pending == {t \in Tracees : call[t] # NoCall}

\* Mutant: 200 ms of quiet end it, stopped or not.
LeavesWhenQuiet == TRUE

\* A poll that timed out ends it once the child has been collected.
LeavesWhen == stop

TimedOut ==
  /\ supervisor = "polling" /\ Pending = {} /\ LeavesWhen
  /\ SupervisorEnds /\ UNCHANGED broke /\ SupervisorQuiet

\* POLLHUP: no process is under the filter any more.
HungUp ==
  /\ supervisor = "polling" /\ Pending = {}
  /\ child = "over" /\ left \in {"none", "over"}
  /\ SupervisorEnds /\ UNCHANGED broke /\ SupervisorQuiet

Break ==
  /\ supervisor \in {"polling", "judged", "planned", "parked"}
  /\ broke' = TRUE
  /\ SupervisorEnds /\ SupervisorQuiet

\* classify, is_allowed: a zero family is a destination when sending.
Allowed(op, dest) == dest \in {"null", "local", "near"} \/ (dest = "unspec" /\ op = "connect")

\* is_notif_allowed, every entry of an array.
NotifAllowed(c) == \A d \in Range(c.dests) : Allowed(c.op, d)

\* NULL in a register: nothing that could be read again.
Fixed(c) == IF c.op \in {"connect", "sendto"} THEN c.dests = <<"null">> ELSE c.dests = <<>>

\* Mutant: what was judged once is taken as judged.
PlanUnjudged(c) == IF Fixed(c) THEN "continue" ELSE "emulate"

\* plan: what is performed is what this read shows and this read allows.
Plan(c) == CASE Fixed(c) -> "continue"
             [] ~Fixed(c) /\ NotifAllowed(c) -> "emulate"
             [] OTHER -> "deny"

Judge(t) ==
  /\ supervisor = "polling" /\ t \in Pending
  /\ handling' = [who |-> t, copy |-> NoCall, fresh |-> TRUE, plan |->
                  CASE ~NotifAllowed(call[t]) -> "deny"
                    [] NotifAllowed(call[t]) /\ mode = "connect only" -> "continue"
                    [] OTHER -> "none"]
  /\ supervisor' = IF handling'.plan = "none" THEN "judged" ELSE "planned"
  /\ UNCHANGED <<holders, broke>> /\ SupervisorQuiet /\ UNCHANGED Calls

\* The second read; of a call that is gone there is nothing to read, and any
\* read of it, or of its payload, may fail.
MakePlan ==
  /\ supervisor = "judged" /\ supervisor' = "planned"
  /\ \/ /\ handling.fresh
        /\ handling' = [handling EXCEPT !.copy = call[handling.who],
                                        !.plan = Plan(call[handling.who])]
     \/ handling' = [handling EXCEPT !.plan = "deny"]
  /\ UNCHANGED <<holders, broke>> /\ SupervisorQuiet /\ UNCHANGED Calls

\* id_is_valid, and the answer, where what is performed comes back: the sends and
\* finish_connect wait 5 s at most, a TCP connect as long as the kernel retries.
Respond ==
  /\ supervisor = "planned" /\ supervisor' = "polling"
  /\ handling' = NothingHandled
  /\ IF handling.fresh
       THEN LET t == handling.who IN
            /\ call' = [call EXCEPT ![t] = NoCall]
            /\ reached' = CASE handling.plan = "deny" -> reached
                            [] handling.plan = "continue" -> call[t]
                            [] handling.plan = "emulate" -> handling.copy
       ELSE UNCHANGED <<call, reached>>
  /\ UNCHANGED <<holders, broke, unsettled>> /\ SupervisorQuiet

\* do_connect: a local socket is allowed, and the connect of one that blocks waits
\* for a place in its listener's backlog.
Park ==
  /\ supervisor = "planned" /\ supervisor' = "parked"
  /\ handling.fresh /\ handling.plan = "emulate"
  /\ handling.copy.op = "connect" /\ "local" \in Range(handling.copy.dests)
  /\ reached' = handling.copy
  /\ UNCHANGED <<handling, holders, broke, call, unsettled>> /\ SupervisorQuiet

\* The listener accepts, or closes: the answer, to a call that is still there.
Unpark ==
  /\ supervisor = "parked" /\ supervisor' = "polling"
  /\ handling' = NothingHandled
  /\ call' = IF handling.fresh THEN [call EXCEPT ![handling.who] = NoCall] ELSE call
  /\ UNCHANGED <<holders, broke, reached, unsettled>> /\ SupervisorQuiet

-----------------------------------------------------------------------------

Prelude == Fork \/ Install \/ Tell \/ Exec
RunnerStep == Receive \/ ReceiveNothing \/ Spawned \/ Join \/ Reap \/ Collect \/ Return
Command == Leave \/ Exit \/ Quieten \/ Kill

PinOver == main = "over" /\ UNCHANGED pinVars

PinNext ==
  \/ Prelude \/ Command \/ RunnerStep
  \/ \E t \in Tracees : Call(t) \/ Rewrite(t) \/ Interrupt(t) \/ Enosys(t) \/ Judge(t)
  \/ MakePlan \/ Respond \/ Park \/ Unpark \/ TimedOut \/ HungUp \/ Break
  \/ PinOver

\* Threads and the child's prelude run, and the kernel queues the calls in order;
\* nothing brings a listener to accept, so Unpark has no fairness.
\* Of the command: it ends, given answers, and what it left behind lets go of
\* the pipes and makes a pause of 200 ms, without which run_pinned waits for ever.
PinFairness ==
  /\ WF_pinVars(Prelude) /\ WF_pinVars(RunnerStep) /\ WF_pinVars(MakePlan \/ Respond)
  /\ WF_pinVars(TimedOut \/ HungUp)
  /\ \A t \in Tracees : SF_pinVars(Judge(t)) /\ WF_pinVars(Enosys(t))
  /\ SF_pinVars(Exit) /\ SF_pinVars(Quieten)

PinSpec == PinInit /\ [][PinNext]_pinVars /\ PinFairness

-----------------------------------------------------------------------------
(* Properties                                                               *)

PinTypeOK ==
  /\ child \in {"unborn", "forked", "filtered", "told", "running", "over", "failed"}
  /\ holders \subseteq {"child", "wire", "runner"}
  /\ call \in [Tracees -> [op : Ops \cup {"none"}, dests : Seq(Dests)]]
  /\ (supervisor = "polling") => handling = NothingHandled

\* With the full pin nothing is performed but what was allowed when it was
\* read for the last time, whatever the command's other threads write meanwhile.
PerformsWhatItRead == mode = "emulated" => NotifAllowed(reached)

\* The command itself is never without an answer: it starts once its listener
\* is held, the hold lasts to its end, and what fails with ENOSYS is a call of
\* a process it left behind, or one after the supervisor broke.
CommandIsAnswered ==
  /\ "child" \in unsettled => broke
  /\ child = "running" /\ ~broke => "runner" \in holders

\* However the hand-off fails and whenever the command dies, run_pinned returns and
\* keeps no descriptor, unless its supervisor stays in a connect that it performs.
PinReturns ==
  \/ <>[](supervisor = "parked")
  \/ <>(main = "over" /\ ends.runner = {} /\ "runner" \notin holders)
=============================================================================
