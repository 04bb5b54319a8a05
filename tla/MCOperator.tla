----------------------------- MODULE MCOperator ------------------------------
(***************************************************************************)
(* What runs on an operator's host beside the fleet commands: the daemon   *)
(* (Host), a listing (Listing), port forwards (Forward) and push sessions  *)
(* (Session).  They share no state, so a behaviour here is a behaviour of  *)
(* one of them while the others rest, each in a state that ends it.        *)
(***************************************************************************)
EXTENDS Host, Listing, Forward, Session

\* What is asked of a session: a plain apply; one that overwrites the first
\* one's binary and profile and leaves its artifact; one that skips the hash and
\* brings a directory back; a dry run on whatever binary is there; a validation;
\* a profile that fails before the pod is touched.
Job(text, binary, install, verify, mode, pull, artifact, sound) ==
  [name |-> "profile", text |-> text, binary |-> binary, install |-> install,
   verify |-> verify, mode |-> mode, pull |-> pull, ledger |-> mode # "validate",
   artifact |-> artifact, sound |-> sound]

OperatorJobs == {
  Job("t1", "b1", TRUE, TRUE, "apply", TRUE, "file", TRUE),
  Job("t2", "b2", TRUE, TRUE, "apply", FALSE, "file", TRUE),
  Job("t2", "b2", TRUE, FALSE, "apply", TRUE, "directory", TRUE),
  Job("t2", "b1", FALSE, TRUE, "dry", TRUE, "file", TRUE),
  Job("t1", "b1", FALSE, FALSE, "validate", TRUE, "none", TRUE),
  Job("t1", "b1", TRUE, TRUE, "apply", TRUE, "none", FALSE)}

-----------------------------------------------------------------------------

HostRests ==
  /\ left = 0 /\ late = 0 /\ sweeping = FALSE
  /\ newest = None /\ status = Started
  /\ caught = FALSE /\ asked = FALSE /\ heard = FALSE /\ stopped = TRUE

ListingRests ==
  /\ phase = [m \in All |-> "unborn"] /\ steady = {} /\ ended = {} /\ departed = 0
  /\ page = 1 /\ walked = 1 /\ found = {} /\ listing = "listed"

ForwardRests ==
  /\ wanted = [c \in Commands |-> [detach |-> TRUE, port |-> CHOOSE p \in Ports : TRUE]]
  /\ step = [c \in Commands |-> "over"] /\ ssh = [c \in Commands |-> "over"]
  /\ holder = [p \in Ports |-> Nobody] /\ relays = [c \in Commands |-> FALSE]
  /\ halted = [c \in Commands |-> "no"] /\ rows = {}
  /\ seen = [c \in Commands |-> {}] /\ overlapped = [c \in Commands |-> FALSE]
  /\ answer = [c \in Commands |-> 1]

SessionRests ==
  /\ job = [s \in Sessions |-> CHOOSE j \in Jobs : ~j.sound]
  /\ at = [s \in Sessions |-> "done"] /\ pod = [f \in Files |-> "absent"]
  /\ writing = {} /\ clean = [s \in Sessions |-> TRUE]
  /\ invoked = [s \in Sessions |-> NoneRuns]
  /\ report = [s \in Sessions |-> "none"] /\ latest = 0 /\ kept = 0
  /\ pulled = [s \in Sessions |-> "none"] /\ ledger = <<>>
  /\ exit = [s \in Sessions |-> 1] /\ ran = [s \in Sessions |-> NoneRuns]
  /\ disturbed = [s \in Sessions |-> {}]

\* Commands differ in nothing but what they are asked: those that do not detach
\* come first.
InOrder ==
  \A c, d \in Commands : c < d /\ wanted[c].detach => wanted[d].detach

OperatorInit ==
  \/ Init        /\ ListingRests /\ ForwardRests  /\ SessionRests
  \/ ListingInit /\ HostRests    /\ ForwardRests  /\ SessionRests
  \/ ForwardInit /\ HostRests  /\ ListingRests  /\ SessionRests /\ InOrder
  \/ SessionInit /\ HostRests  /\ ListingRests  /\ ForwardRests

OperatorNext ==
  \/ Next          /\ UNCHANGED <<listingVars, forwardVars, sessionVars>>
  \/ ListingNext   /\ UNCHANGED <<vars, forwardVars, sessionVars>>
  \/ ForwardNext /\ UNCHANGED <<vars, listingVars, sessionVars>>
  \/ SessionNext /\ UNCHANGED <<vars, listingVars, forwardVars>>

\* The fairness of each component's own specification.
OperatorSpec ==
  /\ OperatorInit
  /\ [][OperatorNext]_<<vars, listingVars, forwardVars, sessionVars>>
  /\ Fairness /\ ListingFairness /\ ForwardFairness /\ SessionFairness

-----------------------------------------------------------------------------

\* What must go on goes on, and what must end ends: the daemon sweeps for as long
\* as it is up, and listings, forwards and sessions come to an answer.
OperatorLives ==
  KeepsSweeping /\ ListingEnds /\ ForwardsEnd /\ SessionsEnd
=============================================================================
