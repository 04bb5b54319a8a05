------------------------------- MODULE MCApply -------------------------------
(* Small instances of Apply for TLC.  Each profile puts the cases that meet  *)
(* into one run: a phase of transfers that run together between phases that  *)
(* run one at a time, a denied step behind an allowed one, one file written  *)
(* by two phases, and two spellings of one destination.                      *)
EXTENDS Apply

CONSTANTS f1, f2, f3

AllFiles == {f1, f2, f3}

Named(shape, path, file, done) ==
  [shape |-> shape, path |-> path, file |-> file, done |-> done, denied |-> FALSE]

Fetch(path, file, done) == Named("transfer", path, file, done)

Direct(step) == [lifecycle |-> FALSE, expands |-> TRUE, env |-> TRUE, steps |-> <<step>>]

Lifecycle(steps) == [lifecycle |-> TRUE, expands |-> TRUE, env |-> TRUE, steps |-> steps]

Models == Lifecycle(<<Fetch("1", f1, "exists"), Fetch("2", f2, "content"),
                      Fetch("3", f3, "none")>>)

Checkout == Lifecycle(<<Named("sh", "1", f1, "content"),
                        Named("poll", "", NoFile, "none")>>)

Refusing(p, n) == [p EXCEPT !.steps[n].denied = TRUE]

\* Three steps together, then one at a time.
Together == <<Models, Direct(Named("poll", "", NoFile, "none"))>>

\* One at a time, then two together.
Serial == <<Checkout, Lifecycle(<<Fetch("2", f2, "exists"), Fetch("3", f3, "content")>>)>>

\* A direct write and a lifecycle step meet in one file; one destination twice
\* in a phase.
Shared == <<Direct(Fetch("1", f1, "none")),
            Lifecycle(<<Fetch("1", f1, "content"), Fetch("1", f1, "none")>>)>>

\* Denials: of the second of three siblings, of a phase's env, of a direct
\* phase; phases without steps of their own.
Refused ==
  { <<Direct(Fetch("2", f2, "none")), Refusing(Models, 2)>>,
    <<Checkout, [Models EXCEPT !.env = FALSE]>>,
    <<Refusing(Checkout, 2)>>,
    <<Refusing(Direct(Fetch("1", f1, "none")), 1), Checkout>>,
    <<Lifecycle(<< >>), [Checkout EXCEPT !.expands = FALSE]>>,
    <<[Lifecycle(<< >>) EXCEPT !.env = FALSE]>> }

Everything == {Together, Serial, Shared} \cup Refused
=============================================================================
