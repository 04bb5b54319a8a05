------------------------------- MODULE MCFleet -------------------------------
(* Small instances of Fleet for TLC.                                         *)
EXTENDS FleetInductive, TLC

CONSTANTS new, legacy, foreign, p1, p2, s1, s2

OnePlatform == [m \in Machines |-> p1]
AskNothing == {{}}
AskAll == {Providers}
AskAny == SUBSET Providers
\* `new` and `foreign` share a platform, `legacy` is on the other one.
TwoPlatforms == [m \in Machines |-> IF m = legacy THEN p2 ELSE p1]

SweeperSymmetry == Permutations(Sweepers)
=============================================================================
