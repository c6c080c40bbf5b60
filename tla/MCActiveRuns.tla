---------------------------- MODULE MCActiveRuns ----------------------------
(* Two or three sends of one session, each able to begin a run.            *)
EXTENDS ActiveRuns, TLC

CONSTANTS m1, m2, m3

TwoSends == {m1, m2}
ThreeSends == {m1, m2, m3}
AnyOrder == Permutations(ThreeSends)
=============================================================================
