------------------------------ MODULE MCHosting ------------------------------
(* One operator who sends several frames, or two who send one each and are *)
(* interchangeable; frames far beyond the limits; a joint short enough to  *)
(* reach its limits in a few steps.                                        *)
EXTENDS Hosting, TLC

CONSTANTS alice, bob

MCOneOperator == {alice}
MCTwoOperators == {alice, bob}
MCFar == {9}
MCWide == {-3, 9}
MCSymmetry == Permutations(MCTwoOperators)
=============================================================================
