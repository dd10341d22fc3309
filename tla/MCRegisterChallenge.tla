------------------------- MODULE MCRegisterChallenge --------------------------
(* Instances of RegisterChallenge for TLC.                                 *)
EXTENDS RegisterChallenge, TLC

Symmetry == Permutations(Challenge) \cup Permutations(Request)
===============================================================================
