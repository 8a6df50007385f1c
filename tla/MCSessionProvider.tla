------------------------- MODULE MCSessionProvider --------------------------
EXTENDS SessionProvider, TLC

(* Neither sessions nor fallbacks differ in anything but their name: First *)
(* is not one of the fallbacks.                                            *)
Symmetry == Permutations(Sessions) \cup Permutations(Fallbacks)
=============================================================================
