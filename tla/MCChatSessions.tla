--------------------------- MODULE MCChatSessions ---------------------------
(* Turns, sessions and messages are interchangeable.                       *)
EXTENDS ChatSessions, TLC

Symmetry == Permutations(Turns) \cup Permutations(Sessions)
=============================================================================
