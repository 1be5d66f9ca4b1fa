----------------------------- MODULE MCLocalChat -----------------------------
(* Processes, sessions and packs are interchangeable in the safety          *)
(* properties.                                                              *)
EXTENDS ChatClient, TLC

Symmetry == Permutations(Processes) \cup Permutations(Sessions) \cup Permutations(Packs)
=============================================================================
