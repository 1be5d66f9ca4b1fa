-------------------------- MODULE MCDurableTeaching --------------------------
(* Callers, identifiers and texts are interchangeable in the safety         *)
(* properties.                                                              *)
EXTENDS DurableTeaching

Symmetry == Permutations(Clients) \cup Permutations(Traces) \cup Permutations(Decisions)
            \cup Permutations(Responses) \cup Permutations(Texts)
            \cup Permutations(FeedbackIds)
=============================================================================
