--------------------------- MODULE MCCoursePractice ---------------------------
(* Instances of CoursePractice: one question, and one that was saved twice. *)
EXTENDS CoursePractice, TLC
CONSTANTS i1, i2

OneItem    == i1 :> i1
SavedTwice == i1 :> i1 @@ i2 :> i1
Symmetry   == Permutations(Clients)
=============================================================================
