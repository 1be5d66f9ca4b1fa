-------------------------- MODULE MCCourseDocuments --------------------------
(* Threads, courses and contents are interchangeable.                       *)
EXTENDS CourseDocuments, TLC

Symmetry == Permutations(Requests) \cup Permutations(Courses) \cup Permutations(Contents)
=============================================================================
