------------------------ MODULE MCCoursePreparation ------------------------
(* Symmetry for the safety run of CoursePreparation: request threads and    *)
(* question fingerprints are interchangeable.  And two states to start from *)
(* that take the model many clicks to reach.                                *)
EXTENDS CoursePreparation, TLC

Symmetry == Permutations(Requests) \cup Permutations(Questions)

\* Which two questions they are makes no difference.
TwoQuestions == CHOOSE s \in Questions \X Questions : s[1] # s[2]

\* A path of all topics, of which some are prepared; nobody is at work.
Built(prepared) ==
  /\ outlines = <<MaxTopics>> /\ lessons = prepared /\ opened = {} /\ practiced = {}
  /\ items = [k \in Keys |-> IF k \in prepared THEN TwoQuestions ELSE <<>>]
  /\ queue = <<>> /\ lock = Nobody
  /\ pc = [p \in Procs |-> "idle"] /\ loc = [p \in Procs |-> NoLocals]
  /\ clicks = 0 /\ restarts = 0

\* The process was restarted before the first topic was prepared.
RestartedInit ==
  /\ Built({<<1, 2>>})
  /\ status = [j \in JobKeys |-> "none"] /\ looked = FALSE

RestartedSpec == RestartedInit /\ [][Next]_vars

\* The worker has prepared the first two topics.
PreparedInit ==
  LET prepared == {1} \X {1, 2}
  IN /\ Built(prepared)
     /\ status = [j \in JobKeys |-> IF <<j[1], j[2]>> \in prepared THEN "ready" ELSE "none"]
     /\ looked = TRUE

PreparedFairSpec == PreparedInit /\ [][Next]_vars /\ Fairness
=============================================================================
