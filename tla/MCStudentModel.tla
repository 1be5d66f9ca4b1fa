---------------------------- MODULE MCStudentModel ----------------------------
(* Observations for StudentModel: right and wrong answers of full and of       *)
(* reduced weight, alone and in a response group, an attempt of unknown       *)
(* assistance, as submit_numeric_response stores it, and a half right answer  *)
(* approved by a reviewer who is not certain (review_approval_v02.py).        *)
EXTENDS StudentModel, TLC

Right == [type |-> "problem_attempt", direct |-> TRUE, valid |-> TRUE, confidence |-> 20,
          outcome |-> "success", correct |-> 2, assistance |-> 0, exposed |-> "no",
          novelty |-> "similar", delayed |-> FALSE]

Similar     == Right
Novel       == [Right EXCEPT !.type = "transfer_attempt", !.novelty = "novel"]
Retrieved   == [Right EXCEPT !.type = "retrieval_attempt", !.novelty = "repeated", !.delayed = TRUE]
Assisted    == [Right EXCEPT !.novelty = "novel", !.assistance = 2]
Unproven    == [Right EXCEPT !.assistance = None, !.exposed = "unknown"]
Reviewed    == [Right EXCEPT !.novelty = "novel", !.outcome = "partial", !.correct = 1,
                             !.confidence = 14]
Wrong       == [Right EXCEPT !.outcome = "failure", !.correct = 0, !.novelty = "novel"]

SomeInputs ==
  [session : Sessions, item : Items, group : {None},
   says : {Similar, Novel, Retrieved, Assisted, Unproven, Reviewed, Wrong}]
  \cup [session : Sessions, item : Items, group : Groups, says : {Similar}]

Symmetry == Permutations(Sessions) \cup Permutations(Items)
=============================================================================
