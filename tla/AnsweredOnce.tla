----------------------------- MODULE AnsweredOnce -----------------------------
(***************************************************************************)
(* What numeric practice promises: questions are asked one at a time, and  *)
(* each question takes exactly one answer, for good                         *)
(* ("accept exactly one response per assignment").                         *)
(***************************************************************************)
EXTENDS Naturals, Sequences

VARIABLES
  asked,    \* for each question in the order of asking: "pending" or "answered"
  answers   \* for each question, how many answers are on record

vars == <<asked, answers>>

Init == asked = <<>> /\ answers = <<>>

Ask ==
  /\ \A q \in DOMAIN asked : asked[q] = "answered"
  /\ asked' = Append(asked, "pending") /\ answers' = Append(answers, 0)

Answer(q) ==
  /\ asked[q] = "pending"
  /\ asked' = [asked EXCEPT ![q] = "answered"]
  /\ answers' = [answers EXCEPT ![q] = @ + 1]

Next == Ask \/ \E q \in DOMAIN asked : Answer(q)

Spec == Init /\ [][Next]_vars
=============================================================================
