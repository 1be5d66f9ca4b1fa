----------------------------- MODULE StudentModel -----------------------------
(***************************************************************************)
(* The student model: the level of one student on one objective, derived   *)
(* from the evidence recorded so far                                       *)
(* (services/student_model/eligibility_v02.py, state_update_v02.py,        *)
(* policy_v02.py).                                                         *)
(*                                                                         *)
(* The evidence grows; it is kept in the order of the estimator's time key *)
(* (time of creation, then identifier), each identifier once.  Weights are *)
(* in twentieths and correctness in halves, so that the comparisons of     *)
(* sums and of the estimate with the thresholds of the policy are exact.   *)
(***************************************************************************)
EXTENDS Integers, Sequences, FiniteSetsExt

CONSTANTS
  Sessions, Items, Groups,
  None,       \* an unknown item, group, correctness or assistance level
  Inputs,     \* bound: the events that may be recorded
  MaxEvents   \* bound: how many

Types == {"problem_attempt", "self_explanation", "definition_recall", "transfer_attempt",
          "retrieval_attempt", "error_correction", "student_self_report"}

Kinds == [type : Types, direct : BOOLEAN, valid : BOOLEAN, confidence : 0..20,
          outcome : {"success", "partial", "failure", "neutral"}, correct : 0..2 \cup {None},
          assistance : 0..6 \cup {None}, exposed : {"yes", "no", "unknown"},
          novelty : {"novel", "similar", "repeated", "unknown"}, delayed : BOOLEAN]

(* Weights and confidence in twentieths.                                    *)
AssistanceWeight == <<20, 16, 12, 9, 6, 3, 0>>
NoveltyWeight == [novel |-> 20, similar |-> 15, repeated |-> 7, unknown |-> 10]
TypeWeight == [problem_attempt |-> 20, self_explanation |-> 18, definition_recall |-> 16,
               transfer_attempt |-> 20, retrieval_attempt |-> 20, error_correction |-> 13]

\* Seeing a solution prevents treating a repeated task as novel.
NoveltyOf(o) ==
  IF o.exposed = "yes" THEN Min({NoveltyWeight[o.novelty], NoveltyWeight["repeated"]})
  ELSE NoveltyWeight[o.novelty]

Factors(o) ==
  AssistanceWeight[o.assistance + 1] * NoveltyOf(o) * TypeWeight[o.type] * o.confidence
Weight(o)  == Factors(o) \div 8000

MinConfidence == 13   \* min_model_confidence

Performance(o) == o.type \in DOMAIN TypeWeight /\ o.direct /\ o.valid

Consistent(o) ==
  /\ o.outcome = "success" => o.correct = 2
  /\ o.outcome = "failure" => o.correct = 0
  /\ o.outcome = "partial" => o.correct \in {1, None}
  /\ o.outcome = "neutral" => o.correct = None

Events == [session : Sessions, item : Items \cup {None}, group : Groups \cup {None},
           says : Kinds]

\* The weights of the inputs are whole twentieths.
ASSUME StudentAssumption ==
  /\ None \notin Items \cup Groups /\ MaxEvents \in Nat
  /\ \A e \in Inputs :
       /\ e \in Events
       /\ Performance(e.says) /\ e.says.assistance # None => Factors(e.says) % 8000 = 0

VARIABLE evidence

\* evaluate_evidence.
Eligible(e) ==
  LET o == e.says IN
  /\ Performance(o) /\ Consistent(o)
  /\ o.correct # None /\ o.assistance # None /\ e.item # None
  /\ o.confidence >= MinConfidence
  /\ Weight(o) > 0

StudentInit == evidence = <<>>

\* Any of the inputs may be recorded next.
Record ==
  /\ Len(evidence) < MaxEvents
  /\ \E e \in Inputs : evidence' = Append(evidence, e)

StudentSpec == StudentInit /\ [][Record]_evidence

-----------------------------------------------------------------------------
(* estimate_objective_state.                                                *)

\* Mutant of FirstAttempts: the latest attempt is kept.
FirstAttempts_Latest(E) ==
  {k \in DOMAIN E : Eligible(E[k]) /\ ~\E j \in (k + 1)..Len(E) :
     Eligible(E[j]) /\ E[j].session = E[k].session /\ E[j].item = E[k].item}

\* Correlated evidence: the first eligible attempt of a session at an item, ...
FirstAttempts(E) ==
  {k \in DOMAIN E : Eligible(E[k]) /\ ~\E j \in 1..(k - 1) :
     Eligible(E[j]) /\ E[j].session = E[k].session /\ E[j].item = E[k].item}

\* Mutant of Counted: response groups are not looked at.
Counted_AnyGroup(E) == {E[k] : k \in FirstAttempts(E)}

\* ... and of these the first of a session in a response group.  No two of
\* them have both session and item in common.
Counted(E) ==
  LET first == FirstAttempts(E)
  IN {E[k] : k \in {k \in first : E[k].group = None \/ ~\E j \in first :
        j < k /\ E[j].session = E[k].session /\ E[j].group = E[k].group}}

\* The counted events K of a session together weigh no more than the cap.
MaxSessionMass == 30   \* max_session_evidence_mass

Total(K, s) == MapThenSumSet(LAMBDA e : Weight(e.says), {e \in K : e.session = s})
Share(K, s) == Min({Total(K, s), MaxSessionMass})
Mass(K)     == MapThenSumSet(LAMBDA s : Share(K, s), Sessions)
Points(K, s) ==
  MapThenSumSet(LAMBDA e : Weight(e.says) * e.says.correct, {e \in K : e.session = s})

Times(x, y) == x * y

\* The weighted mean of correctness, the sum of Share * Points / Total over the
\* sessions divided by the mass, brought to a common denominator.
EstimateAtLeast(K, percent) ==
  LET S        == {e.session : e \in K}
      total    == [s \in S |-> Total(K, s)]
      other(s) == FoldFunctionOnSet(Times, 1, total, S \ {s})
  IN 100 * MapThenSumSet(LAMBDA s : Share(K, s) * Points(K, s) * other(s), S)
       >= 2 * percent * Mass(K) * FoldFunction(Times, 1, total)

\* _independent_success, of an eligible event.
Independent(e) ==
  e.says.outcome = "success" /\ e.says.assistance = 0 /\ e.says.exposed = "no"

Transfer(e)  == e.says.type = "transfer_attempt" /\ e.says.novelty = "novel"
Retrieval(e) == e.says.type = "retrieval_attempt" /\ e.says.delayed

ItemsOf(K)    == Cardinality({e.item : e \in K})
SessionsOf(K) == Cardinality({e.session : e \in K})

Sufficient(K) == ItemsOf(K) >= 2 /\ Mass(K) >= 15

CompetentGate(K) ==
  LET I == {e \in K : Independent(e)}
  IN ItemsOf(I) >= 2 /\ \E e \in I : e.says.novelty \in {"similar", "novel"}

StrongGate(K) ==
  LET I == {e \in K : Independent(e)}
  IN /\ EstimateAtLeast(K, 90)
     /\ ItemsOf(I) >= 3 /\ SessionsOf(I) >= 2
     /\ \E e \in I : Transfer(e) \/ Retrieval(e)

Unknown    == 0
Emerging   == 1
Developing == 2
Competent  == 3
Strong     == 4

\* The level given by the counted events.
LevelOf(K) ==
  IF ~Sufficient(K) THEN Unknown
  ELSE IF ~EstimateAtLeast(K, 40) THEN Emerging
  ELSE IF ~EstimateAtLeast(K, 75) \/ ~CompetentGate(K) THEN Developing
  ELSE IF ~StrongGate(K) THEN Competent ELSE Strong

Level(E) == LevelOf(Counted(E))

-----------------------------------------------------------------------------
(* A level above developing is earned: by answers to two (three, in two     *)
(* sessions) different items, each correct, without help or knowledge of    *)
(* the solution, none given after another valid answer to the item in that  *)
(* session, and no two of a session in one response group.                  *)
Fresh(k) ==
  /\ Independent(evidence[k]) /\ Performance(evidence[k].says)
  /\ ~\E j \in 1..(k - 1) : /\ Eligible(evidence[j])
                            /\ evidence[j].session = evidence[k].session
                            /\ evidence[j].item = evidence[k].item

Apart(k, j) ==
  /\ evidence[k].item # evidence[j].item
  /\ \/ evidence[k].session # evidence[j].session
     \/ evidence[k].group = None \/ evidence[k].group # evidence[j].group

LevelIsEarned ==
  LET level == Level(evidence)
      earned(n) == {K \in kSubset(n, DOMAIN evidence) :
                      /\ \A k \in K : Fresh(k)
                      /\ \A k, j \in K : k # j => Apart(k, j)}
  IN /\ level >= Competent => earned(2) # {}
     /\ level = Strong =>
          \E K \in earned(3) : Cardinality({evidence[k].session : k \in K}) >= 2

(* The level moves with the newest answer: a correct one never lowers it    *)
(* and a wrong one never raises a known level, whatever the session cap     *)
(* does to the weights of the others; an answer to an item that was already *)
(* answered in the session changes nothing.                                 *)
LevelFollowsAnswers ==
  [][LET e == evidence'[Len(evidence')]
         before == Level(evidence)  after == Level(evidence')
     IN /\ e.says.outcome = "success" => after >= before
        /\ e.says.outcome = "failure" /\ before # Unknown => after <= before
        /\ (\E j \in DOMAIN evidence : /\ Eligible(evidence[j])
              /\ evidence[j].session = e.session /\ evidence[j].item = e.item)
           => after = before]_evidence
=============================================================================
