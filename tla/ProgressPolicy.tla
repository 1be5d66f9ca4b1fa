---------------------------- MODULE ProgressPolicy ----------------------------
(***************************************************************************)
(* The deterministic practice policy of the course workspace               *)
(* (services/course_workspace/progress_policy_v01.py) over the summaries   *)
(* of the topics of a path.  A path gives for each topic, in order, the    *)
(* sequence of its prerequisites; a summary says                           *)
(*   clean      how many different questions were answered without help    *)
(*   opened     whether the lesson was opened                              *)
(*   last       the last attempt: "none", "wrong", "assisted" or "clean"   *)
(*   errors     how many wrong answers in a row end the attempts           *)
(*   restudied  whether the lesson was opened after the last attempt       *)
(***************************************************************************)
EXTENDS Integers, Sequences

PracticedDistinctItems == 2   \* PRACTICED_DISTINCT_ITEMS_V01
StrugglingErrors       == 2   \* STRUGGLING_ERRORS_V01

Summary == [clean : Nat, opened : BOOLEAN, last : {"none", "wrong", "assisted", "clean"},
            errors : Nat, restudied : BOOLEAN]

Practiced(summary) == summary.clean >= PracticedDistinctItems

\* The "status" of summarize_topic_v01.
Status(summary) ==
  IF Practiced(summary) THEN "practiced"
  ELSE IF ~summary.opened /\ summary.last = "none" THEN "not_started"
  ELSE IF summary.errors >= StrugglingErrors THEN "struggling" ELSE "learning"

Unpracticed(summaries) == {t \in DOMAIN summaries : Status(summaries[t]) # "practiced"}
FirstOf(S) == CHOOSE t \in S : \A u \in S : t <= u

\* The prerequisites of a topic that are not practiced, as places in its list.
Missing(requires, summaries) ==
  {i \in DOMAIN requires : requires[i] \in Unpracticed(summaries)}

StepTo(code, t) == [code |-> code, topic |-> t]

\* The step within a topic whose prerequisites are practiced and which is not.
StepWithin(t, summary) ==
  IF ~summary.opened THEN StepTo("topic_not_started", t)
  ELSE IF summary.last = "none" THEN StepTo("no_practice_evidence", t)
  ELSE IF summary.last = "wrong"
    THEN IF summary.errors >= StrugglingErrors /\ ~summary.restudied
         THEN StepTo("repeated_errors", t) ELSE StepTo("recent_error", t)
  ELSE IF summary.last = "assisted"
    THEN StepTo("assisted_success_needs_unassisted_check", t)
  ELSE StepTo("single_success_needs_confirmation", t)

\* Mutant of NextStep: a prerequisite is asked for although it is practiced.
NextStep_AnyPrerequisite(t, path, summaries) ==
  IF path[t] # <<>> THEN StepTo("prerequisite_not_practiced", path[t][1])
  ELSE IF Status(summaries[t]) # "practiced" THEN StepWithin(t, summaries[t])
  ELSE IF Unpracticed(summaries) = {} THEN StepTo("course_practiced", t)
  ELSE StepTo("ready_for_next_topic", FirstOf(Unpracticed(summaries)))

\* Mutant of NextStep: re-reading is asked for before anything else.
NextStep_LessonFirst(t, path, summaries) ==
  IF Status(summaries[t]) = "practiced" THEN StepTo("course_practiced", t)
  ELSE StepWithin(t, summaries[t])

\* next_step_v01.
NextStep(t, path, summaries) ==
  LET missing == Missing(path[t], summaries) IN
  IF missing # {} THEN StepTo("prerequisite_not_practiced", path[t][FirstOf(missing)])
  ELSE IF Status(summaries[t]) # "practiced" THEN StepWithin(t, summaries[t])
  ELSE IF Unpracticed(summaries) = {} THEN StepTo("course_practiced", t)
  ELSE StepTo("ready_for_next_topic", FirstOf(Unpracticed(summaries)))

\* recommended_topic_v01.
Recommended(path, summaries) ==
  IF Unpracticed(summaries) = {} THEN Len(path) ELSE FirstOf(Unpracticed(summaries))

GoesToTopic(step) == step.code \in {"prerequisite_not_practiced", "ready_for_next_topic"}
StudiesLesson(step) == step.code \in {"topic_not_started", "repeated_errors"}
=============================================================================
