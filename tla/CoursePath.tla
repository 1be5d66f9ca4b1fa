------------------------------ MODULE CoursePath ------------------------------
(***************************************************************************)
(* A course path from the model's proposal to the last practiced topic:    *)
(* the proposed topics are validated one by one, an unusable proposal is   *)
(* replaced by the headings of the documents (outline_v01.py), and a       *)
(* student then works through the path by the practice policy.             *)
(***************************************************************************)
EXTENDS ProgressPolicy, FiniteSets

CONSTANTS
  Titles,      \* bound: titles the model may propose (lower case, cleaned)
  NoTitle,     \* a missing title, or one shorter than three characters
  Documents,   \* bound: documents whose headings may be used
  MaxProposed, \* MAX_TOPICS_V01: topics of a proposal that are looked at
  MaxListed    \* bound: prerequisites listed for one topic

ASSUME PathAssumption ==
  /\ NoTitle \notin Titles /\ Documents # {} /\ MaxProposed \in Nat \ {0}
  /\ MaxListed \in Nat

VARIABLES
  phase,       \* "proposed"; "study", in any order; "follow", as proposed
  number,      \* the model's number of the last topic looked at
  titles,      \* titles of the kept topics
  path,        \* prerequisite_topic_ids of the kept topics
  kept,        \* new_number: the model's numbers of the kept topics
  summaries,   \* the practice summary of each topic
  here         \* the topic on the student's screen

vars == <<phase, number, titles, path, kept, summaries, here>>

NotStarted == [clean |-> 0, opened |-> FALSE, last |-> "none", errors |-> 0,
               restudied |-> FALSE]

Init ==
  /\ phase = "proposed" /\ number = 0
  /\ titles = <<>> /\ path = <<>> /\ kept = <<>>
  /\ summaries = <<>> /\ here = 1

-----------------------------------------------------------------------------
(* The model's list of prerequisites: integers of any value.               *)
Numbers == 0..(MaxProposed + 1)
Lists == UNION {[1..n -> Numbers] : n \in 0..MaxListed}

PlaceOf(n) == CHOOSE k \in DOMAIN kept : kept[k] = n

\* Mutant of Accepted: a number may be that of a later topic that was dropped.
Accepted_AnyNumber(list) == [k \in DOMAIN list |-> list[k]]

\* The numbers of earlier topics that were kept, as places in the path, each once:
\* taken[k] is what the loop over the list has after its first k turns.
Accepted(list) ==
  LET taken[k \in 0..Len(list)] ==
        IF k = 0 THEN <<>>
        ELSE LET n == list[k]  before == taken[k - 1] IN
             IF /\ n < number + 1 /\ \E j \in DOMAIN kept : kept[j] = n
                /\ \A i \in DOMAIN before : before[i] # PlaceOf(n)
             THEN Append(before, PlaceOf(n)) ELSE before
  IN taken[Len(list)]

\* A title that is there, long enough and new.
Usable(title) == title # NoTitle /\ \A k \in DOMAIN titles : titles[k] # title

\* One turn of the loop of build_outline_from_proposal_v01.
Consider(title, hasSources, prerequisites) ==
  /\ phase = "proposed" /\ number < MaxProposed
  /\ number' = number + 1
  /\ IF ~Usable(title) \/ ~hasSources
     THEN UNCHANGED <<titles, path, kept>>
     ELSE /\ titles' = Append(titles, title)
          /\ path' = Append(path, Accepted(prerequisites))
          /\ kept' = Append(kept, number + 1)
  /\ UNCHANGED <<phase, summaries, here>>

StartStudy(p) ==
  /\ phase' = "study" /\ path' = p
  /\ summaries' = [t \in DOMAIN p |-> NotStarted]
  /\ number' = 0 /\ titles' = <<>> /\ kept' = <<>> /\ here' = 1

\* The proposal ends; at least one topic survived.
Propose == phase = "proposed" /\ path # <<>> /\ StartStudy(path)

\* heading_outline_v01: each section requires the one before it in its
\* document.  Used when the proposal is unusable or keeps no topic.
Headings ==
  /\ phase = "proposed" /\ path = <<>>
  /\ \E n \in 1..MaxProposed : \E document \in [1..n -> Documents] :
       LET before(t) == {u \in 1..(t - 1) : document[u] = document[t]}
           latest(t) == CHOOSE u \in before(t) : \A v \in before(t) : v <= u
       IN StartStudy([t \in 1..n |-> IF before(t) = {} THEN <<>> ELSE <<latest(t)>>])

-----------------------------------------------------------------------------
(* Study and practice.  Counts stop at the thresholds of the policy.        *)
UpTo(bound, n) == IF n > bound THEN bound ELSE n

Open(t) ==
  /\ summaries' = [summaries EXCEPT ![t].opened = TRUE,
                                    ![t].restudied = summaries[t].last # "none"]
  /\ UNCHANGED <<phase, number, titles, path, kept, here>>

Answer(t, result) ==
  /\ summaries' = [summaries EXCEPT
       ![t].last = result, ![t].restudied = FALSE,
       ![t].errors = IF result = "wrong" THEN UpTo(StrugglingErrors, @ + 1) ELSE 0,
       ![t].clean = IF result = "clean" THEN UpTo(PracticedDistinctItems, @ + 1) ELSE @]
  /\ UNCHANGED <<phase, number, titles, path, kept, here>>

\* A student works on the topics in any order, ...
Wander(t) ==
  /\ phase = "study"
  /\ Open(t) \/ \E r \in {"wrong", "assisted", "clean"} : Answer(t, r)

\* ... and, from some moment on, opens the recommended one and then does what the
\* pages propose.
Settle ==
  /\ phase = "study"
  /\ phase' = "follow" /\ here' = Recommended(path, summaries)
  /\ UNCHANGED <<number, titles, path, kept, summaries>>

Step == NextStep(here, path, summaries)

FollowGo ==
  /\ phase = "follow" /\ GoesToTopic(Step) /\ here' = Step.topic
  /\ UNCHANGED <<phase, number, titles, path, kept, summaries>>

FollowLesson == phase = "follow" /\ StudiesLesson(Step) /\ Open(here)

FollowAnswer(result) ==
  /\ phase = "follow" /\ ~GoesToTopic(Step) /\ ~StudiesLesson(Step)
  /\ Step.code # "course_practiced"
  /\ Answer(here, result)

Build ==
  \/ \E title \in Titles \cup {NoTitle}, s \in BOOLEAN, l \in Lists : Consider(title, s, l)
  \/ Propose \/ Headings

Next ==
  \/ Build
  \/ \E t \in DOMAIN path : Wander(t)
  \/ Settle \/ FollowGo \/ FollowLesson
  \/ \E r \in {"wrong", "assisted", "clean"} : FollowAnswer(r)

Spec == Init /\ [][Next]_vars

\* A student who follows the proposals takes each step in the end, and now and
\* then answers a question correctly without help.
FollowSpec ==
  /\ Spec
  /\ WF_vars(FollowGo \/ FollowLesson) /\ SF_vars(FollowAnswer("clean"))

-----------------------------------------------------------------------------
(* However many proposed topics are dropped on the way, a prerequisite of a *)
(* topic is a topic of the final path that comes before it.                 *)
RequiresEarlier ==
  \A t \in DOMAIN path : \A i \in DOMAIN path[t] : path[t][i] \in 1..(t - 1)

(* The recommended topic can be worked on at once: its page never sends the *)
(* student to another topic while the course is not finished.               *)
RecommendedIsWorkable ==
  phase # "proposed" /\ Unpracticed(summaries) # {} =>
    ~GoesToTopic(NextStep(Recommended(path, summaries), path, summaries))

\* Where "go to topic" has led after n hops from each topic.
Detour(n) ==
  LET hop[k \in 0..n] == [t \in DOMAIN path |->
        IF k = 0 THEN t
        ELSE LET u == hop[k - 1][t] s == NextStep(u, path, summaries)
             IN IF GoesToTopic(s) THEN s.topic ELSE u]
  IN hop[n]

(* Following "go to topic" never runs in circles: from every topic it       *)
(* reaches, in at most as many hops as there are topics, a topic with work  *)
(* to do, or any topic when the course is finished.                         *)
DetoursEnd ==
  phase # "proposed" =>
    \A t \in DOMAIN path :
      LET u == Detour(Len(path))[t]
      IN /\ ~GoesToTopic(NextStep(u, path, summaries))
         /\ Unpracticed(summaries) = {} \/ u \in Unpracticed(summaries)

(* A student who, whatever was done before, opens the recommended topic and *)
(* from then on does what the pages propose, and now and then answers       *)
(* correctly without help, has practiced the whole path in the end.         *)
CourseIsFinished == phase = "follow" ~> Unpracticed(summaries) = {}
=============================================================================
