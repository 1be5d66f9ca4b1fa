----------------------------- MODULE CourseService -----------------------------
(***************************************************************************)
(* The course workspace as its page sees it (course_workspace_api_v01.py,  *)
(* services/course_workspace): what a request changes and answers.  A       *)
(* request is one step here; how requests overlap inside the service is     *)
(* the subject of CoursePreparation and CoursePractice.                     *)
(*                                                                         *)
(* Topics are numbered along the path, and a rebuilt path numbers them     *)
(* again: only with its course and revision does a number name a topic (a  *)
(* key).  An item is its key and its place among the questions of it.      *)
(***************************************************************************)
EXTENDS ProgressPolicy, FiniteSets

CONSTANTS
  Courses, None, Failed,
  Path,          \* the prerequisites of the topics
  MaxItems,      \* bound: questions of a topic
  MaxRevision    \* bound: paths of a course

Topics == DOMAIN Path
Keys   == Courses \X (1..MaxRevision) \X Topics
Kinds  == {"lesson", "questions"}
Items  == Keys \X (1..MaxItems)

TopicOf(i) == i[1]
CourseOf(k) == k[1]
Number(k)   == k[3]

\* The views of courses, and of topics with a key in K; and the requests.
CourseViews ==
  {v \in [id : Courses, documents : BOOLEAN, revision : 0..MaxRevision, preparing : BOOLEAN,
          recommended : Topics \cup {None}] :
     v.revision # 0 => v.recommended \in Topics}

ItemsOn(K) == {i \in Items : TopicOf(i) \in K}

States == {"ready", "pending", "failed", "empty", "not_started"}
Marks(K) == UNION {[S -> {"new", "wrong", "right"}] : S \in SUBSET ItemsOn(K)}

StepViews(K) ==
  {v \in [kind : {"go_to_topic", "study_lesson", "review_course", "answer_check"},
          topic : Topics, item : ItemsOn(K) \cup {None}, more : BOOLEAN] :
     v.kind = "answer_check" /\ ~v.more => v.item \in ItemsOn(K)}

TopicViews(K) ==
  [id : Topics, key : K, notes : States, questions : States, items : Marks(K),
   step : StepViews(K)]

Requests ==
  [kind : {"list", "create", "documents", "outline", "course", "topic", "lesson",
           "questions", "answer", "hint", "notes"},
   course : Courses \cup {None}, topic : Topics \cup {None}, item : Items \cup {None},
   full : BOOLEAN]

ASSUME ServiceAssumption ==
  /\ None \notin Courses \cup Items \cup CourseViews \cup TopicViews(Keys) \cup Requests
  /\ Failed # None
  /\ Path \in Seq(Seq(Nat)) /\ Path # <<>> /\ MaxItems \in Nat /\ MaxRevision \in Nat
  /\ \A t \in DOMAIN Path : \A i \in DOMAIN Path[t] : Path[t][i] \in 1..(t - 1)

\* What a database holds, and the jobs of the program.
Databases ==
  [created : SUBSET Courses, documents : SUBSET Courses, revision : [Courses -> 0..MaxRevision],
   lessons : SUBSET Keys, count : [Keys -> 0..MaxItems],
   jobs : SUBSET (Keys \X Kinds), failed : SUBSET (Keys \X Kinds), empty : SUBSET (Keys \X Kinds),
   summary : [Keys -> Summary], tried : [Items -> {"new", "wrong", "right"}],
   helped : [Items -> SUBSET {"notes", "hint", "solution"}]]

\* A database with these lessons and questions, as a start of the program finds
\* it: the status of jobs was in memory.
Stored(created, documents, revision, lessons, count) ==
  [created |-> created, documents |-> documents, revision |-> revision,
   lessons |-> lessons, count |-> count, jobs |-> {}, failed |-> {}, empty |-> {},
   summary |-> [k \in Keys |-> [clean |-> 0, opened |-> FALSE, last |-> "none",
                                errors |-> 0, restudied |-> FALSE]],
   tried   |-> [i \in Items |-> "new"],
   helped  |-> [i \in Items |-> {}]]

-----------------------------------------------------------------------------
(* The views.                                                               *)
KeyIn(db, c, t)  == <<c, db.revision[c], t>>
Summaries(db, c) == [t \in Topics |-> db.summary[KeyIn(db, c, t)]]
ItemsOf(db, k)   == {k} \X (1..db.count[k])

Done(db, k, kind) == IF kind = "lesson" THEN k \in db.lessons ELSE db.count[k] > 0

\* _preparation; "queued" and "working" are pending.
State(db, k, kind) ==
  IF Done(db, k, kind) THEN "ready"
  ELSE IF <<k, kind>> \in db.jobs THEN "pending"
  ELSE IF <<k, kind>> \in db.failed THEN "failed"
  ELSE IF <<k, kind>> \in db.empty THEN "empty" ELSE "not_started"

\* course_view.
CourseView(db, c) ==
  LET r == db.revision[c]
  IN [id |-> c, documents |-> c \in db.documents, revision |-> r,
      preparing   |-> \E j \in db.jobs : CourseOf(j[1]) = c /\ j[1][2] = r,
      recommended |-> IF r = 0 THEN None ELSE Recommended(Path, Summaries(db, c))]

FirstItem(S) == IF S = {} THEN None ELSE CHOOSE i \in S : \A j \in S : i[2] <= j[2]

\* The next step of topic_view, with its question: one never tried, else one
\* not yet answered correctly.
StepView(db, k) ==
  LET step  == NextStep(Number(k), Path, Summaries(db, CourseOf(k)))
      fresh == {i \in ItemsOf(db, k) : db.tried[i] = "new"}
      open  == {i \in ItemsOf(db, k) : db.tried[i] # "right"}
      kind  == IF GoesToTopic(step) THEN "go_to_topic"
               ELSE IF StudiesLesson(step) THEN "study_lesson"
               ELSE IF step.code = "course_practiced" THEN "review_course"
               ELSE "answer_check"
      item  == IF kind # "answer_check" THEN None
               ELSE FirstItem(IF fresh # {} THEN fresh ELSE open)
  IN [kind |-> kind, topic |-> step.topic, item |-> item,
      more |-> kind = "answer_check" /\ item = None]

\* topic_view.
TopicView(db, c, t) ==
  LET k == KeyIn(db, c, t)
  IN [id |-> t, key |-> k, notes |-> State(db, k, "lesson"),
      questions |-> State(db, k, "questions"),
      items |-> [i \in ItemsOf(db, k) |-> db.tried[i]], step |-> StepView(db, k)]

-----------------------------------------------------------------------------
(* Preparation ahead of the student.                                        *)

\* schedule_preparation: what the recommended topic and the next one miss.
Scheduled(db, c) ==
  LET summaries == Summaries(db, c)
      first  == Recommended(Path, summaries)
      later  == {t \in Unpracticed(summaries) : t > first}
      topics == {first} \cup (IF later = {} THEN {} ELSE {FirstOf(later)})
      jobs   == {j \in {KeyIn(db, c, t) : t \in topics} \X Kinds : ~Done(db, j[1], j[2])}
  IN [db EXCEPT !.jobs = @ \cup jobs, !.failed = @ \ (jobs \ db.jobs),
                !.empty = @ \ (jobs \ db.jobs)]

\* generate_items adds questions, or none.  A set is one question here.
Added(db, k) == {[db EXCEPT !.count[k] = n] : n \in {db.count[k], db.count[k] + 1} \cap (0..MaxItems)}

\* _work, _run_preparation_job: what the job j may leave behind.
Worked(db, j) ==
  LET k    == j[1]
      rest == [db EXCEPT !.jobs = @ \ {j}]
  IN IF k # KeyIn(db, CourseOf(k), Number(k)) \/ Done(db, k, j[2]) THEN {rest}
     ELSE {[rest EXCEPT !.failed = @ \cup {j}]} \cup
          IF j[2] = "lesson" THEN {[rest EXCEPT !.lessons = @ \cup {k}]}
          ELSE {IF d.count[k] = 0 THEN [d EXCEPT !.empty = @ \cup {j}] ELSE d : d \in Added(rest, k)}

-----------------------------------------------------------------------------
(* The requests.  Counters are cut where the policy stops telling them      *)
(* apart.                                                                   *)
UpTo(n, bound) == IF n > bound THEN bound ELSE n

\* A "lesson_opened" event: after the last answer, so it is a re-reading.
Opened(db, k) ==
  [db EXCEPT !.summary[k].opened = TRUE,
             !.summary[k].restudied = db.summary[k].last # "none"]

\* An answer had help if help was shown for the question or it was answered before.
Assisted(db, i) == db.helped[i] # {} \/ db.tried[i] # "new"

\* add_attempt and the solution that is shown after every answer.
Answered(db, i, correct) ==
  LET k == TopicOf(i)
      s == db.summary[k]
  IN [db EXCEPT
       !.summary[k] = [s EXCEPT
          !.clean = UpTo(@ + (IF correct /\ ~Assisted(db, i) THEN 1 ELSE 0), PracticedDistinctItems),
          !.last  = IF ~correct THEN "wrong" ELSE IF Assisted(db, i) THEN "assisted" ELSE "clean",
          !.errors = IF correct THEN 0 ELSE UpTo(@ + 1, StrugglingErrors),
          !.restudied = FALSE],
       !.tried[i]  = IF correct THEN "right" ELSE IF @ = "new" THEN "wrong" ELSE @,
       !.helped[i] = @ \cup {"solution"}]

Outcome(db, reply) == [db |-> db, reply |-> reply]

\* A request: kind, course, topic or item, and whether its input is complete
\* (an answer was typed, more questions are wanted).
Request(kind, c, t, i, full) == [kind |-> kind, course |-> c, topic |-> t, item |-> i, full |-> full]

\* build_outline: a new revision, prepared ahead.
Rebuilt(db, c) == Scheduled([db EXCEPT !.revision[c] = @ + 1], c)

\* open_lesson: the lesson is written if it is missing, the opening is
\* recorded, the next topics are scheduled, then the view is taken.
OpenLesson(db, c, t) ==
  LET k   == KeyIn(db, c, t)
      new == Scheduled(Opened([db EXCEPT !.lessons = @ \cup {k}], k), c)
  IN {Outcome(new, TopicView(new, c, t))} \cup
     (IF k \in db.lessons THEN {} ELSE {Outcome(db, Failed)})

\* add_questions: without "more" an empty topic is filled, nothing else.
AddQuestions(db, c, t, more) ==
  LET k == KeyIn(db, c, t)
  IN IF ~more /\ db.count[k] > 0 THEN {Outcome(db, TopicView(db, c, t))}
     ELSE {Outcome(d, TopicView(d, c, t)) : d \in Added(db, k)} \cup {Outcome(db, Failed)}

\* submit: the view is taken before the next topics are scheduled.
SubmitAnswer(db, i, typed) ==
  LET k == TopicOf(i) IN
  IF ~typed THEN {Outcome(db, Failed)}
  ELSE {Outcome(Scheduled(d, CourseOf(k)), TopicView(d, CourseOf(k), Number(k))) :
          d \in {Answered(db, i, correct) : correct \in BOOLEAN}}

\* reveal: a look at the notes during a question is an opening of the lesson.
Reveal(db, i, help) ==
  LET d == [db EXCEPT !.helped[i] = @ \cup {help}]
  IN {Outcome(IF help = "notes" THEN Opened(d, TopicOf(i)) ELSE d, "shown")}

\* Without a path no topic is found.
Handle(db, q) ==
  IF q.kind \in {"topic", "lesson", "questions"} /\ db.revision[q.course] = 0 THEN {Outcome(db, Failed)}
  ELSE CASE q.kind = "list" -> {Outcome(db, db.created)}
    [] q.kind = "create"    -> {Outcome([db EXCEPT !.created = @ \cup {c}], c) : c \in Courses \ db.created}
    [] q.kind = "documents" -> LET d == [db EXCEPT !.documents = @ \cup {q.course}]
                               IN {Outcome(d, CourseView(d, q.course)), Outcome(db, Failed)}
    [] q.kind = "outline"   -> LET d == Rebuilt(db, q.course) IN {Outcome(d, CourseView(d, q.course))}
    [] q.kind = "course"    -> {Outcome(db, CourseView(db, q.course))}
    [] q.kind = "topic"     -> {Outcome(db, TopicView(db, q.course, q.topic))}
    [] q.kind = "lesson"    -> OpenLesson(db, q.course, q.topic)
    [] q.kind = "questions" -> AddQuestions(db, q.course, q.topic, q.full)
    [] q.kind = "answer"    -> SubmitAnswer(db, q.item, q.full)
    [] OTHER                -> Reveal(db, q.item, q.kind)
=============================================================================
