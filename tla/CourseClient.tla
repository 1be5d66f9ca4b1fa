------------------------------ MODULE CourseClient ------------------------------
(***************************************************************************)
(* The page of the course workspace in one browser                         *)
(* (local_learning_web_assets_v01/course.js) over CourseService.           *)
(*                                                                         *)
(* The script is single-threaded but every request is awaited, and what    *)
(* runs in the meantime sees and changes the same variables: the student's *)
(* action ("run", one at a time), the first loading of the page ("load",   *)
(* beside it), and in the background polls and the reports that the notes  *)
(* were seen.  A task is sent (its request), served (its reply) and then   *)
(* goes on in the page; the first and the last of these may be apart.      *)
(*                                                                         *)
(* The page is what the script holds and what is on the screen: buttons    *)
(* act on what they were drawn with, not on what the script holds later.   *)
(* Texts are left out.  Buttons of #topic and #path are disabled while a    *)
(* run is busy.  A request the page has given up is not served later.       *)
(***************************************************************************)
EXTENDS CourseService

CONSTANTS
  Slots,         \* bound: background tasks at a time
  Start          \* the databases the page is first opened on, each with bounds of
                 \* what the student does and of what fails: requests or replies
                 \* that are lost, and jobs in vain

\* What is awaited when a visit is reported (recordStudy).
Reports ==
  [pc : {"visit"}, req : Requests, reply : {None}, course : {None}, topic : Topics,
   item : {None}, fresh : {None}, flag : {FALSE}]

ASSUME ClientAssumption ==
  /\ \A s \in Start : s.db \in Databases /\ s.moves \in Nat /\ s.failures \in Nat
  /\ Slots \cap {"run", "load", None} = {} /\ None \notin Reports

VARIABLES
  db,       \* the service
  page,     \* the variables of course.js and the screen
  task,     \* what is awaited
  timer,    \* pollTimer is set
  place,    \* course and topic of the address, and LAST_COURSE
  moves, failures,   \* what the student may still do, and what may still fail
  missed,   \* history: a report of the notes was lost, the page mixed up two
            \* topics, or an action was taken while it was still loading
  torn      \* history: since its loading the page has held a topic beside a course
            \* without a path, where drawing ends half-way

vars == <<db, page, task, timer, place, moves, failures, missed, torn>>

Threads == {"run", "load"} \cup Slots

Idle == [pc |-> "idle", req |-> None, reply |-> None, course |-> None, topic |-> None,
         item |-> None, fresh |-> None, flag |-> FALSE]

Call(pc, req) == [Idle EXCEPT !.pc = pc, !.req = req]

\* What the practice pane shows: a question with its buttons, or another kind.
Card(kind) == [kind |-> kind, item |-> None, answered |-> FALSE, next |-> None,
               leave |-> FALSE, notes |-> FALSE, lesson |-> FALSE]

Blank == [course |-> None, topic |-> None, mode |-> "study", pane |-> "none", item |-> None, feedback |-> None,
          confirm |-> FALSE, recorded |-> FALSE, peeked |-> {}, hints |-> {}, options |-> {},
          shown |-> FALSE, study |-> "none", notes |-> None, card |-> Card("none"), step |-> None,
          draft |-> FALSE, post |-> None]

Loading(where) ==
  [Call("list", Request("list", None, None, None, FALSE)) EXCEPT
     !.course = IF where.course # None THEN where.course ELSE where.last,
     !.topic  = where.topic]

Nowhere == [course |-> None, topic |-> None, last |-> None]

Init ==
  /\ \E s \in Start : db = s.db /\ moves = s.moves /\ failures = s.failures
  /\ page = Blank /\ timer = FALSE
  /\ place = Nowhere
  /\ task = [th \in Threads |-> IF th = "load" THEN Loading(place) ELSE Idle]
  /\ missed = FALSE /\ torn = FALSE

Busy  == task["run"].pc # "idle"
Quiet == \A th \in Threads : task[th].pc = "idle"

HasLesson(v) == v.notes = "ready"
Preparing(g) == g.course # None /\ g.course.preparing

-----------------------------------------------------------------------------
(* Drawing.  Each operator is the function of course.js of that name: it    *)
(* takes the page and returns it.  Without a topic, and renderTopic without  *)
(* a path too, it raises a TypeError that ends the handler: what was done    *)
(* before stays.                                                            *)

\* The question the policy chose, else one not yet answered correctly.
PickItem(v, exclude) ==
  LET open  == {i \in DOMAIN v.items : v.items[i] # "right" /\ i # exclude}
      fresh == {i \in open : v.items[i] = "new"}
  IN IF v.step.item # None /\ v.step.item # exclude /\ v.step.item \in DOMAIN v.items
     THEN v.step.item ELSE FirstItem(IF fresh # {} THEN fresh ELSE open)

QuestionCard(g, i) ==
  LET answered == g.feedback = i
      lesson   == HasLesson(g.topic)
  IN [kind |-> "question", item |-> i, answered |-> answered,
      next |-> IF answered THEN PickItem(g.topic, i) ELSE None,
      leave |-> g.confirm /\ ~answered, lesson |-> lesson,
      notes |-> i \in g.peeked /\ lesson /\ ~answered]

\* A new input field is empty.
RenderPractice(g) ==
  IF g.topic = None THEN [g EXCEPT !.draft = FALSE, !.card = Card("none")]
  ELSE IF DOMAIN g.topic.items = {}
    THEN [g EXCEPT !.draft = FALSE,
                   !.card = Card(IF g.topic.questions = "pending" THEN "waiting" ELSE "write")]
  ELSE LET i == IF g.item \in DOMAIN g.topic.items THEN g.item ELSE PickItem(g.topic, None)
       IN [g EXCEPT !.item = i, !.draft = FALSE,
                    !.card = IF i = None THEN Card("done") ELSE QuestionCard(g, i)]

LessonCall(g) ==
  [Call("visit", Request("lesson", g.course.id, g.topic.id, None, FALSE))
     EXCEPT !.topic = g.topic.id]

\* recordStudy up to its request; Show sends it.
RecordStudy(g) ==
  IF g.recorded \/ ~HasLesson(g.topic) THEN g
  ELSE [g EXCEPT !.recorded = TRUE, !.post = LessonCall(g)]

RenderStudy(g) ==
  IF HasLesson(g.topic) THEN RecordStudy([g EXCEPT !.study = "lesson", !.notes = g.topic.key])
  ELSE [g EXCEPT !.study = IF g.topic.notes = "pending" THEN "waiting" ELSE "write"]

\* The pane on the screen is that of the mode.
RenderMode(g) ==
  IF g.topic = None THEN g
  ELSE IF g.mode = "study" THEN RenderStudy([g EXCEPT !.pane = "study"])
  ELSE RenderPractice([g EXCEPT !.pane = "practice"])

Raises(g) == g.topic = None \/ g.course.revision = 0

RenderTopic(g) ==
  IF Raises(g) THEN [g EXCEPT !.shown = TRUE]
  ELSE RenderMode([g EXCEPT !.shown = TRUE, !.step = g.topic.step])

\* Mutant of QuestionInProgress: only a question with a typed answer counts.
QuestionInProgress_Typed(g) ==
  /\ g.mode = "practice" /\ g.item # None /\ HasLesson(g.topic)
  /\ g.feedback # g.item /\ g.item \notin g.peeked /\ g.draft

QuestionInProgress(g) ==
  /\ g.mode = "practice" /\ g.item # None /\ HasLesson(g.topic)
  /\ g.feedback # g.item /\ g.item \notin g.peeked /\ g.item \in DOMAIN g.topic.items

SetMode(g, next) ==
  IF next = "study" /\ g.mode = "practice" /\ g.item # None /\ g.topic = None THEN g
  ELSE IF next = "study" /\ g.topic # None /\ QuestionInProgress(g)
    THEN RenderPractice([g EXCEPT !.confirm = TRUE])
  ELSE RenderMode([g EXCEPT !.recorded = @ /\ next = g.mode, !.mode = next, !.confirm = FALSE])

-----------------------------------------------------------------------------
(* Steps of the page.                                                       *)

NotesShown(g) == g.shown /\ g.pane = "study" /\ g.study = "lesson"

\* One of the tasks is opening a topic, and is over.
Opens(tasks) == \E th \in Threads : task[th].pc = "open_topic" /\ tasks[th] # task[th]

\* A topic came into the page of another course, or, without being opened, in
\* the place of another one whose visit is recorded: a poll goes by the number.
Mixed(g, tasks) ==
  /\ g.topic \notin {None, page.topic}
  /\ \/ CourseOf(g.topic.key) # g.course.id
     \/ /\ g.recorded /\ ~Opens(tasks)
        /\ page.topic = None \/ g.topic.key # page.topic.key

\* The report that g sends is about other notes than those on the screen.
Misreported(g) == g.post # None /\ KeyIn(db, g.post.req.course, g.post.req.topic) # g.notes

\* The page becomes g, the tasks become tasks and the report of g is sent.
Show(g, tasks) ==
  /\ page' = [g EXCEPT !.post = None] /\ missed' = (missed \/ Mixed(g, tasks) \/ Misreported(g))
  /\ torn' = (torn \/ (g.topic # None /\ Raises(g)))
  /\ IF g.post = None THEN task' = tasks
     ELSE LET free == {s \in Slots : tasks[s].pc = "idle"}
          IN free # {} /\ task' = [tasks EXCEPT ![CHOOSE s \in free : TRUE] = g.post]

Answers(th, pc) == task[th].pc = pc /\ task[th].reply \notin {None, Failed}

\* The task awaits another request, and the page is g.
Continue(th, g, call) ==
  /\ Show(g, [task EXCEPT ![th] = call]) /\ UNCHANGED <<db, timer, moves, failures>>

\* The task is over: the end of run and of the first loading, schedulePoll.
Finish(th, g) ==
  /\ Show(g, [task EXCEPT ![th] = Idle]) /\ timer' = Preparing(g)
  /\ UNCHANGED <<db, moves, failures>>

\* A handler that asks the service, in run.
Begin(g, call) ==
  /\ moves > 0 /\ moves' = moves - 1 /\ ~Busy
  /\ page' = g /\ task' = [task EXCEPT !["run"] = call]
  /\ missed' = (missed \/ task["load"].pc # "idle")
  /\ UNCHANGED <<db, timer, place, failures, torn>>

\* A handler that does not.
Click(g) ==
  /\ moves > 0 /\ moves' = moves - 1 /\ ~Busy
  /\ Show(g, task) /\ UNCHANGED <<db, timer, place, failures>>

CourseCall(pc, c) == Call(pc, Request("course", c, None, None, FALSE))

TopicCall(c, t) ==
  [Call("open_topic", Request("topic", c, t, None, FALSE)) EXCEPT !.course = c, !.topic = t]

-----------------------------------------------------------------------------
(* Courses.                                                                 *)
SelectCourse(c) == c \in page.options /\ Begin(page, CourseCall("open_course", c))

CreateCourse ==
  /\ db.created # Courses
  /\ Begin(page, Call("create", Request("create", None, None, None, FALSE)))

AddDocument ==
  /\ page.course # None
  /\ Begin(page, Call("add", Request("documents", page.course.id, None, None, FALSE)))

BuildPath ==
  /\ page.course # None /\ page.course.documents /\ db.revision[page.course.id] < MaxRevision
  /\ Begin(page, Call("build", Request("outline", page.course.id, None, None, FALSE)))

Created(th) ==
  /\ Answers(th, "create") /\ UNCHANGED place
  /\ Continue(th, page, [Loading(Nowhere) EXCEPT !.course = task[th].reply])

\* refreshCourseList, then openCourse.
Listed(th) ==
  LET g == [page EXCEPT !.options = task[th].reply]
      c == task[th].course
  IN /\ Answers(th, "list") /\ UNCHANGED place
     /\ IF c \in g.options
        THEN Continue(th, g, [CourseCall("open_course", c) EXCEPT !.topic = task[th].topic])
        ELSE Finish(th, g)

OpenedCourse(th) ==
  LET v == task[th].reply
      g == [page EXCEPT !.course = v]
      wanted == IF task[th].topic # None THEN task[th].topic ELSE v.recommended
  IN /\ Answers(th, "open_course") /\ place' = [place EXCEPT !.last = v.id]
     /\ IF v.revision # 0 THEN Continue(th, g, TopicCall(v.id, wanted))
        ELSE Finish(th, [g EXCEPT !.topic = None, !.shown = FALSE])

DocumentAdded(th) ==
  /\ Answers(th, "add") /\ UNCHANGED place
  /\ Finish(th, [page EXCEPT !.course = task[th].reply])

\* The old topic stays on the screen until the new one is there.
Built(th) ==
  LET v == task[th].reply
  IN /\ Answers(th, "build") /\ UNCHANGED place
     /\ Continue(th, [page EXCEPT !.course = v, !.topic = None], TopicCall(v.id, v.recommended))

-----------------------------------------------------------------------------
(* Topics.                                                                  *)
OpenTopic(t) ==
  /\ page.course # None /\ page.course.revision # 0
  /\ Begin(page, TopicCall(page.course.id, t))

\* Mutant of OpenedTopic: the visit counts as recorded already.
OpenedTopic_SameVisit(th) ==
  LET v == task[th].reply
      t == task[th].topic
      practice == v.step.topic = t /\ v.step.kind = "answer_check"
  IN /\ Answers(th, "open_topic")
     /\ Finish(th, RenderTopic([page EXCEPT !.topic = v, !.feedback = None, !.confirm = FALSE,
                                  !.mode = IF practice THEN "practice" ELSE "study",
                                  !.item = IF practice THEN v.step.item ELSE None]))
     /\ place' = IF page.course.revision = 0 THEN place
                 ELSE [place EXCEPT !.course = page.course.id, !.topic = t]

\* The mode is that of the next step: notes first for a new topic.
OpenedTopic(th) ==
  LET v == task[th].reply
      t == task[th].topic
      practice == v.step.topic = t /\ v.step.kind = "answer_check"
  IN /\ Answers(th, "open_topic")
     /\ Finish(th, RenderTopic([page EXCEPT !.topic = v, !.feedback = None, !.confirm = FALSE,
                                  !.recorded = FALSE,
                                  !.mode = IF practice THEN "practice" ELSE "study",
                                  !.item = IF practice THEN v.step.item ELSE None]))
     /\ place' = IF page.course.revision = 0 THEN place
                 ELSE [place EXCEPT !.course = page.course.id, !.topic = t]

TopicRequest(kind, full) == Request(kind, page.course.id, page.topic.id, None, full)

WriteNotes ==
  /\ page.shown /\ page.topic # None /\ page.pane = "study" /\ page.study = "write"
  /\ Begin([page EXCEPT !.recorded = TRUE], Call("act", TopicRequest("lesson", FALSE)))

WriteQuestions(more) ==
  /\ page.topic # None
  /\ Begin(page, [Call("act", TopicRequest("questions", more)) EXCEPT !.flag = TRUE])

\* The buttons that do so.
WriteMore ==
  /\ page.shown /\ page.pane = "practice"
  /\ \/ page.card.kind = "write" /\ WriteQuestions(FALSE)
     \/ page.card.kind = "done" /\ WriteQuestions(TRUE)
     \/ page.card.answered /\ page.card.next = None /\ WriteQuestions(TRUE)

\* topicAction: the new view is drawn after the course was read again.
Acted(th) ==
  /\ Answers(th, "act") /\ UNCHANGED place
  /\ Continue(th, [page EXCEPT !.topic = task[th].reply],
              [CourseCall("acted", page.course.id) EXCEPT !.flag = task[th].flag])

ActedRefreshed(th) ==
  LET g == RenderTopic([page EXCEPT !.course = task[th].reply])
  IN /\ Answers(th, "acted") /\ UNCHANGED place
     /\ Finish(th, IF ~task[th].flag \/ Raises(g) THEN g
                   ELSE RenderMode([g EXCEPT !.item = None, !.feedback = None, !.mode = "practice"]))

DoThisNow ==
  /\ page.shown /\ page.step # None
  /\ CASE page.step.kind = "go_to_topic"  -> OpenTopic(page.step.topic)
       [] page.step.kind = "study_lesson" -> Click(SetMode(page, "study"))
       [] page.step.kind = "answer_check" ->
            IF page.step.more THEN WriteQuestions(TRUE)
            ELSE LET g == SetMode([page EXCEPT !.item = page.step.item], "practice")
                 IN Click(IF g.topic = None THEN g ELSE RenderPractice(g))
       [] OTHER -> FALSE

\* The tabs; "Start practice" and "Review the notes" do the same.
Tab(next) == page.shown /\ Click(SetMode(page, next))

-----------------------------------------------------------------------------
(* Questions.                                                               *)
OnScreen == page.shown /\ page.pane = "practice" /\ page.card.kind = "question"
Open     == OnScreen /\ ~page.card.answered

QuestionCall(pc, kind, full) ==
  [Call(pc, Request(kind, None, None, page.card.item, full)) EXCEPT !.item = page.card.item]

\* The input field is never disabled.
Type ==
  /\ Open /\ ~page.draft /\ page' = [page EXCEPT !.draft = TRUE]
  /\ UNCHANGED <<db, task, timer, place, moves, failures, missed, torn>>

Submit == Open /\ Begin(page, QuestionCall("answer", "answer", page.draft))

AnswerChecked(th) ==
  LET i == task[th].item
  IN /\ Answers(th, "answer") /\ UNCHANGED place
     /\ Continue(th, [page EXCEPT !.topic = task[th].reply, !.feedback = i],
                 CourseCall("answered", page.course.id))

AnswerShown(th) ==
  /\ Answers(th, "answered") /\ UNCHANGED place
  /\ Finish(th, RenderTopic([page EXCEPT !.course = task[th].reply]))

AskHint == Open /\ Begin(page, QuestionCall("hint", "hint", FALSE))

HintShown(th) ==
  /\ Answers(th, "hint") /\ UNCHANGED place
  /\ Finish(th, RenderPractice([page EXCEPT !.hints = @ \cup {task[th].item}]))

\* Mutant of PeekNotes: the notes are shown while their help is being recorded.
PeekNotes_Early(thenStudy) ==
  /\ Open /\ IF thenStudy THEN page.card.leave ELSE page.card.lesson /\ ~page.card.notes
  /\ Begin(RenderPractice([page EXCEPT !.peeked = @ \cup {page.card.item}]),
           [QuestionCall("peek", "notes", FALSE) EXCEPT !.flag = thenStudy])

\* The button that asks for the notes in the question, or the confirmation of
\* leaving it for them.
PeekNotes(thenStudy) ==
  /\ Open /\ IF thenStudy THEN page.card.leave ELSE page.card.lesson /\ ~page.card.notes
  /\ Begin(page, [QuestionCall("peek", "notes", FALSE) EXCEPT !.flag = thenStudy])

NotesPeeked(th) ==
  LET g == [page EXCEPT !.peeked = @ \cup {task[th].item}, !.confirm = FALSE]
  IN /\ Answers(th, "peek") /\ UNCHANGED place
     /\ Finish(th, IF task[th].flag THEN SetMode(g, "study") ELSE RenderPractice(g))

KeepPracticing ==
  Open /\ page.card.leave /\ Click(RenderPractice([page EXCEPT !.confirm = FALSE]))

NextQuestion ==
  /\ OnScreen /\ page.card.next # None
  /\ Click(RenderPractice([page EXCEPT !.item = page.card.next, !.feedback = None]))

-----------------------------------------------------------------------------
(* In the background.                                                       *)

\* recordStudy after its request: topics are told apart by their number only.
VisitRecorded(s) ==
  LET v == task[s].reply
  IN /\ Answers(s, "visit") /\ UNCHANGED <<timer, place>>
     /\ IF page.topic = None \/ page.topic.id # task[s].topic
        THEN Show(page, [task EXCEPT ![s] = Idle])
        ELSE Show([page EXCEPT !.topic.step = v.step, !.step = v.step],
                  [task EXCEPT ![s] = CourseCall("visited", page.course.id)])
     /\ UNCHANGED <<db, moves, failures>>

VisitedCourse(s) ==
  /\ Answers(s, "visited")
  /\ Show([page EXCEPT !.course = task[s].reply], [task EXCEPT ![s] = Idle])
  /\ UNCHANGED <<db, timer, place, moves, failures>>

\* The timer fires; while an action runs it is only set again.
Poll ==
  /\ timer /\ ~Busy /\ page.course # None /\ timer' = FALSE
  /\ \E s \in Slots :
       /\ task[s].pc = "idle" /\ s = CHOOSE r \in Slots : task[r].pc = "idle"
       /\ task' = [task EXCEPT ![s] =
            [CourseCall("poll", page.course.id) EXCEPT
               !.course = page.course.id,
               !.topic  = IF page.topic = None THEN None ELSE page.topic.id]]
  /\ UNCHANGED <<db, page, place, moves, failures, missed, torn>>

\* Mutant of PollApplied: any topic under the number counts as waiting.
PollApplied_RedrawsAll(g, course, fresh, t) ==
  LET h == [g EXCEPT !.course = course] IN
  IF fresh = None \/ g.topic = None \/ g.topic.id # t THEN h
  ELSE RenderMode([h EXCEPT !.topic = fresh, !.step = fresh.step])

\* What a poll changes: the views, and on the screen what was waiting.
PollApplied(g, course, fresh, t) ==
  LET h == [g EXCEPT !.course = course]
      f == [h EXCEPT !.topic = fresh, !.step = fresh.step]
  IN IF fresh = None \/ g.topic = None \/ g.topic.id # t THEN h
     ELSE IF g.mode = "study" /\ ~HasLesson(g.topic) THEN RenderStudy(f)
     ELSE IF g.mode = "practice" /\ DOMAIN g.topic.items = {} THEN RenderPractice(f) ELSE f

\* Mutant of Discarded: the course may have changed meanwhile.
Discarded_BusyOnly(course) == Busy \/ page.course = None

Discarded(course) == Busy \/ page.course = None \/ page.course.id # course

\* The end of poll, whose timer is set again whatever happened.
PollEnd(s, course, fresh) ==
  LET g == IF Discarded(task[s].course) THEN page ELSE PollApplied(page, course, fresh, task[s].topic)
  IN Finish(s, g) /\ UNCHANGED place

PolledCourse(s) ==
  /\ Answers(s, "poll")
  /\ IF task[s].topic = None THEN PollEnd(s, task[s].reply, None)
     ELSE /\ UNCHANGED place
          /\ Continue(s, page, [Call("poll_topic", Request("topic", page.course.id, task[s].topic, None, FALSE))
               EXCEPT !.course = task[s].course, !.topic = task[s].topic, !.fresh = task[s].reply])

PolledTopic(s) == Answers(s, "poll_topic") /\ PollEnd(s, task[s].fresh, task[s].reply)

-----------------------------------------------------------------------------
(* The service, failures, and the page opened again.                        *)
Serve(th) ==
  /\ task[th].req # None
  /\ \E out \in Handle(db, task[th].req) :
       /\ db' = out.db
       /\ task' = [task EXCEPT ![th].req = None, ![th].reply = out.reply]
  /\ UNCHANGED <<page, timer, place, moves, failures, missed, torn>>

\* A job that fails or brings nothing is a failure too.
Work ==
  /\ \E j \in db.jobs : \E d \in Worked(db, j) :
       /\ db' = d
       /\ failures' = failures - Cardinality((d.failed \ db.failed) \cup (d.empty \ db.empty))
       /\ failures' >= 0
  /\ UNCHANGED <<page, task, timer, place, moves, missed, torn>>

\* Mutant of GiveUp: a failed poll does not set the timer again.
GiveUp_StopsPolling(th) ==
  /\ task' = [task EXCEPT ![th] = Idle]
  /\ missed' = (missed \/ task[th].pc \in {"visit", "act"})
  /\ timer' = IF th \in Slots THEN timer ELSE Preparing(page)
  /\ UNCHANGED <<db, page, place, moves, torn>>

\* The catch of the task: a refusal of the service, or a lost request or reply.
GiveUp(th) ==
  /\ task' = [task EXCEPT ![th] = Idle]
  /\ missed' = (missed \/ task[th].pc \in {"visit", "act"})
  /\ timer' = IF task[th].pc \in {"visit", "visited"} THEN timer ELSE Preparing(page)
  /\ UNCHANGED <<db, page, place, moves, torn>>

Refused(th) == task[th].reply = Failed /\ GiveUp(th) /\ UNCHANGED failures

Lose(th) ==
  /\ task[th].pc # "idle" /\ failures > 0 /\ failures' = failures - 1
  /\ GiveUp(th)

\* The page is loaded again; the address and the last course are kept.
Reload ==
  /\ moves > 0 /\ moves' = moves - 1
  /\ page' = Blank /\ timer' = FALSE /\ torn' = FALSE
  /\ task' = [th \in Threads |-> IF th = "load" THEN Loading(place) ELSE Idle]
  /\ UNCHANGED <<db, place, failures, missed>>

Student ==
  \/ \E c \in Courses : SelectCourse(c)
  \/ CreateCourse \/ AddDocument \/ BuildPath
  \/ \E t \in Topics : OpenTopic(t)
  \/ WriteNotes \/ WriteMore \/ DoThisNow
  \/ \E m \in {"study", "practice"} : Tab(m)
  \/ Type \/ Submit \/ AskHint \/ (\E b \in BOOLEAN : PeekNotes(b))
  \/ KeepPracticing \/ NextQuestion \/ Reload

Replied(th) ==
  \/ Created(th) \/ Listed(th) \/ OpenedCourse(th) \/ DocumentAdded(th) \/ Built(th)
  \/ OpenedTopic(th) \/ Acted(th) \/ ActedRefreshed(th)
  \/ AnswerChecked(th) \/ AnswerShown(th) \/ HintShown(th) \/ NotesPeeked(th)
  \/ VisitRecorded(th) \/ VisitedCourse(th) \/ PolledCourse(th) \/ PolledTopic(th)
  \/ Refused(th)

Next ==
  \/ Student \/ Work \/ Poll
  \/ \E th \in Threads : Serve(th) \/ Replied(th) \/ Lose(th)

Spec == Init /\ [][Next]_vars

\* Jobs end, the timer fires, the service answers what is asked in the
\* background and the page takes the answers.  The student need not do anything.
\* Weak fairness of a task is written out, with its guard in the place of ENABLED.
Fairness ==
  /\ WF_vars(Work) /\ WF_vars(Poll)
  /\ \A s \in Slots :
       /\ []<>(task[s].req = None)   \/ []<><<Serve(s)>>_vars
       /\ []<>(task[s].reply = None) \/ []<><<Replied(s)>>_vars

FairSpec == Spec /\ Fairness

-----------------------------------------------------------------------------
(* What an action or the loading of the page does is the student's doing;    *)
(* the rest is done in the background.                                      *)
InBackground == moves' = moves /\ \A th \in {"run", "load"} : task'[th] = task[th]

\* The view the page holds still has the question that is on the screen.  It
\* has not when a view came late, after a newer one (poll).
Current == page.topic # None /\ page.card.item \in DOMAIN page.topic.items

\* A half-typed answer is never wiped by what arrives in the background
\* (schedulePoll: "refresh only the parts that were waiting"), unless an older
\* view of the topic, without the question, has arrived before: the code then
\* breaks that promise.
DraftSurvives == [][page.draft /\ Current /\ InBackground => page'.draft]_vars

\* An open question gives way to the notes only when an answer to it would count
\* as one with help (setMode, questionInProgress, peekNotes): by a tab, by the
\* next step or by anything that arrives, except the opening of a topic.  A page
\* that was drawn half-way keeps a question on the screen that the script no
\* longer holds, and does not ask.
AsksBeforeNotes ==
  [][Open /\ Current /\ ~torn /\ NotesShown(page')
       /\ (\A th \in Threads : task[th].pc = "open_topic" => task'[th] = task[th])
     => Assisted(db, page.card.item)]_vars

\* What is shown as help for a question has been recorded as help for it
\* (peekNotes and the hint button ask first and draw afterwards).
HelpIsRecorded ==
  /\ \A i \in page.peeked : "notes" \in db.helped[i]
  /\ \A i \in page.hints : "hint" \in db.helped[i]

\* Once nothing is awaited, notes on the screen are a visit the policy knows
\* of, and a re-reading if the topic had answers before (recordStudy,
\* studyRecorded).  A report that is lost is not repeated; one sent while the
\* page held another course (refreshCourseOnly) is about that course's topic; and
\* none is sent for a topic that a poll put in the place of a recorded one.
VisitIsRecorded ==
  (Quiet /\ NotesShown(page) /\ page.notes = KeyIn(db, CourseOf(page.notes), Number(page.notes))
     /\ ~missed /\ ~torn)
  => LET s == db.summary[page.notes] IN s.opened /\ (s.last # "none" => s.restudied)

CourseShown(g) == IF g.course = None THEN None ELSE g.course.id

\* A poll never changes which course the page is about: its answer is dropped
\* when another course was opened in the meantime (poll).
PollStaysInCourse ==
  [][\A s \in Slots : task[s].pc \in {"poll", "poll_topic"} /\ task'[s] # task[s] /\ moves' = moves
       => CourseShown(page') = CourseShown(page)]_vars

Waiting == page.shown /\ page.pane = "study" /\ page.study = "waiting"

\* "This page updates by itself" (waiting): notes that are being prepared
\* while the page polls come, or their failure does, if the student lets the
\* page be and nothing else is under way.  (What is under way may end the polls
\* too early: it reads the course, finds that nothing is being prepared any
\* more, and leaves the waiting topic as it is.)
WaitingEnds ==
  (Waiting /\ timer /\ Preparing(page) /\ Quiet /\ moves = 0) ~> ~Waiting
=============================================================================
