-------------------------- MODULE CoursePreparation --------------------------
(***************************************************************************)
(* How the course workspace writes a course path, lessons and check        *)
(* questions: HTTP request threads and one background preparation thread   *)
(* share the store, a job queue with a status table, and one generation    *)
(* lock around every call of the local model                               *)
(* (services/course_workspace/service_v01.py, preparation_v01.py).         *)
(*                                                                         *)
(* One course is modelled.  Every call of the store is one statement under *)
(* the store's own lock, hence one step; the work between two store calls  *)
(* is part of the step of the later one.  A lesson is the pair (revision,  *)
(* topic) it was saved under, a question its fingerprint.                  *)
(***************************************************************************)
EXTENDS Integers, Sequences, FiniteSets

CONSTANTS
  Requests,     \* the HTTP request threads
  Worker,       \* the daemon thread of PreparationWorkerV01
  Nobody,       \* the generation lock is free
  MaxTopics,    \* bound: topics of one course path
  MaxRevision,  \* bound: course paths built
  Questions,    \* bound: the question fingerprints the model can write
  MaxClicks,    \* bound: requests served
  MaxRestarts   \* bound: restarts of the process

ASSUME PreparationAssumption ==
  /\ Worker \notin Requests
  /\ Nobody \notin Requests \cup {Worker}
  /\ MaxTopics \in Nat \ {0} /\ MaxRevision \in Nat \ {0}
  /\ MaxClicks \in Nat /\ MaxRestarts \in Nat

Procs     == Requests \cup {Worker}
Revisions == 1..MaxRevision
Topics    == 1..MaxTopics     \* topic_id "t1", "t2", ...: its place in the path
Kinds     == {"lesson", "questions"}
Keys      == Revisions \X Topics
JobKeys   == Revisions \X Topics \X Kinds

VARIABLES
  outlines,   \* cw_outlines_v01: the number of topics of each revision
  lessons,    \* cw_lessons_v01: the keys with a saved lesson
  items,      \* cw_items_v01: for each key the questions, in saving order
  opened,     \* cw_events_v01: keys with a "lesson_opened" event of open_lesson
  practiced,  \* keys whose topic summary has status "practiced"
  queue,      \* PreparationWorkerV01._queue
  status,     \* PreparationWorkerV01._status
  lock,       \* CourseWorkspaceServiceV01._generation_lock: its holder
  pc,         \* where each thread is
  loc,        \* its local variables
  looked,     \* history: schedule_preparation has run in this process
  clicks, restarts

store == <<outlines, lessons, items, opened, practiced>>
vars  == <<store, queue, status, lock, pc, loc, looked, clicks, restarts>>

-----------------------------------------------------------------------------
(* Local variables of a thread: the key it works on, only_if_empty, the    *)
(* questions it has still to save and has saved, the jobs it has still to   *)
(* look at.                                                                 *)
NoLocals == [key |-> <<1, 1>>, kind |-> "lesson", fill |-> FALSE,
             kept |-> <<>>, saved |-> 0, todo |-> <<>>]

ModelPcs == {"outline_model", "lesson_model", "items_model"}
LockPcs  == ModelPcs \cup {"items_save"}
Pcs      == LockPcs \cup
            {"idle", "outline_wait", "outline_save", "lesson_check", "lesson_wait",
             "lesson_event", "items_wait", "answer_view", "schedule", "sched_job", "sched_submit",
             "sched_put", "job_begin", "job_ready", "job_failed"}

Latest == Len(outlines)
JobOf(p) == <<loc[p].key[1], loc[p].key[2], loc[p].kind>>

Goto(p, to) == pc' = [pc EXCEPT ![p] = to] /\ UNCHANGED loc
Become(p, to, l) == pc' = [pc EXCEPT ![p] = to] /\ loc' = [loc EXCEPT ![p] = l]
Leave(p) == Become(p, "idle", NoLocals)

\* Where a thread continues once a lesson or a question set is done with, and
\* where an exception takes it: the worker reports to the status table, a
\* request goes on with its handler or answers with an error.
Continue(p, to) == IF p = Worker THEN Goto(p, "job_ready")
                   ELSE IF to = "idle" THEN Leave(p) ELSE Goto(p, to)
\* Mutants of Raise: an exception reported as "ready"; one that ends the thread.
Raise_Ready(p) == IF p = Worker THEN Goto(p, "job_ready") ELSE Leave(p)
Raise_Fatal(p) == IF p = Worker THEN Goto(p, "dead") ELSE Leave(p)

Raise(p) == IF p = Worker THEN Goto(p, "job_failed") ELSE Leave(p)

Acquire(p) == lock = Nobody /\ lock' = p
Release(p) == lock = p /\ lock' = Nobody

-----------------------------------------------------------------------------
\* The store is empty, or holds the course path of an earlier run of the process.
Init ==
  /\ outlines \in {<<>>, <<MaxTopics>>}
  /\ lessons = {} /\ opened = {} /\ practiced = {}
  /\ items = [k \in Keys |-> <<>>]
  /\ queue = <<>> /\ status = [j \in JobKeys |-> "none"]
  /\ lock = Nobody
  /\ pc = [p \in Procs |-> "idle"] /\ loc = [p \in Procs |-> NoLocals]
  /\ looked = FALSE /\ clicks = 0 /\ restarts = 0

Click(p) ==
  /\ p \in Requests /\ pc[p] = "idle"
  /\ clicks < MaxClicks /\ clicks' = clicks + 1
  /\ UNCHANGED <<store, queue, status, lock, looked, restarts>>

Step == UNCHANGED <<looked, clicks, restarts>>

-----------------------------------------------------------------------------
(* POST .../outline: build_outline.  The sources are read before the lock; *)
(* a course has at least one document here.                                 *)
BuildOutline(p) == Click(p) /\ Latest < MaxRevision /\ Goto(p, "outline_wait")

\* Mutant of OutlineLock: the path is proposed without waiting for the lock.
OutlineLock_NoWait(p) ==
  /\ pc[p] = "outline_wait" /\ lock' = p /\ Goto(p, "outline_model")
  /\ UNCHANGED <<store, queue, status>> /\ Step

OutlineLock(p) ==
  /\ pc[p] = "outline_wait" /\ Acquire(p) /\ Goto(p, "outline_model")
  /\ UNCHANGED <<store, queue, status>> /\ Step

\* The lock is released before add_outline; an unusable proposal falls back to
\* the document headings, any other exception leaves the handler.
OutlineModel(p) ==
  /\ pc[p] = "outline_model" /\ Release(p)
  /\ Goto(p, "outline_save") \/ Raise(p)
  /\ UNCHANGED <<store, queue, status>> /\ Step

\* add_outline numbers the revision under the store lock.
OutlineSave(p) ==
  /\ pc[p] = "outline_save" /\ Latest < MaxRevision
  /\ \E n \in Topics : outlines' = Append(outlines, n)
  /\ Goto(p, "schedule")
  /\ UNCHANGED <<lessons, items, opened, practiced, queue, status, lock>> /\ Step

-----------------------------------------------------------------------------
(* POST .../lesson: open_lesson, and _ensure_lesson also for the worker.   *)
OpenLesson(p) ==
  /\ Click(p) /\ Latest > 0
  /\ \E t \in 1..outlines[Latest] :
       Become(p, "lesson_check", [NoLocals EXCEPT !.key = <<Latest, t>>])

LessonCheck(p) ==
  /\ pc[p] = "lesson_check"
  /\ IF loc[p].key \in lessons THEN Continue(p, "lesson_event") ELSE Goto(p, "lesson_wait")
  /\ UNCHANGED <<store, queue, status, lock>> /\ Step

\* Mutant of LessonLock: no second look at the store.
LessonLock_NoRecheck(p) ==
  /\ pc[p] = "lesson_wait" /\ Acquire(p) /\ Goto(p, "lesson_model")
  /\ UNCHANGED <<store, queue, status>> /\ Step

\* The second look at the store is made under the lock, which all writers of
\* lessons hold.
LessonLock(p) ==
  /\ pc[p] = "lesson_wait" /\ lock = Nobody
  /\ \/ loc[p].key \in lessons /\ Continue(p, "lesson_event") /\ UNCHANGED lock
     \/ loc[p].key \notin lessons /\ Acquire(p) /\ Goto(p, "lesson_model")
  /\ UNCHANGED <<store, queue, status>> /\ Step

\* The model answers and the lesson is saved, or the call fails.
LessonModel(p) ==
  /\ pc[p] = "lesson_model" /\ Release(p)
  /\ \/ lessons' = lessons \cup {loc[p].key} /\ Continue(p, "lesson_event")
     \/ UNCHANGED lessons /\ Raise(p)
  /\ UNCHANGED <<outlines, items, opened, practiced, queue, status>> /\ Step

\* Mutant of LessonEvent: the event goes to the path that is current now.
LessonEvent_Current(p) ==
  /\ pc[p] = "lesson_event"
  /\ opened' = opened \cup {<<Latest, loc[p].key[2]>>} /\ Goto(p, "schedule")
  /\ UNCHANGED <<outlines, lessons, items, practiced, queue, status, lock>> /\ Step

LessonEvent(p) ==
  /\ pc[p] = "lesson_event"
  /\ opened' = opened \cup {loc[p].key} /\ Goto(p, "schedule")
  /\ UNCHANGED <<outlines, lessons, items, practiced, queue, status, lock>> /\ Step

-----------------------------------------------------------------------------
(* POST .../questions: add_questions, and _generate_questions also for the *)
(* worker, which always fills only an empty topic.                          *)
AddQuestions(p) ==
  /\ Click(p) /\ Latest > 0
  /\ \E t \in 1..outlines[Latest], more \in BOOLEAN :
       Become(p, "items_wait", [NoLocals EXCEPT !.key = <<Latest, t>>, !.fill = ~more])

\* Mutant of ItemsLock: only_if_empty is not looked at again under the lock.
ItemsLock_NoRecheck(p) ==
  /\ pc[p] = "items_wait" /\ Acquire(p) /\ Goto(p, "items_model")
  /\ UNCHANGED <<store, queue, status>> /\ Step

\* Both list_items calls are made under the lock, which all writers of items
\* hold.
ItemsLock(p) ==
  /\ pc[p] = "items_wait" /\ lock = Nobody
  /\ LET skip == loc[p].fill /\ items[loc[p].key] # <<>> IN
       \/ skip /\ Continue(p, "idle") /\ UNCHANGED lock
       \/ ~skip /\ Acquire(p) /\ Goto(p, "items_model")
  /\ UNCHANGED <<store, queue, status>> /\ Step

\* Mutant of Kept: duplicates are looked for in the new batch only.
Kept_BatchOnly(existing) ==
  {<<q>> : q \in Questions}
  \cup {<<q[1], q[2]>> : q \in {r \in Questions \X Questions : r[1] # r[2]}}

\* generate_items_v01 keeps new questions only, each one once.
Kept(existing) ==
  LET fresh == Questions \ {existing[i] : i \in DOMAIN existing}
  IN {<<q>> : q \in fresh}
     \cup {<<q[1], q[2]>> : q \in {r \in fresh \X fresh : r[1] # r[2]}}

\* Some questions pass the checks, none does, or the call fails.
ItemsModel(p) ==
  /\ pc[p] = "items_model"
  /\ \/ /\ \E kept \in Kept(items[loc[p].key]) :
             Become(p, "items_save", [loc[p] EXCEPT !.kept = kept])
        /\ UNCHANGED lock
     \/ Release(p) /\ Continue(p, "idle")
     \/ Release(p) /\ Raise(p)
  /\ UNCHANGED <<store, queue, status>> /\ Step

\* One add_item per step; the lock is released after the last one.
ItemsSave(p) ==
  /\ pc[p] = "items_save"
  /\ items' = [items EXCEPT ![loc[p].key] = Append(@, Head(loc[p].kept))]
  /\ \/ /\ Tail(loc[p].kept) # <<>> /\ UNCHANGED lock
        /\ Become(p, "items_save", [loc[p] EXCEPT !.kept = Tail(@), !.saved = @ + 1])
     \/ Tail(loc[p].kept) = <<>> /\ Release(p) /\ Continue(p, "idle")
  /\ UNCHANGED <<outlines, lessons, opened, practiced, queue, status>> /\ Step

-----------------------------------------------------------------------------
(* POST .../answer: submit, as preparation sees it.  The item may belong to *)
(* an earlier revision; a correct answer can make its topic practiced, which *)
(* takes two different questions.                                           *)
SubmitAnswer(p) ==
  /\ p \in Requests /\ pc[p] = "idle"
  /\ clicks < MaxClicks /\ clicks' = clicks + 1
  /\ \E k \in {j \in Keys : items[j] # <<>>} :
       /\ practiced' \in {practiced} \cup
            IF Len(items[k]) >= 2 THEN {practiced \cup {k}} ELSE {}
       /\ Become(p, "answer_view", [NoLocals EXCEPT !.key = k])
  /\ UNCHANGED <<outlines, lessons, items, opened, queue, status, lock, looked, restarts>>

\* Mutant of AnswerView: the answer does not schedule what it makes needed.
AnswerView_NoSchedule(p) ==
  /\ pc[p] = "answer_view" /\ Leave(p)
  /\ UNCHANGED <<store, queue, status, lock>> /\ Step

\* topic_view raises when the latest path has no such topic; the handler then
\* ends before it schedules.
AnswerView(p) ==
  /\ pc[p] = "answer_view"
  /\ IF loc[p].key[2] \in 1..outlines[Latest] THEN Goto(p, "schedule") ELSE Leave(p)
  /\ UNCHANGED <<store, queue, status, lock>> /\ Step

-----------------------------------------------------------------------------
(* schedule_preparation: the jobs of the recommended topic and of the next *)
(* topic that is not practiced.                                             *)
Unpracticed == {t \in 1..outlines[Latest] : <<Latest, t>> \notin practiced}
SmallestOf(S) == CHOOSE t \in S : \A u \in S : t <= u

Recommended == IF Unpracticed = {} THEN outlines[Latest] ELSE SmallestOf(Unpracticed)

Targets ==
  LET later == {t \in Unpracticed : t > Recommended}
  IN IF later = {} THEN <<Recommended>> ELSE <<Recommended, SmallestOf(later)>>

Jobs ==
  LET of(t) == <<<<Latest, t, "lesson">>, <<Latest, t, "questions">>>>
  IN IF Len(Targets) = 1 THEN of(Targets[1]) ELSE of(Targets[1]) \o of(Targets[2])

\* The latest outline and the observations are read here.
Schedule(p) ==
  /\ pc[p] = "schedule" /\ Become(p, "sched_job", [NoLocals EXCEPT !.todo = Jobs])
  /\ looked' = TRUE
  /\ UNCHANGED <<store, queue, status, lock, clicks, restarts>>

Saved(job) == IF job[3] = "lesson" THEN <<job[1], job[2]>> \in lessons
              ELSE items[<<job[1], job[2]>>] # <<>>

\* Mutant of SchedJob: what exists already ends the look at the rest.
SchedJob_StopAtSaved(p) ==
  /\ pc[p] = "sched_job"
  /\ \/ /\ loc[p].todo = <<>> \/ Saved(Head(loc[p].todo))
        /\ Leave(p)
     \/ /\ loc[p].todo # <<>> /\ ~Saved(Head(loc[p].todo)) /\ Goto(p, "sched_submit")
  /\ UNCHANGED <<store, queue, status, lock>> /\ Step

\* Look at the store for the next job; what is missing is submitted.
SchedJob(p) ==
  /\ pc[p] = "sched_job"
  /\ \/ /\ loc[p].todo = <<>> /\ Leave(p)
     \/ /\ loc[p].todo # <<>> /\ Saved(Head(loc[p].todo))
        /\ Become(p, "sched_job", [loc[p] EXCEPT !.todo = Tail(@)])
     \/ /\ loc[p].todo # <<>> /\ ~Saved(Head(loc[p].todo)) /\ Goto(p, "sched_submit")
  /\ UNCHANGED <<store, queue, status, lock>> /\ Step

\* Mutant of Submit: a job that is being worked on may be queued again.
Submit_WhileWorking(p) ==
  /\ pc[p] = "sched_submit"
  /\ LET job == Head(loc[p].todo) IN
       \/ /\ status[job] = "queued" /\ UNCHANGED status
          /\ Become(p, "sched_job", [loc[p] EXCEPT !.todo = Tail(@)])
       \/ /\ status[job] # "queued"
          /\ status' = [status EXCEPT ![job] = "queued"] /\ Goto(p, "sched_put")
  /\ UNCHANGED <<store, queue, lock>> /\ Step

\* PreparationWorkerV01.submit: the status table under its lock ...
Submit(p) ==
  /\ pc[p] = "sched_submit"
  /\ LET job == Head(loc[p].todo) IN
       \/ /\ status[job] \in {"queued", "working"} /\ UNCHANGED status
          /\ Become(p, "sched_job", [loc[p] EXCEPT !.todo = Tail(@)])
       \/ /\ status[job] \notin {"queued", "working"}
          /\ status' = [status EXCEPT ![job] = "queued"] /\ Goto(p, "sched_put")
  /\ UNCHANGED <<store, queue, lock>> /\ Step

\* ... and the queue after that lock is released.
Put(p) ==
  /\ pc[p] = "sched_put"
  /\ queue' = Append(queue, Head(loc[p].todo))
  /\ Become(p, "sched_job", [loc[p] EXCEPT !.todo = Tail(@)])
  /\ UNCHANGED <<store, status, lock>> /\ Step

-----------------------------------------------------------------------------
(* The preparation thread.  Taking a job and showing it as "working" are    *)
(* one step: until then it is shown as "queued", which submit treats alike. *)
WorkerGet ==
  /\ pc[Worker] = "idle" /\ queue # <<>>
  /\ queue' = Tail(queue)
  /\ status' = [status EXCEPT ![Head(queue)] = "working"]
  /\ Become(Worker, "job_begin",
            [NoLocals EXCEPT !.key = <<Head(queue)[1], Head(queue)[2]>>,
                             !.kind = Head(queue)[3], !.fill = TRUE])
  /\ UNCHANGED <<store, lock>> /\ Step

\* _run_preparation_job: work for a course path that was rebuilt is dropped.
JobBegin ==
  /\ pc[Worker] = "job_begin"
  /\ Goto(Worker, IF loc[Worker].key[1] # Latest THEN "job_ready"
                  ELSE IF loc[Worker].kind = "lesson" THEN "lesson_check" ELSE "items_wait")
  /\ UNCHANGED <<store, queue, status, lock>> /\ Step

JobEnd ==
  /\ pc[Worker] \in {"job_ready", "job_failed"}
  /\ status' = [status EXCEPT ![JobOf(Worker)] =
                  IF pc[Worker] = "job_ready" THEN "ready" ELSE "failed"]
  /\ Leave(Worker)
  /\ UNCHANGED <<store, queue, lock>> /\ Step

\* The process stops and starts again: the status table, the queue and every
\* thread are gone, the store is not.
Restart ==
  /\ restarts < MaxRestarts /\ restarts' = restarts + 1
  /\ queue' = <<>> /\ status' = [j \in JobKeys |-> "none"] /\ lock' = Nobody
  /\ pc' = [p \in Procs |-> "idle"] /\ loc' = [p \in Procs |-> NoLocals]
  /\ looked' = FALSE
  /\ UNCHANGED <<store, clicks>>

-----------------------------------------------------------------------------
Generate(p) ==
  \/ LessonCheck(p) \/ LessonLock(p) \/ LessonModel(p)
  \/ ItemsLock(p) \/ ItemsModel(p) \/ ItemsSave(p)

Request(p) == BuildOutline(p) \/ OpenLesson(p) \/ AddQuestions(p) \/ SubmitAnswer(p)

Handle(p) ==
  \/ OutlineLock(p) \/ OutlineModel(p) \/ OutlineSave(p) \/ LessonEvent(p)
  \/ AnswerView(p) \/ Schedule(p) \/ SchedJob(p) \/ Submit(p) \/ Put(p)

WorkerStep == WorkerGet \/ JobBegin \/ JobEnd

Next ==
  \/ \E p \in Requests : Request(p) \/ Handle(p)
  \/ \E p \in Procs : Generate(p)
  \/ WorkerStep \/ Restart

Spec == Init /\ [][Next]_vars

\* A started request and the worker keep running; a call of the model returns.
Fairness ==
  /\ \A p \in Requests : WF_vars(Handle(p))
  /\ \A p \in Procs : WF_vars(Generate(p))
  /\ WF_vars(WorkerStep)

FairSpec == Spec /\ Fairness

-----------------------------------------------------------------------------
TypeOK ==
  /\ outlines \in Seq(Topics) /\ Latest <= MaxRevision
  /\ lessons \subseteq Keys /\ opened \subseteq Keys /\ practiced \subseteq Keys
  /\ items \in [Keys -> Seq(Questions)]
  /\ queue \in Seq(JobKeys)
  /\ status \in [JobKeys -> {"none", "queued", "working", "ready", "failed"}]
  /\ lock \in Procs \cup {Nobody}
  /\ pc \in [Procs -> Pcs]
  /\ loc \in [Procs -> [key : Keys, kind : Kinds, fill : BOOLEAN, kept : Seq(Questions),
                       saved : Nat, todo : Seq(JobKeys)]]
  /\ looked \in BOOLEAN /\ clicks \in 0..MaxClicks /\ restarts \in 0..MaxRestarts

(* "One local model call at a time": whoever waits for the model holds the  *)
(* generation lock, so no two threads ever wait for it together.            *)
OneModelCall ==
  /\ \A p \in Procs : pc[p] \in LockPcs <=> lock = p
  /\ \A p, r \in Procs : pc[p] \in ModelPcs /\ pc[r] \in ModelPcs => p = r

(* A thread about to insert a lesson finds no lesson there: the primary key *)
(* of cw_lessons_v01 never rejects a lesson the model has just written.     *)
LessonWrittenOnce ==
  \A p \in Procs : pc[p] = "lesson_model" => loc[p].key \notin lessons

(* No topic of a revision holds two questions with one fingerprint, whoever *)
(* generated them (docs/35: the same question could once be saved twice).   *)
NoRepeatedQuestion ==
  \A k \in Keys : \A i, j \in DOMAIN items[k] : items[k][i] = items[k][j] => i = j

(* A thread that may only fill an empty topic is the author of every        *)
(* question in it, until it is done: a click never duplicates the set the   *)
(* background worker prepared.                                              *)
FillOnlyEmpty ==
  \A p \in Procs : loc[p].fill /\ pc[p] \in {"items_model", "items_save"}
                     => Len(items[loc[p].key]) = loc[p].saved

(* A "lesson_opened" event of open_lesson refers to a saved lesson of the   *)
(* same revision, although the path may be rebuilt while the lesson is      *)
(* written.                                                                 *)
OpenedIsSaved == opened \subseteq lessons

Holders(job) ==
  {i \in DOMAIN queue : queue[i] = job}
  \cup {p \in Requests : pc[p] = "sched_put" /\ Head(loc[p].todo) = job}
  \cup {p \in {Worker} : pc[p] # "idle" /\ JobOf(p) = job}

(* The status table and the queue agree: a job shown as queued or working   *)
(* is in exactly one place (queue, submitting thread, worker), and a job    *)
(* shown otherwise is nowhere.  A job in no place would block every later   *)
(* submit of its key.                                                       *)
JobInOnePlace ==
  \A j \in JobKeys :
    Cardinality(Holders(j)) = IF status[j] \in {"queued", "working"} THEN 1 ELSE 0

(* "ready" shown for a lesson of the current path means that the lesson can *)
(* be opened without waiting for the model.                                 *)
ReadyLessonIsSaved ==
  \A k \in Keys : status[<<k[1], k[2], "lesson">>] = "ready" /\ k[1] = Latest => k \in lessons

(* Nobody forgets what the student needs next.  Once schedule_preparation    *)
(* has run in this process and no request is about to run it, each lesson   *)
(* and question set of the recommended topic and of the topic after it is   *)
(* saved, under way, failed, or was asked for in vain (no question passed   *)
(* the checks).  The path may have been rebuilt and answers may have moved  *)
(* the student on meanwhile, topic_view may have ended a handler before it  *)
(* scheduled, a restart may have emptied the queue: "missing work is        *)
(* scheduled again on the next trigger" (preparation_v01.py).               *)
Looking(p) == pc[p] \in {"answer_view", "schedule", "sched_job", "sched_submit", "sched_put"}

NothingForgotten ==
  looked /\ (\A p \in Requests : ~Looking(p)) =>
    \A i \in DOMAIN Jobs :
      \/ Saved(Jobs[i])
      \/ status[Jobs[i]] \in {"queued", "working", "failed"}
      \/ Jobs[i][3] = "questions" /\ status[Jobs[i]] = "ready"

(* Whatever has been scheduled is worked on: a queued job ends as ready or  *)
(* failed, unless the process is restarted.                                 *)
QueuedJobEnds ==
  \A j \in JobKeys : status[j] = "queued" ~> status[j] \in {"ready", "failed", "none"}
=============================================================================
