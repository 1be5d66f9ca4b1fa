# TLA+ verification of URPP

URPP is a local-first AI tutor. A student imports course documents; a local
language model proposes a course path and writes lessons and check questions;
the program, not the model, decides what counts as evidence, what comes next
and what is recorded. The backend (`backend/app`, Python, SQLite) and its two
browser pages (plain JavaScript) make four kinds of promise that tests hardly
reach, because they are about *several* calls that overlap, are retried, or are
cut off:

* an expensive or irreversible step (a model call, an answer, a turn) happens
  **once**, however often and by whomever it is asked for;
* **evidence** is what it says it is: an answer counted as unassisted was given
  without help, an answer follows the history it was generated from;
* the **stores** recover: after a crash every row is whole and the work goes on;
* the **pages** tell the student and the service the truth: what is on the screen
  as help or as notes is on record, what arrives late does not disturb what the
  student is doing.

This directory models those parts, checks them with TLC, and proves with TLAPS
every safety invariant that the passing runs check, for every size of the system.

## 1. Inventory

### Components, their state and operations

Paths are below `backend/app/`.

| | Component | State | Operations | Modelled in |
|---|---|---|---|---|
| A | Course workspace: generation and preparation (`services/course_workspace/service_v01.py`, `preparation_v01.py`, `store_v01.py`) | tables `cw_outlines/lessons/items/events_v01`; in memory one generation lock, a job queue and a status table | build path, open lesson, add questions, answer, schedule preparation; one background thread | `CoursePreparation` |
| B | Course path and policy (`outline_v01.py`, `progress_policy_v01.py`) | none (pure) | validate a proposed path, heading fallback, summarise a topic, next step, recommended topic | `CoursePath`, `ProgressPolicy` |
| C | Course practice (`service_v01.py` reveal/submit, `progress_policy_v01.py`) | append-only `cw_attempts_v01`, `cw_events_v01` | open lesson, reveal hint/solution/notes, submit, summarise | `CoursePractice` |
| D | Course documents (`add_document`, `_save_once`) | `cw_documents_v01`, `uploads/`, `packs/` | upload, list | `CourseDocuments` |
| E | Question and lesson writing (`practice_v01.py`, `lesson_v01.py`, `llm_json_v01.py`) | none | parse and check the model's JSON, fingerprint, score an answer | partly, inside `CoursePreparation` |
| F | Numeric practice sessions (`recoverable_numeric_session_v01.py`, `repositories/numeric_*`, `assessment_assistance_log_v01.py`) | sessions, assignments, attempts, help events | start, resume, deliver, submit, report help | `NumericSession`, `AnsweredOnce` |
| G | Durable teaching record (`durable_teaching_turn_v01.py`, `durable_learning_feedback_v01.py`, `repositories/course_*`) | intents, traces, presentations, responses, feedback | run or resume a turn, report presentation, record a response, run or resume feedback | `DurableTeaching`, `OnceOnly` |
| H | Local Professor chat (`local_chat_store_v01.py`, `local_professor_chat_service_v01.py`, `local_learning_*`) | sessions pinned to a pack, messages | start, ask, answer | `LocalChat` |
| H' | Chat page (`local_learning_web_assets_v01/app.js`) | `active`, `messageCount`, the screen, the question box; `lastKey` in `localStorage` | upload, resume, refresh, send | `ChatClient` over `LocalChat` |
| A' | Course page (`local_learning_web_assets_v01/course.js`) | `course`, `topic`, mode, item, feedback, peeked and hinted items, the screen; one poll timer; the address | select, create, add, build, open, write, submit, hint, peek, tabs; polls and reports of visits in the background | `CourseClient` over `CourseService` |
| I | Student model (`services/student_model/`) | none (pure, over stored evidence) | eligibility, state estimate, policy | `StudentModel` |
| J | Decision engines, turn orchestration (`services/decision/`) | none or one call's | choose an intent, run one turn | planned (section 6) |
| K | Numeric loop, adapters, assistance presentation, provenance, assessment records | append-only rows around F | one call each | planned where they add interleavings |
| L | Transfer review | immutable reviews, supersession | review, revoke, gate | planned (the gate is closed for every request today) |
| M | Database engine, migrations, audits | schema | offline scripts | planned: crash points of table rebuilds |
| N | Verified equations, course knowledge import | manifest, equation records | verify, import | planned (section 6) |
| O | Model gateways, developer credentials, pilots, benchmarks | - | I/O around the above | not modelled: I/O, wording, measurement |
| P | Web server, rendering of Markdown and formulas (`main.py`, `markdown_v01.js`, `math_v01.js`) | none | serve assets, text to nodes | not modelled: pure formatting |
| Q | Engineering archive (`engineering-archive/`) | none | a static site about the project's history | not modelled: no part of the running system |

`PROJECT.json` lists the same parts with their files.

### How they interact

* HTTP handlers run on a thread pool. All handlers of the workspace share one
  `CourseWorkspaceServiceV01`: its SQLite store (one lock, one statement per
  call), its `_generation_lock` (held over *every* call of the local model) and
  its `PreparationWorkerV01` (one daemon thread, a `queue.Queue`, a status
  table under its own lock). A handler that finishes schedules what the student
  will need next; the daemon runs the same generation functions as the handlers.
* Practice rows (C) feed the policy (B), the policy's recommended topic decides
  what is prepared (A). There is no stored summary: it is recomputed on every
  view, so the order of the rows and of their time stamps *is* the state.
* Numeric sessions (F) have no shared memory: instances of the service (tabs,
  retries, processes) meet in the database only. A `SELECT` runs outside any
  transaction, the transaction begins with the first write.
* A teaching record (G) is written by callers that retry with the same keys:
  every row is inserted with `ON CONFLICT DO NOTHING` and then compared with
  the request.
* The course page (A') holds one action at a time (`busy`) but awaits every
  request; polls, reports of visits and the first loading run beside it and see
  and change the same variables. Buttons act on what they were drawn with.
* The chat page (H') sends the number of messages it has drawn; the service
  refuses a question to a longer history. All windows of a browser share the
  session to resume.
* The chat (H) loads the history in one transaction, calls the model without
  one, and appends in another; several processes may serve one database.

### What is hard, and what makes each part correct

| Part | Hard behaviour | Correct when |
|---|---|---|
| A | a check before a lock that is held for minutes; a path rebuilt under a queued job; a restart that forgets queue and status | one model call at a time; nothing generated twice; status and queue agree; what the student needs next is not forgotten |
| B | the model's topic numbers shift when topics are dropped; two functions choose the topic | no cycle; the student is never sent in circles and can finish |
| C | help and answer overlap; three statements per answer; stamps read before the store is locked | an informed answer never counts as unassisted; re-reading is asked for exactly when due |
| D | count checked long before insert; a crash between files and row | every row has its files; the limit |
| F | check-then-write over unlocked `SELECT`s; rows read one by one | one answer per question for good; a recovered view was true |
| G | a crash between reservation, call and result; conflicting retries | an agent is called at most once; an acknowledgement is stored; rows never change |
| H | a slow answer to an old history; a lost reply sent again | an answer follows exactly the history it was generated from, once, under its pack |
| A' | a view that arrives after a newer one; a poll of a course that was left; a report that is lost; a timer that is not set again | what is shown as help or notes is on record; a draft survives; waiting ends |
| H' | a session made active before its history came; a text sent again after a lost answer | a question continues the conversation on the screen |
| I | a session cap that rescales all weights; correlated answers; thresholds | a level is earned; the level moves the way the newest answer points |

The hazards are listed one by one, at their lines, in `PROJECT.json`.

## 2. The modules

Every definition that models code is mapped to its lines in `PROJECT.json`.
Names are the code's, in TLA+ case. Definitions headed *Mutant of X* are
plausible bugs of `X`; they are used nowhere, and replacing `X` by one of them
makes TLC report a violated property: each property is known to be able to fail.

### CoursePreparation

One course; request threads and the worker. A lesson is the key (revision,
topic) it was saved under; a question is its fingerprint; a store call is one
step and the computation before it belongs to that step.

| Code | Model |
|---|---|
| `POST .../outline`, `build_outline` | `BuildOutline`, `OutlineLock`, `OutlineModel`, `OutlineSave` |
| `open_lesson`, `_ensure_lesson` | `OpenLesson`, `LessonCheck`, `LessonLock`, `LessonModel`, `LessonEvent` |
| `add_questions`, `_generate_questions` | `AddQuestions`, `ItemsLock`, `ItemsModel`, `ItemsSave` |
| `submit`, `topic_view` | `SubmitAnswer`, `AnswerView` |
| `schedule_preparation`, `PreparationWorkerV01.submit` | `Schedule`, `SchedJob`, `Submit`, `Put` |
| `_work`, `_run_preparation_job` | `WorkerGet`, `JobBegin`, the same generation actions, `JobEnd` |
| the process stops | `Restart` |

The early look at the store and the one under the lock are separate steps, and
so are writing the status and putting the job on the queue. Errors of the model
are the second disjunct of `OutlineModel`, `LessonModel`, `ItemsModel`. Taking a
job and marking it *working* are one step: until then it is shown as *queued*,
which `submit` treats the same way. `looked` is a history variable: whether
`schedule_preparation` has run since the process started. A service without a model or with
background preparation switched off has fewer actions and is not modelled.

### ProgressPolicy and CoursePath

`ProgressPolicy` is the deterministic policy as operators (`Status`,
`NextStep`, `Recommended`) over topic summaries. `CoursePath` builds *every*
path that the validation or the heading fallback can produce from an arbitrary
proposal of topics that list up to `MaxListed` prerequisites (`Consider` one
proposed topic, `Propose`, `Headings`), then lets a student `Wander` in any order and from some moment on (`Settle`) follow what the
pages propose (`FollowGo`, `FollowLesson`, `FollowAnswer`). The loop over a
topic's proposed prerequisites (`Accepted`) and the hops of a student who is sent
elsewhere (`Detour`) are recursive functions.

### CoursePractice

Two threads that open the lesson, reveal help, or answer. `submit` is five
steps: read the help shown, read the clock, store the attempt, store the
`solution_shown` event, answer. `TopicSummary` recomputes the policy's input
from the rows. `displayed` and `since` are history variables: what is on the
student's screen, and which lesson openings are certainly older or newer than
the last answer. Clock readings are taken as strictly increasing: the time of a
row is the number of answers stamped before it. A wall clock that is set back,
or two readings in one tick, is outside the model.

### CourseDocuments

`Upload` (count the rows), `DuplicateCheck`, `SaveUpload`, `SavePack`, `Insert`,
`Restart`. A file appears whole or not at all, as `_save_once` writes a
temporary file and publishes it by a hard link.

### NumericSession and AnsweredOnce

`AnsweredOnce` is the promise: questions one at a time, one answer each. The
detailed module has service instances that `Start`, `Resume`, `Deliver`,
`Submit` and `ReportHelp`; the three middle ones share `List`, `Load` (one row
per step) and `Recovered`. `Insertable` and `Claimable` are what the database
itself decides: the unique constraints and the conditional `UPDATE`. `Crash`
drops an instance at any point. `Promise` is the refinement mapping.

### DurableTeaching and OnceOnly

`OnceOnly` is the promise of a durable request: reserve a key, call the agent at
most once, keep at most one result. `DurableTeaching` has the Professor turn
(`Reserve`, `CallProfessor`, `SaveTrace`, `Recover`, `Finish`), `Present`,
`Respond`, and feedback (`ReserveFeedback`, `CallAgent`, `SaveFeedback`).
Callers choose every key, input and time freely, so conflicting retries are
included; `Crash` stands for a death and for a failed transaction. The module
implements `OnceOnly` twice, as `Turn` and as `Feedback`. A reservation whose
outcome was lost stays reserved: the code prefers that to a second call, so no
liveness is claimed.

### LocalChat and ChatClient

`LocalChat` is the service: `Start`, `Ask` (a window that may have seen less than
is stored), `Serve` (check the binding, load the context), `AppendExchange` (check
again under `BEGIN IMMEDIATE`, store both messages), `Reply`, `Fail`. A request
stays available until it is answered: a window sends it again. Processes are the
units of concurrency because inside one process `chat_lock` serialises requests.
`Context` is the bounded window of whole recent exchanges. One old exchange is
stored at the start.

`ChatClient` composes it with one window of `app.js`: `Upload`, `Resume`,
`Refresh`, `Send`, `SendAgain` (the text that is still in the box), `Broken` (any
failure, whatever the service still does with the request) and `Answered`;
`Taken` and `Serving` are the service's steps as the window sees them, and
`OtherStart` and `OtherAsk` stand for other windows and clients. The screen
(`view`) and the session the next question goes to (`active`) are two variables:
a failed request leaves them apart. Requests that read or create one row are one
step, because nothing sees the window between their answer and its being drawn.

### CourseService and CourseClient

`CourseService` is the workspace as its page sees it, a database value and
`Handle(db, request)` with every outcome the request can have: the views
(`CourseView`, `TopicView`, with the policy of `ProgressPolicy`), opening,
writing, answering, revealing, what is scheduled, and what a job of the
background thread leaves behind (`Worked`). A request is atomic there: how
requests overlap inside the service is the subject of modules A and C.

`CourseClient` is `course.js` in one browser page. `page` holds the script's
variables and the screen; the `Render*` operators are the functions of that name
and take a page to a page, including where they raise a `TypeError` that ends the
handler (`Raises`). `task` holds what is awaited: `run` (the student's action),
`load` (the first loading), and the background slots. A task's request is sent
(`Begin`, `Continue`), served (`Serve`), and its reply drawn (the `Replied`
actions), with anything in between. `Lose` loses a request or its reply,
`Reload` opens the page again at the address it had, `Work` lets the service
finish a job in any order. `None` stands for the script's `null` and is none of the
values that can come in its place. Two history variables remember what excuses
a page that says something false: `missed` (a report was lost, two topics were
mixed up, or the student acted during the loading) and `torn` (the page held a
topic beside a course without a path, where drawing raises half-way).

### StudentModel

`evidence` grows by any of the `Inputs`; the level is a function of it, as in
the code: `Eligible` is `evaluate_evidence`, `FirstAttempts` and `Counted` are
the control of correlated evidence, `Share` is the session cap, `LevelOf` the
gates. Weights and the model's confidence are in twentieths and correctness is
in halves, so the sums and the mean are compared exactly; an answer whose
reviewer is less than certain (`Reviewed`) counts for less. The inputs are such
that every product of weights is a whole number of twentieths (an assumption of
the module); the rounding of floating-point sums at a threshold is
not modelled. Evidence support, stability and freshness are left
out: no gate reads them. Attempts that `submit_numeric_response` stores have an
unknown assistance level, so they are never eligible: the level of a numeric
session stays unknown until their provenance is known (input `Unproven`).

## 3. The runs

| Run | Question and result |
|---|---|
| `CoursePreparation` | Two requests and the worker, two topics, two revisions, after a restart that left the path half prepared: one model call at a time, no lesson and no question written twice, a click never duplicates the worker's set, an opening event has its lesson, every queued or working job is in exactly one place, and what is needed next is not forgotten, also when `topic_view` ends an answer before it schedules. |
| `CoursePreparationLive` | Two of three topics prepared, one restart, fair threads: an answer that makes a topic practiced leaves nothing forgotten that is needed next (it is saved, under way, failed or was asked for in vain), and every queued job ends. |
| `CoursePath` | All paths from proposals of three topics with lists of up to two prerequisites: prerequisites are earlier topics, detours end, and a student who follows, from any moment on, finishes. |
| `CoursePractice` | Overlapping reveals and three answers with restarts: no informed answer counts as unassisted; re-reading is asked for exactly when the openings are certainly older, and not when one is certainly newer. |
| `CoursePracticeCopies` | *Violation.* The solution of the original of a question saved twice, revealed without an answer, does not count for the copy. |
| `CourseDocuments` | Three uploads: rows have their files; the limit is exceeded by at most one document for each other thread. |
| `CourseClient` | The page over five databases (empty, half written, all written), with a budget of actions and failures each. What is shown as help or as notes is on record; background answers neither wipe a draft nor change the course; an open question gives way to the notes only with its help on record; a page that waits for notes comes to an end. |
| `NumericSession` | Two instances: attempts and completed assignments match one to one, a view was true, never two pending, and the rows implement `AnsweredOnce`. |
| `NumericSessionHelp` | *Violation.* Help is recorded after the assignment was completed. |
| `DurableTeaching` | Two callers, two keys everywhere: at most one Professor call per decision, the record hangs together, what was acknowledged stays as acknowledged, `OnceOnly` twice. |
| `LocalChat` | The window beside other clients, two processes, three requests: answers follow their history, stored once, under the session's pack, in the conversation that was on the screen. |
| `StudentModel` | All records of four answers to three items in two sessions: competent and strong are earned by fresh, independent answers that are not correlated; a right answer never lowers the level, a wrong one never raises a known one, a repeated one changes nothing. |

### Findings

1. **Help for a copied question.** `submit` asks for help shown for this
   `item_id` only (`service_v01.py:440`). A student who is shown the solution of
   the original by `reveal(item_id, "solution")` (`service_v01.py:416-430`), without
   answering it, and then answers the saved copy is recorded as unassisted. The
   tests and `docs/35_course_workspace_flow_fixes_v0.1.md:95` say that answering a
   copy after the original's solution counts as help. The operation is part of
   the HTTP interface (`course_workspace_api_v01.py:133-136`); the page `course.js`
   asks for hints and notes only, and shows a solution after an answer.
2. **Late help.** `record_application_assistance` checks that the assignment is
   pending with an unlocked `SELECT` and inserts without a condition; its
   docstring rules out help after completion.

One more stated promise is broken, and is not a run of its own: *a view that comes
late*. A poll replaces the view of the topic by what it has read, though a newer
one may have come (`course.js:146`): one that read the topic before its questions
were written takes the question off the page, and the next poll draws the
practice pane again and wipes the typed answer. The comment at
`course.js:133-135` says that a half-typed answer is never wiped. `DraftSurvives`
is what does hold: it excepts just this case (`Current`), and without the
exception TLC refutes it.

Observations that contradict no stated promise we know of, each met by a run and
excepted by name in the property that would otherwise catch it:

* *Document limit.* `add_document` counts at line 149 and inserts at 182, and
  nothing covers the two: `LimitByThreads` is the bound that does hold.
* *Opening by the path.* Choosing the topic again shows its notes without asking,
  while a question is open (`course.js:369-370`; excepted in `AsksBeforeNotes`).
* *A report of a visit* is not repeated when it is lost, and is matched by the
  topic's number alone, which all courses share (`course.js:397`; `missed`).
* *Two topics mixed up.* When opening a topic of another course fails, the page
  keeps the old topic beside the new course; the next poll fetches the other
  course's topic of that number while the old visit counts as recorded, so the
  visit of the notes then on the screen is never reported (`course.js:133-159`;
  `Mixed`, in `missed`).
* *A page drawn half-way.* A student who acts during the first loading can bring
  a topic of one course beside another one without a path: `renderTopic` raises a
  `TypeError` after a part of the page was drawn, and a question stays on the
  screen that the script no longer holds (`torn`, in `AsksBeforeNotes` and
  `VisitIsRecorded`).
* *The end of the polls.* Any answer that reads `preparing` as false stops the
  timer, so a topic that waits on the screen may wait until the student acts
  (`course.js:138`; the precondition of `WaitingEnds`).
* *A failed resume* of another session than the one on the screen leaves that
  session active under the old conversation (`app.js:197`; `unloaded` in
  `ContinuesWhatWasShown`).
* Not reached by a property: a window whose answer was lost, and that draws the
  stored exchange before the student sends the text again, makes a new request of
  it, so the text is stored twice (`RequestStoredOnce` is about one request,
  however often it is sent); after an answer is stored and the refresh fails,
  the question stays on the page as unanswered (`course.js:530-535`); after a
  path was built and opening its first topic fails, the page has no topic
  (`639-644`); the first loading does not run under `run` (`648`), so a student
  may act beside it; text typed into the chat box while waiting is erased
  (`app.js:222`); a proposed `key_concepts` that is a number raises `TypeError`
  outside the fallback (`outline_v01.py:118`); questions without a Latin letter
  or digit share the empty fingerprint (`practice_v01.py:181`).

### Bounds, and why they are enough

* *Two threads beside the worker, two service instances, two callers, two
  processes.* Every race here is between a check and a write of one actor with
  the writes of another; the worker is a third actor. Documents use three
  threads, since the bound there depends on their number.
* *Two topics, two revisions, two questions.* The policy looks at the
  recommended and at the next topic; "rebuilt" needs one more revision; a set
  may be cut after its first question. The proofs remove these bounds.
* *Three topics in a proposal.* Dropping the first or the middle one, and then
  referring to a dropped, a kept, or a later one, needs three. Each lists up to
  two numbers, repetitions and numbers of
  nothing among them. The theorems are for lists up to any bound.
* *A course that has begun.* Both runs of `CoursePreparation` start from a state
  that takes many clicks to reach, so that the two clicks they allow are not spent
  on getting there. The safety run starts after a restart that lost the queue: the
  second topic is prepared, the first is not, so requests and worker write lessons
  and questions, and an answer or a job may meet a path that is rebuilt. An empty
  course adds nothing to this: the rebuilt path begins as empty. The
  liveness run starts with the first two of three topics prepared, and keeps one
  revision: an answer changes what is needed only when a third topic comes into
  reach. The proofs start from the empty course.
* *Three answers.* "Two wrong in a row" and one overlapping answer.
* *Two instants.* Times are compared for order only, earlier or later.
* *Three exchanges, a context of one exchange.* The context must be shorter than
  the history, by count and by size. Two of the three requests may be those of
  others, so that the conversation advances under the window; two sessions and
  two packs, so that it can be the wrong one.
* *The course page.* Two courses, two topics of which the second builds on the
  first, two questions, one path, two background tasks. Five starts, each with
  the number of actions (three or four) and of failures (at most one) it affords:
  a late answer needs a request, an action and another answer. A second course
  without a path is a start of its own, and the all-written start has two with
  one. The same start with five actions and one failure (4.4 million states) was
  run once beside the listed runs, with the same result for the safety
  properties.
* *Four answers, three items, two sessions.* Strong takes three items and two
  sessions; the fourth answer then moves, repeats or rescales. Two full answers
  exceed the cap of a session.
* *One restart* in the liveness run: the safety run has none besides the one it
  starts after. The proof covers any number of restarts.

Deadlock is not checked where a bounded system may stop (no click, upload,
answer or request is left); it is checked for `NumericSession` and
`DurableTeaching`, in which some call can always be made.

### Fairness

* `CoursePreparation!Fairness`: a request handler that has started, generation
  on any thread, and the worker keep running (weak fairness), and a call of the
  model returns: the gateway has a timeout. Clicks and restarts are not fair.
  Weak fairness is enough for waiting on the lock although `threading.Lock`
  does not queue: clicks are finite, so contention ends.
* `CoursePath!FollowSpec`: a student who has settled, which is possible at any
  moment, takes the proposed step in the end, and again and again answers a
  question correctly without help (strong fairness: that answer is possible only
  while a question is proposed). That is
  an assumption about the student and the point of the property: *if* the student
  does so, the policy lets the course be finished.
* `CourseClient!Fairness`: jobs end, the timer of the page fires, requests sent in
  the background are answered or fail, and the page takes the answers. The
  student need not do anything. Weak fairness of a background task is written
  out with its guard (a request, or a reply, is there) in the place of `ENABLED`,
  which TLC would evaluate by enumeration; the guard holds exactly when the
  action is enabled.
* All other runs are safety only.

## 4. Proofs

Eight modules hold proofs. Each theorem is about every value of the constants
that satisfies the named assumption of its module, so none depends on the bounds
of the runs; TLC evaluates the assumptions and has checked each property
(`RecommendedIsWorkable` with `CoursePath.cfg` extended by it, not in a listed run), and
each inductive invariant on an instance, first.

| Module | Proved of the specification | From |
|---|---|---|
| `CoursePreparationProofs` | `TypeOK`, `OneModelCall`, `LessonWrittenOnce`, `NoRepeatedQuestion`, `FillOnlyEmpty`, `OpenedIsSaved`, `JobInOnePlace`, `ReadyLessonIsSaved`, `NothingForgotten` | `PreparationAssumption` |
| `PolicyProofs` | of `CoursePath`: `RequiresEarlier`, `RecommendedIsWorkable`, `DetoursEnd`; of `StudentModel`: `LevelIsEarned` and, of `LevelFollowsAnswers`, the part about repeated answers | `PathAssumption`; nothing for `StudentModel` |
| `PracticeProofs` | `StrugglingRereads`; `EvidenceIsUnassisted` | nothing; the hypothesis that no question of the topic was saved twice. With a copy the corresponding statement fails (finding 1); `EvidenceOfUncopied` holds beside copies, of the answers to the other questions. |
| `DocumentsProofs` | `DocumentsReadable`, `LimitByThreads` | `DocumentsAssumption`: finitely many threads |
| `NumericProofs` | `AttemptsMatch`, `ViewWasTrue`, `NeverTwoPending`, and that the rows implement `AnsweredOnce` | `SessionAssumption` |
| `TeachingProofs` | `ProfessorOncePerDecision`, `CompletedHasTrace`, `RecordHangsTogether`, `AcknowledgedIsStored`, and that the record implements `OnceOnly` twice | the assumption of `DurableTeaching` |
| `ChatProofs` | `AnswerFollowsItsHistory`, `RequestStoredOnce`, `PinnedToItsPack`, `ContinuesWhatWasShown`, of the composed `ClientSpec` | the assumptions of `LocalChat` and `ChatClient` |
| `ClientProofs` | `HelpIsRecorded`, `VisitIsRecorded`, `PollStaysInCourse`, `DraftSurvives`, `AsksBeforeNotes`, and the invariants `TypeInv`, `CardInv`, `VisitInv` they rest on | `ServiceAssumption`, `ClientAssumption` |

Hardly any of these is inductive. The arguments:

*CoursePreparation.* The invariant has three layers, each preserved with the help
of those before it:

1. `TypeInv` = `TableInv` and `ThreadInv`: types of the tables and of the
   threads' variables, and that a thread's jobs are not empty where it takes the
   first one;
2. `LockInv`: who is between acquire and release holds the lock, and who holds
   it is there. This is `OneModelCall`, and it makes the next layer possible;
3. `StoreInv`: what a thread has read under the lock is still so: the lesson it
   is writing is absent, the questions it will save are new and differ from one
   another, a topic it may only fill holds exactly what it saved itself, a lesson
   whose event it is about to write is stored. Only the holder writes, so
   the steps of others cannot disturb it.

*Its jobs.* `PlaceInv` says where a job may be instead of counting: the queue has
no job twice, no two threads are about to put the same job, the three places
exclude one another, and a job is in one of them exactly when the table says
queued or working. `JobInOnePlace` follows with one lemma on cardinalities.
`ReadyInv` adds what the worker knows between generating and marking a job ready:
the lesson is stored, or the path was rebuilt since. `NeedInv` is about what the
student needs next, at any moment: some request is about to look at it, or each
lesson and question set of it is saved, submitted, ended, or still on the list of a
request that looks. Only a rebuilt path and an answer change what is needed, and
both handlers look afterwards; an answer whose handler ends early, because the
current path has no such topic, has changed nothing that is needed.

*CoursePath.* A recursive function is a `CHOOSE` until one shows that a function
with its equation exists. `IterationExists` does that once for a loop of n turns
and `EveryTurn` carries a property through all of them, both by taking the least
turn at which it would fail (`WFMin` on the natural numbers). `RequiresEarlier` is
then carried through the loop over the proposed prerequisites. For the policy,
the first topic that is not practiced has all its prerequisites practiced, since
they are earlier topics; each hop of a student who is sent elsewhere leads to a
topic to work on or to an earlier one, so that as many hops as there are topics
suffice (`HopsEnd`).

*StudentModel.* Each event that counts for a gate is traced back to the place in
the record where it is the first of its item and its group in the session
(`EarningIsFresh`). Two items give two such places; from three items and two
sessions three places can be chosen that have both (`ThreeApart`).

*CoursePractice.* Help that is on the screen, or on its way to it, is recorded;
what an answer given with it has read is not empty. For `StrugglingRereads`,
`StudyInv` relates the stamps of the rows, which are read before the rows are
stored, to their order: an opening that is still to be stored carries a stamp
that is not before the last answer if it began after that answer was stored, and
what the history variable `since` says of the last answer can be read off the
stamps.

*CourseDocuments.* `CountInv`: the documents of a course and the threads on their
way to it are together at most the limit plus the number of the other threads.

*NumericSession.* `RowInv` (a pending row names no attempt, completed rows and
attempts match) is preserved because `Insertable` and `Claimable` decide in the
same step in which the rows are written. For the view that is read row by row,
`ViewInv` relates an instance half-way through its reading to a moment that was:
the view it would end with if nobody wrote any more is one of those the
database has had since it began. One pending row at a time is what makes this
true, and that is `OnePending`.

*DurableTeaching.* `TurnInv` and `FeedbackInv` say that a call that is still to
be made, or was made and not stored, belongs to one caller, that of the
reservation; `AckInv` says what an acknowledgement promises. Each step of the
record is then a step of `OnceOnly` or none.

*The chat.* `StoreInv` gives every stored message its place: a request's question
at the position the request had seen, the answer after it, so that a request
sent again finds the history longer. `HistoryInv` says that what a process
generates from, and what a stored answer was generated from, is the context of
the first messages of the session, as many as the request had seen: they are
there, and appending changes none of them. `WindowInv` ties the session the
window asks in to the one it has drawn.

*The course page.* Everything a task may carry is typed by its kind and by the
place where it waits (`GoodTask`), and a key the page knows belongs to a path that
was built (`Known`): that is `TypeInv`. What the service does only grows the
record (`Grows`), so what was true of a reply when it was served is still so when
it is drawn (`HasServed`); `HelpIsRecorded` follows, because the page adds help to
its sets only when its reply has come.

Each `Render*` operator is first characterised by what it leaves alone and what
the screen then says (`PaneDrawn`, `TopicDrawn`, `PollDrawn`, ...), once. `CardInv`
says that, unless a drawing ended half-way, the pane is that of the mode, the
question on the card is the one the script holds, and feedback is about a
question that was tried; together with `HelpIsRecorded` this gives
`AsksBeforeNotes`.

`VisitIsRecorded` speaks of the moment when nothing is awaited; `VisitInv` of all
moments: the notes on the screen, and those the script takes for recorded, are a
visit in the database, or a report about them is on its way (`Covered`), unless
it went astray (`missed`) or a drawing ended half-way (`torn`). Three things make
it inductive: while the student has notes written they count as recorded before
they are, and the view that comes then is that of a visit (`NotesWritten`); an
answer makes notes unread, but it is given in practice, where they are not on
the screen (`AnswersInPractice`); and the loading of the page and an action of
the student exclude each other (`Alone`).

Only model-checked:

* liveness: `QueuedJobEnds`, `CourseIsFinished`, `WaitingEnds`. Fairness and
  `ENABLED` are out of the prover's reach.
* of `LevelFollowsAnswers`, that a right answer never lowers and a wrong one never
  raises the level: weighted means under the session cap, sums by a fold over a
  set. The library's facts about such folds take an operator as a parameter, which
  the provers cannot instantiate. (A loop along the natural numbers is within
  reach, as `PolicyProofs` shows.)
* the two statements that the violation runs refute (section 3).

## 5. Abstractions to know

* A store call is one step: the workspace store takes its lock for the whole
  call, SQLite serialises writers elsewhere. Disk failures other than a crash
  between steps are not modelled.
* Texts, prompts, JSON and formatting are left out; what the model writes is a
  nondeterministic choice among what the checks of the code accept.
* Identifiers are unique by construction (UUIDs, digests of content).
* One browser page of the course workspace; a request it has given up before it
  was served is not served later. Questions of a set come one at a time, jobs in
  any order. The server is not restarted while a page is open.
* Scopes (student, objective, session) that a call must repeat are fixed: a call
  with another scope is refused before it changes anything.

## 6. Plan

Done: the modules above, their compositions with the two pages, and the proofs
of section 4.

Next modules:

1. `TransferReview`: review, supersession, revocation and the gate.
2. `TeachingTurn`: decision engines and the orchestration of one turn over
   `NumericSession` and `DurableTeaching`; assistance presentation.
3. `TableRebuild`: the crash points of the migrations.
4. `VerifiedEquations`: the manifest and the ledger of verifications.

Next theorems, in the order of their value:

1. the step of the parts of `LevelFollowsAnswers` that are only model-checked
   which does not need sums: the gates of competent and strong only open with a
   right answer.
2. the invariants of the next modules, written with their proofs.
