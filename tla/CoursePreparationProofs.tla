----------------------- MODULE CoursePreparationProofs -----------------------
(***************************************************************************)
(* Proofs about CoursePreparation, for any number of request threads,      *)
(* revisions, topics, questions, clicks and restarts.  The inductive       *)
(* invariant is built in layers: the types, who holds the generation lock, *)
(* and what the holder and the waiting threads know of the store; then the  *)
(* jobs: the status table, the queue and the preparation thread agree, and  *)
(* a lesson shown as ready is there.                                       *)
(***************************************************************************)
EXTENDS CoursePreparation, SequenceTheorems, FiniteSetTheorems, WellFoundedInduction, TLAPS

-----------------------------------------------------------------------------
(* The smallest element of a non-empty set of numbers is one of them.       *)
LEMMA SmallestIsMember ==
  ASSUME NEW S \in SUBSET Nat, S # {}
  PROVE  SmallestOf(S) \in S
<1>1. PICK t \in S : \A u \in S : ~ (<<u, t>> \in OpToRel(<, Nat))
  BY WFMin, NatLessThanWellFounded, Zenon
<1>2. \A u \in S : ~ (u < t)
  BY <1>1, S \subseteq Nat, Zenon DEF OpToRel
<1>3. \A u \in S : t <= u
  BY <1>2, S \subseteq Nat
<1>. QED  BY <1>3 DEF SmallestOf

(* The jobs a handler schedules are jobs of existing keys: at least one of   *)
(* them when there is a course path.                                        *)
LEMMA JobsAreKeys ==
  ASSUME outlines \in Seq(Topics), Latest <= MaxRevision, Latest > 0
  PROVE  Jobs \in Seq(JobKeys)
<1>1. Latest \in Revisions /\ outlines[Latest] \in Topics
  BY DEF Latest, Revisions
<1>2. Unpracticed \subseteq Topics /\ Topics \subseteq Nat
  BY <1>1, PreparationAssumption DEF Unpracticed, Topics
<1>3. Recommended \in Topics
  BY <1>1, <1>2, SmallestIsMember DEF Recommended
<1>4. Targets \in Seq(Topics) /\ Len(Targets) \in {1, 2}
  <2>. DEFINE later == {t \in Unpracticed : t > Recommended}
  <2>1. later # {} => SmallestOf(later) \in Topics
    BY <1>2, SmallestIsMember
  <2>. QED  BY <1>3, <2>1 DEF Targets
<1>5. \A t \in Topics : <<<<Latest, t, "lesson">>, <<Latest, t, "questions">>>> \in Seq(JobKeys)
  BY <1>1 DEF JobKeys, Kinds
<1>. QED  BY <1>4, <1>5, ConcatProperties DEF Jobs

-----------------------------------------------------------------------------
(* The type invariant, in two parts.  Besides the types: a thread in one of  *)
(* PathPcs, a saved question and a look at what is missing are there only    *)
(* when a course path has been built; a thread that submits a job, or saves  *)
(* a question, has one.                                                     *)
PathPcs == {"lesson_check", "lesson_wait", "lesson_model", "lesson_event",
            "items_wait", "items_model", "items_save", "answer_view", "schedule"}

Locals == [key : Keys, kind : Kinds, fill : BOOLEAN, kept : Seq(Questions),
           saved : Nat, todo : Seq(JobKeys)]

TableInv ==
  /\ outlines \in Seq(Topics) /\ Latest <= MaxRevision
  /\ lessons \subseteq Keys /\ opened \subseteq Keys /\ practiced \subseteq Keys
  /\ items \in [Keys -> Seq(Questions)]
  /\ \A k \in Keys : items[k] # <<>> => Latest > 0
  /\ queue \in Seq(JobKeys)
  /\ status \in [JobKeys -> {"none", "queued", "working", "ready", "failed"}]
  /\ lock \in Procs \cup {Nobody}
  /\ looked \in BOOLEAN /\ (looked => Latest > 0)
  /\ clicks \in 0..MaxClicks /\ restarts \in 0..MaxRestarts

Placed(to, l, path) ==
  /\ to \in PathPcs => path
  /\ to \in {"sched_submit", "sched_put"} => l.todo # <<>>
  /\ to = "items_save" => l.kept # <<>>

ThreadInv ==
  /\ pc \in [Procs -> Pcs] /\ loc \in [Procs -> Locals]
  /\ \A p \in Procs : Placed(pc[p], loc[p], Latest > 0)

TypeInv == TableInv /\ ThreadInv

(* The locals of an idle thread are typed.                                   *)
LEMMA NoLocalsType == NoLocals \in Locals
BY PreparationAssumption DEF NoLocals, Locals, Keys, Revisions, Topics, Kinds

(* Moving one thread keeps the threads typed.                               *)
LEMMA BecomeThread ==
  ASSUME ThreadInv, NEW p \in Procs, NEW to \in Pcs, NEW l \in Locals, Become(p, to, l),
         Latest > 0 => Latest' > 0, Placed(to, l, Latest' > 0)
  PROVE  ThreadInv'
BY Zenon DEF ThreadInv, Become, Placed

(* ... when only its place changes,                                          *)
LEMMA GotoThread ==
  ASSUME ThreadInv, NEW p \in Procs, NEW to \in Pcs, Goto(p, to),
         Latest > 0 => Latest' > 0, Placed(to, loc[p], Latest' > 0)
  PROVE  ThreadInv'
BY DEF ThreadInv, Goto, Placed

(* ... when it is done,                                                      *)
LEMMA LeaveThread ==
  ASSUME ThreadInv, NEW p \in Procs, Leave(p), Latest > 0 => Latest' > 0
  PROVE  ThreadInv'
BY BecomeThread, NoLocalsType DEF Leave, Pcs, Placed, PathPcs

(* ... when it ends with an exception,                                       *)
LEMMA RaiseThread ==
  ASSUME ThreadInv, NEW p \in Procs, Raise(p), Latest > 0 => Latest' > 0
  PROVE  ThreadInv'
BY GotoThread, LeaveThread DEF Raise, Pcs, Placed, PathPcs

(* ... and when it is done with a lesson or a question set.                  *)
LEMMA ContinueThread ==
  ASSUME ThreadInv, NEW p \in Procs, NEW to \in {"idle", "lesson_event"}, Continue(p, to),
         Latest > 0 => Latest' > 0, to = "lesson_event" => Latest' > 0
  PROVE  ThreadInv'
BY GotoThread, LeaveThread DEF Continue, Pcs, Placed, PathPcs

(* A topic of the latest course path is a key.                               *)
LEMMA ExistingKey ==
  ASSUME TableInv, Latest > 0, NEW t \in 1..outlines[Latest]
  PROVE  <<Latest, t>> \in Keys
<1>1. Latest \in Revisions /\ outlines[Latest] \in Topics
  BY PreparationAssumption DEF TableInv, Latest, Revisions
<1>2. t \in Topics
  BY <1>1, PreparationAssumption DEF Topics
<1>. QED  BY <1>1, <1>2 DEF Keys

(* The questions generate_items keeps: at least one, new, each one once.     *)
LEMMA KeptAreNew ==
  ASSUME NEW existing, NEW kept \in Kept(existing)
  PROVE  /\ kept \in Seq(Questions) /\ kept # <<>>
         /\ \A i \in DOMAIN kept : \A j \in DOMAIN existing : kept[i] # existing[j]
         /\ \A i, j \in DOMAIN kept : kept[i] = kept[j] => i = j
<1>. DEFINE fresh == Questions \ {existing[i] : i \in DOMAIN existing}
<1>1. CASE \E q \in fresh : kept = <<q>>
  BY <1>1
<1>2. CASE \E q \in fresh, r \in fresh : q # r /\ kept = <<q, r>>
  BY <1>2
<1>. QED  BY <1>1, <1>2 DEF Kept

(* Every step of the threads and a restart preserve the types.               *)
THEOREM TypeInvStep == TypeInv /\ [Next]_vars => TypeInv'
<1>. SUFFICES ASSUME TypeInv, [Next]_vars PROVE TypeInv'
  OBVIOUS
<1>1. ASSUME NEW p \in Requests, BuildOutline(p) PROVE TypeInv'
  <2>1. TableInv'
    BY <1>1, PreparationAssumption DEF BuildOutline, Click, store, TypeInv, TableInv, Latest
  <2>2. ThreadInv'
    BY <1>1, GotoThread
       DEF BuildOutline, Click, store, TypeInv, Placed, PathPcs, Pcs, Latest, Procs
  <2>. QED  BY <2>1, <2>2 DEF TypeInv
<1>2. ASSUME NEW p \in Requests, OpenLesson(p) PROVE TypeInv'
  <2>1. TableInv'
    BY <1>2, PreparationAssumption DEF OpenLesson, Click, store, TypeInv, TableInv, Latest
  <2>2. ThreadInv'
    <3>1. PICK t \in 1..outlines[Latest] :
              Become(p, "lesson_check", [NoLocals EXCEPT !.key = <<Latest, t>>])
      BY <1>2 DEF OpenLesson
    <3>2. <<Latest, t>> \in Keys /\ Latest > 0
      BY <1>2, ExistingKey DEF OpenLesson, TypeInv
    <3>3. [NoLocals EXCEPT !.key = <<Latest, t>>] \in Locals
      BY <3>2, NoLocalsType DEF Locals
    <3>. QED  BY <1>2, <3>1, <3>2, <3>3, BecomeThread
              DEF OpenLesson, Click, store, TypeInv, Latest, Placed, Pcs, Procs
  <2>. QED  BY <2>1, <2>2 DEF TypeInv
<1>3. ASSUME NEW p \in Requests, AddQuestions(p) PROVE TypeInv'
  <2>1. TableInv'
    BY <1>3, PreparationAssumption DEF AddQuestions, Click, store, TypeInv, TableInv, Latest
  <2>2. ThreadInv'
    <3>1. PICK t \in 1..outlines[Latest], more \in BOOLEAN :
              Become(p, "items_wait", [NoLocals EXCEPT !.key = <<Latest, t>>, !.fill = ~more])
      BY <1>3 DEF AddQuestions
    <3>2. <<Latest, t>> \in Keys /\ Latest > 0
      BY <1>3, ExistingKey DEF AddQuestions, TypeInv
    <3>3. [NoLocals EXCEPT !.key = <<Latest, t>>, !.fill = ~more] \in Locals
      BY <3>2, NoLocalsType DEF Locals
    <3>. QED  BY <1>3, <3>1, <3>2, <3>3, BecomeThread
              DEF AddQuestions, Click, store, TypeInv, Latest, Placed, Pcs, Procs
  <2>. QED  BY <2>1, <2>2 DEF TypeInv
<1>4. ASSUME NEW p \in Requests, SubmitAnswer(p) PROVE TypeInv'
  <2>1. TableInv'
    <3>1. practiced' \subseteq Keys
      BY <1>4 DEF SubmitAnswer, TypeInv, TableInv
    <3>2. clicks' \in 0..MaxClicks
      BY <1>4, PreparationAssumption DEF SubmitAnswer, TypeInv, TableInv
    <3>. QED  BY <1>4, <3>1, <3>2 DEF SubmitAnswer, TypeInv, TableInv, Latest
  <2>2. ThreadInv'
    <3>1. PICK k \in Keys : /\ items[k] # <<>>
                         /\ Become(p, "answer_view", [NoLocals EXCEPT !.key = k])
      BY <1>4 DEF SubmitAnswer
    <3>2. [NoLocals EXCEPT !.key = k] \in Locals
      BY NoLocalsType DEF Locals
    <3>3. Latest > 0
      BY <3>1 DEF TypeInv, TableInv
    <3>. QED  BY <1>4, <3>1, <3>2, <3>3, BecomeThread
              DEF SubmitAnswer, TypeInv, Latest, Placed, Pcs, Procs
  <2>. QED  BY <2>1, <2>2 DEF TypeInv
<1>5. ASSUME NEW p \in Requests, OutlineLock(p) PROVE TypeInv'
  <2>1. TableInv'
    BY <1>5 DEF OutlineLock, Acquire, Step, store, TypeInv, TableInv, Latest, Procs
  <2>2. ThreadInv'
    BY <1>5, GotoThread
       DEF OutlineLock, Step, store, TypeInv, Placed, PathPcs, Pcs, LockPcs, ModelPcs, Latest, Procs
  <2>. QED  BY <2>1, <2>2 DEF TypeInv
<1>6. ASSUME NEW p \in Requests, OutlineModel(p) PROVE TypeInv'
  <2>1. TableInv'
    BY <1>6 DEF OutlineModel, Release, Step, store, TypeInv, TableInv, Latest
  <2>2. ThreadInv'
    BY <1>6, GotoThread, RaiseThread
       DEF OutlineModel, Step, store, TypeInv, Placed, PathPcs, Pcs, Latest, Procs
  <2>. QED  BY <2>1, <2>2 DEF TypeInv
<1>7. ASSUME NEW p \in Requests, OutlineSave(p) PROVE TypeInv'
  <2>1. TableInv'
    <3>1. outlines' \in Seq(Topics) /\ Len(outlines') = Len(outlines) + 1
      BY <1>7 DEF OutlineSave, TypeInv, TableInv
    <3>2. Len(outlines') <= MaxRevision /\ Len(outlines') > 0
      BY <1>7, <3>1, PreparationAssumption DEF OutlineSave, TypeInv, TableInv, Latest
    <3>. QED  BY <1>7, <3>1, <3>2 DEF OutlineSave, Step, TypeInv, TableInv, Latest
  <2>2. ThreadInv'
    <3>1. Latest' > 0
      BY <2>1, <1>7 DEF OutlineSave, TypeInv, TableInv, Latest
    <3>. QED  BY <1>7, <3>1, GotoThread DEF OutlineSave, TypeInv, Placed, Pcs, Procs
  <2>. QED  BY <2>1, <2>2 DEF TypeInv
<1>8. ASSUME NEW p \in Requests, LessonEvent(p) PROVE TypeInv'
  <2>1. TableInv'
    <3>1. loc[p].key \in Keys
      BY <1>8 DEF TypeInv, ThreadInv, Locals, Procs
    <3>. QED  BY <1>8, <3>1 DEF LessonEvent, Step, TypeInv, TableInv, Latest
  <2>2. ThreadInv'
    BY <1>8, GotoThread
       DEF LessonEvent, Step, TypeInv, ThreadInv, Placed, PathPcs, Pcs, Latest, Procs
  <2>. QED  BY <2>1, <2>2 DEF TypeInv
<1>9. ASSUME NEW p \in Requests, AnswerView(p) PROVE TypeInv'
  <2>1. TableInv'
    BY <1>9 DEF AnswerView, Step, store, TypeInv, TableInv, Latest
  <2>2. ThreadInv'
    BY <1>9, GotoThread, LeaveThread
       DEF AnswerView, Step, store, TypeInv, ThreadInv, Placed, PathPcs, Pcs, Latest, Procs
  <2>. QED  BY <2>1, <2>2 DEF TypeInv
<1>10. ASSUME NEW p \in Requests, Schedule(p) PROVE TypeInv'
  <2>1. TableInv'
    <3>1. Latest > 0
      BY <1>10 DEF Schedule, TypeInv, ThreadInv, Placed, PathPcs, Procs
    <3>. QED  BY <1>10, <3>1 DEF Schedule, store, TypeInv, TableInv, Latest
  <2>2. ThreadInv'
    <3>1. [NoLocals EXCEPT !.todo = Jobs] \in Locals
      BY <1>10, JobsAreKeys, NoLocalsType
         DEF Schedule, TypeInv, TableInv, ThreadInv, Placed, PathPcs, Locals, Procs
    <3>. QED  BY <1>10, <3>1, BecomeThread
              DEF Schedule, store, TypeInv, Latest, Placed, PathPcs, Pcs, Procs
  <2>. QED  BY <2>1, <2>2 DEF TypeInv
<1>11. ASSUME NEW p \in Requests, SchedJob(p) PROVE TypeInv'
  <2>1. TableInv'
    BY <1>11 DEF SchedJob, Step, store, TypeInv, TableInv, Latest
  <2>2. ThreadInv'
    <3>1. loc[p].todo # <<>> => [loc[p] EXCEPT !.todo = Tail(@)] \in Locals
      BY <1>11, HeadTailProperties DEF TypeInv, ThreadInv, Locals, Procs
    <3>2. CASE loc[p].todo = <<>> /\ Leave(p)
      BY <1>11, <3>2, LeaveThread DEF SchedJob, Step, store, TypeInv, Latest, Procs
    <3>3. CASE loc[p].todo # <<>> /\ Become(p, "sched_job", [loc[p] EXCEPT !.todo = Tail(@)])
      BY <1>11, <3>1, <3>3, BecomeThread
         DEF SchedJob, Step, store, TypeInv, Latest, Placed, PathPcs, Pcs, Procs
    <3>4. CASE loc[p].todo # <<>> /\ Goto(p, "sched_submit")
      BY <1>11, <3>4, GotoThread
         DEF SchedJob, Step, store, TypeInv, Latest, Placed, PathPcs, Pcs, Procs
    <3>. QED  BY <1>11, <3>2, <3>3, <3>4 DEF SchedJob
  <2>. QED  BY <2>1, <2>2 DEF TypeInv
<1>12. ASSUME NEW p \in Requests, Submit(p) PROVE TypeInv'
  <2>1. TableInv'
    BY <1>12 DEF Submit, Step, store, TypeInv, TableInv, Latest
  <2>2. ThreadInv'
    <3>1. [loc[p] EXCEPT !.todo = Tail(@)] \in Locals
      <4>1. loc[p] \in Locals /\ loc[p].todo # <<>>
        BY <1>12 DEF Submit, TypeInv, ThreadInv, Placed, Procs
      <4>2. Tail(loc[p].todo) \in Seq(JobKeys)
        BY <4>1, HeadTailProperties DEF Locals
      <4>. QED  BY <4>1, <4>2 DEF Locals
    <3>2. CASE Become(p, "sched_job", [loc[p] EXCEPT !.todo = Tail(@)])
      BY <1>12, <3>1, <3>2, BecomeThread
         DEF Submit, Step, store, TypeInv, Latest, Placed, PathPcs, Pcs, Procs
    <3>3. CASE Goto(p, "sched_put")
      <4>1. loc[p].todo # <<>>
        BY <1>12 DEF Submit, TypeInv, ThreadInv, Placed, Procs
      <4>. QED  BY <1>12, <3>3, <4>1, GotoThread
                DEF Submit, Step, store, TypeInv, Latest, Placed, PathPcs, Pcs, Procs
    <3>. QED  BY <1>12, <3>2, <3>3 DEF Submit
  <2>. QED  BY <2>1, <2>2 DEF TypeInv
<1>13. ASSUME NEW p \in Requests, Put(p) PROVE TypeInv'
  <2>1. TableInv'
    <3>1. Head(loc[p].todo) \in JobKeys
      BY <1>13, HeadTailProperties DEF Put, TypeInv, ThreadInv, Placed, Locals, Procs
    <3>. QED  BY <1>13, <3>1 DEF Put, Step, store, TypeInv, TableInv, Latest
  <2>2. ThreadInv'
    <3>1. [loc[p] EXCEPT !.todo = Tail(@)] \in Locals
      <4>1. loc[p] \in Locals /\ loc[p].todo # <<>>
        BY <1>13 DEF Put, TypeInv, ThreadInv, Placed, Procs
      <4>2. Tail(loc[p].todo) \in Seq(JobKeys)
        BY <4>1, HeadTailProperties DEF Locals
      <4>. QED  BY <4>1, <4>2 DEF Locals
    <3>. QED  BY <1>13, <3>1, BecomeThread
              DEF Put, Step, store, TypeInv, Latest, Placed, PathPcs, Pcs, Procs
  <2>. QED  BY <2>1, <2>2 DEF TypeInv
<1>14. ASSUME NEW p \in Procs, LessonCheck(p) PROVE TypeInv'
  <2>1. TableInv'
    BY <1>14 DEF LessonCheck, Step, store, TypeInv, TableInv, Latest
  <2>2. ThreadInv'
    BY <1>14, GotoThread, ContinueThread
       DEF LessonCheck, Step, store, TypeInv, ThreadInv, Placed, PathPcs, Pcs, Latest
  <2>. QED  BY <2>1, <2>2 DEF TypeInv
<1>15. ASSUME NEW p \in Procs, LessonLock(p) PROVE TypeInv'
  <2>1. TableInv'
    BY <1>15 DEF LessonLock, Acquire, Step, store, TypeInv, TableInv, Latest, Procs
  <2>2. ThreadInv'
    BY <1>15, GotoThread, ContinueThread
       DEF LessonLock, Step, store, TypeInv, ThreadInv, Placed, PathPcs, Pcs, LockPcs, ModelPcs, Latest
  <2>. QED  BY <2>1, <2>2 DEF TypeInv
<1>16. ASSUME NEW p \in Procs, LessonModel(p) PROVE TypeInv'
  <2>1. TableInv'
    <3>1. loc[p].key \in Keys
      BY <1>16 DEF TypeInv, ThreadInv, Locals
    <3>. QED  BY <1>16, <3>1 DEF LessonModel, Release, Step, TypeInv, TableInv, Latest
  <2>2. ThreadInv'
    BY <1>16, RaiseThread, ContinueThread
       DEF LessonModel, TypeInv, ThreadInv, Placed, PathPcs, Latest
  <2>. QED  BY <2>1, <2>2 DEF TypeInv
<1>17. ASSUME NEW p \in Procs, ItemsLock(p) PROVE TypeInv'
  <2>1. TableInv'
    BY <1>17 DEF ItemsLock, Acquire, Step, store, TypeInv, TableInv, Latest, Procs
  <2>2. ThreadInv'
    BY <1>17, GotoThread, ContinueThread
       DEF ItemsLock, Step, store, TypeInv, ThreadInv, Placed, PathPcs, Pcs, LockPcs, ModelPcs, Latest
  <2>. QED  BY <2>1, <2>2 DEF TypeInv
<1>18. ASSUME NEW p \in Procs, ItemsModel(p) PROVE TypeInv'
  <2>1. TableInv'
    BY <1>18 DEF ItemsModel, Release, Step, store, TypeInv, TableInv, Latest
  <2>2. ThreadInv'
    <3>1. loc[p] \in Locals /\ loc[p].key \in Keys /\ Latest > 0
      BY <1>18 DEF ItemsModel, TypeInv, ThreadInv, Placed, PathPcs, Locals
    <3>2. CASE \E kept \in Kept(items[loc[p].key]) :
                 Become(p, "items_save", [loc[p] EXCEPT !.kept = kept])
      <4>1. PICK kept \in Kept(items[loc[p].key]) :
              Become(p, "items_save", [loc[p] EXCEPT !.kept = kept])
        BY <3>2
      <4>2. kept \in Seq(Questions) /\ kept # <<>>
        BY KeptAreNew
      <4>3. [loc[p] EXCEPT !.kept = kept] \in Locals /\ [loc[p] EXCEPT !.kept = kept].kept = kept
        BY <3>1, <4>2 DEF Locals
      <4>. QED  BY <1>18, <3>1, <4>1, <4>2, <4>3, BecomeThread
                DEF ItemsModel, Step, store, TypeInv, Latest, Placed, Pcs, LockPcs
    <3>3. CASE Continue(p, "idle")
      BY <1>18, <3>3, ContinueThread DEF ItemsModel, Step, store, TypeInv, Latest
    <3>4. CASE Raise(p)
      BY <1>18, <3>4, RaiseThread DEF ItemsModel, Step, store, TypeInv, Latest
    <3>. QED  BY <1>18, <3>2, <3>3, <3>4 DEF ItemsModel
  <2>. QED  BY <2>1, <2>2 DEF TypeInv
<1>19. ASSUME NEW p \in Procs, ItemsSave(p) PROVE TypeInv'
  <2>1. TableInv'
    <3>1. /\ loc[p].key \in Keys /\ Latest > 0
          /\ Head(loc[p].kept) \in Questions
      BY <1>19, HeadTailProperties
         DEF ItemsSave, TypeInv, ThreadInv, Placed, PathPcs, Locals, Procs
    <3>2. Append(items[loc[p].key], Head(loc[p].kept)) \in Seq(Questions)
      BY <3>1 DEF TypeInv, TableInv
    <3>3. items' \in [Keys -> Seq(Questions)]
      BY <1>19, <3>2 DEF ItemsSave, TypeInv, TableInv
    <3>4. lock' \in Procs \cup {Nobody}
      BY <1>19 DEF ItemsSave, Release, TypeInv, TableInv
    <3>. QED  BY <1>19, <3>1, <3>3, <3>4 DEF ItemsSave, Step, TypeInv, TableInv, Latest
  <2>2. ThreadInv'
    <3>1. loc[p] \in Locals /\ loc[p].kept # <<>> /\ Latest > 0
      BY <1>19 DEF ItemsSave, TypeInv, ThreadInv, Placed, PathPcs
    <3>2. CASE Tail(loc[p].kept) # <<>>
      <4>. DEFINE l == [loc[p] EXCEPT !.kept = Tail(@), !.saved = @ + 1]
      <4>1. l \in Locals /\ l.kept # <<>>
        <5>1. Tail(loc[p].kept) \in Seq(Questions) /\ loc[p].saved + 1 \in Nat
          BY <3>1, HeadTailProperties DEF Locals
        <5>2. l.kept = Tail(loc[p].kept)
          BY <3>1 DEF Locals
        <5>. QED  BY <3>1, <3>2, <5>1, <5>2 DEF Locals
      <4>2. Become(p, "items_save", l)
        BY <1>19, <3>2 DEF ItemsSave
      <4>. HIDE DEF l
      <4>. QED  BY <1>19, <3>1, <4>1, <4>2, BecomeThread
                DEF ItemsSave, TypeInv, Latest, Placed, Pcs, LockPcs
    <3>3. CASE Tail(loc[p].kept) = <<>>
      BY <1>19, <3>3, ContinueThread DEF ItemsSave, TypeInv, Latest
    <3>. QED  BY <3>2, <3>3
  <2>. QED  BY <2>1, <2>2 DEF TypeInv
<1>20. CASE WorkerGet
  <2>1. TableInv'
    BY <1>20 DEF WorkerGet, Step, store, TypeInv, TableInv, Latest
  <2>2. ThreadInv'
    <3>. DEFINE l == [NoLocals EXCEPT !.key = <<Head(queue)[1], Head(queue)[2]>>,
                                   !.kind = Head(queue)[3], !.fill = TRUE]
    <3>1. Head(queue) \in JobKeys
      BY <1>20, HeadTailProperties DEF WorkerGet, TypeInv, TableInv
    <3>2. l \in Locals
      BY <3>1, NoLocalsType DEF Locals, JobKeys, Keys
    <3>3. Become(Worker, "job_begin", l)
      BY <1>20 DEF WorkerGet
    <3>. HIDE DEF l
    <3>. QED  BY <1>20, <3>2, <3>3, BecomeThread
              DEF WorkerGet, store, TypeInv, Latest, Placed, PathPcs, Pcs, Procs
  <2>. QED  BY <2>1, <2>2 DEF TypeInv
<1>21. CASE JobBegin
  <2>1. TableInv'
    BY <1>21 DEF JobBegin, Step, store, TypeInv, TableInv, Latest
  <2>2. ThreadInv'
    <3>1. loc[Worker].key[1] = Latest => Latest > 0
      BY <1>21 DEF TypeInv, ThreadInv, Locals, Keys, Revisions, Procs
    <3>2. CASE Goto(Worker, "job_ready")
      BY <1>21, <3>2, GotoThread
         DEF JobBegin, store, TypeInv, Latest, Placed, PathPcs, Pcs, Procs
    <3>3. CASE loc[Worker].key[1] = Latest /\ Goto(Worker, "lesson_check")
      BY <1>21, <3>1, <3>3, GotoThread DEF JobBegin, store, TypeInv, Latest, Placed, Pcs, Procs
    <3>4. CASE loc[Worker].key[1] = Latest /\ Goto(Worker, "items_wait")
      BY <1>21, <3>1, <3>4, GotoThread DEF JobBegin, store, TypeInv, Latest, Placed, Pcs, Procs
    <3>. QED  BY <1>21, <3>2, <3>3, <3>4 DEF JobBegin
  <2>. QED  BY <2>1, <2>2 DEF TypeInv
<1>22. CASE JobEnd
  <2>1. TableInv'
    BY <1>22 DEF JobEnd, Step, store, TypeInv, TableInv, Latest
  <2>2. ThreadInv'
    BY <1>22, LeaveThread
       DEF JobEnd, store, TypeInv, Latest, Procs
  <2>. QED  BY <2>1, <2>2 DEF TypeInv
<1>23. CASE Restart
  <2>1. TableInv'
    <3>1. looked' \in BOOLEAN /\ (looked' => Latest' > 0)
      BY <1>23, Zenon DEF Restart
    <3>. QED  BY <1>23, <3>1, PreparationAssumption DEF Restart, store, TypeInv, TableInv, Latest
  <2>2. ThreadInv'
    BY <1>23, NoLocalsType DEF Restart, store, TypeInv, ThreadInv, Placed, PathPcs, Pcs, Latest
  <2>. QED  BY <2>1, <2>2 DEF TypeInv
<1>24. CASE UNCHANGED vars
  BY <1>24 DEF vars, store, TypeInv, TableInv, ThreadInv, Latest
<1>. QED  BY <1>1, <1>2, <1>3, <1>4, <1>5, <1>6, <1>7, <1>8, <1>9, <1>10, <1>11, <1>12,
             <1>13, <1>14, <1>15, <1>16, <1>17, <1>18, <1>19, <1>20, <1>21, <1>22, <1>23, <1>24
          DEF Next, Request, Handle, Generate, WorkerStep

(* The types hold when the process starts.                                   *)
LEMMA InitTypeInv == Init => TypeInv
<1>. SUFFICES ASSUME Init PROVE TypeInv
  OBVIOUS
<1>1. outlines \in Seq(Topics) /\ Latest <= MaxRevision
  <2>1. MaxTopics \in Topics /\ 1 <= MaxRevision /\ 0 <= MaxRevision
    BY PreparationAssumption DEF Topics
  <2>2. CASE outlines = <<>>
    BY <2>1, <2>2 DEF Latest
  <2>3. CASE outlines = <<MaxTopics>>
    BY <2>1, <2>3 DEF Latest
  <2>. QED  BY <2>2, <2>3 DEF Init
<1>2. TableInv
  <2>1. looked \in BOOLEAN /\ (looked => Latest > 0)
    BY Zenon DEF Init
  <2>. QED  BY <1>1, <2>1, PreparationAssumption DEF Init, TableInv
<1>3. ThreadInv
  BY NoLocalsType DEF Init, ThreadInv, Placed, PathPcs, Pcs
<1>. QED  BY <1>2, <1>3 DEF TypeInv

(* The tables and the threads of the workspace keep their types, whatever    *)
(* the requests, the worker and restarts do.                                 *)
THEOREM TypeCorrect == Spec => []TypeOK
<1>1. TypeInv => TypeOK
  BY DEF TypeInv, TableInv, ThreadInv, TypeOK, Locals
<1>. QED  BY <1>1, InitTypeInv, TypeInvStep, PTL DEF Spec

-----------------------------------------------------------------------------
(* What a step does to the threads: one moves, the others stay.              *)
Moves(p, to, l) ==
  /\ pc'[p] = to /\ loc'[p] = l
  /\ \A r \in Procs : r # p => pc'[r] = pc[r] /\ loc'[r] = loc[r]

(* Become, Goto, Leave, Raise and Continue each move one thread.             *)
LEMMA BecomeMoves ==
  ASSUME ThreadInv, NEW p \in Procs, NEW to, NEW l, Become(p, to, l)
  PROVE  Moves(p, to, l)
BY DEF ThreadInv, Become, Moves

(* Goto keeps the locals of the thread.                                      *)
LEMMA GotoMoves ==
  ASSUME ThreadInv, NEW p \in Procs, NEW to, Goto(p, to)
  PROVE  Moves(p, to, loc[p])
BY DEF ThreadInv, Goto, Moves

(* Leave makes the thread idle.                                              *)
LEMMA LeaveMoves ==
  ASSUME ThreadInv, NEW p \in Procs, Leave(p)
  PROVE  Moves(p, "idle", NoLocals)
BY BecomeMoves DEF Leave

(* Raise takes a request to idle and the worker to job_failed.               *)
LEMMA RaiseMoves ==
  ASSUME ThreadInv, NEW p \in Procs, Raise(p)
  PROVE  \E l : Moves(p, "idle", l) \/ Moves(p, "job_failed", l)
BY GotoMoves, LeaveMoves DEF Raise

(* Continue takes the worker to job_ready and a request on, or to idle.      *)
LEMMA ContinueMoves ==
  ASSUME ThreadInv, NEW p \in Procs, NEW to \in {"idle", "lesson_event"}, Continue(p, to)
  PROVE  \/ Moves(p, "job_ready", loc[p])
         \/ to = "lesson_event" /\ Moves(p, to, loc[p])
         \/ Moves(p, "idle", NoLocals)
<1>1. CASE p = Worker
  <2>1. Goto(p, "job_ready")
    BY <1>1 DEF Continue
  <2>. QED  BY <2>1, GotoMoves
<1>2. CASE p # Worker /\ to = "idle"
  BY <1>2, LeaveMoves DEF Continue
<1>3. CASE p # Worker /\ to = "lesson_event"
  BY <1>3, GotoMoves DEF Continue
<1>. QED  BY <1>1, <1>2, <1>3

-----------------------------------------------------------------------------
(* The generation lock is held by exactly the threads that are in LockPcs.   *)
LockInv == \A p \in Procs : pc[p] \in LockPcs <=> lock = p

(* Every step preserves the agreement of the lock with the threads' places.  *)
THEOREM LockInvStep == TypeInv /\ LockInv /\ [Next]_vars => LockInv'
<1>. SUFFICES ASSUME TypeInv, LockInv, [Next]_vars PROVE LockInv'
  OBVIOUS
<1>. USE DEF TypeInv
<1>1. ASSUME NEW p \in Requests, BuildOutline(p) PROVE LockInv'
  BY <1>1, BecomeMoves, GotoMoves, LeaveMoves, RaiseMoves, ContinueMoves, PreparationAssumption
     DEF BuildOutline, Click, Acquire, Release, Moves, LockInv, LockPcs, ModelPcs, Procs
<1>2. ASSUME NEW p \in Requests, OpenLesson(p) PROVE LockInv'
  BY <1>2, BecomeMoves, GotoMoves, LeaveMoves, RaiseMoves, ContinueMoves, PreparationAssumption
     DEF OpenLesson, Click, Acquire, Release, Moves, LockInv, LockPcs, ModelPcs, Procs
<1>3. ASSUME NEW p \in Requests, AddQuestions(p) PROVE LockInv'
  BY <1>3, BecomeMoves, GotoMoves, LeaveMoves, RaiseMoves, ContinueMoves, PreparationAssumption
     DEF AddQuestions, Click, Acquire, Release, Moves, LockInv, LockPcs, ModelPcs, Procs
<1>4. ASSUME NEW p \in Requests, SubmitAnswer(p) PROVE LockInv'
  BY <1>4, BecomeMoves, GotoMoves, LeaveMoves, RaiseMoves, ContinueMoves, PreparationAssumption
     DEF SubmitAnswer, Click, Acquire, Release, Moves, LockInv, LockPcs, ModelPcs, Procs
<1>5. ASSUME NEW p \in Requests, OutlineLock(p) PROVE LockInv'
  BY <1>5, BecomeMoves, GotoMoves, LeaveMoves, RaiseMoves, ContinueMoves, PreparationAssumption
     DEF OutlineLock, Click, Acquire, Release, Moves, LockInv, LockPcs, ModelPcs, Procs
<1>6. ASSUME NEW p \in Requests, OutlineModel(p) PROVE LockInv'
  BY <1>6, BecomeMoves, GotoMoves, LeaveMoves, RaiseMoves, ContinueMoves, PreparationAssumption
     DEF OutlineModel, Click, Acquire, Release, Moves, LockInv, LockPcs, ModelPcs, Procs
<1>7. ASSUME NEW p \in Requests, OutlineSave(p) PROVE LockInv'
  BY <1>7, BecomeMoves, GotoMoves, LeaveMoves, RaiseMoves, ContinueMoves, PreparationAssumption
     DEF OutlineSave, Click, Acquire, Release, Moves, LockInv, LockPcs, ModelPcs, Procs
<1>8. ASSUME NEW p \in Requests, LessonEvent(p) PROVE LockInv'
  BY <1>8, BecomeMoves, GotoMoves, LeaveMoves, RaiseMoves, ContinueMoves, PreparationAssumption
     DEF LessonEvent, Click, Acquire, Release, Moves, LockInv, LockPcs, ModelPcs, Procs
<1>9. ASSUME NEW p \in Requests, AnswerView(p) PROVE LockInv'
  BY <1>9, BecomeMoves, GotoMoves, LeaveMoves, RaiseMoves, ContinueMoves, PreparationAssumption
     DEF AnswerView, Click, Acquire, Release, Moves, LockInv, LockPcs, ModelPcs, Procs
<1>10. ASSUME NEW p \in Requests, Schedule(p) PROVE LockInv'
  BY <1>10, BecomeMoves, GotoMoves, LeaveMoves, RaiseMoves, ContinueMoves, PreparationAssumption
     DEF Schedule, Click, Acquire, Release, Moves, LockInv, LockPcs, ModelPcs, Procs
<1>11. ASSUME NEW p \in Requests, SchedJob(p) PROVE LockInv'
  BY <1>11, BecomeMoves, GotoMoves, LeaveMoves, RaiseMoves, ContinueMoves, PreparationAssumption
     DEF SchedJob, Click, Acquire, Release, Moves, LockInv, LockPcs, ModelPcs, Procs
<1>12. ASSUME NEW p \in Requests, Submit(p) PROVE LockInv'
  BY <1>12, BecomeMoves, GotoMoves, LeaveMoves, RaiseMoves, ContinueMoves, PreparationAssumption
     DEF Submit, Click, Acquire, Release, Moves, LockInv, LockPcs, ModelPcs, Procs
<1>13. ASSUME NEW p \in Requests, Put(p) PROVE LockInv'
  BY <1>13, BecomeMoves, GotoMoves, LeaveMoves, RaiseMoves, ContinueMoves, PreparationAssumption
     DEF Put, Click, Acquire, Release, Moves, LockInv, LockPcs, ModelPcs, Procs
<1>14. ASSUME NEW p \in Procs, LessonCheck(p) PROVE LockInv'
  BY <1>14, BecomeMoves, GotoMoves, LeaveMoves, RaiseMoves, ContinueMoves, PreparationAssumption
     DEF LessonCheck, Click, Acquire, Release, Moves, LockInv, LockPcs, ModelPcs, Procs
<1>15. ASSUME NEW p \in Procs, LessonLock(p) PROVE LockInv'
  BY <1>15, BecomeMoves, GotoMoves, LeaveMoves, RaiseMoves, ContinueMoves, PreparationAssumption
     DEF LessonLock, Click, Acquire, Release, Moves, LockInv, LockPcs, ModelPcs, Procs
<1>16. ASSUME NEW p \in Procs, LessonModel(p) PROVE LockInv'
  BY <1>16, BecomeMoves, GotoMoves, LeaveMoves, RaiseMoves, ContinueMoves, PreparationAssumption
     DEF LessonModel, Click, Acquire, Release, Moves, LockInv, LockPcs, ModelPcs, Procs
<1>17. ASSUME NEW p \in Procs, ItemsLock(p) PROVE LockInv'
  BY <1>17, BecomeMoves, GotoMoves, LeaveMoves, RaiseMoves, ContinueMoves, PreparationAssumption
     DEF ItemsLock, Click, Acquire, Release, Moves, LockInv, LockPcs, ModelPcs, Procs
<1>18. ASSUME NEW p \in Procs, ItemsModel(p) PROVE LockInv'
  <2>1. pc[p] = "items_model" /\ lock = p
    BY <1>18 DEF ItemsModel, LockInv, LockPcs, ModelPcs
  <2>2. CASE lock' = lock /\ \E l : Moves(p, "items_save", l)
    BY <2>1, <2>2 DEF Moves, LockInv, LockPcs
  <2>3. CASE Release(p) /\ Continue(p, "idle")
    BY <2>1, <2>3, ContinueMoves, PreparationAssumption
       DEF Release, Moves, LockInv, LockPcs, ModelPcs, Procs
  <2>4. CASE Release(p) /\ Raise(p)
    BY <2>1, <2>4, RaiseMoves, PreparationAssumption
       DEF Release, Moves, LockInv, LockPcs, ModelPcs, Procs
  <2>. QED  BY <1>18, <2>2, <2>3, <2>4, BecomeMoves DEF ItemsModel
<1>19. ASSUME NEW p \in Procs, ItemsSave(p) PROVE LockInv'
  BY <1>19, BecomeMoves, GotoMoves, LeaveMoves, RaiseMoves, ContinueMoves, PreparationAssumption
     DEF ItemsSave, Click, Acquire, Release, Moves, LockInv, LockPcs, ModelPcs, Procs
<1>20. CASE WorkerGet
  BY <1>20, BecomeMoves, GotoMoves, LeaveMoves, RaiseMoves, ContinueMoves, PreparationAssumption
     DEF WorkerGet, Click, Acquire, Release, Moves, LockInv, LockPcs, ModelPcs, Procs
<1>21. CASE JobBegin
  BY <1>21, BecomeMoves, GotoMoves, LeaveMoves, RaiseMoves, ContinueMoves, PreparationAssumption
     DEF JobBegin, Click, Acquire, Release, Moves, LockInv, LockPcs, ModelPcs, Procs
<1>22. CASE JobEnd
  BY <1>22, BecomeMoves, GotoMoves, LeaveMoves, RaiseMoves, ContinueMoves, PreparationAssumption
     DEF JobEnd, Click, Acquire, Release, Moves, LockInv, LockPcs, ModelPcs, Procs
<1>23. CASE Restart
  BY <1>23, BecomeMoves, GotoMoves, LeaveMoves, RaiseMoves, ContinueMoves, PreparationAssumption
     DEF Restart, Click, Acquire, Release, Moves, LockInv, LockPcs, ModelPcs, Procs
<1>24. CASE UNCHANGED vars
  BY <1>24 DEF vars, LockInv
<1>. QED  BY <1>1, <1>2, <1>3, <1>4, <1>5, <1>6, <1>7, <1>8, <1>9, <1>10, <1>11, <1>12,
             <1>13, <1>14, <1>15, <1>16, <1>17, <1>18, <1>19, <1>20, <1>21, <1>22, <1>23, <1>24
          DEF Next, Request, Handle, Generate, WorkerStep

-----------------------------------------------------------------------------
(* What the threads know of the store.  A thread that has looked under the   *)
(* lock can rely on what it saw until it releases the lock, because only a   *)
(* holder of the lock writes lessons and questions.                          *)
New(kept, existing) ==
  /\ \A i \in DOMAIN kept : \A j \in DOMAIN existing : kept[i] # existing[j]
  /\ \A i, j \in DOMAIN kept : kept[i] = kept[j] => i = j

Knows(p) ==
  /\ pc[p] = "lesson_model" => loc[p].key \notin lessons
  /\ pc[p] = "lesson_event" => loc[p].key \in lessons
  /\ pc[p] \in {"job_begin", "items_wait"} => loc[p].saved = 0
  /\ pc[p] \in {"items_model", "items_save"} /\ loc[p].fill =>
       Len(items[loc[p].key]) = loc[p].saved
  /\ pc[p] = "items_save" => New(loc[p].kept, items[loc[p].key])

StoreInv ==
  /\ OpenedIsSaved
  /\ NoRepeatedQuestion
  /\ \A p \in Procs : Knows(p)

(* A thread that does not move still knows what it knew, if lessons are only *)
(* added and what it holds the lock for is not written.                      *)
LEMMA OthersKnow ==
  ASSUME NEW r \in Procs, Knows(r), pc'[r] = pc[r], loc'[r] = loc[r],
         lessons \subseteq lessons',
         pc[r] = "lesson_model" => lessons' = lessons,
         pc[r] \in {"items_model", "items_save"} => items' = items
  PROVE  Knows(r)'
BY DEF Knows

(* A step that does not write the store preserves the invariant, if the      *)
(* thread that moves knows what its new place requires.                      *)
LEMMA StoreKept ==
  ASSUME StoreInv, NEW p \in Procs, NEW to, NEW l, Moves(p, to, l),
         lessons' = lessons, items' = items, opened' \subseteq lessons,
         to = "lesson_model" => l.key \notin lessons,
         to = "lesson_event" => l.key \in lessons,
         to \in {"job_begin", "items_wait"} => l.saved = 0,
         to \in {"items_model", "items_save"} /\ l.fill => Len(items[l.key]) = l.saved,
         to = "items_save" => New(l.kept, items[l.key])
  PROVE  StoreInv'
<1>1. Knows(p)'
  BY DEF Moves, Knows
<1>2. \A r \in Procs : Knows(r)'
  BY <1>1, OthersKnow DEF StoreInv, Moves
<1>. QED  BY <1>2 DEF StoreInv, OpenedIsSaved, NoRepeatedQuestion

(* Adding a new question keeps the questions of a topic different.           *)
LEMMA AppendNew ==
  ASSUME NEW s \in Seq(Questions), NEW q \in Questions,
         \A i, j \in DOMAIN s : s[i] = s[j] => i = j,
         \A i \in DOMAIN s : s[i] # q
  PROVE  \A i, j \in DOMAIN Append(s, q) : Append(s, q)[i] = Append(s, q)[j] => i = j
OBVIOUS

(* What is left to be saved stays new after its first question is saved.     *)
LEMMA TailIsNew ==
  ASSUME NEW s \in Seq(Questions), NEW kept \in Seq(Questions), kept # <<>>, New(kept, s)
  PROVE  New(Tail(kept), Append(s, Head(kept)))
<1>1. /\ Len(kept) \in Nat \ {0} /\ DOMAIN kept = 1..Len(kept) /\ Head(kept) = kept[1]
      /\ DOMAIN Tail(kept) = 1..(Len(kept) - 1)
      /\ \A i \in 1..(Len(kept) - 1) : Tail(kept)[i] = kept[i + 1] /\ i + 1 \in 1..Len(kept)
  BY EmptySeq, LenProperties, HeadTailProperties
<1>2. /\ DOMAIN Append(s, Head(kept)) = 1..(Len(s) + 1) /\ DOMAIN s = 1..Len(s)
      /\ Len(s) \in Nat
      /\ \A j \in 1..(Len(s) + 1) :
           Append(s, Head(kept))[j] = IF j = Len(s) + 1 THEN Head(kept) ELSE s[j]
  BY <1>1, HeadTailProperties
<1>3. ASSUME NEW i \in DOMAIN Tail(kept), NEW j \in DOMAIN Append(s, Head(kept))
      PROVE  Tail(kept)[i] # Append(s, Head(kept))[j]
  <2>1. CASE j = Len(s) + 1
    BY <1>1, <1>2, <2>1 DEF New
  <2>2. CASE j \in 1..Len(s)
    BY <1>1, <1>2, <2>2 DEF New
  <2>. QED  BY <1>2, <2>1, <2>2
<1>4. \A i, j \in DOMAIN Tail(kept) : Tail(kept)[i] = Tail(kept)[j] => i = j
  BY <1>1 DEF New
<1>. QED  BY <1>3, <1>4 DEF New

(* Every step preserves what the threads know of the store.                  *)
THEOREM StoreInvStep == TypeInv /\ LockInv /\ StoreInv /\ [Next]_vars => StoreInv'
<1>. SUFFICES ASSUME TypeInv, LockInv, StoreInv, [Next]_vars PROVE StoreInv'
  OBVIOUS
<1>. USE DEF TypeInv
<1>1. ASSUME NEW p \in Requests, BuildOutline(p) PROVE StoreInv'
  BY <1>1, BecomeMoves, GotoMoves, LeaveMoves, RaiseMoves, ContinueMoves, StoreKept
     DEF BuildOutline, Click, store, Step, NoLocals, Procs, StoreInv, OpenedIsSaved, Knows
<1>2. ASSUME NEW p \in Requests, OpenLesson(p) PROVE StoreInv'
  BY <1>2, BecomeMoves, GotoMoves, LeaveMoves, RaiseMoves, ContinueMoves, StoreKept
     DEF OpenLesson, Click, store, Step, NoLocals, Procs, StoreInv, OpenedIsSaved, Knows
<1>3. ASSUME NEW p \in Requests, AddQuestions(p) PROVE StoreInv'
  <2>1. PICK t \in 1..outlines[Latest], more \in BOOLEAN :
          Become(p, "items_wait", [NoLocals EXCEPT !.key = <<Latest, t>>, !.fill = ~more])
    BY <1>3 DEF AddQuestions
  <2>. DEFINE l == [NoLocals EXCEPT !.key = <<Latest, t>>, !.fill = ~more]
  <2>2. l.saved = 0
    BY DEF NoLocals
  <2>3. Moves(p, "items_wait", l)
    BY <2>1, BecomeMoves DEF Procs
  <2>. HIDE DEF l
  <2>. QED  BY <1>3, <2>2, <2>3, StoreKept
            DEF AddQuestions, Click, store, Procs, StoreInv, OpenedIsSaved
<1>4. ASSUME NEW p \in Requests, SubmitAnswer(p) PROVE StoreInv'
  BY <1>4, BecomeMoves, GotoMoves, LeaveMoves, RaiseMoves, ContinueMoves, StoreKept
     DEF SubmitAnswer, Click, store, Step, NoLocals, Procs, StoreInv, OpenedIsSaved, Knows
<1>5. ASSUME NEW p \in Requests, OutlineLock(p) PROVE StoreInv'
  BY <1>5, BecomeMoves, GotoMoves, LeaveMoves, RaiseMoves, ContinueMoves, StoreKept
     DEF OutlineLock, Click, store, Step, NoLocals, Procs, StoreInv, OpenedIsSaved, Knows
<1>6. ASSUME NEW p \in Requests, OutlineModel(p) PROVE StoreInv'
  BY <1>6, BecomeMoves, GotoMoves, LeaveMoves, RaiseMoves, ContinueMoves, StoreKept
     DEF OutlineModel, Click, store, Step, NoLocals, Procs, StoreInv, OpenedIsSaved, Knows
<1>7. ASSUME NEW p \in Requests, OutlineSave(p) PROVE StoreInv'
  BY <1>7, BecomeMoves, GotoMoves, LeaveMoves, RaiseMoves, ContinueMoves, StoreKept
     DEF OutlineSave, Click, store, Step, NoLocals, Procs, StoreInv, OpenedIsSaved, Knows
<1>8. ASSUME NEW p \in Requests, LessonEvent(p) PROVE StoreInv'
  <2>1. loc[p].key \in lessons
    BY <1>8 DEF LessonEvent, StoreInv, Knows, Procs
  <2>. QED  BY <1>8, <2>1, GotoMoves, StoreKept
            DEF LessonEvent, Procs, StoreInv, OpenedIsSaved
<1>9. ASSUME NEW p \in Requests, AnswerView(p) PROVE StoreInv'
  BY <1>9, BecomeMoves, GotoMoves, LeaveMoves, RaiseMoves, ContinueMoves, StoreKept
     DEF AnswerView, Click, store, Step, NoLocals, Procs, StoreInv, OpenedIsSaved, Knows
<1>10. ASSUME NEW p \in Requests, Schedule(p) PROVE StoreInv'
  BY <1>10, BecomeMoves, GotoMoves, LeaveMoves, RaiseMoves, ContinueMoves, StoreKept
     DEF Schedule, Click, store, Step, NoLocals, Procs, StoreInv, OpenedIsSaved, Knows
<1>11. ASSUME NEW p \in Requests, SchedJob(p) PROVE StoreInv'
  BY <1>11, BecomeMoves, GotoMoves, LeaveMoves, RaiseMoves, ContinueMoves, StoreKept
     DEF SchedJob, Click, store, Step, NoLocals, Procs, StoreInv, OpenedIsSaved, Knows
<1>12. ASSUME NEW p \in Requests, Submit(p) PROVE StoreInv'
  BY <1>12, BecomeMoves, GotoMoves, LeaveMoves, RaiseMoves, ContinueMoves, StoreKept
     DEF Submit, Click, store, Step, NoLocals, Procs, StoreInv, OpenedIsSaved, Knows
<1>13. ASSUME NEW p \in Requests, Put(p) PROVE StoreInv'
  BY <1>13, BecomeMoves, GotoMoves, LeaveMoves, RaiseMoves, ContinueMoves, StoreKept
     DEF Put, Click, store, Step, NoLocals, Procs, StoreInv, OpenedIsSaved, Knows
<1>14. ASSUME NEW p \in Procs, LessonCheck(p) PROVE StoreInv'
  <2>1. CASE loc[p].key \in lessons /\ Continue(p, "lesson_event")
    BY <1>14, <2>1, ContinueMoves, StoreKept DEF LessonCheck, store, StoreInv, OpenedIsSaved
  <2>2. CASE Goto(p, "lesson_wait")
    BY <1>14, <2>2, GotoMoves, StoreKept DEF LessonCheck, store, StoreInv, OpenedIsSaved
  <2>. QED  BY <1>14, <2>1, <2>2 DEF LessonCheck
<1>15. ASSUME NEW p \in Procs, LessonLock(p) PROVE StoreInv'
  BY <1>15, BecomeMoves, GotoMoves, LeaveMoves, RaiseMoves, ContinueMoves, StoreKept
     DEF LessonLock, Click, store, Step, NoLocals, Procs, StoreInv, OpenedIsSaved, Knows
<1>16. ASSUME NEW p \in Procs, LessonModel(p) PROVE StoreInv'
  <2>1. lock = p /\ loc[p].key \in Keys
    BY <1>16 DEF LessonModel, Release, ThreadInv, Locals
  <2>2. CASE lessons' = lessons \cup {loc[p].key} /\ Continue(p, "lesson_event")
    <3>1. /\ pc'[p] \in {"job_ready", "lesson_event", "idle"}
          /\ pc'[p] = "lesson_event" => loc'[p] = loc[p]
          /\ \A r \in Procs : r # p => pc'[r] = pc[r] /\ loc'[r] = loc[r]
      BY <2>2, ContinueMoves DEF Moves
    <3>2. Knows(p)'
      BY <2>2, <3>1 DEF Knows
    <3>3. \A r \in Procs : r # p => pc[r] # "lesson_model"
      BY <2>1 DEF LockInv, LockPcs, ModelPcs
    <3>4. \A r \in Procs : Knows(r)'
      BY <1>16, <2>2, <3>1, <3>2, <3>3, OthersKnow DEF LessonModel, StoreInv
    <3>. QED  BY <1>16, <2>2, <3>4
              DEF LessonModel, StoreInv, OpenedIsSaved, NoRepeatedQuestion
  <2>3. CASE lessons' = lessons /\ Raise(p)
    BY <1>16, <2>3, RaiseMoves, StoreKept DEF LessonModel, StoreInv, OpenedIsSaved
  <2>. QED  BY <1>16, <2>2, <2>3 DEF LessonModel
<1>17. ASSUME NEW p \in Procs, ItemsLock(p) PROVE StoreInv'
  BY <1>17, BecomeMoves, GotoMoves, LeaveMoves, RaiseMoves, ContinueMoves, StoreKept
     DEF ItemsLock, Click, store, Step, NoLocals, Procs, StoreInv, OpenedIsSaved, Knows
<1>18. ASSUME NEW p \in Procs, ItemsModel(p) PROVE StoreInv'
  <2>1. loc[p] \in Locals
    BY DEF ThreadInv
  <2>2. ASSUME NEW kept \in Kept(items[loc[p].key]),
               Become(p, "items_save", [loc[p] EXCEPT !.kept = kept])
        PROVE  StoreInv'
    <3>. DEFINE l == [loc[p] EXCEPT !.kept = kept]
    <3>1. /\ l.kept = kept /\ l.key = loc[p].key
          /\ l.fill = loc[p].fill /\ l.saved = loc[p].saved
      BY <2>1 DEF Locals
    <3>2. New(kept, items[loc[p].key])
      BY KeptAreNew DEF New
    <3>3. l.fill => Len(items[l.key]) = l.saved
      BY <1>18, <3>1 DEF ItemsModel, StoreInv, Knows
    <3>4. Moves(p, "items_save", l)
      BY <2>2, BecomeMoves
    <3>. HIDE DEF l
    <3>. QED  BY <1>18, <3>1, <3>2, <3>3, <3>4, StoreKept
              DEF ItemsModel, store, StoreInv, OpenedIsSaved
  <2>3. CASE Continue(p, "idle")
    BY <1>18, <2>3, ContinueMoves, StoreKept DEF ItemsModel, store, StoreInv, OpenedIsSaved
  <2>4. CASE Raise(p)
    BY <1>18, <2>4, RaiseMoves, StoreKept DEF ItemsModel, store, StoreInv, OpenedIsSaved
  <2>. QED  BY <1>18, <2>2, <2>3, <2>4 DEF ItemsModel
<1>19. ASSUME NEW p \in Procs, ItemsSave(p) PROVE StoreInv'
  <2>. DEFINE k == loc[p].key  s == items[k]  q == Head(loc[p].kept)
  <2>1. /\ pc[p] = "items_save" /\ lock = p /\ loc[p] \in Locals
        /\ loc[p].kept \in Seq(Questions) /\ loc[p].kept # <<>> /\ k \in Keys
        /\ s \in Seq(Questions) /\ q \in Questions
    BY <1>19, HeadTailProperties
       DEF ItemsSave, LockInv, LockPcs, TableInv, ThreadInv, Placed, Locals
  <2>2. New(loc[p].kept, s) /\ (loc[p].fill => Len(s) = loc[p].saved)
    BY <2>1 DEF StoreInv, Knows
  <2>3. items' = [items EXCEPT ![k] = Append(s, q)] /\ items'[k] = Append(s, q)
    BY <1>19, <2>1 DEF ItemsSave, TableInv
  <2>4. \A i, j \in DOMAIN items'[k] : items'[k][i] = items'[k][j] => i = j
    <3>1. q = loc[p].kept[1] /\ 1 \in DOMAIN loc[p].kept
      BY <2>1
    <3>2. \A i \in DOMAIN s : s[i] # q
      BY <2>2, <3>1 DEF New
    <3>. QED  BY <2>1, <2>3, <3>2, AppendNew DEF StoreInv, NoRepeatedQuestion
  <2>5. NoRepeatedQuestion'
    BY <2>1, <2>3, <2>4 DEF StoreInv, NoRepeatedQuestion, TableInv
  <2>6. Knows(p)'
    <3>1. CASE Tail(loc[p].kept) # <<>>
      <4>. DEFINE l == [loc[p] EXCEPT !.kept = Tail(@), !.saved = @ + 1]
      <4>1. Moves(p, "items_save", l)
        BY <1>19, <3>1, BecomeMoves DEF ItemsSave
      <4>2. /\ l.kept = Tail(loc[p].kept) /\ l.key = k
            /\ l.fill = loc[p].fill /\ l.saved = loc[p].saved + 1
        BY <2>1 DEF Locals
      <4>3. New(Tail(loc[p].kept), Append(s, q))
        BY <2>1, <2>2, TailIsNew
      <4>4. loc[p].fill => Len(Append(s, q)) = loc[p].saved + 1
        BY <2>1, <2>2
      <4>. HIDE DEF l
      <4>. QED  BY <2>1, <2>3, <4>1, <4>2, <4>3, <4>4 DEF Moves, Knows
    <3>2. CASE Tail(loc[p].kept) = <<>>
      <4>1. Continue(p, "idle")
        BY <1>19, <3>2 DEF ItemsSave
      <4>. QED  BY <4>1, ContinueMoves DEF Moves, Knows
    <3>. QED  BY <3>1, <3>2
  <2>7. \A r \in Procs : r # p => Knows(r)'
    <3>1. \A r \in Procs : r # p => pc'[r] = pc[r] /\ loc'[r] = loc[r]
      BY <1>19, BecomeMoves, ContinueMoves DEF ItemsSave, Moves
    <3>2. \A r \in Procs : r # p => pc[r] \notin {"items_model", "items_save"}
      BY <2>1 DEF LockInv, LockPcs, ModelPcs
    <3>. QED  BY <1>19, <3>1, <3>2, OthersKnow DEF ItemsSave, StoreInv
  <2>. QED  BY <1>19, <2>5, <2>6, <2>7 DEF ItemsSave, StoreInv, OpenedIsSaved
<1>20. CASE WorkerGet
  <2>. DEFINE l == [NoLocals EXCEPT !.key = <<Head(queue)[1], Head(queue)[2]>>,
                                 !.kind = Head(queue)[3], !.fill = TRUE]
  <2>1. Moves(Worker, "job_begin", l)
    BY <1>20, BecomeMoves DEF WorkerGet, Procs
  <2>2. l.saved = 0
    BY DEF NoLocals
  <2>. HIDE DEF l
  <2>. QED  BY <1>20, <2>1, <2>2, StoreKept DEF WorkerGet, store, Procs, StoreInv, OpenedIsSaved
<1>21. CASE JobBegin
  <2>1. loc[Worker].saved = 0
    BY <1>21 DEF JobBegin, StoreInv, Knows, Procs
  <2>2. \E to \in {"job_ready", "lesson_check", "items_wait"} : Moves(Worker, to, loc[Worker])
    BY <1>21, GotoMoves DEF JobBegin, Procs
  <2>. QED  BY <1>21, <2>1, <2>2, StoreKept DEF JobBegin, store, Procs, StoreInv, OpenedIsSaved
<1>22. CASE JobEnd
  BY <1>22, BecomeMoves, GotoMoves, LeaveMoves, RaiseMoves, ContinueMoves, StoreKept
     DEF JobEnd, Click, store, Step, NoLocals, Procs, StoreInv, OpenedIsSaved, Knows
<1>23. CASE Restart
  <2>1. \A p \in Procs : pc'[p] = "idle"
    BY <1>23 DEF Restart
  <2>. QED  BY <1>23, <2>1
            DEF Restart, store, StoreInv, OpenedIsSaved, NoRepeatedQuestion, Knows
<1>24. CASE UNCHANGED vars
  BY <1>24 DEF vars, store, StoreInv, OpenedIsSaved, NoRepeatedQuestion, Knows
<1>. QED  BY <1>1, <1>2, <1>3, <1>4, <1>5, <1>6, <1>7, <1>8, <1>9, <1>10, <1>11, <1>12,
             <1>13, <1>14, <1>15, <1>16, <1>17, <1>18, <1>19, <1>20, <1>21, <1>22, <1>23, <1>24
          DEF Next, Request, Handle, Generate, WorkerStep

-----------------------------------------------------------------------------
(* The results.                                                             *)
IInv == TypeInv /\ LockInv /\ StoreInv

(* The inductive invariant holds in every reachable state.                   *)
LEMMA IInvCorrect == Spec => []IInv
<1>1. Init => IInv
  <2>1. Init => TypeInv
    BY InitTypeInv
  <2>2. Init => LockInv
    BY PreparationAssumption DEF Init, LockInv, LockPcs, ModelPcs, Procs
  <2>3. Init => StoreInv
    BY DEF Init, StoreInv, OpenedIsSaved, NoRepeatedQuestion, Knows
  <2>. QED  BY <2>1, <2>2, <2>3 DEF IInv
<1>2. IInv /\ [Next]_vars => IInv'
  BY TypeInvStep, LockInvStep, StoreInvStep DEF IInv
<1>. QED  BY <1>1, <1>2, PTL DEF Spec

(* At most one thread waits for the local model, and exactly the threads in  *)
(* the locked part of a generation hold the generation lock.                 *)
THEOREM OneModelCallCorrect == Spec => []OneModelCall
<1>1. LockInv => OneModelCall
  BY DEF LockInv, OneModelCall, LockPcs
<1>. QED  BY <1>1, IInvCorrect, PTL DEF IInv

(* The lesson a thread has generated is not in the store when it is saved.   *)
THEOREM LessonWrittenOnceCorrect == Spec => []LessonWrittenOnce
<1>1. StoreInv => LessonWrittenOnce
  BY DEF StoreInv, Knows, LessonWrittenOnce
<1>. QED  BY <1>1, IInvCorrect, PTL DEF IInv

(* No topic of a revision ever holds the same question twice.                *)
THEOREM NoRepeatedQuestionCorrect == Spec => []NoRepeatedQuestion
<1>1. StoreInv => NoRepeatedQuestion
  BY DEF StoreInv
<1>. QED  BY <1>1, IInvCorrect, PTL DEF IInv

(* Generation for an empty topic never adds to questions somebody else saved. *)
THEOREM FillOnlyEmptyCorrect == Spec => []FillOnlyEmpty
<1>1. StoreInv => FillOnlyEmpty
  BY DEF StoreInv, Knows, FillOnlyEmpty
<1>. QED  BY <1>1, IInvCorrect, PTL DEF IInv

(* Every lesson_opened event refers to a lesson of its revision.             *)
THEOREM OpenedIsSavedCorrect == Spec => []OpenedIsSaved
<1>1. StoreInv => OpenedIsSaved
  BY DEF StoreInv
<1>. QED  BY <1>1, IInvCorrect, PTL DEF IInv

-----------------------------------------------------------------------------
(* The three places of a job.                                                *)
Queued(j)     == \E i \in DOMAIN queue : queue[i] = j
Putting(p, j) == pc[p] = "sched_put" /\ Head(loc[p].todo) = j
Working(j)    == pc[Worker] # "idle" /\ JobOf(Worker) = j

Submitted(j) == status[j] \in {"queued", "working"}

(* A job is in one place at most, and it is somewhere exactly when the table *)
(* says so.                                                                  *)
PlaceInv ==
  /\ \A i, k \in DOMAIN queue : queue[i] = queue[k] => i = k
  /\ \A p, q \in Requests : \A j : Putting(p, j) /\ Putting(q, j) => p = q
  /\ \A p \in Requests : \A j : Putting(p, j) => ~Queued(j) /\ ~Working(j)
  /\ \A j : ~(Queued(j) /\ Working(j))
  /\ \A j \in JobKeys :
       Submitted(j) <=> Queued(j) \/ Working(j) \/ \E p \in Requests : Putting(p, j)

(* A thread moves on without a job changing its place.                       *)
QuietMove(p, to, l) ==
  /\ Moves(p, to, l)
  /\ pc[p] # "sched_put" /\ to # "sched_put"
  /\ p = Worker => /\ pc[p] # "idle" /\ to # "idle"
                   /\ l.key = loc[p].key /\ l.kind = loc[p].kind

(* Such a step keeps every job in its place.                                 *)
LEMMA QuietPlaces ==
  ASSUME PlaceInv, NEW p \in Procs, NEW to, NEW l, QuietMove(p, to, l),
         UNCHANGED <<queue, status>>
  PROVE  PlaceInv'
<1>1. \A j : Queued(j)' <=> Queued(j)
  BY DEF Queued
<1>2. \A q \in Requests : \A j : Putting(q, j)' <=> Putting(q, j)
  BY DEF Putting, QuietMove, Moves, Procs
<1>3. \A j : Working(j)' <=> Working(j)
  <2>1. CASE p = Worker
    BY <2>1 DEF Working, JobOf, QuietMove, Moves
  <2>2. CASE p # Worker
    BY <2>2 DEF Working, JobOf, QuietMove, Moves, Procs
  <2>. QED  BY <2>1, <2>2
<1>4. \A j : Submitted(j)' <=> Submitted(j)
  BY DEF Submitted
<1>5. UNCHANGED queue
  OBVIOUS
<1>. QED  BY <1>1, <1>2, <1>3, <1>4, <1>5 DEF PlaceInv

-----------------------------------------------------------------------------
(* How the threads leave a generation.                                       *)
LEMMA RaiseIsQuiet ==
  ASSUME ThreadInv, NEW p \in Procs, Raise(p), pc[p] \notin {"idle", "sched_put"}
  PROVE  \E to, l : QuietMove(p, to, l)
BY GotoMoves, LeaveMoves DEF Raise, QuietMove

(* ... done with a lesson or a question set,                                 *)
LEMMA ContinueIsQuiet ==
  ASSUME ThreadInv, NEW p \in Procs, NEW to \in {"idle", "lesson_event"}, Continue(p, to),
         pc[p] \notin {"idle", "sched_put"}
  PROVE  \E t, l : QuietMove(p, t, l)
BY GotoMoves, LeaveMoves DEF Continue, QuietMove

(* ... when a thread only goes on,                                           *)
LEMMA GotoIsQuiet ==
  ASSUME ThreadInv, NEW p \in Procs, NEW to, Goto(p, to), to \notin {"idle", "sched_put"},
         pc[p] # "sched_put", p = Worker => pc[p] # "idle"
  PROVE  \E t, l : QuietMove(p, t, l)
BY GotoMoves DEF QuietMove

(* ... and when a request does so with new locals.                           *)
LEMMA BecomeIsQuiet ==
  ASSUME ThreadInv, NEW p \in Requests, NEW to, NEW l, Become(p, to, l), to # "sched_put",
         pc[p] # "sched_put"
  PROVE  \E t, k : QuietMove(p, t, k)
BY BecomeMoves, PreparationAssumption DEF QuietMove, Procs

(* The steps of the generators leave every job in its place.                 *)
LEMMA GenerateIsQuiet ==
  ASSUME ThreadInv, NEW p \in Procs, Generate(p)
  PROVE  UNCHANGED <<queue, status>> /\ \E t, l : QuietMove(p, t, l)
<1>1. CASE LessonCheck(p)
  BY <1>1, GotoIsQuiet, ContinueIsQuiet DEF LessonCheck
<1>2. CASE LessonLock(p)
  BY <1>2, GotoIsQuiet, ContinueIsQuiet DEF LessonLock
<1>3. CASE LessonModel(p)
  BY <1>3, RaiseIsQuiet, ContinueIsQuiet DEF LessonModel
<1>4. CASE ItemsLock(p)
  BY <1>4, GotoIsQuiet, ContinueIsQuiet DEF ItemsLock
<1>5. CASE ItemsModel(p)
  <2>1. pc[p] = "items_model" /\ UNCHANGED <<queue, status>>
    BY <1>5 DEF ItemsModel
  <2>2. ASSUME NEW kept, Become(p, "items_save", [loc[p] EXCEPT !.kept = kept])
        PROVE  \E t, l : QuietMove(p, t, l)
    <3>. DEFINE l == [loc[p] EXCEPT !.kept = kept]
    <3>1. l.key = loc[p].key /\ l.kind = loc[p].kind
      BY DEF ThreadInv, Locals
    <3>2. Moves(p, "items_save", l)
      BY <2>2, BecomeMoves
    <3>. HIDE DEF l
    <3>. QED  BY <2>1, <3>1, <3>2 DEF QuietMove
  <2>. QED  BY <1>5, <2>1, <2>2, RaiseIsQuiet, ContinueIsQuiet DEF ItemsModel
<1>6. CASE ItemsSave(p)
  <2>1. pc[p] = "items_save" /\ UNCHANGED <<queue, status>>
    BY <1>6 DEF ItemsSave
  <2>2. ASSUME Become(p, "items_save", [loc[p] EXCEPT !.kept = Tail(@), !.saved = @ + 1])
        PROVE  \E t, l : QuietMove(p, t, l)
    <3>. DEFINE l == [loc[p] EXCEPT !.kept = Tail(@), !.saved = @ + 1]
    <3>1. l.key = loc[p].key /\ l.kind = loc[p].kind
      BY DEF ThreadInv, Locals
    <3>2. Moves(p, "items_save", l)
      BY <2>2, BecomeMoves
    <3>. HIDE DEF l
    <3>. QED  BY <2>1, <3>1, <3>2 DEF QuietMove
  <2>. QED  BY <1>6, <2>1, <2>2, ContinueIsQuiet DEF ItemsSave
<1>. QED  BY <1>1, <1>2, <1>3, <1>4, <1>5, <1>6 DEF Generate

(* So do the requests until they submit a job.                               *)
LEMMA RequestIsQuiet ==
  ASSUME ThreadInv, NEW p \in Requests,
         \/ Request(p) \/ OutlineLock(p) \/ OutlineModel(p) \/ OutlineSave(p) \/ LessonEvent(p)
         \/ AnswerView(p) \/ Schedule(p) \/ SchedJob(p)
  PROVE  UNCHANGED <<queue, status>> /\ \E t, l : QuietMove(p, t, l)
<1>1. CASE Request(p)
  BY <1>1, GotoIsQuiet, BecomeIsQuiet, PreparationAssumption
     DEF Request, BuildOutline, OpenLesson, AddQuestions, SubmitAnswer, Click, Procs
<1>2. CASE OutlineLock(p) \/ OutlineModel(p) \/ OutlineSave(p) \/ LessonEvent(p)
  BY <1>2, GotoIsQuiet, RaiseIsQuiet, PreparationAssumption
     DEF OutlineLock, OutlineModel, OutlineSave, LessonEvent, Procs
<1>3. CASE AnswerView(p) \/ Schedule(p) \/ SchedJob(p)
  BY <1>3, GotoIsQuiet, BecomeIsQuiet, PreparationAssumption
     DEF AnswerView, Schedule, SchedJob, Leave, Procs
<1>. QED  BY <1>1, <1>2, <1>3

-----------------------------------------------------------------------------
(* A job is submitted only when it is in no place.                           *)
LEMMA SubmitPlaces ==
  ASSUME TypeInv, PlaceInv, NEW p \in Requests, Submit(p)
  PROVE  PlaceInv'
<1>. DEFINE job == Head(loc[p].todo)
<1>1. p \in Procs /\ p # Worker /\ ThreadInv /\ UNCHANGED queue /\ pc[p] = "sched_submit"
  BY PreparationAssumption DEF Procs, TypeInv, Submit
<1>2. CASE UNCHANGED status /\ Become(p, "sched_job", [loc[p] EXCEPT !.todo = Tail(@)])
  BY <1>1, <1>2, BecomeIsQuiet, QuietPlaces
<1>3. CASE /\ status[job] \notin {"queued", "working"}
           /\ status' = [status EXCEPT ![job] = "queued"] /\ Goto(p, "sched_put")
  <2>1. job \in JobKeys
    BY <1>1, HeadTailProperties DEF ThreadInv, Placed, Locals
  <2>2. ~Queued(job) /\ ~Working(job) /\ \A q \in Requests : ~Putting(q, job)
    BY <1>3, <2>1 DEF PlaceInv, Submitted
  <2>3. Moves(p, "sched_put", loc[p])
    BY <1>1, <1>3, GotoMoves
  <2>4. \A j : (Queued(j)' <=> Queued(j)) /\ (Working(j)' <=> Working(j))
    BY <1>1, <2>3 DEF Queued, Working, JobOf, Moves, Procs
  <2>5. \A q \in Requests : \A j : Putting(q, j)' <=> Putting(q, j) \/ (q = p /\ j = job)
    BY <1>1, <2>3 DEF Putting, Moves, Procs
  <2>6. \A j \in JobKeys : Submitted(j)' <=> Submitted(j) \/ j = job
    BY <1>3, <2>1 DEF Submitted, TypeInv, TableInv
  <2>. HIDE DEF job
  <2>. QED  BY <1>1, <2>2, <2>4, <2>5, <2>6 DEF PlaceInv
<1>. QED  BY <1>2, <1>3 DEF Submit

(* A submitted job goes from the thread to the end of the queue.             *)
LEMMA PutPlaces ==
  ASSUME TypeInv, PlaceInv, NEW p \in Requests, Put(p)
  PROVE  PlaceInv'
<1>. DEFINE job == Head(loc[p].todo)
<1>1. p \in Procs /\ p # Worker /\ ThreadInv /\ UNCHANGED status /\ pc[p] = "sched_put"
  BY PreparationAssumption DEF Procs, TypeInv, Put
<1>2. job \in JobKeys
  BY <1>1, HeadTailProperties DEF ThreadInv, Placed, Locals
<1>3. PICK l : Moves(p, "sched_job", l)
  BY <1>1, BecomeMoves DEF Put
<1>4. /\ queue \in Seq(JobKeys) /\ queue' = Append(queue, job)
  BY DEF Put, TypeInv, TableInv
<1>. HIDE DEF job
<1>5. /\ Len(queue) \in Nat /\ DOMAIN queue = 1..Len(queue) /\ DOMAIN queue' = 1..(Len(queue) + 1)
      /\ \A i \in 1..Len(queue) : queue'[i] = queue[i]
      /\ queue'[Len(queue) + 1] = job
  BY <1>2, <1>4, AppendProperties, LenProperties
<1>6. \A j : Queued(j)' <=> Queued(j) \/ j = job
  BY <1>5 DEF Queued
<1>7. \A j : Working(j)' <=> Working(j)
  BY <1>1, <1>3 DEF Working, JobOf, Moves, Procs
<1>8. \A q \in Requests : \A j : Putting(q, j)' <=> Putting(q, j) /\ q # p
  BY <1>1, <1>3 DEF Putting, Moves, Procs
<1>9. \A j : Submitted(j)' <=> Submitted(j)
  BY <1>1 DEF Submitted
<1>10. Putting(p, job) /\ \A j : Putting(p, j) => j = job
  BY <1>1 DEF Putting, job
<1>11. ~Queued(job) /\ ~Working(job)
  BY <1>10 DEF PlaceInv
<1>12. \A i, k \in DOMAIN queue' : queue'[i] = queue'[k] => i = k
  BY <1>5, <1>11 DEF PlaceInv, Queued
<1>13. \A q \in Requests : \A j : Putting(q, j)' => j # job
  BY <1>8, <1>10 DEF PlaceInv
<1>. QED  BY <1>6, <1>7, <1>8, <1>9, <1>10, <1>11, <1>12, <1>13 DEF PlaceInv

(* The preparation thread takes the first job of the queue.                  *)
LEMMA GetPlaces ==
  ASSUME TypeInv, PlaceInv, WorkerGet
  PROVE  PlaceInv'
<1>. DEFINE job == Head(queue)
            l == [NoLocals EXCEPT !.key = <<job[1], job[2]>>, !.kind = job[3], !.fill = TRUE]
<1>1. /\ Worker \in Procs /\ Worker \notin Requests /\ ThreadInv /\ pc[Worker] = "idle"
      /\ queue \in Seq(JobKeys) /\ queue # <<>>
  BY PreparationAssumption DEF Procs, TypeInv, TableInv, WorkerGet
<1>2. /\ Len(queue) \in Nat \ {0} /\ job = queue[1] /\ job \in JobKeys
      /\ DOMAIN queue = 1..Len(queue) /\ DOMAIN queue' = 1..(Len(queue) - 1)
      /\ \A i \in 1..(Len(queue) - 1) : queue'[i] = queue[i + 1]
  BY <1>1, HeadTailProperties, EmptySeq, LenProperties DEF WorkerGet
<1>3. <<l.key[1], l.key[2], l.kind>> = job
  BY <1>2 DEF JobKeys, NoLocals
<1>4. Moves(Worker, "job_begin", l)
  BY <1>1, BecomeMoves DEF WorkerGet
<1>5. status' = [status EXCEPT ![job] = "working"]
  BY DEF WorkerGet
<1>. HIDE DEF job, l
<1>6. \A j : Queued(j)' <=> Queued(j) /\ j # job
  <2>1. \A i \in DOMAIN queue' : i + 1 \in DOMAIN queue /\ i + 1 # 1 /\ queue'[i] = queue[i + 1]
    BY <1>2
  <2>2. \A i \in DOMAIN queue : i = 1 \/ (i - 1 \in DOMAIN queue' /\ queue'[i - 1] = queue[i])
    BY <1>2
  <2>3. 1 \in DOMAIN queue /\ \A i \in DOMAIN queue : queue[i] = job => i = 1
    BY <1>2 DEF PlaceInv
  <2>. QED  BY <1>2, <2>1, <2>2, <2>3 DEF Queued
<1>7. \A j : Working(j)' <=> j = job
  BY <1>3, <1>4 DEF Working, JobOf, Moves
<1>8. \A j : ~Working(j)
  BY <1>1 DEF Working
<1>9. \A q \in Requests : \A j : Putting(q, j)' <=> Putting(q, j)
  BY <1>1, <1>4 DEF Putting, Moves, Procs
<1>10. Queued(job)
  BY <1>2 DEF Queued
<1>11. \A j \in JobKeys : Submitted(j)' <=> Submitted(j)
  BY <1>2, <1>5, <1>10 DEF Submitted, TypeInv, TableInv, PlaceInv
<1>12. \A i, k \in DOMAIN queue' : queue'[i] = queue'[k] => i = k
  <2>1. ASSUME NEW i \in DOMAIN queue', NEW k \in DOMAIN queue', queue'[i] = queue'[k]
        PROVE  i = k
    <3>1. i + 1 \in DOMAIN queue /\ k + 1 \in DOMAIN queue /\ queue[i + 1] = queue[k + 1]
      BY <1>2, <2>1
    <3>2. i + 1 = k + 1
      BY <3>1 DEF PlaceInv
    <3>. QED  BY <1>2, <3>2
  <2>. QED  BY <2>1
<1>. QED  BY <1>6, <1>7, <1>8, <1>9, <1>10, <1>11, <1>12 DEF PlaceInv

(* A finished job is in no place.                                            *)
LEMMA EndPlaces ==
  ASSUME TypeInv, PlaceInv, JobEnd
  PROVE  PlaceInv'
<1>. DEFINE job == JobOf(Worker)
<1>1. /\ Worker \in Procs /\ Worker \notin Requests /\ ThreadInv /\ UNCHANGED queue
      /\ pc[Worker] \in {"job_ready", "job_failed"}
  BY PreparationAssumption DEF Procs, TypeInv, JobEnd
<1>2. job \in JobKeys
  BY <1>1 DEF JobOf, ThreadInv, Locals, Keys, JobKeys
<1>3. Moves(Worker, "idle", NoLocals)
  BY <1>1, LeaveMoves DEF JobEnd
<1>4. \A j \in JobKeys : Submitted(j)' <=> Submitted(j) /\ j # job
  BY <1>2 DEF JobEnd, Submitted, TypeInv, TableInv
<1>5. \A j : (Working(j) <=> j = job) /\ ~Working(j)'
  BY <1>1, <1>3 DEF Working, Moves
<1>6. \A j : Queued(j)' <=> Queued(j)
  BY <1>1 DEF Queued
<1>7. \A q \in Requests : \A j : Putting(q, j)' <=> Putting(q, j)
  BY <1>1, <1>3 DEF Putting, Moves, Procs
<1>. HIDE DEF job
<1>. QED  BY <1>1, <1>4, <1>5, <1>6, <1>7 DEF PlaceInv

(* Nothing is anywhere after a restart, and when the process starts.         *)
LEMMA NothingPlaced ==
  ASSUME queue = <<>>, status = [j \in JobKeys |-> "none"], pc = [p \in Procs |-> "idle"]
  PROVE  PlaceInv
<1>1. /\ \A j : ~Queued(j) /\ ~Working(j)
      /\ \A p \in Requests : \A j : ~Putting(p, j)
      /\ \A j \in JobKeys : ~Submitted(j)
  BY DEF Queued, Working, Putting, Submitted, Procs
<1>. QED  BY <1>1 DEF PlaceInv

(* Every step keeps every job in at most one place.                          *)
LEMMA PlaceStep ==
  ASSUME TypeInv, PlaceInv, [Next]_vars
  PROVE  PlaceInv'
<1>1. ASSUME NEW p \in Procs, NEW t, NEW l, QuietMove(p, t, l), UNCHANGED <<queue, status>>
      PROVE  PlaceInv'
  BY <1>1, QuietPlaces
<1>2. ASSUME NEW p \in Procs, Generate(p) PROVE PlaceInv'
  BY <1>1, <1>2, GenerateIsQuiet DEF TypeInv
<1>3. ASSUME NEW p \in Requests,
             \/ Request(p) \/ OutlineLock(p) \/ OutlineModel(p) \/ OutlineSave(p)
             \/ LessonEvent(p) \/ AnswerView(p) \/ Schedule(p) \/ SchedJob(p)
      PROVE  PlaceInv'
  BY <1>1, <1>3, RequestIsQuiet DEF TypeInv, Procs
<1>4. CASE JobBegin
  <2>1. PICK to \in {"job_ready", "lesson_check", "items_wait"} : Goto(Worker, to)
    BY <1>4, Zenon DEF JobBegin
  <2>2. pc[Worker] = "job_begin" /\ UNCHANGED <<queue, status>> /\ Worker \in Procs /\ ThreadInv
    BY <1>4 DEF JobBegin, Procs, TypeInv
  <2>. QED  BY <1>1, <2>1, <2>2, GotoIsQuiet
<1>5. CASE Restart
  <2>1. /\ queue' = <<>> /\ status' = [j \in JobKeys |-> "none"]
        /\ pc' = [p \in Procs |-> "idle"]
    BY <1>5 DEF Restart
  <2>2. /\ \A j : ~Queued(j)' /\ ~Working(j)'
        /\ \A p \in Requests : \A j : ~Putting(p, j)'
        /\ \A j \in JobKeys : ~Submitted(j)'
    BY <2>1 DEF Queued, Working, Putting, Submitted, Procs
  <2>. QED  BY <2>1, <2>2 DEF PlaceInv
<1>6. CASE UNCHANGED vars
  BY <1>6 DEF vars, PlaceInv, Queued, Working, Putting, Submitted, JobOf
<1>. QED  BY <1>2, <1>3, <1>4, <1>5, <1>6, SubmitPlaces, PutPlaces, GetPlaces, EndPlaces
          DEF Next, Handle, WorkerStep

-----------------------------------------------------------------------------
(* What "ready" means.  Jobs are of course paths that exist; the preparation *)
(* thread ends a lesson as ready only when it is saved or its path is an     *)
(* earlier one, and paths and lessons are never taken back.                  *)
OkTodo(todo) == \A i \in DOMAIN todo : todo[i][1] <= Latest

ItemPcs == {"items_wait", "items_model", "items_save"}

ReadyInv ==
  /\ \A p \in Procs : OkTodo(loc[p].todo)
  /\ \A j \in JobKeys : status[j] # "none" => j[1] <= Latest
  /\ pc[Worker] \in ItemPcs => loc[Worker].kind = "questions"
  /\ pc[Worker] = "job_ready" /\ loc[Worker].kind = "lesson" =>
       loc[Worker].key \in lessons \/ loc[Worker].key[1] < Latest
  /\ \A k \in Keys : status[<<k[1], k[2], "lesson">>] = "ready" => k \in lessons \/ k[1] < Latest

(* Lessons and course paths are only added.                                  *)
LEMMA StoreGrows ==
  ASSUME TypeInv, [Next]_vars
  PROVE  lessons \subseteq lessons' /\ Latest <= Latest' /\ Latest \in Nat /\ Latest' \in Nat
<1>1. Latest \in Nat
  BY LenProperties DEF TypeInv, TableInv, Latest
<1>2. lessons \subseteq lessons' /\ (UNCHANGED outlines \/ \E n \in Topics : outlines' = Append(outlines, n))
  <2>1. ASSUME NEW p \in Requests, Request(p) PROVE UNCHANGED <<lessons, outlines>>
    BY <2>1 DEF Request, BuildOutline, OpenLesson, AddQuestions, SubmitAnswer, Click, store
  <2>2. ASSUME NEW p \in Requests, Handle(p)
        PROVE  UNCHANGED lessons /\ (UNCHANGED outlines \/ \E n \in Topics : outlines' = Append(outlines, n))
    BY <2>2 DEF Handle, OutlineLock, OutlineModel, OutlineSave, LessonEvent, AnswerView, Schedule,
                SchedJob, Submit, Put, store
  <2>3. ASSUME NEW p \in Procs, Generate(p) PROVE lessons \subseteq lessons' /\ UNCHANGED outlines
    BY <2>3 DEF Generate, LessonCheck, LessonLock, LessonModel, ItemsLock, ItemsModel, ItemsSave, store
  <2>4. WorkerStep \/ Restart \/ UNCHANGED vars => UNCHANGED <<lessons, outlines>>
    BY DEF WorkerStep, WorkerGet, JobBegin, JobEnd, Restart, vars, store
  <2>. QED  BY <2>1, <2>2, <2>3, <2>4 DEF Next
<1>3. UNCHANGED outlines => Latest' = Latest
  BY DEF Latest
<1>4. ASSUME NEW n \in Topics, outlines' = Append(outlines, n)
      PROVE  Latest' = Latest + 1
  BY <1>4, AppendProperties DEF TypeInv, TableInv, Latest
<1>. QED  BY <1>1, <1>2, <1>3, <1>4

(* A thread moves, to where "ready" still means what it should.              *)
LEMMA ReadyMoves ==
  ASSUME TypeInv, ReadyInv, [Next]_vars, NEW p \in Procs, NEW to, NEW l, Moves(p, to, l),
         OkTodo(l.todo),
         p = Worker => /\ to \in ItemPcs => l.kind = "questions"
                       /\ to = "job_ready" /\ l.kind = "lesson" =>
                            l.key \in lessons' \/ l.key[1] < Latest,
         \A j \in JobKeys : status'[j] # "none" => status[j] # "none" \/ j[1] <= Latest,
         \A k \in Keys : status'[<<k[1], k[2], "lesson">>] = "ready" =>
           \/ status[<<k[1], k[2], "lesson">>] = "ready" \/ k \in lessons \/ k[1] < Latest
  PROVE  ReadyInv'
<1>1. lessons \subseteq lessons' /\ Latest <= Latest' /\ Latest \in Nat /\ Latest' \in Nat
  BY StoreGrows
<1>2. Worker \in Procs /\ \A q \in Procs : loc[q] \in Locals
  BY DEF Procs, TypeInv, ThreadInv
<1>3. \A q \in Procs : OkTodo(loc[q].todo)'
  <2>1. ASSUME NEW q \in Procs PROVE \A i \in DOMAIN loc'[q].todo : loc'[q].todo[i][1] <= Latest'
    <3>1. loc'[q] = l \/ loc'[q] = loc[q]
      BY DEF Moves
    <3>2. \A i \in DOMAIN loc'[q].todo : loc'[q].todo[i][1] <= Latest
      BY <3>1 DEF ReadyInv, OkTodo
    <3>3. loc'[q].todo \in Seq(JobKeys)
      BY TypeInvStep DEF TypeInv, ThreadInv, Locals
    <3>4. \A i \in DOMAIN loc'[q].todo : loc'[q].todo[i][1] \in Nat
      BY <3>3, LenProperties, ElementOfSeq DEF JobKeys, Revisions
    <3>. QED  BY <1>1, <3>2, <3>4
  <2>. QED  BY <2>1 DEF OkTodo
<1>4. \A j \in JobKeys : j[1] \in Nat
  BY DEF JobKeys, Revisions
<1>5. \A k \in Keys : k[1] \in Nat
  BY DEF Keys, Revisions
<1>6. \A j \in JobKeys : status'[j] # "none" => j[1] <= Latest'
  BY <1>1, <1>4 DEF ReadyInv
<1>7. pc'[Worker] \in ItemPcs => loc'[Worker].kind = "questions"
  BY <1>2 DEF ReadyInv, Moves
<1>8. loc'[Worker].key \in Keys
  BY <1>2, TypeInvStep DEF TypeInv, ThreadInv, Locals
<1>9. pc'[Worker] = "job_ready" /\ loc'[Worker].kind = "lesson" =>
        loc'[Worker].key \in lessons' \/ loc'[Worker].key[1] < Latest'
  <2>1. pc'[Worker] = "job_ready" /\ loc'[Worker].kind = "lesson" =>
          loc'[Worker].key \in lessons' \/ loc'[Worker].key[1] < Latest
    BY <1>1, <1>2 DEF ReadyInv, Moves
  <2>. QED  BY <1>1, <1>5, <1>8, <2>1
<1>10. \A k \in Keys : status'[<<k[1], k[2], "lesson">>] = "ready" => k \in lessons' \/ k[1] < Latest'
  BY <1>1, <1>5 DEF ReadyInv
<1>. QED  BY <1>3, <1>6, <1>7, <1>9, <1>10 DEF ReadyInv

(* The same for a step that leaves the status table alone.                   *)
LEMMA ReadyQuiet ==
  ASSUME TypeInv, ReadyInv, [Next]_vars, NEW p \in Procs, NEW to, NEW l, Moves(p, to, l),
         OkTodo(l.todo), UNCHANGED status,
         p = Worker => /\ to \in ItemPcs => l.kind = "questions"
                       /\ to = "job_ready" /\ l.kind = "lesson" =>
                            l.key \in lessons' \/ l.key[1] < Latest
  PROVE  ReadyInv'
BY ReadyMoves

(* The jobs that are scheduled are of the latest course path.                *)
LEMMA JobsAreLatest ==
  \A i \in DOMAIN Jobs : Jobs[i][1] = Latest
<1>1. \A t : \A i \in DOMAIN <<<<Latest, t, "lesson">>, <<Latest, t, "questions">>>> :
        <<<<Latest, t, "lesson">>, <<Latest, t, "questions">>>>[i][1] = Latest
  OBVIOUS
<1>2. \A t, u : \A i \in DOMAIN (<<<<Latest, t, "lesson">>, <<Latest, t, "questions">>>>
                               \o <<<<Latest, u, "lesson">>, <<Latest, u, "questions">>>>) :
        (<<<<Latest, t, "lesson">>, <<Latest, t, "questions">>>>
           \o <<<<Latest, u, "lesson">>, <<Latest, u, "questions">>>>)[i][1] = Latest
  OBVIOUS
<1>. QED  BY <1>1, <1>2 DEF Jobs

(* ... which exists.                                                         *)
LEMMA JobsAreCurrent ==
  ASSUME TableInv, Latest > 0
  PROVE  OkTodo(Jobs)
<1>1. Latest \in Nat
  BY LenProperties DEF TableInv, Latest
<1>. QED  BY <1>1, JobsAreLatest DEF OkTodo

(* What is left of a list of such jobs.                                      *)
LEMMA TailIsCurrent ==
  ASSUME NEW l \in Locals, OkTodo(l.todo), l.todo # <<>>
  PROVE  OkTodo([l EXCEPT !.todo = Tail(@)].todo) /\ Head(l.todo)[1] <= Latest
<1>1. /\ l.todo \in Seq(JobKeys) /\ [l EXCEPT !.todo = Tail(@)].todo = Tail(l.todo)
  BY DEF Locals
<1>2. /\ Len(l.todo) \in Nat \ {0} /\ DOMAIN l.todo = 1..Len(l.todo) /\ Head(l.todo) = l.todo[1]
      /\ DOMAIN Tail(l.todo) = 1..(Len(l.todo) - 1)
      /\ \A i \in 1..(Len(l.todo) - 1) : Tail(l.todo)[i] = l.todo[i + 1]
  BY <1>1, EmptySeq, LenProperties, HeadTailProperties
<1>. QED  BY <1>1, <1>2 DEF OkTodo

(* Nothing is to be done by a thread that begins or ends a request.          *)
LEMMA NothingToDo ==
  /\ OkTodo(NoLocals.todo)
  /\ \A k : OkTodo([NoLocals EXCEPT !.key = k].todo)
  /\ \A k, f : OkTodo([NoLocals EXCEPT !.key = k, !.fill = f].todo)
BY DEF OkTodo, NoLocals

(* The ways a thread moves on keep "ready" true.                             *)
LEMMA GoesOn ==
  ASSUME TypeInv, ReadyInv, [Next]_vars, NEW p \in Procs, UNCHANGED status,
         \/ Raise(p)
         \/ Leave(p) /\ p # Worker
         \/ \E to \in Pcs \ (ItemPcs \cup {"job_ready"}) : Goto(p, to)
         \/ /\ \E to \in {"idle", "lesson_event"} : Continue(p, to)
            /\ p = Worker /\ loc[p].kind = "lesson" =>
                 loc[p].key \in lessons' \/ loc[p].key[1] < Latest
  PROVE  ReadyInv'
<1>. USE DEF TypeInv
<1>1. OkTodo(loc[p].todo) /\ OkTodo(NoLocals.todo)
  BY NothingToDo DEF ReadyInv
<1>2. CASE Raise(p)
  <2>1. (p = Worker /\ Moves(p, "job_failed", loc[p])) \/ (p # Worker /\ Moves(p, "idle", NoLocals))
    BY <1>2, GotoMoves, LeaveMoves DEF Raise
  <2>. QED  BY <1>1, <2>1, ReadyQuiet DEF ItemPcs
<1>3. CASE Leave(p) /\ p # Worker
  BY <1>1, <1>3, LeaveMoves, ReadyQuiet
<1>4. ASSUME NEW to \in Pcs \ (ItemPcs \cup {"job_ready"}), Goto(p, to)
      PROVE  ReadyInv'
  BY <1>1, <1>4, GotoMoves, ReadyQuiet
<1>5. ASSUME NEW to \in {"idle", "lesson_event"}, Continue(p, to),
             p = Worker /\ loc[p].kind = "lesson" =>
               loc[p].key \in lessons' \/ loc[p].key[1] < Latest
      PROVE  ReadyInv'
  <2>1. \/ Moves(p, "job_ready", loc[p]) \/ Moves(p, "lesson_event", loc[p])
        \/ Moves(p, "idle", NoLocals)
    BY <1>5, ContinueMoves
  <2>2. CASE Moves(p, "job_ready", loc[p])
    BY <1>1, <1>5, <2>2, ReadyQuiet DEF ItemPcs
  <2>3. CASE Moves(p, "lesson_event", loc[p])
    BY <1>1, <2>3, ReadyQuiet DEF ItemPcs
  <2>4. CASE Moves(p, "idle", NoLocals)
    BY <1>1, <2>4, ReadyQuiet DEF ItemPcs
  <2>. QED  BY <2>1, <2>2, <2>3, <2>4
<1>. QED  BY <1>2, <1>3, <1>4, <1>5

(* A generator that ends with a lesson as ready has found it or saved it.    *)
LEMMA GenerateReady ==
  ASSUME TypeInv, ReadyInv, [Next]_vars, NEW p \in Procs, Generate(p)
  PROVE  ReadyInv'
<1>0. UNCHANGED status
  BY GenerateIsQuiet DEF TypeInv
<1>1. CASE LessonCheck(p)
  BY <1>0, <1>1, GoesOn DEF LessonCheck, store, Pcs, ItemPcs
<1>2. CASE LessonLock(p)
  BY <1>0, <1>2, GoesOn DEF LessonLock, store, Pcs, ItemPcs, LockPcs, ModelPcs
<1>3. CASE LessonModel(p)
  BY <1>0, <1>3, GoesOn DEF LessonModel
<1>4. CASE ItemsLock(p) \/ ItemsModel(p) \/ ItemsSave(p)
  <2>1. p = Worker => loc[p].kind = "questions"
    BY <1>4 DEF ItemsLock, ItemsModel, ItemsSave, ReadyInv, ItemPcs
  <2>2. Raise(p) \/ Continue(p, "idle") => ReadyInv'
    BY <1>0, <2>1, GoesOn
  <2>3. ASSUME NEW to \in ItemPcs, NEW l, Become(p, to, l) \/ (l = loc[p] /\ Goto(p, to)),
               l.todo = loc[p].todo, l.kind = loc[p].kind
        PROVE  ReadyInv'
    <3>1. Moves(p, to, l)
      BY <2>3, BecomeMoves, GotoMoves DEF TypeInv
    <3>2. OkTodo(l.todo)
      BY <2>3 DEF ReadyInv
    <3>. QED  BY <1>0, <2>1, <2>3, <3>1, <3>2, ReadyQuiet DEF ItemPcs
  <2>4. CASE ItemsLock(p)
    BY <2>2, <2>3, <2>4 DEF ItemsLock, ItemPcs
  <2>5. CASE ItemsModel(p)
    <3>1. ASSUME NEW kept, Become(p, "items_save", [loc[p] EXCEPT !.kept = kept])
          PROVE  ReadyInv'
      <4>. DEFINE l == [loc[p] EXCEPT !.kept = kept]
      <4>1. l.todo = loc[p].todo /\ l.kind = loc[p].kind
        BY DEF TypeInv, ThreadInv, Locals
      <4>2. Become(p, "items_save", l)
        BY <3>1
      <4>. HIDE DEF l
      <4>. QED  BY <2>3, <4>1, <4>2 DEF ItemPcs
    <3>. QED  BY <2>2, <2>5, <3>1 DEF ItemsModel
  <2>6. CASE ItemsSave(p)
    <3>1. ASSUME Become(p, "items_save", [loc[p] EXCEPT !.kept = Tail(@), !.saved = @ + 1])
          PROVE  ReadyInv'
      <4>. DEFINE l == [loc[p] EXCEPT !.kept = Tail(@), !.saved = @ + 1]
      <4>1. l.todo = loc[p].todo /\ l.kind = loc[p].kind
        BY DEF TypeInv, ThreadInv, Locals
      <4>2. Become(p, "items_save", l)
        BY <3>1
      <4>. HIDE DEF l
      <4>. QED  BY <2>3, <4>1, <4>2 DEF ItemPcs
    <3>. QED  BY <2>2, <2>6, <3>1 DEF ItemsSave
  <2>. QED  BY <1>4, <2>4, <2>5, <2>6
<1>. QED  BY <1>1, <1>2, <1>3, <1>4 DEF Generate

(* The requests schedule jobs of the latest path, and show them as queued.   *)
LEMMA RequestReady ==
  ASSUME TypeInv, ReadyInv, [Next]_vars, NEW p \in Requests, Request(p) \/ Handle(p)
  PROVE  ReadyInv'
<1>1. p \in Procs /\ p # Worker /\ OkTodo(loc[p].todo) /\ loc[p] \in Locals
  BY PreparationAssumption DEF Procs, ReadyInv, TypeInv, ThreadInv
<1>2. ASSUME NEW to, NEW l, Become(p, to, l), OkTodo(l.todo), UNCHANGED status
      PROVE  ReadyInv'
  BY <1>1, <1>2, BecomeMoves, ReadyQuiet DEF TypeInv
<1>3. ASSUME NEW to, Goto(p, to), UNCHANGED status
      PROVE  ReadyInv'
  BY <1>1, <1>3, GotoMoves, ReadyQuiet DEF TypeInv
<1>4. Leave(p) /\ UNCHANGED status => ReadyInv'
  BY <1>2, NothingToDo DEF Leave
<1>5. Raise(p) /\ UNCHANGED status => ReadyInv'
  BY <1>1, <1>4 DEF Raise
<1>6. CASE Request(p)
  <2>1. UNCHANGED status
    BY <1>6 DEF Request, BuildOutline, OpenLesson, AddQuestions, SubmitAnswer, Click
  <2>2. \/ Goto(p, "outline_wait")
        \/ \E to, k : Become(p, to, [NoLocals EXCEPT !.key = k])
        \/ \E to, k, f : Become(p, to, [NoLocals EXCEPT !.key = k, !.fill = f])
    BY <1>6, Zenon DEF Request, BuildOutline, OpenLesson, AddQuestions, SubmitAnswer
  <2>. QED  BY <1>2, <1>3, <2>1, <2>2, NothingToDo
<1>7. CASE OutlineLock(p) \/ OutlineModel(p) \/ OutlineSave(p) \/ LessonEvent(p)
  BY <1>3, <1>5, <1>7 DEF OutlineLock, OutlineModel, OutlineSave, LessonEvent
<1>8. CASE AnswerView(p)
  BY <1>3, <1>4, <1>8 DEF AnswerView
<1>9. CASE Schedule(p)
  <2>1. OkTodo(Jobs)
    BY <1>1, <1>9, JobsAreCurrent DEF Schedule, TypeInv, ThreadInv, Placed, PathPcs
  <2>2. [NoLocals EXCEPT !.todo = Jobs].todo = Jobs
    BY DEF NoLocals
  <2>. QED  BY <1>2, <1>9, <2>1, <2>2 DEF Schedule
<1>10. CASE SchedJob(p)
  BY <1>1, <1>2, <1>3, <1>4, <1>10, TailIsCurrent DEF SchedJob
<1>11. CASE Submit(p)
  <2>1. loc[p].todo # <<>>
    BY <1>1, <1>11 DEF Submit, TypeInv, ThreadInv, Placed
  <2>2. CASE UNCHANGED status /\ Become(p, "sched_job", [loc[p] EXCEPT !.todo = Tail(@)])
    BY <1>1, <1>2, <2>1, <2>2, TailIsCurrent
  <2>3. CASE status' = [status EXCEPT ![Head(loc[p].todo)] = "queued"] /\ Goto(p, "sched_put")
    <3>. DEFINE job == Head(loc[p].todo)
    <3>1. job[1] <= Latest /\ status' = [status EXCEPT ![job] = "queued"]
      BY <1>1, <2>1, <2>3, TailIsCurrent
    <3>2. Moves(p, "sched_put", loc[p])
      BY <1>1, <2>3, GotoMoves DEF TypeInv
    <3>. HIDE DEF job
    <3>3. \A j \in JobKeys : status'[j] = status[j] \/ (j = job /\ status'[j] = "queued")
      BY <3>1 DEF TypeInv, TableInv
    <3>4. \A k \in Keys : <<k[1], k[2], "lesson">> \in JobKeys
      BY DEF Keys, JobKeys, Kinds
    <3>5. \A j \in JobKeys : status'[j] # "none" => status[j] # "none" \/ j[1] <= Latest
      BY <3>1, <3>3
    <3>6. \A k \in Keys : status'[<<k[1], k[2], "lesson">>] = "ready" =>
            status[<<k[1], k[2], "lesson">>] = "ready"
      BY <3>3, <3>4
    <3>. QED  BY <1>1, <3>2, <3>5, <3>6, ReadyMoves
  <2>. QED  BY <1>11, <2>2, <2>3 DEF Submit
<1>12. CASE Put(p)
  <2>1. loc[p].todo # <<>>
    BY <1>1, <1>12 DEF Put, TypeInv, ThreadInv, Placed
  <2>. QED  BY <1>1, <1>2, <1>12, <2>1, TailIsCurrent DEF Put
<1>. QED  BY <1>6, <1>7, <1>8, <1>9, <1>10, <1>11, <1>12 DEF Handle

(* The preparation thread drops only jobs of earlier paths, and reports a    *)
(* job as it ended.                                                          *)
LEMMA WorkerReady ==
  ASSUME TypeInv, PlaceInv, ReadyInv, [Next]_vars, WorkerStep
  PROVE  ReadyInv'
<1>1. /\ Worker \in Procs /\ loc[Worker] \in Locals /\ OkTodo(loc[Worker].todo)
      /\ Latest \in Nat
  BY StoreGrows DEF Procs, ReadyInv, TypeInv, ThreadInv
<1>2. \A k \in Keys : <<k[1], k[2], "lesson">> \in JobKeys
  BY DEF Keys, JobKeys, Kinds
<1>3. CASE WorkerGet
  <2>. DEFINE job == Head(queue)
              l == [NoLocals EXCEPT !.key = <<job[1], job[2]>>, !.kind = job[3], !.fill = TRUE]
  <2>1. /\ queue \in Seq(JobKeys) /\ queue # <<>> /\ status' = [status EXCEPT ![job] = "working"]
    BY <1>3 DEF WorkerGet, TypeInv, TableInv
  <2>2. job \in JobKeys /\ 1 \in DOMAIN queue /\ job = queue[1]
    BY <2>1, EmptySeq, LenProperties, HeadTailProperties
  <2>3. status[job] # "none"
    BY <2>2 DEF PlaceInv, Queued, Submitted
  <2>4. Moves(Worker, "job_begin", l)
    BY <1>1, <1>3, BecomeMoves DEF WorkerGet, TypeInv
  <2>5. OkTodo(l.todo)
    BY DEF OkTodo, NoLocals
  <2>. HIDE DEF job, l
  <2>6. \A j \in JobKeys : status'[j] # "none" => status[j] # "none"
    BY <2>1, <2>2, <2>3 DEF TypeInv, TableInv
  <2>7. \A k \in Keys : status'[<<k[1], k[2], "lesson">>] = "ready" =>
          status[<<k[1], k[2], "lesson">>] = "ready"
    BY <1>2, <2>1 DEF TypeInv, TableInv
  <2>. QED  BY <1>1, <2>4, <2>5, <2>6, <2>7, ReadyMoves DEF ItemPcs
<1>4. CASE JobBegin
  <2>1. UNCHANGED status /\ pc[Worker] = "job_begin"
    BY <1>4 DEF JobBegin
  <2>2. loc[Worker].key[1] <= Latest /\ loc[Worker].key[1] \in Nat
    <3>1. JobOf(Worker) \in JobKeys /\ JobOf(Worker)[1] = loc[Worker].key[1]
      BY <1>1 DEF JobOf, Locals, Keys, JobKeys
    <3>2. status[JobOf(Worker)] # "none"
      BY <2>1, <3>1 DEF PlaceInv, Working, Submitted
    <3>. QED  BY <3>1, <3>2 DEF ReadyInv, JobKeys, Revisions
  <2>3. CASE loc[Worker].key[1] # Latest /\ Goto(Worker, "job_ready")
    <3>1. Moves(Worker, "job_ready", loc[Worker])
      BY <1>1, <2>3, GotoMoves DEF TypeInv
    <3>2. loc[Worker].key[1] < Latest
      BY <1>1, <2>2, <2>3
    <3>. QED  BY <1>1, <2>1, <3>1, <3>2, ReadyQuiet DEF ItemPcs
  <2>4. CASE loc[Worker].kind = "lesson" /\ Goto(Worker, "lesson_check")
    BY <1>1, <2>1, <2>4, GotoMoves, ReadyQuiet DEF TypeInv, ItemPcs
  <2>5. CASE loc[Worker].kind # "lesson" /\ Goto(Worker, "items_wait")
    <3>1. loc[Worker].kind = "questions"
      BY <1>1, <2>5 DEF Locals, Kinds
    <3>. QED  BY <1>1, <2>1, <2>5, <3>1, GotoMoves, ReadyQuiet DEF TypeInv, ItemPcs
  <2>. QED  BY <1>4, <2>3, <2>4, <2>5 DEF JobBegin
<1>5. CASE JobEnd
  <2>. DEFINE job == JobOf(Worker)
              end == IF pc[Worker] = "job_ready" THEN "ready" ELSE "failed"
  <2>1. /\ job \in JobKeys /\ job = <<loc[Worker].key[1], loc[Worker].key[2], loc[Worker].kind>>
        /\ status' = [status EXCEPT ![job] = end]
    BY <1>1, <1>5 DEF JobEnd, JobOf, Locals, Keys, JobKeys
  <2>2. pc[Worker] # "idle" /\ status[job] # "none"
    BY <1>5, <2>1 DEF JobEnd, PlaceInv, Working, Submitted
  <2>3. Moves(Worker, "idle", NoLocals)
    BY <1>1, <1>5, LeaveMoves DEF JobEnd, TypeInv
  <2>4. \A j \in JobKeys : status'[j] # "none" => status[j] # "none"
    BY <2>1, <2>2 DEF TypeInv, TableInv
  <2>5. ASSUME NEW k \in Keys, status'[<<k[1], k[2], "lesson">>] = "ready"
        PROVE  status[<<k[1], k[2], "lesson">>] = "ready" \/ k \in lessons \/ k[1] < Latest
    <3>1. CASE <<k[1], k[2], "lesson">> # job
      BY <1>2, <2>1, <2>5, <3>1 DEF TypeInv, TableInv
    <3>2. CASE <<k[1], k[2], "lesson">> = job
      <4>1. k[1] = loc[Worker].key[1] /\ k[2] = loc[Worker].key[2] /\ loc[Worker].kind = "lesson"
        BY <2>1, <3>2
      <4>2. k = loc[Worker].key
        BY <1>1, <4>1 DEF Keys, Locals
      <4>3. end = "ready"
        BY <2>1, <2>5, <3>2 DEF TypeInv, TableInv
      <4>. QED  BY <4>1, <4>2, <4>3 DEF ReadyInv
    <3>. QED  BY <3>1, <3>2
  <2>. HIDE DEF job, end
  <2>. QED  BY <1>1, <2>3, <2>4, <2>5, NothingToDo, ReadyMoves DEF ItemPcs
<1>. QED  BY <1>3, <1>4, <1>5 DEF WorkerStep

(* "ready" keeps its meaning in every step.                                  *)
LEMMA ReadyStep ==
  ASSUME TypeInv, PlaceInv, ReadyInv, [Next]_vars
  PROVE  ReadyInv'
<1>1. CASE Restart
  <2>1. Latest' = Latest /\ lessons' = lessons
    BY <1>1 DEF Restart, store, Latest
  <2>2. \A p \in Procs : loc'[p] = NoLocals /\ pc'[p] = "idle"
    BY <1>1 DEF Restart
  <2>3. \A j \in JobKeys : status'[j] = "none"
    BY <1>1 DEF Restart
  <2>4. \A k \in Keys : <<k[1], k[2], "lesson">> \in JobKeys
    BY DEF Keys, JobKeys, Kinds
  <2>5. \A p \in Procs : OkTodo(loc[p].todo)'
    BY <2>2 DEF OkTodo, NoLocals
  <2>. QED  BY <2>1, <2>2, <2>3, <2>4, <2>5 DEF ReadyInv, ItemPcs, Procs
<1>2. CASE UNCHANGED vars
  BY <1>2 DEF vars, store, ReadyInv, OkTodo, Latest
<1>. QED  BY <1>1, <1>2, GenerateReady, RequestReady, WorkerReady DEF Next

-----------------------------------------------------------------------------
(* The results.                                                              *)
JobInv == TypeInv /\ PlaceInv /\ ReadyInv

(* The invariant holds of every execution.                                   *)
THEOREM JobInvariant == Spec => []JobInv
<1>1. Init => JobInv
  <2>. SUFFICES ASSUME Init PROVE JobInv
    OBVIOUS
  <2>1. TypeInv
    BY InitTypeInv
  <2>2. PlaceInv
    BY NothingPlaced DEF Init
  <2>3. ReadyInv
    <3>1. \A p \in Procs : pc[p] = "idle" /\ loc[p] = NoLocals
      BY DEF Init
    <3>2. \A j \in JobKeys : status[j] = "none"
      BY DEF Init
    <3>3. \A k \in Keys : <<k[1], k[2], "lesson">> \in JobKeys
      BY DEF Keys, JobKeys, Kinds
    <3>. QED  BY <3>1, <3>2, <3>3, NothingToDo DEF ReadyInv, ItemPcs, Procs
  <2>. QED  BY <2>1, <2>2, <2>3 DEF JobInv
<1>2. JobInv /\ [Next]_vars => JobInv'
  BY TypeInvStep, PlaceStep, ReadyStep DEF JobInv
<1>. QED  BY <1>1, <1>2, PTL DEF Spec

(* The status table and the queue agree: a submitted job is in the queue,    *)
(* with the thread that submits it or with the preparation thread, and only  *)
(* there; whatever requests, failures and restarts do.                       *)
THEOREM JobInOnePlaceCorrect == Spec => []JobInOnePlace
<1>1. JobInv => JobInOnePlace
  <2>. SUFFICES ASSUME JobInv, NEW j \in JobKeys
       PROVE  Cardinality(Holders(j)) = IF status[j] \in {"queued", "working"} THEN 1 ELSE 0
    BY DEF JobInOnePlace
  <2>. USE DEF JobInv
  <2>1. CASE ~Submitted(j)
    <3>1. ~Queued(j) /\ ~Working(j) /\ \A p \in Requests : ~Putting(p, j)
      BY <2>1 DEF PlaceInv
    <3>2. Holders(j) = {}
      BY <3>1 DEF Holders, Queued, Working, Putting
    <3>. QED  BY <2>1, <3>2, FS_EmptySet DEF Submitted
  <2>2. CASE Submitted(j)
    <3>1. \E h : Holders(j) = {h}
      <4>1. CASE Queued(j)
        <5>1. PICK i \in DOMAIN queue : queue[i] = j
          BY <4>1 DEF Queued
        <5>2. ~Working(j) /\ \A p \in Requests : ~Putting(p, j)
          BY <4>1 DEF PlaceInv
        <5>3. \A k \in DOMAIN queue : queue[k] = j => k = i
          BY <5>1 DEF PlaceInv
        <5>4. Holders(j) = {i}
          BY <5>1, <5>2, <5>3 DEF Holders, Working, Putting
        <5>. QED  BY <5>4
      <4>2. CASE Working(j)
        <5>1. ~Queued(j) /\ \A p \in Requests : ~Putting(p, j)
          BY <4>2 DEF PlaceInv
        <5>2. Holders(j) = {Worker}
          BY <4>2, <5>1 DEF Holders, Queued, Working, Putting
        <5>. QED  BY <5>2
      <4>3. ASSUME NEW p \in Requests, Putting(p, j) PROVE \E h : Holders(j) = {h}
        <5>1. ~Queued(j) /\ ~Working(j) /\ \A q \in Requests : Putting(q, j) => q = p
          BY <4>3 DEF PlaceInv
        <5>2. Holders(j) = {p}
          BY <4>3, <5>1 DEF Holders, Queued, Working, Putting
        <5>. QED  BY <5>2
      <4>. QED  BY <2>2, <4>1, <4>2, <4>3 DEF PlaceInv
    <3>2. PICK h : Holders(j) = {h}
      BY <3>1
    <3>3. Cardinality({h}) = 1
      BY FS_Singleton
    <3>. QED  BY <2>2, <3>2, <3>3 DEF Submitted
  <2>. QED  BY <2>1, <2>2
<1>. QED  BY <1>1, JobInvariant, PTL

(* A lesson of the current path that is shown as ready can be opened without *)
(* the model, however often the path was rebuilt while it was written.       *)
THEOREM ReadyLessonIsSavedCorrect == Spec => []ReadyLessonIsSaved
<1>1. JobInv => ReadyLessonIsSaved
  <2>1. ASSUME JobInv, NEW k \in Keys, status[<<k[1], k[2], "lesson">>] = "ready", k[1] = Latest
        PROVE  k \in lessons
    <3>1. k[1] \in Nat
      BY DEF Keys, Revisions
    <3>. QED  BY <2>1, <3>1 DEF JobInv, ReadyInv
  <2>. QED  BY <2>1 DEF ReadyLessonIsSaved
<1>. QED  BY <1>1, JobInvariant, PTL

-----------------------------------------------------------------------------
(* What the student needs next.  A request that will run                     *)
(* schedule_preparation, and one that has still to look at a job.            *)
SchedPcs == {"sched_job", "sched_submit", "sched_put"}

WillLook(p) == \/ pc[p] = "schedule"
               \/ pc[p] = "answer_view" /\ loc[p].key[2] \in 1..outlines[Latest]

ToLook(p, j) == pc[p] \in SchedPcs /\ \E i \in DOMAIN loc[p].todo : loc[p].todo[i] = j

Needed(j) == \E i \in DOMAIN Jobs : Jobs[i] = j

Cared(j) == \/ Saved(j)
            \/ status[j] \in {"queued", "working", "failed"}
            \/ j[3] = "questions" /\ status[j] = "ready"

(* Once a request has looked, one is going to look, or each needed job is    *)
(* taken care of or on the list of a request that looks.                     *)
NeedInv ==
  looked => \/ \E p \in Requests : WillLook(p)
            \/ \A j \in JobKeys : Needed(j) => Cared(j) \/ \E p \in Requests : ToLook(p, j)

(* A needed job is one of the latest path.                                   *)
LEMMA NeededIsLatest ==
  ASSUME NEW j, Needed(j)
  PROVE  j[1] = Latest
BY JobsAreLatest DEF Needed

(* The needed jobs depend on the paths and on what is practiced.             *)
LEMMA NeededStays ==
  ASSUME UNCHANGED <<outlines, practiced>>
  PROVE  \A j : Needed(j)' <=> Needed(j)
<1>1. Latest' = Latest /\ Unpracticed' = Unpracticed
  BY DEF Latest, Unpracticed
<1>2. Recommended' = Recommended
  BY <1>1 DEF Recommended, SmallestOf
<1>3. Targets' = Targets
  BY <1>1, <1>2 DEF Targets, SmallestOf
<1>4. Jobs' = Jobs
  BY <1>1, <1>3 DEF Jobs
<1>. QED  BY <1>4 DEF Needed

(* What is saved stays saved.                                                *)
LEMMA SavedStays ==
  ASSUME TypeInv, [Next]_vars, NEW j \in JobKeys, Saved(j)
  PROVE  Saved(j)'
<1>1. lessons \subseteq lessons'
  BY StoreGrows
<1>2. ASSUME NEW k \in Keys, items[k] # <<>>
      PROVE  items'[k] # <<>>
  <2>1. ASSUME NEW p \in Procs, ItemsSave(p) PROVE items'[k] # <<>>
    <3>1. items \in [Keys -> Seq(Questions)] /\ loc[p].key \in Keys
      BY <2>1 DEF TypeInv, TableInv, ThreadInv, Locals
    <3>2. \/ items'[k] = items[k]
          \/ items'[k] = Append(items[k], Head(loc[p].kept))
      BY <2>1, <3>1 DEF ItemsSave
    <3>3. items[k] \in Seq(Questions)
      BY <3>1
    <3>. QED  BY <1>2, <3>2, <3>3
  <2>2. \/ UNCHANGED items
        \/ \E p \in Procs : ItemsSave(p)
    <3>1. ASSUME NEW p \in Requests, Request(p) PROVE UNCHANGED items
      BY <3>1 DEF Request, BuildOutline, OpenLesson, AddQuestions, SubmitAnswer, Click, store
    <3>2. ASSUME NEW p \in Requests, Handle(p) PROVE UNCHANGED items
      BY <3>2 DEF Handle, OutlineLock, OutlineModel, OutlineSave, LessonEvent, AnswerView,
                  Schedule, SchedJob, Submit, Put, store
    <3>3. ASSUME NEW p \in Procs, Generate(p), ~ItemsSave(p) PROVE UNCHANGED items
      BY <3>3 DEF Generate, LessonCheck, LessonLock, LessonModel, ItemsLock, ItemsModel, store
    <3>4. WorkerStep \/ Restart \/ UNCHANGED vars => UNCHANGED items
      BY DEF WorkerStep, WorkerGet, JobBegin, JobEnd, Restart, vars, store
    <3>. QED  BY <3>1, <3>2, <3>3, <3>4 DEF Next
  <2>. QED  BY <1>2, <2>1, <2>2
<1>3. <<j[1], j[2]>> \in Keys
  BY DEF JobKeys, Keys
<1>. QED  BY <1>1, <1>2, <1>3 DEF Saved

(* What is taken care of stays so, while the process runs: a job of the      *)
(* latest path ends as ready only when it is saved, or as a question set.    *)
LEMMA CaredStays ==
  ASSUME JobInv, [Next]_vars, ~Restart, NEW j \in JobKeys, j[1] = Latest, Cared(j)
  PROVE  Cared(j)'
<1>. USE DEF JobInv
<1>1. Saved(j) => Saved(j)'
  BY SavedStays
<1>2. status \in [JobKeys -> {"none", "queued", "working", "ready", "failed"}]
  BY DEF TypeInv, TableInv
<1>3. CASE UNCHANGED status
  BY <1>1, <1>3 DEF Cared
<1>4. ASSUME NEW p \in Requests, Submit(p)
      PROVE  Cared(j)'
  <2>1. status'[j] = status[j] \/ status'[j] = "queued"
    BY <1>2, <1>4 DEF Submit
  <2>. QED  BY <1>1, <2>1 DEF Cared
<1>5. CASE WorkerGet
  <2>1. status'[j] = status[j] \/ status'[j] = "working"
    BY <1>2, <1>5 DEF WorkerGet
  <2>. QED  BY <1>1, <2>1 DEF Cared
<1>6. CASE JobEnd
  <2>1. \/ status'[j] = status[j]
        \/ status'[j] = "failed"
        \/ status'[j] = "ready" /\ pc[Worker] = "job_ready" /\ j = JobOf(Worker)
    BY <1>2, <1>6 DEF JobEnd
  <2>2. ASSUME status'[j] = "ready", pc[Worker] = "job_ready", j = JobOf(Worker)
        PROVE  Cared(j)'
    <3>1. /\ j[1] = loc[Worker].key[1] /\ j[2] = loc[Worker].key[2]
          /\ j[3] = loc[Worker].kind
      BY <2>2 DEF JobOf
    <3>2. loc[Worker].key \in Keys /\ loc[Worker].kind \in Kinds
      BY DEF TypeInv, ThreadInv, Locals, Procs
    <3>3. CASE j[3] = "questions"
      BY <2>2, <3>3 DEF Cared
    <3>4. CASE j[3] = "lesson"
      <4>1. loc[Worker].key \in lessons
        BY <2>2, <3>1, <3>2, <3>4 DEF ReadyInv, Keys, Revisions
      <4>2. <<j[1], j[2]>> = loc[Worker].key
        BY <3>1, <3>2 DEF Keys
      <4>. QED  BY <1>1, <3>4, <4>1, <4>2 DEF Saved, Cared
    <3>. QED  BY <3>1, <3>2, <3>3, <3>4 DEF Kinds
  <2>. QED  BY <1>1, <2>1, <2>2 DEF Cared
<1>7. \/ UNCHANGED status \/ WorkerGet \/ JobEnd
      \/ \E p \in Requests : Submit(p)
  <2>1. ASSUME NEW p \in Requests, Request(p) PROVE UNCHANGED status
    BY <2>1 DEF Request, BuildOutline, OpenLesson, AddQuestions, SubmitAnswer, Click
  <2>2. ASSUME NEW p \in Requests, Handle(p), ~Submit(p) PROVE UNCHANGED status
    BY <2>2 DEF Handle, OutlineLock, OutlineModel, OutlineSave, LessonEvent, AnswerView,
                Schedule, SchedJob, Put
  <2>3. ASSUME NEW p \in Procs, Generate(p) PROVE UNCHANGED status
    BY <2>3, GenerateIsQuiet DEF TypeInv
  <2>4. JobBegin \/ UNCHANGED vars => UNCHANGED status
    BY DEF JobBegin, vars
  <2>. QED  BY <2>1, <2>2, <2>3, <2>4 DEF Next, WorkerStep
<1>. QED  BY <1>3, <1>4, <1>5, <1>6, <1>7

(* A thread that has nothing to look at moves: whoever looks still does.      *)
LEMMA OthersLook ==
  ASSUME NEW p \in Procs, NEW to, NEW l, Moves(p, to, l), UNCHANGED outlines,
         p \in Requests => ~WillLook(p) /\ pc[p] \notin SchedPcs,
         NEW q \in Requests
  PROVE  /\ WillLook(q) => WillLook(q)'
         /\ \A j : ToLook(q, j) => ToLook(q, j)'
<1>1. Latest' = Latest
  BY DEF Latest
<1>2. CASE q = p
  BY <1>2 DEF ToLook
<1>3. CASE q # p
  <2>1. pc'[q] = pc[q] /\ loc'[q] = loc[q]
    BY <1>3 DEF Moves, Procs
  <2>. QED  BY <1>1, <2>1 DEF WillLook, ToLook
<1>. QED  BY <1>2, <1>3

(* Such a move, which changes neither the paths nor what is practiced.       *)
LEMMA NeedQuiet ==
  ASSUME JobInv, NeedInv, [Next]_vars, ~Restart, UNCHANGED <<outlines, practiced, looked>>,
         NEW p \in Procs, NEW to, NEW l, Moves(p, to, l),
         p \in Requests => ~WillLook(p) /\ pc[p] \notin SchedPcs
  PROVE  NeedInv'
<1>1. ASSUME looked, \A q \in Requests : ~WillLook(q)', NEW j \in JobKeys, Needed(j)'
      PROVE  Cared(j)' \/ \E q \in Requests : ToLook(q, j)'
  <2>1. Needed(j) /\ j[1] = Latest
    BY <1>1, NeededStays, NeededIsLatest
  <2>2. \A q \in Requests : ~WillLook(q)
    BY <1>1, OthersLook
  <2>3. Cared(j) \/ \E q \in Requests : ToLook(q, j)
    BY <1>1, <2>1, <2>2 DEF NeedInv
  <2>. QED  BY <2>1, <2>3, CaredStays, OthersLook
<1>. QED  BY <1>1 DEF NeedInv

(* A request that looks moves on: what it drops from its list is taken care  *)
(* of.                                                                       *)
LEMMA NeedLooks ==
  ASSUME JobInv, NeedInv, [Next]_vars, ~Restart, UNCHANGED <<outlines, practiced, looked>>,
         NEW p \in Requests, pc[p] \in SchedPcs, NEW to, NEW l, Moves(p, to, l),
         \/ loc[p].todo = <<>>
         \/ to \in SchedPcs /\ l.todo = loc[p].todo
         \/ /\ to \in SchedPcs /\ loc[p].todo # <<>> /\ l.todo = Tail(loc[p].todo)
            /\ Cared(Head(loc[p].todo))
  PROVE  NeedInv'
<1>1. ASSUME looked, \A q \in Requests : ~WillLook(q)', NEW j \in JobKeys, Needed(j)'
      PROVE  Cared(j)' \/ \E q \in Requests : ToLook(q, j)'
  <2>1. Needed(j) /\ j[1] = Latest
    BY <1>1, NeededStays, NeededIsLatest
  <2>2. \A q \in Requests : q # p => pc'[q] = pc[q] /\ loc'[q] = loc[q]
    BY DEF Moves, Procs
  <2>3. Latest' = Latest
    BY DEF Latest
  <2>4. \A q \in Requests : ~WillLook(q)
    <3>1. ~WillLook(p)
      BY DEF WillLook, SchedPcs
    <3>2. ASSUME NEW q \in Requests, q # p PROVE ~WillLook(q)
      BY <1>1, <2>2, <2>3, <3>2 DEF WillLook
    <3>. QED  BY <3>1, <3>2
  <2>5. Cared(j) \/ \E q \in Requests : ToLook(q, j)
    BY <1>1, <2>1, <2>4 DEF NeedInv
  <2>6. CASE Cared(j)
    BY <2>1, <2>6, CaredStays
  <2>7. ASSUME NEW q \in Requests, q # p, ToLook(q, j)
        PROVE  ToLook(q, j)'
    BY <2>2, <2>7 DEF ToLook
  <2>8. ASSUME ToLook(p, j)
        PROVE  Cared(j)' \/ ToLook(p, j)'
    <3>1. loc[p].todo \in Seq(JobKeys) /\ p \in Procs
      BY DEF JobInv, TypeInv, ThreadInv, Locals, Procs
    <3>2. PICK i \in DOMAIN loc[p].todo : loc[p].todo[i] = j
      BY <2>8 DEF ToLook
    <3>3. pc'[p] = to /\ loc'[p] = l
      BY DEF Moves
    <3>4. loc[p].todo # <<>>
      BY <3>2
    <3>5. CASE to \in SchedPcs /\ l.todo = loc[p].todo
      BY <3>2, <3>3, <3>5 DEF ToLook
    <3>6. CASE /\ to \in SchedPcs /\ l.todo = Tail(loc[p].todo)
               /\ Cared(Head(loc[p].todo))
      <4>1. /\ i \in 1..Len(loc[p].todo) /\ Len(loc[p].todo) \in Nat
            /\ Head(loc[p].todo) = loc[p].todo[1]
            /\ DOMAIN Tail(loc[p].todo) = 1..(Len(loc[p].todo) - 1)
            /\ \A n \in 1..(Len(loc[p].todo) - 1) : Tail(loc[p].todo)[n] = loc[p].todo[n + 1]
        BY <3>1, <3>2, <3>4, LenProperties, HeadTailProperties
      <4>2. CASE i = 1
        <5>1. Head(loc[p].todo) = j
          BY <3>2, <4>1, <4>2
        <5>. QED  BY <2>1, <3>6, <5>1, CaredStays
      <4>3. CASE i # 1
        <5>1. i - 1 \in DOMAIN l.todo /\ l.todo[i - 1] = j
          BY <3>2, <3>6, <4>1, <4>3
        <5>. QED  BY <3>3, <3>6, <5>1 DEF ToLook
      <4>. QED  BY <4>2, <4>3
    <3>. QED  BY <3>4, <3>5, <3>6
  <2>. QED  BY <2>5, <2>6, <2>7, <2>8
<1>. QED  BY <1>1 DEF NeedInv

(* A request that is about to look owes nothing yet.                         *)
LEMMA NeedWaits ==
  ASSUME NEW p \in Requests, WillLook(p)'
  PROVE  NeedInv'
BY DEF NeedInv

(* What the requests do: what changes the needs looks at them afterwards.    *)
LEMMA RequestNeeds ==
  ASSUME JobInv, NeedInv, [Next]_vars, ~Restart, NEW p \in Requests, Request(p) \/ Handle(p)
  PROVE  NeedInv'
<1>. USE DEF JobInv
<1>1. p \in Procs /\ ThreadInv /\ loc[p] \in Locals
  BY DEF Procs, TypeInv, ThreadInv
<1>2. ASSUME NEW to, NEW l, Moves(p, to, l), ~WillLook(p), pc[p] \notin SchedPcs,
             UNCHANGED <<outlines, practiced, looked>>
      PROVE  NeedInv'
  BY <1>1, <1>2, NeedQuiet
<1>3. CASE BuildOutline(p) \/ OpenLesson(p) \/ AddQuestions(p)
  <2>1. pc[p] = "idle" /\ UNCHANGED <<outlines, practiced, looked>>
    BY <1>3 DEF BuildOutline, OpenLesson, AddQuestions, Click, store
  <2>2. \E to, l : Goto(p, to) \/ Become(p, to, l)
    BY <1>3, Zenon DEF BuildOutline, OpenLesson, AddQuestions
  <2>3. \E to, l : Moves(p, to, l)
    BY <1>1, <2>2, BecomeMoves, GotoMoves
  <2>. QED  BY <1>2, <2>1, <2>3 DEF WillLook, SchedPcs
<1>4. CASE SubmitAnswer(p)
  <2>1. PICK k \in Keys : /\ practiced' \in {practiced, practiced \cup {k}}
                         /\ Become(p, "answer_view", [NoLocals EXCEPT !.key = k])
    BY <1>4 DEF SubmitAnswer
  <2>2. pc[p] = "idle" /\ UNCHANGED <<outlines, looked>>
    BY <1>4 DEF SubmitAnswer
  <2>3. Moves(p, "answer_view", [NoLocals EXCEPT !.key = k])
    BY <1>1, <2>1, BecomeMoves
  <2>4. Latest' = Latest
    BY <2>2 DEF Latest
  <2>5. CASE k[2] \in 1..outlines[Latest]
    <3>1. loc'[p].key = k /\ pc'[p] = "answer_view"
      BY <2>3 DEF Moves, NoLocals
    <3>2. WillLook(p)'
      BY <2>2, <2>4, <2>5, <3>1 DEF WillLook
    <3>. QED  BY <3>2, NeedWaits
  <2>6. CASE k[2] \notin 1..outlines[Latest]
    <3>1. Unpracticed' = Unpracticed
      BY <2>1, <2>2, <2>4, <2>6 DEF Unpracticed
    <3>2. \A j : Needed(j)' <=> Needed(j)
      <4>1. Recommended' = Recommended
        BY <2>2, <2>4, <3>1 DEF Recommended, SmallestOf
      <4>2. Targets' = Targets
        BY <3>1, <4>1 DEF Targets, SmallestOf
      <4>3. Jobs' = Jobs
        BY <2>4, <4>2 DEF Jobs
      <4>. QED  BY <4>3 DEF Needed
    <3>3. ~WillLook(p) /\ pc[p] \notin SchedPcs
      BY <2>2 DEF WillLook, SchedPcs
    <3>4. ASSUME looked, \A q \in Requests : ~WillLook(q)', NEW j \in JobKeys, Needed(j)'
          PROVE  Cared(j)' \/ \E q \in Requests : ToLook(q, j)'
      <4>1. Needed(j) /\ j[1] = Latest
        BY <3>2, <3>4, NeededIsLatest
      <4>2. \A q \in Requests : ~WillLook(q)
        BY <1>1, <2>2, <2>3, <3>3, <3>4, OthersLook
      <4>3. Cared(j) \/ \E q \in Requests : ToLook(q, j)
        BY <3>4, <4>1, <4>2 DEF NeedInv
      <4>. QED  BY <1>1, <2>2, <2>3, <3>3, <4>1, <4>3, CaredStays, OthersLook
    <3>. QED  BY <2>2, <3>4 DEF NeedInv
  <2>. QED  BY <2>5, <2>6
<1>5. CASE OutlineLock(p) \/ OutlineModel(p)
  <2>1. /\ pc[p] \in {"outline_wait", "outline_model"}
        /\ UNCHANGED <<outlines, practiced, looked>>
    BY <1>5 DEF OutlineLock, OutlineModel, Step, store
  <2>2. \E to, l : Moves(p, to, l)
    BY <1>1, <1>5, GotoMoves, RaiseMoves DEF OutlineLock, OutlineModel
  <2>. QED  BY <1>2, <2>1, <2>2 DEF WillLook, SchedPcs
<1>6. CASE OutlineSave(p) \/ LessonEvent(p)
  <2>1. Moves(p, "schedule", loc[p])
    BY <1>1, <1>6, GotoMoves DEF OutlineSave, LessonEvent
  <2>. QED  BY <2>1, NeedWaits DEF WillLook, Moves
<1>7. CASE AnswerView(p)
  <2>1. CASE Goto(p, "schedule")
    BY <1>1, <2>1, GotoMoves, NeedWaits DEF WillLook, Moves
  <2>2. CASE Leave(p) /\ loc[p].key[2] \notin 1..outlines[Latest]
    <3>1. /\ pc[p] = "answer_view" /\ UNCHANGED <<outlines, practiced, looked>>
      BY <1>7 DEF AnswerView, Step, store
    <3>2. ~WillLook(p) /\ pc[p] \notin SchedPcs
      BY <2>2, <3>1 DEF WillLook, SchedPcs
    <3>. QED  BY <1>1, <1>2, <2>2, <3>1, <3>2, LeaveMoves
  <2>. QED  BY <1>7, <2>1, <2>2 DEF AnswerView
<1>8. CASE Schedule(p)
  <2>1. Moves(p, "sched_job", [NoLocals EXCEPT !.todo = Jobs])
    BY <1>1, <1>8, BecomeMoves DEF Schedule
  <2>2. pc'[p] = "sched_job" /\ loc'[p].todo = Jobs
    BY <2>1 DEF Moves, NoLocals
  <2>3. UNCHANGED <<outlines, practiced>>
    BY <1>8 DEF Schedule, store
  <2>4. ASSUME NEW j, Needed(j)' PROVE ToLook(p, j)'
    <3>1. Needed(j)
      BY <2>3, <2>4, NeededStays
    <3>. QED  BY <2>2, <3>1 DEF Needed, ToLook, SchedPcs
  <2>. QED  BY <2>4 DEF NeedInv
<1>9. CASE SchedJob(p) \/ Submit(p) \/ Put(p)
  <2>1. pc[p] \in SchedPcs /\ UNCHANGED <<outlines, practiced, looked>>
    BY <1>9 DEF SchedJob, Submit, Put, Step, store, SchedPcs
  <2>2. CASE loc[p].todo = <<>> /\ Leave(p)
    BY <1>1, <2>1, <2>2, LeaveMoves, NeedLooks
  <2>3. ASSUME NEW to \in SchedPcs, Goto(p, to)
        PROVE  NeedInv'
    BY <1>1, <2>1, <2>3, GotoMoves, NeedLooks
  <2>4. ASSUME Become(p, "sched_job", [loc[p] EXCEPT !.todo = Tail(@)]), loc[p].todo # <<>>,
               Cared(Head(loc[p].todo))
        PROVE  NeedInv'
    <3>. DEFINE l == [loc[p] EXCEPT !.todo = Tail(@)]
    <3>1. Moves(p, "sched_job", l) /\ l.todo = Tail(loc[p].todo) /\ "sched_job" \in SchedPcs
      BY <1>1, <2>4, BecomeMoves DEF Locals, SchedPcs
    <3>. HIDE DEF l
    <3>. QED  BY <2>1, <2>4, <3>1, NeedLooks
  <2>5. CASE SchedJob(p)
    BY <2>2, <2>3, <2>4, <2>5 DEF SchedJob, Cared, SchedPcs
  <2>6. pc[p] \in {"sched_submit", "sched_put"} => loc[p].todo # <<>> /\ Head(loc[p].todo) \in JobKeys
    BY <1>1, HeadTailProperties DEF ThreadInv, Placed, Locals
  <2>7. CASE Submit(p)
    BY <2>3, <2>4, <2>6, <2>7 DEF Submit, Cared, SchedPcs
  <2>8. CASE Put(p)
    <3>1. Putting(p, Head(loc[p].todo))
      BY <2>8 DEF Put, Putting
    <3>2. Cared(Head(loc[p].todo))
      BY <2>6, <2>8, <3>1 DEF Put, PlaceInv, Submitted, Cared
    <3>. QED  BY <2>4, <2>6, <2>8, <3>2 DEF Put
  <2>. QED  BY <1>9, <2>5, <2>7, <2>8
<1>. QED  BY <1>3, <1>4, <1>5, <1>6, <1>7, <1>8, <1>9 DEF Request, Handle

(* The needs are kept in every step; a restart makes them void.              *)
LEMMA NeedStep ==
  ASSUME JobInv, NeedInv, [Next]_vars
  PROVE  NeedInv'
<1>. USE DEF JobInv
<1>1. CASE Restart
  <2>1. ~looked'
    BY <1>1, Zenon DEF Restart
  <2>. QED  BY <2>1 DEF NeedInv
<1>2. CASE UNCHANGED vars
  <2>1. UNCHANGED <<outlines, practiced, looked, items, lessons, status, pc, loc>>
    BY <1>2 DEF vars, store
  <2>2. \A j : (Needed(j)' <=> Needed(j)) /\ (Cared(j)' <=> Cared(j))
    BY <2>1, NeededStays DEF Cared, Saved
  <2>3. \A p : (WillLook(p)' <=> WillLook(p)) /\ \A j : ToLook(p, j)' <=> ToLook(p, j)
    BY <2>1 DEF WillLook, ToLook, Latest
  <2>. QED  BY <2>1, <2>2, <2>3 DEF NeedInv
<1>3. ASSUME ~Restart, NEW p \in Procs, Generate(p)
      PROVE  NeedInv'
  <2>1. \E to, l : Moves(p, to, l)
    BY <1>3, GenerateIsQuiet DEF TypeInv, QuietMove
  <2>2. UNCHANGED <<outlines, practiced, looked>>
    BY <1>3 DEF Generate, LessonCheck, LessonLock, LessonModel, ItemsLock, ItemsModel, ItemsSave,
                Step, store
  <2>3. pc[p] \in {"lesson_check", "lesson_wait", "lesson_model"} \cup ItemPcs
    BY <1>3 DEF Generate, LessonCheck, LessonLock, LessonModel, ItemsLock, ItemsModel, ItemsSave,
                ItemPcs
  <2>4. ~WillLook(p) /\ pc[p] \notin SchedPcs
    BY <2>3 DEF WillLook, SchedPcs, ItemPcs
  <2>. QED  BY <1>3, <2>1, <2>2, <2>4, NeedQuiet
<1>4. CASE ~Restart /\ WorkerStep
  <2>1. Worker \in Procs /\ Worker \notin Requests /\ ThreadInv
    BY PreparationAssumption DEF Procs, TypeInv
  <2>2. UNCHANGED <<outlines, practiced, looked>>
    BY <1>4 DEF WorkerStep, WorkerGet, JobBegin, JobEnd, Step, store
  <2>3. \E to, l : Goto(Worker, to) \/ Become(Worker, to, l)
    BY <1>4, Zenon DEF WorkerStep, WorkerGet, JobBegin, JobEnd, Leave
  <2>4. \E to, l : Moves(Worker, to, l)
    BY <2>1, <2>3, BecomeMoves, GotoMoves
  <2>. QED  BY <1>4, <2>1, <2>2, <2>4, NeedQuiet
<1>. QED  BY <1>1, <1>2, <1>3, <1>4, RequestNeeds DEF Next

(* Nothing the student needs next is forgotten, whatever was answered or     *)
(* rebuilt, failed or was dropped, since the process last looked.            *)
THEOREM NothingForgottenCorrect == Spec => []NothingForgotten
<1>1. Init => NeedInv
  <2>1. Init => ~looked
    BY Zenon DEF Init
  <2>. QED  BY <2>1 DEF NeedInv
<1>2. JobInv /\ NeedInv /\ [Next]_vars => NeedInv'
  BY NeedStep
<1>3. JobInv /\ NeedInv => NothingForgotten
  <2>1. ASSUME JobInv, NeedInv, looked, \A p \in Requests : ~Looking(p), NEW i \in DOMAIN Jobs
        PROVE  Cared(Jobs[i])
    <3>1. Jobs[i] \in JobKeys
      <4>1. Jobs \in Seq(JobKeys)
        BY <2>1, JobsAreKeys DEF JobInv, TypeInv, TableInv
      <4>. QED  BY <4>1
    <3>2. \A p \in Requests : ~WillLook(p) /\ \A j : ~ToLook(p, j)
      BY <2>1 DEF Looking, WillLook, ToLook, SchedPcs
    <3>. QED  BY <2>1, <3>1, <3>2 DEF NeedInv, Needed
  <2>. QED  BY <2>1 DEF NothingForgotten, Cared
<1>. QED  BY <1>1, <1>2, <1>3, JobInvariant, PTL DEF Spec
=============================================================================
