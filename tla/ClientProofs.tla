----------------------------- MODULE ClientProofs -----------------------------
(***************************************************************************)
(* Proofs about CourseClient, for any courses, path, number of questions,   *)
(* background tasks and databases to start from, and any number of student  *)
(* actions, failures and reloads.  First the service: what its requests     *)
(* answer and what they never take back.  Then the drawing operators of the *)
(* page, the types, and the properties.                                    *)
(***************************************************************************)
EXTENDS CourseClient, FiniteSetTheorems, WellFoundedInduction, TLAPS

-----------------------------------------------------------------------------
(* The items of a view are items.                                           *)
LEMMA MarkedItems ==
  ASSUME NEW P, NEW m \in Marks(P)
  PROVE  DOMAIN m \subseteq ItemsOn(P)
BY DEF Marks

-----------------------------------------------------------------------------
(* The policy.                                                              *)

(* A non-empty set of natural numbers has a least element.                   *)
LEMMA LeastNumber ==
  ASSUME NEW S \in SUBSET Nat, S # {}
  PROVE  \E t \in S : \A u \in S : t <= u
<1>1. PICK t \in S : \A u \in S : ~ (<<u, t>> \in OpToRel(<, Nat))
  BY WFMin, NatLessThanWellFounded, Zenon
<1>2. \A u \in S : ~ (u < t)
  BY <1>1, S \subseteq Nat, Zenon DEF OpToRel
<1>. QED  BY <1>2, S \subseteq Nat

(* The first of a set of numbers is one of them.                             *)
LEMMA FirstIsMember ==
  ASSUME NEW S \in SUBSET Nat, S # {}
  PROVE  FirstOf(S) \in S
BY LeastNumber DEF FirstOf

(* The first of a set of items is one of them.                               *)
LEMMA FirstItemIsMember ==
  ASSUME NEW S \in SUBSET Items, S # {}
  PROVE  FirstItem(S) \in S
<1>. DEFINE N == {i[2] : i \in S}
<1>1. \A i \in S : i[2] \in Nat
  BY ServiceAssumption DEF Items
<1>2. N \in SUBSET Nat /\ N # {}
  BY <1>1
<1>3. PICK n \in N : \A m \in N : n <= m
  <2>. HIDE DEF N
  <2>. QED  BY <1>2, LeastNumber
<1>4. \E i \in S : \A j \in S : i[2] <= j[2]
  BY <1>3
<1>. QED  BY <1>4 DEF FirstItem

(* Topics are numbered from one.                                             *)
LEMMA TopicNumbers ==
  /\ Topics = 1..Len(Path) /\ Len(Path) \in Nat \ {0}
  /\ \A t \in Topics : Path[t] \in Seq(Nat)
BY ServiceAssumption DEF Topics

(* The topic of the policy's choice is a topic of the path.                  *)
LEMMA RecommendedIsTopic ==
  ASSUME NEW summaries, DOMAIN summaries = Topics
  PROVE  Recommended(Path, summaries) \in Topics
<1>1. Unpracticed(summaries) \in SUBSET Topics /\ Topics \subseteq Nat
  BY TopicNumbers DEF Unpracticed
<1>2. CASE Unpracticed(summaries) = {}
  BY <1>2, TopicNumbers DEF Recommended
<1>3. CASE Unpracticed(summaries) # {}
  <2>1. FirstOf(Unpracticed(summaries)) \in Unpracticed(summaries)
    BY <1>1, <1>3, FirstIsMember
  <2>. QED  BY <1>1, <1>3, <2>1 DEF Recommended
<1>. QED  BY <1>2, <1>3

(* So is that of its next step.                                              *)
LEMMA StepIsTopic ==
  ASSUME NEW summaries, DOMAIN summaries = Topics, NEW t \in Topics
  PROVE  NextStep(t, Path, summaries).topic \in Topics
<1>1. Unpracticed(summaries) \in SUBSET Topics /\ Topics \subseteq Nat
  BY TopicNumbers DEF Unpracticed
<1>. DEFINE missing == Missing(Path[t], summaries)
<1>2. missing \in SUBSET Nat
  BY TopicNumbers DEF Missing
<1>3. CASE missing # {}
  <2>1. FirstOf(missing) \in missing
    <3>. HIDE DEF missing
    <3>. QED  BY <1>2, <1>3, FirstIsMember
  <2>2. Path[t][FirstOf(missing)] \in Topics
    BY <1>1, <2>1 DEF Missing
  <2>. QED  BY <1>3, <2>2 DEF NextStep, StepTo
<1>4. CASE missing = {} /\ Status(summaries[t]) # "practiced"
  BY <1>4 DEF NextStep, StepWithin, StepTo
<1>5. CASE missing = {} /\ Status(summaries[t]) = "practiced"
  <2>1. Unpracticed(summaries) # {} => FirstOf(Unpracticed(summaries)) \in Topics
    BY <1>1, FirstIsMember
  <2>. QED  BY <1>5, <2>1 DEF NextStep, StepTo
<1>. QED  BY <1>3, <1>4, <1>5

-----------------------------------------------------------------------------
(* The views of a database.                                                  *)

(* The courses of a database that have a path.                               *)
WithPath(d) == {c \in Courses : d.revision[c] # 0}

(* The keys of the paths there are and have been.                            *)
Known(d) == {k \in Keys : k[2] <= d.revision[CourseOf(k)]}

(* The key of a topic of a course with a path.                               *)
LEMMA KeyIsKey ==
  ASSUME NEW d \in Databases, NEW c \in WithPath(d), NEW t \in Topics
  PROVE  KeyIn(d, c, t) \in Known(d)
BY ServiceAssumption DEF KeyIn, Keys, Known, CourseOf, Databases, WithPath

(* The course view.                                                          *)
LEMMA CourseViewIsView ==
  ASSUME NEW d \in Databases, NEW c \in Courses
  PROVE  CourseView(d, c) \in CourseViews /\ CourseView(d, c).id = c
<1>1. DOMAIN Summaries(d, c) = Topics
  BY DEF Summaries
<1>2. Recommended(Path, Summaries(d, c)) \in Topics
  BY <1>1, RecommendedIsTopic
<1>3. d.revision[c] \in 0..MaxRevision
  BY DEF Databases
<1>. QED  BY <1>2, <1>3 DEF CourseView, CourseViews

(* The questions of a topic are items.                                       *)
LEMMA ItemsAreItems ==
  ASSUME NEW d \in Databases, NEW P \in SUBSET Keys, NEW k \in P
  PROVE  ItemsOf(d, k) \subseteq ItemsOn(P)
BY ServiceAssumption DEF ItemsOf, Items, ItemsOn, TopicOf, Databases

(* The next step of a topic.                                                 *)
LEMMA StepViewIsView ==
  ASSUME NEW d \in Databases, NEW P \in SUBSET Keys, NEW k \in P
  PROVE  StepView(d, k) \in StepViews(P)
<1>. DEFINE step  == NextStep(Number(k), Path, Summaries(d, CourseOf(k)))
            fresh == {i \in ItemsOf(d, k) : d.tried[i] = "new"}
            open  == {i \in ItemsOf(d, k) : d.tried[i] # "right"}
            S     == IF fresh # {} THEN fresh ELSE open
<1>1. step.topic \in Topics
  <2>1. DOMAIN Summaries(d, CourseOf(k)) = Topics /\ Number(k) \in Topics
    BY DEF Summaries, Number, Keys
  <2>. QED  BY <2>1, StepIsTopic
<1>2. FirstItem(S) \in ItemsOn(P) \cup {None}
  <2>1. S \in SUBSET ItemsOn(P) /\ S \in SUBSET Items
    BY ItemsAreItems DEF ItemsOn
  <2>. HIDE DEF S
  <2>2. CASE S = {}
    BY <2>2 DEF FirstItem
  <2>3. CASE S # {}
    BY <2>1, <2>3, FirstItemIsMember
  <2>. QED  BY <2>2, <2>3
<1>. HIDE DEF step, S
<1>. QED  BY <1>1, <1>2 DEF StepView, StepViews, step, S

(* The topic view.                                                           *)
LEMMA TopicViewIsView ==
  ASSUME NEW d \in Databases, NEW c \in WithPath(d), NEW t \in Topics
  PROVE  /\ TopicView(d, c, t) \in TopicViews(Known(d))
         /\ TopicView(d, c, t).key = KeyIn(d, c, t)
<1>. DEFINE k == KeyIn(d, c, t)
            P == Known(d)
<1>1. k \in P /\ P \in SUBSET Keys
  BY KeyIsKey DEF Known
<1>. HIDE DEF k, P
<1>2. StepView(d, k) \in StepViews(P) /\ ItemsOf(d, k) \subseteq ItemsOn(P)
  BY <1>1, StepViewIsView, ItemsAreItems
<1>3. [i \in ItemsOf(d, k) |-> d.tried[i]] \in Marks(P)
  BY <1>2 DEF Marks, Databases, ItemsOn
<1>4. \A kind : State(d, k, kind) \in States
  BY DEF State, States
<1>5. TopicView(d, c, t) \in TopicViews(P) /\ TopicView(d, c, t).key = k
  BY <1>1, <1>2, <1>3, <1>4 DEF TopicView, TopicViews, k
<1>. QED  BY <1>5 DEF k, P

-----------------------------------------------------------------------------
(* What the service changes.                                                *)

(* What a database never takes back.                                        *)
Grows(d, e) ==
  /\ \A i \in Items : d.helped[i] \subseteq e.helped[i]
  /\ \A i \in Items : d.tried[i] # "new" => e.tried[i] # "new"
  /\ \A c \in Courses : d.revision[c] <= e.revision[c]

(* The jobs are another matter than the rest.                               *)
SameRecord(d, e) ==
  /\ e.created = d.created /\ e.documents = d.documents /\ e.revision = d.revision
  /\ e.lessons = d.lessons /\ e.count = d.count
  /\ e.summary = d.summary /\ e.tried = d.tried /\ e.helped = d.helped

(* A database with one field replaced is a database.                         *)
LEMMA FieldsOfDatabases ==
  ASSUME NEW d \in Databases
  PROVE  /\ \A x \in SUBSET Courses : [d EXCEPT !.created = x] \in Databases
         /\ \A x \in SUBSET Courses : [d EXCEPT !.documents = x] \in Databases
         /\ \A x \in [Courses -> 0..MaxRevision] : [d EXCEPT !.revision = x] \in Databases
         /\ \A x \in SUBSET Keys : [d EXCEPT !.lessons = x] \in Databases
         /\ \A x \in [Keys -> 0..MaxItems] : [d EXCEPT !.count = x] \in Databases
         /\ \A x \in SUBSET (Keys \X Kinds) : [d EXCEPT !.jobs = x] \in Databases
         /\ \A x \in SUBSET (Keys \X Kinds) : [d EXCEPT !.failed = x] \in Databases
         /\ \A x \in SUBSET (Keys \X Kinds) : [d EXCEPT !.empty = x] \in Databases
         /\ \A x \in [Keys -> Summary] : [d EXCEPT !.summary = x] \in Databases
         /\ \A x \in [Items -> {"new", "wrong", "right"}] : [d EXCEPT !.tried = x] \in Databases
         /\ \A x \in [Items -> SUBSET {"notes", "hint", "solution"}] :
              [d EXCEPT !.helped = x] \in Databases
<1>. DEFINE C == SUBSET Courses            R == [Courses -> 0..MaxRevision]
            L == SUBSET Keys               N == [Keys -> 0..MaxItems]
            J == SUBSET (Keys \X Kinds)    S == [Keys -> Summary]
            T == [Items -> {"new", "wrong", "right"}]
            H == [Items -> SUBSET {"notes", "hint", "solution"}]
<1>1. Databases = [created : C, documents : C, revision : R, lessons : L, count : N,
                   jobs : J, failed : J, empty : J, summary : S, tried : T, helped : H]
  BY DEF Databases
<1>. HIDE DEF C, R, L, N, J, S, T, H
<1>2. /\ \A x \in C : [d EXCEPT !.created = x] \in Databases
      /\ \A x \in C : [d EXCEPT !.documents = x] \in Databases
      /\ \A x \in R : [d EXCEPT !.revision = x] \in Databases
      /\ \A x \in L : [d EXCEPT !.lessons = x] \in Databases
      /\ \A x \in N : [d EXCEPT !.count = x] \in Databases
      /\ \A x \in J : [d EXCEPT !.jobs = x] \in Databases
      /\ \A x \in J : [d EXCEPT !.failed = x] \in Databases
      /\ \A x \in J : [d EXCEPT !.empty = x] \in Databases
      /\ \A x \in S : [d EXCEPT !.summary = x] \in Databases
      /\ \A x \in T : [d EXCEPT !.tried = x] \in Databases
      /\ \A x \in H : [d EXCEPT !.helped = x] \in Databases
  BY <1>1
<1>. QED  BY <1>2 DEF C, R, L, N, J, S, T, H

(* Preparation ahead schedules jobs and nothing else.                        *)
LEMMA ScheduledIsDatabase ==
  ASSUME NEW d \in Databases, NEW c \in WithPath(d)
  PROVE  Scheduled(d, c) \in Databases /\ SameRecord(d, Scheduled(d, c))
<1>. DEFINE summaries == Summaries(d, c)
            first  == Recommended(Path, summaries)
            later  == {t \in Unpracticed(summaries) : t > first}
            topics == {first} \cup (IF later = {} THEN {} ELSE {FirstOf(later)})
            jobs   == {j \in {KeyIn(d, c, t) : t \in topics} \X Kinds : ~Done(d, j[1], j[2])}
<1>1. topics \subseteq Topics
  <2>1. DOMAIN summaries = Topics
    BY DEF Summaries
  <2>2. first \in Topics
    BY <2>1, RecommendedIsTopic
  <2>3. later \in SUBSET Topics /\ Topics \subseteq Nat
    BY <2>1, TopicNumbers DEF Unpracticed
  <2>4. later # {} => FirstOf(later) \in Topics
    <3>. HIDE DEF later
    <3>. QED  BY <2>3, FirstIsMember
  <2>. QED  BY <2>2, <2>4
<1>. HIDE DEF topics
<1>2. jobs \subseteq Keys \X Kinds
  BY <1>1, KeyIsKey DEF Known
<1>3. Scheduled(d, c) = [d EXCEPT !.jobs = d.jobs \cup jobs,
                                  !.failed = d.failed \ (jobs \ d.jobs),
                                  !.empty = d.empty \ (jobs \ d.jobs)]
  <2>1. Scheduled(d, c) = [d EXCEPT !.jobs = @ \cup jobs, !.failed = @ \ (jobs \ d.jobs),
                                    !.empty = @ \ (jobs \ d.jobs)]
    BY DEF Scheduled, topics
  <2>. HIDE DEF jobs
  <2>. QED  BY <2>1 DEF Databases
<1>. HIDE DEF jobs
<1>4. Scheduled(d, c) \in Databases
  <2>. DEFINE J == Keys \X Kinds
              A == d.jobs \cup jobs
              B == d.failed \ (jobs \ d.jobs)
              C == d.empty \ (jobs \ d.jobs)
  <2>1. d.jobs \in SUBSET J /\ d.failed \in SUBSET J /\ d.empty \in SUBSET J
    BY DEF Databases
  <2>2. A \in SUBSET J /\ B \in SUBSET J /\ C \in SUBSET J
    BY <1>2, <2>1
  <2>3. Scheduled(d, c) = [d EXCEPT !.jobs = A, !.failed = B, !.empty = C]
    BY <1>3
  <2>. HIDE DEF A, B, C
  <2>4. [d EXCEPT !.jobs = A] \in Databases
    BY <2>2, FieldsOfDatabases
  <2>5. [d EXCEPT !.jobs = A, !.failed = B] \in Databases
    BY <2>2, <2>4, FieldsOfDatabases
  <2>6. [d EXCEPT !.jobs = A, !.failed = B, !.empty = C] \in Databases
    BY <2>2, <2>5, FieldsOfDatabases
  <2>. QED  BY <2>3, <2>6
<1>. QED  BY <1>3, <1>4 DEF SameRecord, Databases

(* The opening of a lesson is recorded, and after all answers.               *)
Visited(d, k) == d.summary[k].opened /\ (d.summary[k].last # "none" => d.summary[k].restudied)

KeepsVisits(d, e) == \A k \in Keys : Visited(d, k) => Visited(e, k)

(* A change of what is prepared leaves the student's record alone.           *)
LEMMA SameRecordGrows ==
  ASSUME NEW d \in Databases, NEW e, e.revision = d.revision, e.summary = d.summary,
         e.tried = d.tried, e.helped = d.helped
  PROVE  Grows(d, e) /\ KeepsVisits(d, e)
BY ServiceAssumption DEF Grows, KeepsVisits, Visited, Databases

(* Growth, step by step.                                                     *)
LEMMA GrowthAdds ==
  ASSUME NEW d \in Databases, NEW e \in Databases, NEW f \in Databases, Grows(d, e), Grows(e, f)
  PROVE  Grows(d, f)
BY ServiceAssumption DEF Grows, Databases

(* The keys of a database stay known.                                        *)
LEMMA KnownStays ==
  ASSUME NEW d \in Databases, NEW e \in Databases, Grows(d, e)
  PROVE  Known(d) \subseteq Known(e)
BY ServiceAssumption DEF Grows, Known, Databases, Keys, CourseOf

(* The opening of a lesson.                                                  *)
LEMMA OpenedIsDatabase ==
  ASSUME NEW d \in Databases, NEW k \in Keys
  PROVE  /\ Opened(d, k) \in Databases /\ Opened(d, k).revision = d.revision
         /\ Grows(d, Opened(d, k)) /\ KeepsVisits(d, Opened(d, k)) /\ Visited(Opened(d, k), k)
         /\ Opened(d, k).helped = d.helped
<1>. DEFINE s  == d.summary[k]
            s2 == [s EXCEPT !.opened = TRUE, !.restudied = (s.last # "none")]
            S  == [d.summary EXCEPT ![k] = s2]
<1>1. d.summary \in [Keys -> Summary] /\ s \in Summary
  BY DEF Databases
<1>2. s2 \in Summary /\ s2.opened = TRUE /\ s2.last = s.last /\ s2.restudied = (s.last # "none")
  BY <1>1 DEF Summary
<1>3. S \in [Keys -> Summary] /\ S[k] = s2 /\ \A j \in Keys : j # k => S[j] = d.summary[j]
  BY <1>1, <1>2
<1>4. Opened(d, k) = [d EXCEPT !.summary = S]
  <2>1. DOMAIN d.summary = Keys /\ s = d.summary[k]
    BY <1>1
  <2>. QED  BY <2>1, <1>1 DEF Opened, Databases, Summary
<1>. HIDE DEF S, s2, s
<1>5. [d EXCEPT !.summary = S] \in Databases
  BY <1>3, FieldsOfDatabases
<1>6. /\ Opened(d, k).summary = S /\ Opened(d, k).revision = d.revision
      /\ Opened(d, k).tried = d.tried /\ Opened(d, k).helped = d.helped
  BY <1>4 DEF Databases
<1>7. Visited(Opened(d, k), k)
  BY <1>2, <1>3, <1>6 DEF Visited
<1>8. KeepsVisits(d, Opened(d, k))
  BY <1>3, <1>6, <1>7 DEF KeepsVisits, Visited
<1>9. Grows(d, Opened(d, k))
  BY <1>6 DEF Grows, Databases
<1>. QED  BY <1>4, <1>5, <1>6, <1>7, <1>8, <1>9

(* An answer.                                                                *)
LEMMA AnsweredIsDatabase ==
  ASSUME NEW d \in Databases, NEW i \in Items, NEW correct \in BOOLEAN
  PROVE  LET e == Answered(d, i, correct)
         IN /\ e \in Databases /\ e.revision = d.revision /\ Grows(d, e)
            /\ e.tried[i] # "new"
            /\ \A k \in Keys : k # TopicOf(i) /\ Visited(d, k) => Visited(e, k)
<1>. DEFINE e == Answered(d, i, correct)
            k == TopicOf(i)
            s == d.summary[k]
            clean  == UpTo(s.clean + (IF correct /\ ~Assisted(d, i) THEN 1 ELSE 0), PracticedDistinctItems)
            last   == IF ~correct THEN "wrong" ELSE IF Assisted(d, i) THEN "assisted" ELSE "clean"
            errors == IF correct THEN 0 ELSE UpTo(s.errors + 1, StrugglingErrors)
            s2 == [s EXCEPT !.clean = clean, !.last = last, !.errors = errors, !.restudied = FALSE]
            S  == [d.summary EXCEPT ![k] = s2]
            t  == IF correct THEN "right" ELSE IF d.tried[i] = "new" THEN "wrong" ELSE d.tried[i]
            T  == [d.tried EXCEPT ![i] = t]
            H  == [d.helped EXCEPT ![i] = d.helped[i] \cup {"solution"}]
<1>1. /\ d.summary \in [Keys -> Summary] /\ d.tried \in [Items -> {"new", "wrong", "right"}]
      /\ d.helped \in [Items -> SUBSET {"notes", "hint", "solution"}]
      /\ k \in Keys /\ s \in Summary
  BY DEF Databases, Items, TopicOf
<1>2. s2 \in Summary
  <2>1. clean \in Nat /\ errors \in Nat /\ last \in {"none", "wrong", "assisted", "clean"}
    BY <1>1 DEF Summary, UpTo, PracticedDistinctItems, StrugglingErrors
  <2>. HIDE DEF clean, errors, last
  <2>. QED  BY <1>1, <2>1 DEF Summary
<1>3. /\ S \in [Keys -> Summary] /\ \A j \in Keys : j # k => S[j] = d.summary[j]
      /\ T \in [Items -> {"new", "wrong", "right"}] /\ T[i] # "new"
      /\ \A j \in Items : d.tried[j] # "new" => T[j] # "new"
      /\ H \in [Items -> SUBSET {"notes", "hint", "solution"}]
      /\ \A j \in Items : d.helped[j] \subseteq H[j]
  <2>. HIDE DEF s2
  <2>. QED  BY <1>1, <1>2
<1>4. e = [d EXCEPT !.summary = S, !.tried = T, !.helped = H]
  <2>1. e = [d EXCEPT !.summary[k] = s2, !.tried[i] = t, !.helped[i] = d.helped[i] \cup {"solution"}]
    BY <1>1 DEF Answered, Databases, Summary
  <2>. HIDE DEF e, s2, t
  <2>. QED  BY <2>1, <1>1 DEF Databases
<1>. HIDE DEF S, T, H, e
<1>5. e \in Databases
  <2>1. [d EXCEPT !.summary = S] \in Databases
    BY <1>3, FieldsOfDatabases
  <2>2. [d EXCEPT !.summary = S, !.tried = T] \in Databases
    BY <1>3, <2>1, FieldsOfDatabases
  <2>3. [d EXCEPT !.summary = S, !.tried = T, !.helped = H] \in Databases
    BY <1>3, <2>2, FieldsOfDatabases
  <2>. QED  BY <1>4, <2>3
<1>6. e.summary = S /\ e.tried = T /\ e.helped = H /\ e.revision = d.revision
  BY <1>4 DEF Databases
<1>7. e.tried[i] # "new" /\ \A j \in Keys : j # k /\ Visited(d, j) => Visited(e, j)
  BY <1>3, <1>6 DEF Visited
<1>8. Grows(d, e)
  BY <1>3, <1>6 DEF Grows, Databases
<1>. QED  BY <1>5, <1>6, <1>7, <1>8 DEF e

(* Questions that are added leave the student's record alone.                *)
LEMMA AddedIsDatabase ==
  ASSUME NEW d \in Databases, NEW k \in Keys, NEW e \in Added(d, k)
  PROVE  /\ e \in Databases /\ e.revision = d.revision /\ e.summary = d.summary
         /\ e.tried = d.tried /\ e.helped = d.helped /\ e.empty = d.empty
<1>1. PICK n \in 0..MaxItems : e = [d EXCEPT !.count[k] = n]
  BY DEF Added
<1>. DEFINE C == [d.count EXCEPT ![k] = n]
<1>2. C \in [Keys -> 0..MaxItems]
  BY DEF Databases
<1>3. e = [d EXCEPT !.count = C]
  BY <1>1 DEF Databases
<1>. HIDE DEF C
<1>4. e \in Databases
  BY <1>2, <1>3, FieldsOfDatabases
<1>. QED  BY <1>3, <1>4 DEF Databases

(* So does a job.                                                            *)
LEMMA WorkedIsDatabase ==
  ASSUME NEW d \in Databases, NEW j \in d.jobs, NEW e \in Worked(d, j)
  PROVE  /\ e \in Databases /\ e.revision = d.revision /\ e.summary = d.summary
         /\ e.tried = d.tried /\ e.helped = d.helped
<1>. DEFINE k == j[1]
            rest == [d EXCEPT !.jobs = d.jobs \ {j}]
            Like(f) == /\ f \in Databases /\ f.revision = d.revision /\ f.summary = d.summary
                       /\ f.tried = d.tried /\ f.helped = d.helped
<1>1. j \in Keys \X Kinds /\ k \in Keys
  BY DEF Databases
<1>2. Like(rest)
  <2>1. d.jobs \ {j} \in SUBSET (Keys \X Kinds)
    BY DEF Databases
  <2>2. rest \in Databases
    BY <2>1, FieldsOfDatabases
  <2>. QED  BY <2>2 DEF Databases
<1>3. \/ e = rest
      \/ e = [rest EXCEPT !.failed = rest.failed \cup {j}]
      \/ e = [rest EXCEPT !.lessons = rest.lessons \cup {k}]
      \/ \E f \in Added(rest, k) : e = f \/ e = [f EXCEPT !.empty = f.empty \cup {j}]
  BY DEF Worked
<1>4. CASE e = rest
  BY <1>2, <1>4
<1>. HIDE DEF rest
<1>5. \A f : Like(f) => Like([f EXCEPT !.failed = f.failed \cup {j}])
  <2>1. SUFFICES ASSUME NEW f, Like(f) PROVE Like([f EXCEPT !.failed = f.failed \cup {j}])
    OBVIOUS
  <2>2. f.failed \cup {j} \in SUBSET (Keys \X Kinds)
    BY <1>1, <2>1 DEF Databases
  <2>3. [f EXCEPT !.failed = f.failed \cup {j}] \in Databases
    BY <2>1, <2>2, FieldsOfDatabases
  <2>. QED  BY <2>1, <2>3 DEF Databases
<1>6. \A f : Like(f) => Like([f EXCEPT !.empty = f.empty \cup {j}])
  <2>1. SUFFICES ASSUME NEW f, Like(f) PROVE Like([f EXCEPT !.empty = f.empty \cup {j}])
    OBVIOUS
  <2>2. f.empty \cup {j} \in SUBSET (Keys \X Kinds)
    BY <1>1, <2>1 DEF Databases
  <2>3. [f EXCEPT !.empty = f.empty \cup {j}] \in Databases
    BY <2>1, <2>2, FieldsOfDatabases
  <2>. QED  BY <2>1, <2>3 DEF Databases
<1>7. Like([rest EXCEPT !.lessons = rest.lessons \cup {k}])
  <2>2. rest.lessons \cup {k} \in SUBSET Keys
    BY <1>1, <1>2 DEF Databases
  <2>3. [rest EXCEPT !.lessons = rest.lessons \cup {k}] \in Databases
    BY <1>2, <2>2, FieldsOfDatabases
  <2>. QED  BY <1>2, <2>3 DEF Databases
<1>8. \A f \in Added(rest, k) : Like(f)
  BY <1>1, <1>2, AddedIsDatabase
<1>. HIDE DEF Like
<1>9. Like(e)
  BY <1>2, <1>3, <1>5, <1>6, <1>7, <1>8
<1>. QED  BY <1>9 DEF Like

(* A new path.                                                               *)
LEMMA RebuiltIsDatabase ==
  ASSUME NEW d \in Databases, NEW c \in Courses, d.revision[c] < MaxRevision
  PROVE  /\ Rebuilt(d, c) \in Databases /\ Grows(d, Rebuilt(d, c)) /\ KeepsVisits(d, Rebuilt(d, c))
         /\ c \in WithPath(Rebuilt(d, c))
<1>. DEFINE R == [d.revision EXCEPT ![c] = d.revision[c] + 1]
            e == [d EXCEPT !.revision = R]
<1>1. /\ R \in [Courses -> 0..MaxRevision] /\ R[c] # 0
      /\ \A b \in Courses : d.revision[b] <= R[b]
  BY ServiceAssumption DEF Databases
<1>. HIDE DEF R
<1>2. e \in Databases
  BY <1>1, FieldsOfDatabases
<1>3. e.revision = R /\ e.summary = d.summary /\ e.tried = d.tried /\ e.helped = d.helped
  BY DEF Databases
<1>4. Rebuilt(d, c) = Scheduled(e, c)
  BY DEF Rebuilt, R, Databases
<1>. HIDE DEF e
<1>5. c \in WithPath(e)
  BY <1>1, <1>3 DEF WithPath
<1>6. Scheduled(e, c) \in Databases /\ SameRecord(e, Scheduled(e, c))
  BY <1>2, <1>5, ScheduledIsDatabase
<1>. QED  BY <1>1, <1>3, <1>4, <1>5, <1>6 DEF SameRecord, Grows, KeepsVisits, Visited, WithPath

-----------------------------------------------------------------------------
(* The requests, one by one.                                                *)

GoodRequest(d, q) ==
  /\ q.kind \in {"list", "create", "documents", "outline", "course", "topic", "lesson",
                 "questions", "answer", "hint", "notes"}
  /\ q.kind \in {"documents", "outline", "course", "topic", "lesson", "questions"}
       => q.course \in Courses
  /\ q.kind \in {"topic", "lesson", "questions"} => q.topic \in Topics
  /\ q.kind \in {"answer", "hint", "notes"} => q.item \in ItemsOn(Known(d))
  /\ q.kind = "outline" => d.revision[q.course] < MaxRevision

(* What is answered, if it is no refusal.                                    *)
GoodReply(P, q, r) ==
  /\ q.kind = "list" => r \in SUBSET Courses
  /\ q.kind = "create" => r \in Courses
  /\ q.kind \in {"documents", "outline", "course"} => r \in CourseViews /\ r.id = q.course
  /\ q.kind = "outline" => r.revision # 0
  /\ q.kind \in {"topic", "lesson", "questions", "answer"} => r \in TopicViews(P)
  /\ q.kind \in {"hint", "notes"} => r = "shown"

(* What the request has done, if it is no refusal.                           *)
HasServed(q, e, r) ==
  /\ q.kind \in {"hint", "notes"} => q.kind \in e.helped[q.item]
  /\ q.kind = "answer" => e.tried[q.item] # "new"
  /\ q.kind = "lesson" => Visited(e, KeyIn(e, q.course, q.topic)) /\ r.key = KeyIn(e, q.course, q.topic)

Served(d, q, out) ==
  /\ out.db \in Databases /\ Grows(d, out.db)
  /\ q.kind # "outline" => out.db.revision = d.revision
  /\ \A k \in Keys : Visited(d, k) /\ ~(q.kind = "answer" /\ TopicOf(q.item) = k) => Visited(out.db, k)
  /\ \/ out.reply = Failed
     \/ GoodReply(Known(out.db), q, out.reply) /\ HasServed(q, out.db, out.reply)

(* A lesson is opened.                                                       *)
LEMMA LessonServed ==
  ASSUME NEW d \in Databases, NEW q, GoodRequest(d, q), q.kind = "lesson",
         q.course \in WithPath(d), NEW out \in OpenLesson(d, q.course, q.topic)
  PROVE  Served(d, q, out)
<1>. DEFINE c == q.course
            t == q.topic
            k == KeyIn(d, c, t)
            L == d.lessons \cup {k}
            d1 == [d EXCEPT !.lessons = L]
            d2 == Opened(d1, k)
            new == Scheduled(d2, c)
<1>1. c \in WithPath(d) /\ c \in Courses /\ t \in Topics /\ k \in Keys
  BY KeyIsKey DEF GoodRequest, Known, WithPath
<1>2. \/ out = Outcome(new, TopicView(new, c, t))
      \/ out = Outcome(d, Failed)
  BY DEF OpenLesson, Databases
<1>3. CASE out = Outcome(d, Failed)
  BY <1>3 DEF Served, Outcome, Grows, Databases
<1>4. CASE out = Outcome(new, TopicView(new, c, t))
  <2>1. d1 \in Databases
    <3>1. L \in SUBSET Keys
      BY <1>1 DEF Databases
    <3>. HIDE DEF L
    <3>. QED  BY <3>1, FieldsOfDatabases
  <2>2. d1.revision = d.revision /\ d1.summary = d.summary /\ d1.tried = d.tried /\ d1.helped = d.helped
    BY DEF Databases
  <2>. HIDE DEF d1
  <2>3. Grows(d, d1) /\ KeepsVisits(d, d1)
    BY <2>2, SameRecordGrows
  <2>. HIDE DEF k
  <2>4. /\ d2 \in Databases /\ d2.revision = d.revision /\ Grows(d1, d2)
        /\ KeepsVisits(d1, d2) /\ Visited(d2, k)
    BY <1>1, <2>1, <2>2, OpenedIsDatabase
  <2>. HIDE DEF d2
  <2>5. c \in WithPath(d2)
    BY <1>1, <2>4 DEF WithPath
  <2>6. new \in Databases /\ SameRecord(d2, new)
    BY <2>4, <2>5, ScheduledIsDatabase
  <2>. HIDE DEF new
  <2>7. /\ new.revision = d.revision /\ Grows(d2, new) /\ KeepsVisits(d2, new)
        /\ Visited(new, k)
    BY <1>1, <2>4, <2>6, SameRecordGrows DEF SameRecord, KeepsVisits
  <2>8. Grows(d, new) /\ KeepsVisits(d, new)
    BY <2>1, <2>3, <2>4, <2>6, <2>7, GrowthAdds DEF KeepsVisits
  <2>9. KeyIn(new, c, t) = k /\ c \in WithPath(new)
    BY <1>1, <2>7 DEF KeyIn, k, WithPath
  <2>10. /\ TopicView(new, c, t) \in TopicViews(Known(new))
         /\ TopicView(new, c, t).key = k
    BY <1>1, <2>6, <2>9, TopicViewIsView
  <2>11. out.db = new /\ out.reply = TopicView(new, c, t)
    BY <1>4 DEF Outcome
  <2>12. GoodReply(Known(new), q, out.reply) /\ HasServed(q, new, out.reply)
    BY <2>7, <2>9, <2>10, <2>11 DEF GoodReply, HasServed
  <2>. QED  BY <2>6, <2>7, <2>8, <2>11, <2>12 DEF Served, KeepsVisits
<1>. QED  BY <1>2, <1>3, <1>4

(* Questions are written.                                                    *)
LEMMA QuestionsServed ==
  ASSUME NEW d \in Databases, NEW q, GoodRequest(d, q), q.kind = "questions",
         q.course \in WithPath(d), NEW out \in AddQuestions(d, q.course, q.topic, q.full)
  PROVE  Served(d, q, out)
<1>. DEFINE c == q.course
            t == q.topic
            k == KeyIn(d, c, t)
<1>1. c \in WithPath(d) /\ t \in Topics /\ k \in Keys
  BY KeyIsKey DEF GoodRequest, Known
<1>. HIDE DEF k
<1>2. \/ out = Outcome(d, TopicView(d, c, t))
      \/ \E e \in Added(d, k) : out = Outcome(e, TopicView(e, c, t))
      \/ out = Outcome(d, Failed)
  BY DEF AddQuestions, k
<1>3. CASE out = Outcome(d, Failed)
  BY <1>3 DEF Served, Outcome, Grows, Databases
<1>4. \A e \in Databases :
        /\ e.revision = d.revision /\ e.summary = d.summary /\ e.tried = d.tried /\ e.helped = d.helped
        /\ out = Outcome(e, TopicView(e, c, t))
        => Served(d, q, out)
  <2>1. SUFFICES ASSUME NEW e \in Databases, e.revision = d.revision, e.summary = d.summary,
                        e.tried = d.tried, e.helped = d.helped,
                        out = Outcome(e, TopicView(e, c, t))
                 PROVE  Served(d, q, out)
    OBVIOUS
  <2>2. Grows(d, e) /\ KeepsVisits(d, e)
    BY <2>1, SameRecordGrows
  <2>3. c \in WithPath(e)
    BY <1>1, <2>1 DEF WithPath
  <2>4. TopicView(e, c, t) \in TopicViews(Known(e))
    BY <1>1, <2>3, TopicViewIsView
  <2>5. out.db = e /\ out.reply = TopicView(e, c, t)
    BY <2>1 DEF Outcome
  <2>6. GoodReply(Known(e), q, out.reply) /\ HasServed(q, e, out.reply)
    BY <2>4, <2>5 DEF GoodReply, HasServed
  <2>. QED  BY <2>1, <2>2, <2>5, <2>6 DEF Served, KeepsVisits
<1>. QED  BY <1>1, <1>2, <1>3, <1>4, AddedIsDatabase

(* An answer is checked.                                                     *)
LEMMA AnswerServed ==
  ASSUME NEW d \in Databases, NEW q, GoodRequest(d, q), q.kind = "answer",
         NEW out \in SubmitAnswer(d, q.item, q.full)
  PROVE  Served(d, q, out)
<1>. DEFINE i == q.item
            k == TopicOf(i)
            c == CourseOf(k)
            t == Number(k)
<1>1. i \in Items /\ c \in WithPath(d) /\ c \in Courses /\ t \in Topics /\ k \in Keys
  BY DEF GoodRequest, ItemsOn, Known, Keys, Number, CourseOf, WithPath, Databases
<1>2. \/ out = Outcome(d, Failed)
      \/ \E correct \in BOOLEAN : LET e == Answered(d, i, correct)
                                  IN out = Outcome(Scheduled(e, c), TopicView(e, c, t))
  BY DEF SubmitAnswer
<1>3. CASE out = Outcome(d, Failed)
  BY <1>3 DEF Served, Outcome, Grows, Databases
<1>. HIDE DEF k, c, t, i
<1>4. ASSUME NEW correct \in BOOLEAN,
             LET e == Answered(d, i, correct)
             IN out = Outcome(Scheduled(e, c), TopicView(e, c, t))
      PROVE  Served(d, q, out)
  <2>. DEFINE e == Answered(d, i, correct)
              f == Scheduled(e, c)
  <2>1. /\ e \in Databases /\ e.revision = d.revision /\ Grows(d, e) /\ e.tried[i] # "new"
        /\ \A j \in Keys : j # k /\ Visited(d, j) => Visited(e, j)
    BY <1>1, AnsweredIsDatabase DEF k
  <2>2. out.db = f /\ out.reply = TopicView(e, c, t)
    BY <1>4 DEF Outcome
  <2>. HIDE DEF e
  <2>3. c \in WithPath(e)
    BY <1>1, <2>1 DEF WithPath
  <2>4. f \in Databases /\ SameRecord(e, f)
    BY <2>1, <2>3, ScheduledIsDatabase
  <2>5. TopicView(e, c, t) \in TopicViews(Known(e))
    BY <1>1, <2>1, <2>3, TopicViewIsView
  <2>. HIDE DEF f
  <2>6. Grows(e, f) /\ KeepsVisits(e, f) /\ Known(f) = Known(e) /\ f.tried[i] # "new"
    BY <2>1, <2>4, SameRecordGrows DEF SameRecord, Known
  <2>7. Grows(d, f)
    BY <2>1, <2>4, <2>6, GrowthAdds
  <2>8. GoodReply(Known(f), q, out.reply) /\ HasServed(q, f, out.reply)
    BY <2>2, <2>5, <2>6 DEF GoodReply, HasServed, i
  <2>9. \A j \in Keys : Visited(d, j) /\ k # j => Visited(f, j)
    BY <2>1, <2>6 DEF KeepsVisits
  <2>. QED  BY <2>1, <2>2, <2>4, <2>7, <2>8, <2>9 DEF Served, SameRecord, k, i
<1>. QED  BY <1>2, <1>3, <1>4

(* Help is shown.                                                            *)
LEMMA HelpServed ==
  ASSUME NEW d \in Databases, NEW q, GoodRequest(d, q), q.kind \in {"hint", "notes"},
         NEW out \in Reveal(d, q.item, q.kind)
  PROVE  Served(d, q, out)
<1>. DEFINE i == q.item
            k == TopicOf(i)
            h == q.kind
            H == [d.helped EXCEPT ![i] = d.helped[i] \cup {h}]
            d1 == [d EXCEPT !.helped = H]
<1>1. i \in Items /\ k \in Keys
  BY DEF GoodRequest, ItemsOn, Known, Items, TopicOf
<1>2. /\ H \in [Items -> SUBSET {"notes", "hint", "solution"}] /\ h \in H[i]
      /\ \A j \in Items : d.helped[j] \subseteq H[j]
  BY <1>1 DEF Databases
<1>3. out = Outcome(IF h = "notes" THEN Opened(d1, k) ELSE d1, "shown")
  BY <1>1 DEF Reveal, Databases
<1>. HIDE DEF H, k, i
<1>4. d1 \in Databases
  BY <1>2, FieldsOfDatabases
<1>5. d1.helped = H /\ d1.revision = d.revision /\ d1.summary = d.summary /\ d1.tried = d.tried
  BY DEF Databases
<1>. HIDE DEF d1
<1>6. Grows(d, d1) /\ KeepsVisits(d, d1) /\ h \in d1.helped[i]
  BY <1>2, <1>5 DEF Grows, KeepsVisits, Visited, Databases
<1>. DEFINE e == Opened(d1, k)
<1>7. /\ e \in Databases /\ e.revision = d1.revision /\ Grows(d1, e) /\ KeepsVisits(d1, e)
      /\ e.helped = d1.helped
  BY <1>1, <1>4, OpenedIsDatabase
<1>. HIDE DEF e
<1>8. Grows(d, e) /\ KeepsVisits(d, e) /\ h \in e.helped[i]
  BY <1>4, <1>6, <1>7, GrowthAdds DEF KeepsVisits
<1>. DEFINE f == IF h = "notes" THEN e ELSE d1
<1>9. /\ f \in Databases /\ Grows(d, f) /\ KeepsVisits(d, f) /\ f.revision = d.revision
      /\ h \in f.helped[i]
  BY <1>4, <1>5, <1>6, <1>7, <1>8
<1>10. out.db = f /\ out.reply = "shown"
  BY <1>3 DEF Outcome, e
<1>. HIDE DEF f
<1>11. GoodReply(Known(f), q, out.reply) /\ HasServed(q, f, out.reply)
  BY <1>9, <1>10 DEF GoodReply, HasServed, i
<1>. QED  BY <1>9, <1>10, <1>11 DEF Served, KeepsVisits

(* The service: every request is served, on a database that only grows.      *)
LEMMA HandleServes ==
  ASSUME NEW d \in Databases, NEW q, GoodRequest(d, q), NEW out \in Handle(d, q)
  PROVE  Served(d, q, out)
<1>. DEFINE refused == q.kind \in {"topic", "lesson", "questions"} /\ d.revision[q.course] = 0
<1>1. CASE refused
  <2>1. out = Outcome(d, Failed)
    BY <1>1 DEF Handle
  <2>. QED  BY <2>1 DEF Served, Outcome, Grows, Databases
<1>2. ASSUME ~refused, q.kind \in {"topic", "lesson", "questions"}
      PROVE  q.course \in WithPath(d)
  BY <1>2 DEF WithPath, GoodRequest
<1>3. \A e \in Databases : \A r :
        /\ e.revision = d.revision /\ e.summary = d.summary /\ e.tried = d.tried /\ e.helped = d.helped
        /\ out = Outcome(e, r) /\ GoodReply(Known(e), q, r)
        /\ q.kind \notin {"hint", "notes", "answer", "lesson"}
        => Served(d, q, out)
  BY SameRecordGrows DEF Served, Outcome, HasServed, KeepsVisits
<1>4. ASSUME ~refused, q.kind = "list" PROVE Served(d, q, out)
  <2>1. out = Outcome(d, d.created) /\ d.created \in SUBSET Courses
    BY <1>4 DEF Handle, Databases
  <2>. QED  BY <1>3, <1>4, <2>1 DEF GoodReply
<1>5. ASSUME ~refused, q.kind = "create" PROVE Served(d, q, out)
  <2>1. PICK c \in Courses : out = Outcome([d EXCEPT !.created = d.created \cup {c}], c)
    BY <1>5 DEF Handle, Databases
  <2>. DEFINE C == d.created \cup {c}
              e == [d EXCEPT !.created = C]
  <2>2. C \in SUBSET Courses
    BY DEF Databases
  <2>. HIDE DEF C
  <2>3. e \in Databases
    BY <2>2, FieldsOfDatabases
  <2>4. e.revision = d.revision /\ e.summary = d.summary /\ e.tried = d.tried /\ e.helped = d.helped
    BY DEF Databases
  <2>5. out = Outcome(e, c)
    BY <2>1 DEF C
  <2>. HIDE DEF e
  <2>. QED  BY <1>3, <1>5, <2>3, <2>4, <2>5 DEF GoodReply
<1>6. ASSUME ~refused, q.kind = "documents" PROVE Served(d, q, out)
  <2>. DEFINE D == d.documents \cup {q.course}
              e == [d EXCEPT !.documents = D]
  <2>1. out = Outcome(e, CourseView(e, q.course)) \/ out = Outcome(d, Failed)
    BY <1>6 DEF Handle, Databases
  <2>2. D \in SUBSET Courses /\ q.course \in Courses
    BY <1>6 DEF Databases, GoodRequest
  <2>. HIDE DEF D
  <2>3. e \in Databases
    BY <2>2, FieldsOfDatabases
  <2>4. e.revision = d.revision /\ e.summary = d.summary /\ e.tried = d.tried /\ e.helped = d.helped
    BY DEF Databases
  <2>. HIDE DEF e
  <2>5. CourseView(e, q.course) \in CourseViews /\ CourseView(e, q.course).id = q.course
    BY <2>2, <2>3, CourseViewIsView
  <2>6. CASE out = Outcome(d, Failed)
    BY <2>6 DEF Served, Outcome, Grows, Databases
  <2>7. CASE out = Outcome(e, CourseView(e, q.course))
    BY <1>3, <1>6, <2>3, <2>4, <2>5, <2>7 DEF GoodReply
  <2>. QED  BY <2>1, <2>6, <2>7
<1>7. ASSUME ~refused, q.kind = "outline" PROVE Served(d, q, out)
  <2>. DEFINE e == Rebuilt(d, q.course)
  <2>1. out = Outcome(e, CourseView(e, q.course))
    BY <1>7 DEF Handle
  <2>2. q.course \in Courses /\ d.revision[q.course] < MaxRevision
    BY <1>7 DEF GoodRequest
  <2>3. e \in Databases /\ Grows(d, e) /\ KeepsVisits(d, e) /\ q.course \in WithPath(e)
    BY <2>2, RebuiltIsDatabase
  <2>. HIDE DEF e
  <2>4. /\ CourseView(e, q.course) \in CourseViews /\ CourseView(e, q.course).id = q.course
        /\ CourseView(e, q.course).revision # 0
    BY <2>2, <2>3, CourseViewIsView DEF CourseView, WithPath
  <2>. QED  BY <1>7, <2>1, <2>3, <2>4 DEF Served, Outcome, GoodReply, HasServed, KeepsVisits
<1>8. ASSUME ~refused, q.kind = "course" PROVE Served(d, q, out)
  <2>1. out = Outcome(d, CourseView(d, q.course)) /\ q.course \in Courses
    BY <1>8 DEF Handle, GoodRequest
  <2>2. CourseView(d, q.course) \in CourseViews /\ CourseView(d, q.course).id = q.course
    BY <2>1, CourseViewIsView
  <2>. QED  BY <1>3, <1>8, <2>1, <2>2 DEF GoodReply
<1>9. ASSUME ~refused, q.kind = "topic" PROVE Served(d, q, out)
  <2>1. out = Outcome(d, TopicView(d, q.course, q.topic)) /\ q.course \in WithPath(d) /\ q.topic \in Topics
    BY <1>2, <1>9 DEF Handle, GoodRequest
  <2>2. TopicView(d, q.course, q.topic) \in TopicViews(Known(d))
    BY <2>1, TopicViewIsView
  <2>. QED  BY <1>3, <1>9, <2>1, <2>2 DEF GoodReply
<1>10. ASSUME ~refused, q.kind = "lesson" PROVE Served(d, q, out)
  BY <1>2, <1>10, LessonServed DEF Handle
<1>11. ASSUME ~refused, q.kind = "questions" PROVE Served(d, q, out)
  BY <1>2, <1>11, QuestionsServed DEF Handle
<1>12. ASSUME ~refused, q.kind = "answer" PROVE Served(d, q, out)
  BY <1>12, AnswerServed DEF Handle
<1>13. ASSUME ~refused, q.kind \in {"hint", "notes"} PROVE Served(d, q, out)
  BY <1>13, HelpServed DEF Handle
<1>. HIDE DEF refused
<1>. QED  BY <1>1, <1>4, <1>5, <1>6, <1>7, <1>8, <1>9, <1>10, <1>11, <1>12, <1>13 DEF GoodRequest

-----------------------------------------------------------------------------
(* The page.                                                                *)
Steps == {"idle", "list", "create", "open_course", "add", "build", "open_topic", "act", "acted",
          "answer", "answered", "hint", "peek", "visit", "visited", "poll", "poll_topic"}

RequestsOn(P) == {q \in Requests : q.item \in ItemsOn(P) \cup {None}}

Replies(P) ==
  {None, Failed, "shown"} \cup Courses \cup (SUBSET Courses) \cup CourseViews \cup TopicViews(P)

Tasks(P) ==
  [pc : Steps, req : RequestsOn(P) \cup {None}, reply : Replies(P), course : Courses \cup {None},
   topic : Topics \cup {None}, item : ItemsOn(P) \cup {None}, fresh : CourseViews \cup {None},
   flag : BOOLEAN]

Cards(P) ==
  {v \in [kind : {"none", "waiting", "write", "done", "question"}, item : ItemsOn(P) \cup {None},
          answered : BOOLEAN, next : ItemsOn(P) \cup {None}, leave : BOOLEAN, notes : BOOLEAN,
          lesson : BOOLEAN] :
     v.kind = "question" => v.item \in ItemsOn(P)}

Pages(P) ==
  [course : CourseViews \cup {None}, topic : TopicViews(P) \cup {None},
   mode : {"study", "practice"}, pane : {"none", "study", "practice"},
   item : ItemsOn(P) \cup {None}, feedback : ItemsOn(P) \cup {None}, confirm : BOOLEAN,
   recorded : BOOLEAN, peeked : SUBSET ItemsOn(P), hints : SUBSET ItemsOn(P),
   options : SUBSET Courses, shown : BOOLEAN, study : {"none", "lesson", "waiting", "write"},
   notes : P \cup {None}, card : Cards(P), step : StepViews(P) \cup {None},
   draft : BOOLEAN, post : Tasks(P) \cup {None}]

(* A report to be sent, and a page that can be drawn.                        *)
IsReport(P, t) ==
  /\ t \in Tasks(P) /\ t \in Reports /\ t.pc = "visit" /\ t.reply = None /\ t.topic \in Topics
  /\ \E c \in Courses : t.req = Request("lesson", c, t.topic, None, FALSE)

IsPage(P, g) ==
  /\ g \in Pages(P)
  /\ g.topic # None => g.course # None
  /\ g.post # None => IsReport(P, g.post) /\ g.course # None

(* A page with one field replaced is a page.                                 *)
LEMMA FieldsOfPages ==
  ASSUME NEW P, NEW g \in Pages(P)
  PROVE  /\ \A x \in CourseViews \cup {None} : [g EXCEPT !.course = x] \in Pages(P)
         /\ \A x \in TopicViews(P) \cup {None} : [g EXCEPT !.topic = x] \in Pages(P)
         /\ \A x \in {"study", "practice"} : [g EXCEPT !.mode = x] \in Pages(P)
         /\ \A x \in {"none", "study", "practice"} : [g EXCEPT !.pane = x] \in Pages(P)
         /\ \A x \in ItemsOn(P) \cup {None} : [g EXCEPT !.item = x] \in Pages(P)
         /\ \A x \in ItemsOn(P) \cup {None} : [g EXCEPT !.feedback = x] \in Pages(P)
         /\ \A x \in BOOLEAN : [g EXCEPT !.confirm = x] \in Pages(P)
         /\ \A x \in BOOLEAN : [g EXCEPT !.recorded = x] \in Pages(P)
         /\ \A x \in SUBSET ItemsOn(P) : [g EXCEPT !.peeked = x] \in Pages(P)
         /\ \A x \in SUBSET ItemsOn(P) : [g EXCEPT !.hints = x] \in Pages(P)
         /\ \A x \in SUBSET Courses : [g EXCEPT !.options = x] \in Pages(P)
         /\ \A x \in BOOLEAN : [g EXCEPT !.shown = x] \in Pages(P)
         /\ \A x \in {"none", "lesson", "waiting", "write"} : [g EXCEPT !.study = x] \in Pages(P)
         /\ \A x \in P \cup {None} : [g EXCEPT !.notes = x] \in Pages(P)
         /\ \A x \in Cards(P) : [g EXCEPT !.card = x] \in Pages(P)
         /\ \A x \in StepViews(P) \cup {None} : [g EXCEPT !.step = x] \in Pages(P)
         /\ \A x \in BOOLEAN : [g EXCEPT !.draft = x] \in Pages(P)
         /\ \A x \in Tasks(P) \cup {None} : [g EXCEPT !.post = x] \in Pages(P)
<1>. DEFINE CV == CourseViews \cup {None}          TV == TopicViews(P) \cup {None}
            M  == {"study", "practice"}            N  == {"none", "study", "practice"}
            I  == ItemsOn(P) \cup {None}           SI == SUBSET ItemsOn(P)
            SC == SUBSET Courses                   ST == {"none", "lesson", "waiting", "write"}
            K  == P \cup {None}            C  == Cards(P)
            S  == StepViews(P) \cup {None}         T  == Tasks(P) \cup {None}
            B  == BOOLEAN
<1>1. Pages(P) = [course : CV, topic : TV, mode : M, pane : N, item : I, feedback : I, confirm : B,
                  recorded : B, peeked : SI, hints : SI, options : SC, shown : B, study : ST,
                  notes : K, card : C, step : S, draft : B, post : T]
  BY DEF Pages
<1>. HIDE DEF CV, TV, M, N, I, SI, SC, ST, K, C, S, T, B
<1>2. /\ \A x \in CV : [g EXCEPT !.course = x] \in Pages(P)
      /\ \A x \in TV : [g EXCEPT !.topic = x] \in Pages(P)
      /\ \A x \in M : [g EXCEPT !.mode = x] \in Pages(P)
      /\ \A x \in N : [g EXCEPT !.pane = x] \in Pages(P)
      /\ \A x \in I : [g EXCEPT !.item = x] \in Pages(P)
      /\ \A x \in I : [g EXCEPT !.feedback = x] \in Pages(P)
      /\ \A x \in B : [g EXCEPT !.confirm = x] \in Pages(P)
      /\ \A x \in B : [g EXCEPT !.recorded = x] \in Pages(P)
      /\ \A x \in SI : [g EXCEPT !.peeked = x] \in Pages(P)
      /\ \A x \in SI : [g EXCEPT !.hints = x] \in Pages(P)
  BY <1>1
<1>3. /\ \A x \in SC : [g EXCEPT !.options = x] \in Pages(P)
      /\ \A x \in B : [g EXCEPT !.shown = x] \in Pages(P)
      /\ \A x \in ST : [g EXCEPT !.study = x] \in Pages(P)
      /\ \A x \in K : [g EXCEPT !.notes = x] \in Pages(P)
      /\ \A x \in C : [g EXCEPT !.card = x] \in Pages(P)
      /\ \A x \in S : [g EXCEPT !.step = x] \in Pages(P)
      /\ \A x \in B : [g EXCEPT !.draft = x] \in Pages(P)
      /\ \A x \in T : [g EXCEPT !.post = x] \in Pages(P)
  BY <1>1
<1>4. /\ \A x \in BOOLEAN : [g EXCEPT !.confirm = x] \in Pages(P)
      /\ \A x \in BOOLEAN : [g EXCEPT !.recorded = x] \in Pages(P)
      /\ \A x \in BOOLEAN : [g EXCEPT !.shown = x] \in Pages(P)
      /\ \A x \in BOOLEAN : [g EXCEPT !.draft = x] \in Pages(P)
  BY <1>2, <1>3, Zenon DEF B
<1>5. /\ \A x \in CourseViews \cup {None} : [g EXCEPT !.course = x] \in Pages(P)
      /\ \A x \in TopicViews(P) \cup {None} : [g EXCEPT !.topic = x] \in Pages(P)
      /\ \A x \in {"study", "practice"} : [g EXCEPT !.mode = x] \in Pages(P)
      /\ \A x \in {"none", "study", "practice"} : [g EXCEPT !.pane = x] \in Pages(P)
      /\ \A x \in ItemsOn(P) \cup {None} : [g EXCEPT !.item = x] \in Pages(P)
      /\ \A x \in ItemsOn(P) \cup {None} : [g EXCEPT !.feedback = x] \in Pages(P)
      /\ \A x \in SUBSET ItemsOn(P) : [g EXCEPT !.peeked = x] \in Pages(P)
      /\ \A x \in SUBSET ItemsOn(P) : [g EXCEPT !.hints = x] \in Pages(P)
  BY <1>2, Zenon DEF CV, TV, M, N, I, SI
<1>6. /\ \A x \in SUBSET Courses : [g EXCEPT !.options = x] \in Pages(P)
      /\ \A x \in {"none", "lesson", "waiting", "write"} : [g EXCEPT !.study = x] \in Pages(P)
      /\ \A x \in P \cup {None} : [g EXCEPT !.notes = x] \in Pages(P)
      /\ \A x \in Cards(P) : [g EXCEPT !.card = x] \in Pages(P)
      /\ \A x \in StepViews(P) \cup {None} : [g EXCEPT !.step = x] \in Pages(P)
      /\ \A x \in Tasks(P) \cup {None} : [g EXCEPT !.post = x] \in Pages(P)
  BY <1>3, Zenon DEF SC, ST, K, C, S, T
<1>. QED  BY <1>4, <1>5, <1>6, Zenon

(* The question that is picked.                                              *)
LEMMA PickedIsItem ==
  ASSUME NEW P, NEW v \in TopicViews(P), NEW exclude
  PROVE  PickItem(v, exclude) \in ItemsOn(P) \cup {None}
<1>. DEFINE open  == {i \in DOMAIN v.items : v.items[i] # "right" /\ i # exclude}
            fresh == {i \in open : v.items[i] = "new"}
            S == IF fresh # {} THEN fresh ELSE open
<1>1. DOMAIN v.items \subseteq ItemsOn(P)
  BY MarkedItems DEF TopicViews
<1>2. S \in SUBSET ItemsOn(P) /\ S \in SUBSET Items
  BY <1>1 DEF ItemsOn
<1>. HIDE DEF S
<1>3. FirstItem(S) \in ItemsOn(P) \cup {None}
  <2>1. CASE S = {}
    BY <2>1 DEF FirstItem
  <2>2. CASE S # {}
    BY <1>2, <2>2, FirstItemIsMember
  <2>. QED  BY <2>1, <2>2
<1>. QED  BY <1>1, <1>3 DEF PickItem, S

(* What no drawing changes.                                                  *)
Kept(g, h) ==
  /\ h.course = g.course /\ h.topic = g.topic /\ h.feedback = g.feedback
  /\ h.peeked = g.peeked /\ h.hints = g.hints /\ h.options = g.options

(* A question with its buttons is a card.                                    *)
LEMMA QuestionCardIsCard ==
  ASSUME NEW P, NEW g \in Pages(P), g.topic # None, NEW i \in ItemsOn(P)
  PROVE  QuestionCard(g, i) \in Cards(P)
<1>1. g.topic \in TopicViews(P) /\ g.confirm \in BOOLEAN
  BY DEF Pages
<1>2. PickItem(g.topic, i) \in ItemsOn(P) \cup {None}
  BY <1>1, PickedIsItem
<1>3. (g.feedback = i) \in BOOLEAN /\ HasLesson(g.topic) \in BOOLEAN
  BY DEF HasLesson
<1>. QED  BY <1>1, <1>2, <1>3 DEF QuestionCard, Cards

(* The practice pane: a question in it is the one the script holds.          *)
PracticeDrawn(P, g, h) ==
  /\ IsPage(P, h) /\ Kept(g, h)
  /\ h.mode = g.mode /\ h.confirm = g.confirm /\ h.recorded = g.recorded
  /\ h.study = g.study /\ h.notes = g.notes /\ h.post = g.post
  /\ h.card.kind = "question" =>
       h.item = h.card.item /\ h.item \in ItemsOn(P) /\ h.card.answered = (g.feedback = h.item)

(* The practice pane is drawn so.                                            *)
LEMMA PracticeDrawing ==
  ASSUME NEW P, NEW g, IsPage(P, g)
  PROVE  LET h == RenderPractice(g)
         IN PracticeDrawn(P, g, h) /\ h.pane = g.pane /\ h.shown = g.shown /\ h.step = g.step
<1>. DEFINE i == IF g.item \in DOMAIN g.topic.items THEN g.item ELSE PickItem(g.topic, None)
            kind == IF g.topic.questions = "pending" THEN "waiting" ELSE "write"
            Case(x, c) == RenderPractice(g) = [g EXCEPT !.item = x, !.draft = FALSE, !.card = c]
<1>1. g \in Pages(P) /\ g = [g EXCEPT !.item = g.item]
  BY DEF IsPage, Pages
<1>2. \E x \in ItemsOn(P) \cup {None}, c \in Cards(P) :
        /\ Case(x, c)
        /\ c.kind = "question" => x = c.item /\ c.answered = (g.feedback = x)
  <2>1. \A k \in {"none", "waiting", "write", "done"} : Card(k) \in Cards(P) /\ Card(k).kind = k
    BY DEF Card, Cards
  <2>2. CASE g.topic = None
    <3>1. RenderPractice(g) = [g EXCEPT !.draft = FALSE, !.card = Card("none")]
      BY <2>2 DEF RenderPractice
    <3>2. Case(g.item, Card("none"))
      BY <1>1, <3>1
    <3>. QED  BY <1>1, <2>1, <3>2 DEF Pages
  <2>3. CASE g.topic # None /\ DOMAIN g.topic.items = {}
    <3>1. RenderPractice(g) = [g EXCEPT !.draft = FALSE, !.card = Card(kind)]
      BY <2>3 DEF RenderPractice
    <3>2. Case(g.item, Card(kind))
      BY <1>1, <3>1
    <3>. QED  BY <1>1, <2>1, <3>2 DEF Pages
  <2>4. CASE g.topic # None /\ DOMAIN g.topic.items # {}
    <3>. DEFINE c == IF i = None THEN Card("done") ELSE QuestionCard(g, i)
    <3>1. g.topic \in TopicViews(P)
      BY <1>1, <2>4 DEF Pages
    <3>2. i \in ItemsOn(P) \cup {None}
      BY <3>1, PickedIsItem, MarkedItems DEF TopicViews
    <3>3. Case(i, c)
      BY <2>4 DEF RenderPractice
    <3>. HIDE DEF i
    <3>4. c \in Cards(P)
      BY <1>1, <2>1, <2>4, <3>2, QuestionCardIsCard
    <3>5. c.kind = "question" => i = c.item /\ c.answered = (g.feedback = i)
      BY <2>1 DEF QuestionCard
    <3>. HIDE DEF Case, c
    <3>. QED  BY <3>2, <3>3, <3>4, <3>5, Zenon
  <2>. QED  BY <2>2, <2>3, <2>4
<1>. HIDE DEF Case
<1>3. PICK x \in ItemsOn(P) \cup {None}, c \in Cards(P) :
        /\ Case(x, c)
        /\ c.kind = "question" => x = c.item /\ c.answered = (g.feedback = x)
  BY <1>2
<1>. DEFINE h == [g EXCEPT !.item = x, !.draft = FALSE, !.card = c]
<1>4. h \in Pages(P)
  <2>1. [g EXCEPT !.item = x] \in Pages(P)
    BY <1>1, FieldsOfPages
  <2>2. [g EXCEPT !.item = x, !.draft = FALSE] \in Pages(P)
    BY <2>1, FieldsOfPages
  <2>. QED  BY <2>2, FieldsOfPages
<1>5. /\ Kept(g, h) /\ h.item = x /\ h.card = c
      /\ h.mode = g.mode /\ h.pane = g.pane /\ h.confirm = g.confirm /\ h.recorded = g.recorded
      /\ h.shown = g.shown /\ h.study = g.study /\ h.notes = g.notes /\ h.step = g.step
      /\ h.post = g.post
  BY <1>1 DEF Pages, Kept
<1>6. RenderPractice(g) = h
  BY <1>3 DEF Case
<1>. HIDE DEF h
<1>7. IsPage(P, h)
  BY <1>4, <1>5 DEF IsPage, Kept
<1>8. c.kind = "question" => c.item \in ItemsOn(P)
  BY DEF Cards
<1>9. PracticeDrawn(P, g, h)
  BY <1>3, <1>5, <1>7, <1>8 DEF PracticeDrawn
<1>. QED  BY <1>5, <1>6, <1>9

(* A task with one field replaced is a task.                                 *)
LEMMA FieldsOfTasks ==
  ASSUME NEW P, NEW t \in Tasks(P)
  PROVE  /\ \A x \in Steps : [t EXCEPT !.pc = x] \in Tasks(P)
         /\ \A x \in RequestsOn(P) \cup {None} : [t EXCEPT !.req = x] \in Tasks(P)
         /\ \A x \in Replies(P) : [t EXCEPT !.reply = x] \in Tasks(P)
         /\ \A x \in Courses \cup {None} : [t EXCEPT !.course = x] \in Tasks(P)
         /\ \A x \in Topics \cup {None} : [t EXCEPT !.topic = x] \in Tasks(P)
         /\ \A x \in ItemsOn(P) \cup {None} : [t EXCEPT !.item = x] \in Tasks(P)
         /\ \A x \in CourseViews \cup {None} : [t EXCEPT !.fresh = x] \in Tasks(P)
         /\ \A x \in BOOLEAN : [t EXCEPT !.flag = x] \in Tasks(P)
<1>. DEFINE R == RequestsOn(P) \cup {None}   C == Courses \cup {None}
            T == Topics \cup {None}        I == ItemsOn(P) \cup {None}
            V == CourseViews \cup {None}   B == BOOLEAN
            A == Replies(P)                S == Steps
<1>1. Tasks(P) = [pc : S, req : R, reply : A, course : C, topic : T, item : I, fresh : V, flag : B]
  BY DEF Tasks
<1>. HIDE DEF R, C, T, I, V, B, A, S
<1>2. /\ \A x \in S : [t EXCEPT !.pc = x] \in Tasks(P)
      /\ \A x \in R : [t EXCEPT !.req = x] \in Tasks(P)
      /\ \A x \in A : [t EXCEPT !.reply = x] \in Tasks(P)
      /\ \A x \in C : [t EXCEPT !.course = x] \in Tasks(P)
      /\ \A x \in T : [t EXCEPT !.topic = x] \in Tasks(P)
      /\ \A x \in I : [t EXCEPT !.item = x] \in Tasks(P)
      /\ \A x \in V : [t EXCEPT !.fresh = x] \in Tasks(P)
      /\ \A x \in B : [t EXCEPT !.flag = x] \in Tasks(P)
  BY <1>1
<1>. QED  BY <1>2, Zenon DEF R, C, T, I, V, B, A, S

(* Nothing is awaited, and a task that has just been asked for.              *)
LEMMA IdleIsTask ==
  ASSUME NEW P
  PROVE  Idle \in Tasks(P) /\ Idle.pc = "idle" /\ Idle.req = None /\ Idle.reply = None
BY DEF Idle, Tasks, Steps, Replies

(* A call is a task.                                                         *)
LEMMA CallIsTask ==
  ASSUME NEW P, NEW p \in Steps, NEW q \in RequestsOn(P) \cup {None}
  PROVE  Call(p, q) \in Tasks(P)
<1>1. [Idle EXCEPT !.pc = p] \in Tasks(P)
  BY IdleIsTask, FieldsOfTasks
<1>. QED  BY <1>1, FieldsOfTasks DEF Call

(* What a call holds.                                                        *)
LEMMA CallFields ==
  ASSUME NEW p, NEW q
  PROVE  /\ Call(p, q).pc = p /\ Call(p, q).req = q /\ Call(p, q).reply = None
         /\ Call(p, q).course = None /\ Call(p, q).topic = None
         /\ Call(p, q).item = None /\ Call(p, q).fresh = None /\ ~Call(p, q).flag
BY DEF Call, Idle

(* The report of a visit.                                                    *)
LEMMA LessonCallIsReport ==
  ASSUME NEW P, NEW g, IsPage(P, g), g.topic # None
  PROVE  /\ IsReport(P, LessonCall(g))
         /\ LessonCall(g).req = Request("lesson", g.course.id, g.topic.id, None, FALSE)
<1>1. g.topic.id \in Topics /\ g.course.id \in Courses
  BY DEF IsPage, Pages, TopicViews, CourseViews
<1>. DEFINE q == Request("lesson", g.course.id, g.topic.id, None, FALSE)
            a == Call("visit", q)
<1>2. q \in RequestsOn(P) \cup {None}
  BY <1>1 DEF Request, RequestsOn, Requests
<1>3. LessonCall(g) = [a EXCEPT !.topic = g.topic.id]
  BY DEF LessonCall
<1>. HIDE DEF q
<1>4. a \in Tasks(P) /\ a.pc = "visit" /\ a.req = q /\ a.reply = None
  BY <1>2, CallIsTask, CallFields DEF Steps
<1>. HIDE DEF a
<1>5. LessonCall(g) \in Tasks(P)
  BY <1>1, <1>3, <1>4, FieldsOfTasks
<1>6. /\ LessonCall(g).pc = "visit" /\ LessonCall(g).reply = None /\ LessonCall(g).req = q
      /\ LessonCall(g).topic = g.topic.id
  BY <1>3, <1>4 DEF Tasks
<1>7. LessonCall(g) \in Reports
  <2>1. q \in Requests
    BY <1>1 DEF Request, Requests, q
  <2>. DEFINE S(p, r, t) == [pc : {p}, req : r, reply : {None}, course : {None}, topic : t,
                             item : {None}, fresh : {None}, flag : {FALSE}]
              i == g.topic.id
  <2>2. Idle \in S("idle", {None}, {None})
    BY DEF Idle
  <2>3. [Idle EXCEPT !.pc = "visit"] \in S("visit", {None}, {None})
    BY <2>2
  <2>4. [Idle EXCEPT !.pc = "visit", !.req = q] \in S("visit", Requests, {None})
    BY <2>1, <2>3
  <2>5. a \in S("visit", Requests, {None})
    BY <2>4 DEF Call, a
  <2>6. LessonCall(g) \in S("visit", Requests, Topics)
    BY <1>1, <1>3, <2>5
  <2>. QED  BY <2>6 DEF Reports
<1>. QED  BY <1>1, <1>5, <1>6, <1>7 DEF IsReport, q

(* The study pane: notes in it are those of the topic, and their visit is    *)
(* recorded, or was before.                                                  *)
StudyDrawn(P, g, h) ==
  /\ IsPage(P, h) /\ Kept(g, h)
  /\ h.mode = g.mode /\ h.item = g.item /\ h.confirm = g.confirm /\ h.card = g.card
  /\ h.draft = g.draft
  /\ HasLesson(g.topic) =>
       /\ h.study = "lesson" /\ h.notes = g.topic.key /\ h.recorded
       /\ h.post = IF g.recorded THEN g.post ELSE LessonCall(g)
  /\ ~HasLesson(g.topic) =>
       /\ h.study \in {"waiting", "write"} /\ h.notes = g.notes /\ h.recorded = g.recorded
       /\ h.post = g.post

(* The study pane is drawn so.                                               *)
LEMMA StudyDrawing ==
  ASSUME NEW P, NEW g, IsPage(P, g), g.topic # None
  PROVE  LET h == RenderStudy(g)
         IN StudyDrawn(P, g, h) /\ h.pane = g.pane /\ h.shown = g.shown /\ h.step = g.step
<1>1. g \in Pages(P) /\ g.topic \in TopicViews(P) /\ g.topic.key \in P
  BY DEF IsPage, Pages, TopicViews
<1>2. CASE HasLesson(g.topic) /\ g.recorded
  <2>. DEFINE h == [g EXCEPT !.study = "lesson", !.notes = g.topic.key]
  <2>1. RenderStudy(g) = h /\ h.recorded = g.recorded
    BY <1>1, <1>2 DEF RenderStudy, RecordStudy, Pages
  <2>2. h \in Pages(P)
    <3>1. [g EXCEPT !.study = "lesson"] \in Pages(P)
      BY <1>1, FieldsOfPages
    <3>. QED  BY <1>1, <3>1, FieldsOfPages
  <2>3. /\ Kept(g, h) /\ h.mode = g.mode /\ h.item = g.item /\ h.confirm = g.confirm
        /\ h.card = g.card /\ h.draft = g.draft /\ h.study = "lesson" /\ h.notes = g.topic.key
        /\ h.recorded /\ h.post = g.post /\ h.pane = g.pane /\ h.shown = g.shown
        /\ h.step = g.step
    BY <1>1, <1>2 DEF Pages, Kept
  <2>. HIDE DEF h
  <2>4. IsPage(P, h)
    BY <2>2, <2>3 DEF IsPage, Kept
  <2>. QED  BY <1>2, <2>1, <2>3, <2>4 DEF StudyDrawn
<1>3. CASE HasLesson(g.topic) /\ ~g.recorded
  <2>. DEFINE h == [g EXCEPT !.study = "lesson", !.notes = g.topic.key, !.recorded = TRUE,
                             !.post = LessonCall(g)]
  <2>0. IsReport(P, LessonCall(g))
    BY <1>3, LessonCallIsReport
  <2>1. RenderStudy(g) = h
    BY <1>1, <1>3 DEF RenderStudy, RecordStudy, Pages, LessonCall
  <2>2. h \in Pages(P)
    <3>1. [g EXCEPT !.study = "lesson"] \in Pages(P)
      BY <1>1, FieldsOfPages
    <3>2. [g EXCEPT !.study = "lesson", !.notes = g.topic.key] \in Pages(P)
      BY <1>1, <3>1, FieldsOfPages
    <3>3. [g EXCEPT !.study = "lesson", !.notes = g.topic.key, !.recorded = TRUE] \in Pages(P)
      BY <3>2, FieldsOfPages
    <3>. QED  BY <2>0, <3>3, FieldsOfPages DEF IsReport
  <2>3. /\ Kept(g, h) /\ h.mode = g.mode /\ h.item = g.item /\ h.confirm = g.confirm
        /\ h.card = g.card /\ h.draft = g.draft /\ h.study = "lesson" /\ h.notes = g.topic.key
        /\ h.recorded /\ h.post = LessonCall(g) /\ h.pane = g.pane /\ h.shown = g.shown
        /\ h.step = g.step
    BY <1>1, <1>3 DEF Pages, Kept
  <2>. HIDE DEF h
  <2>4. IsPage(P, h)
    BY <2>0, <2>2, <2>3, <1>3 DEF IsPage, Kept
  <2>. QED  BY <1>3, <2>1, <2>3, <2>4 DEF StudyDrawn
<1>4. CASE ~HasLesson(g.topic)
  <2>. DEFINE x == IF g.topic.notes = "pending" THEN "waiting" ELSE "write"
              h == [g EXCEPT !.study = x]
  <2>1. RenderStudy(g) = h /\ x \in {"waiting", "write"}
    BY <1>4 DEF RenderStudy
  <2>. HIDE DEF x
  <2>2. h \in Pages(P)
    BY <1>1, <2>1, FieldsOfPages
  <2>3. /\ Kept(g, h) /\ h.mode = g.mode /\ h.item = g.item /\ h.confirm = g.confirm
        /\ h.card = g.card /\ h.draft = g.draft /\ h.study = x /\ h.notes = g.notes
        /\ h.recorded = g.recorded /\ h.post = g.post /\ h.pane = g.pane /\ h.shown = g.shown
        /\ h.step = g.step
    BY <1>1 DEF Pages, Kept
  <2>. HIDE DEF h
  <2>4. IsPage(P, h)
    BY <2>2, <2>3 DEF IsPage, Kept
  <2>. QED  BY <1>4, <2>1, <2>3, <2>4 DEF StudyDrawn
<1>. QED  BY <1>2, <1>3, <1>4

(* The pane of the mode is drawn.                                            *)
PaneDrawn(P, g, h) ==
  /\ g.mode = "study" => StudyDrawn(P, g, h) /\ h.pane = "study"
  /\ g.mode # "study" => PracticeDrawn(P, g, h) /\ h.pane = "practice"

(* So is the pane of the mode.                                               *)
LEMMA ModeDrawing ==
  ASSUME NEW P, NEW g, IsPage(P, g)
  PROVE  LET h == RenderMode(g)
         IN /\ IsPage(P, h) /\ Kept(g, h) /\ h.mode = g.mode /\ h.shown = g.shown /\ h.step = g.step
            /\ g.topic = None => h = g
            /\ g.topic # None => PaneDrawn(P, g, h)
<1>1. CASE g.topic = None
  BY <1>1 DEF RenderMode, Kept
<1>2. CASE g.topic # None /\ g.mode = "study"
  <2>. DEFINE f == [g EXCEPT !.pane = "study"]
              h == RenderStudy(f)
  <2>1. f \in Pages(P)
    BY FieldsOfPages DEF IsPage
  <2>2. /\ Kept(g, f) /\ f.mode = g.mode /\ f.item = g.item /\ f.confirm = g.confirm
        /\ f.card = g.card /\ f.draft = g.draft /\ f.notes = g.notes /\ f.pane = "study"
        /\ f.recorded = g.recorded /\ f.post = g.post /\ f.shown = g.shown /\ f.step = g.step
        /\ LessonCall(f) = LessonCall(g)
    BY DEF IsPage, Pages, Kept, LessonCall
  <2>. HIDE DEF f
  <2>3. IsPage(P, f) /\ f.topic # None
    BY <1>2, <2>1, <2>2 DEF IsPage, Kept
  <2>4. StudyDrawn(P, f, h) /\ h.pane = f.pane /\ h.shown = f.shown /\ h.step = f.step
    BY <2>3, StudyDrawing
  <2>5. RenderMode(g) = h
    BY <1>2 DEF RenderMode, f
  <2>. HIDE DEF h
  <2>6. StudyDrawn(P, g, h)
    BY <2>2, <2>4 DEF StudyDrawn, Kept
  <2>. QED  BY <1>2, <2>2, <2>4, <2>5, <2>6 DEF StudyDrawn, PaneDrawn
<1>3. CASE g.topic # None /\ g.mode # "study"
  <2>. DEFINE f == [g EXCEPT !.pane = "practice"]
              h == RenderPractice(f)
  <2>1. f \in Pages(P)
    BY FieldsOfPages DEF IsPage
  <2>2. /\ Kept(g, f) /\ f.mode = g.mode /\ f.confirm = g.confirm /\ f.recorded = g.recorded
        /\ f.study = g.study /\ f.notes = g.notes /\ f.pane = "practice"
        /\ f.post = g.post /\ f.shown = g.shown /\ f.step = g.step
    BY DEF IsPage, Pages, Kept
  <2>. HIDE DEF f
  <2>3. IsPage(P, f)
    BY <2>1, <2>2 DEF IsPage, Kept
  <2>4. PracticeDrawn(P, f, h) /\ h.pane = f.pane /\ h.shown = f.shown /\ h.step = f.step
    BY <2>3, PracticeDrawing
  <2>5. RenderMode(g) = h
    BY <1>3 DEF RenderMode, f
  <2>. HIDE DEF h
  <2>6. PracticeDrawn(P, g, h)
    BY <2>2, <2>4 DEF PracticeDrawn, Kept
  <2>. QED  BY <1>3, <2>2, <2>4, <2>5, <2>6 DEF PracticeDrawn, PaneDrawn
<1>. QED  BY <1>1, <1>2, <1>3

(* The whole topic is drawn, or an error ends the drawing.                   *)
TopicDrawn(P, g, h) ==
  /\ IsPage(P, h) /\ Kept(g, h) /\ h.mode = g.mode /\ h.shown
  /\ Raises(g) => h = [g EXCEPT !.shown = TRUE]
  /\ ~Raises(g) => PaneDrawn(P, g, h)

(* So is the whole topic.                                                    *)
LEMMA TopicDrawing ==
  ASSUME NEW P, NEW g, IsPage(P, g)
  PROVE  TopicDrawn(P, g, RenderTopic(g))
<1>1. g \in Pages(P)
  BY DEF IsPage
<1>2. CASE Raises(g)
  <2>. DEFINE h == [g EXCEPT !.shown = TRUE]
  <2>1. h \in Pages(P)
    BY <1>1, FieldsOfPages
  <2>2. Kept(g, h) /\ h.mode = g.mode /\ h.shown /\ h.post = g.post
    BY <1>1 DEF Kept, Pages
  <2>3. RenderTopic(g) = h
    BY <1>2 DEF RenderTopic
  <2>4. IsPage(P, h)
    BY <2>1, <2>2 DEF IsPage, Kept
  <2>. QED  BY <1>2, <2>2, <2>3, <2>4 DEF TopicDrawn
<1>3. CASE ~Raises(g)
  <2>. DEFINE f == [g EXCEPT !.shown = TRUE, !.step = g.topic.step]
              h == RenderMode(f)
  <2>1. g.topic # None /\ g.topic \in TopicViews(P) /\ g.topic.step \in StepViews(P) \cup {None}
    BY <1>1, <1>3 DEF Raises, Pages, TopicViews
  <2>2. f \in Pages(P)
    <3>1. [g EXCEPT !.shown = TRUE] \in Pages(P)
      BY <1>1, FieldsOfPages
    <3>. QED  BY <2>1, <3>1, FieldsOfPages
  <2>3. /\ Kept(g, f) /\ f.mode = g.mode /\ f.item = g.item /\ f.confirm = g.confirm
        /\ f.card = g.card /\ f.draft = g.draft /\ f.notes = g.notes /\ f.study = g.study
        /\ f.recorded = g.recorded /\ f.post = g.post /\ f.shown
        /\ LessonCall(f) = LessonCall(g)
    BY <1>1 DEF Pages, Kept, LessonCall
  <2>4. RenderTopic(g) = h
    BY <1>3 DEF RenderTopic
  <2>. HIDE DEF f
  <2>5. IsPage(P, f)
    BY <2>2, <2>3 DEF IsPage, Kept
  <2>6. /\ IsPage(P, h) /\ Kept(f, h) /\ h.mode = f.mode /\ h.shown = f.shown
        /\ f.topic # None => PaneDrawn(P, f, h)
    BY <2>5, ModeDrawing
  <2>7. PaneDrawn(P, f, h) => PaneDrawn(P, g, h)
    <3>. HIDE DEF h
    <3>1. StudyDrawn(P, f, h) => StudyDrawn(P, g, h)
      BY <2>3 DEF StudyDrawn, Kept
    <3>2. PracticeDrawn(P, f, h) => PracticeDrawn(P, g, h)
      BY <2>3 DEF PracticeDrawn, Kept
    <3>. QED  BY <2>3, <3>1, <3>2 DEF PaneDrawn
  <2>8. Kept(g, h) /\ h.mode = g.mode /\ h.shown /\ PaneDrawn(P, g, h)
    <3>. HIDE DEF h
    <3>. QED  BY <2>1, <2>3, <2>6, <2>7 DEF Kept
  <2>. HIDE DEF h
  <2>. QED  BY <1>3, <2>4, <2>6, <2>8 DEF TopicDrawn
<1>. QED  BY <1>2, <1>3

(* A change of the pane: a question in progress stays.                       *)
ModeDrawn(P, g, next, h) ==
  /\ IsPage(P, h) /\ Kept(g, h) /\ h.shown = g.shown
  /\ \/ h = g /\ next = "study" /\ g.mode = "practice" /\ g.item # None
     \/ g.topic # None /\ QuestionInProgress(g) /\ PracticeDrawn(P, [g EXCEPT !.confirm = TRUE], h) /\ h.pane = g.pane
     \/ /\ ~(next = "study" /\ g.mode = "practice" /\ g.item # None /\ g.topic = None)
        /\ ~(next = "study" /\ g.topic # None /\ QuestionInProgress(g))
        /\ LET f == [g EXCEPT !.recorded = (g.recorded /\ next = g.mode), !.mode = next,
                              !.confirm = FALSE]
           IN IF g.topic = None THEN h = f ELSE PaneDrawn(P, f, h)

(* So is a change of the pane.                                               *)
LEMMA SetModeDrawing ==
  ASSUME NEW P, NEW g, IsPage(P, g), NEW next \in {"study", "practice"}
  PROVE  ModeDrawn(P, g, next, SetMode(g, next))
<1>1. g \in Pages(P)
  BY DEF IsPage
<1>. DEFINE stuck == next = "study" /\ g.mode = "practice" /\ g.item # None /\ g.topic = None
            asks  == next = "study" /\ g.topic # None /\ QuestionInProgress(g)
<1>2. CASE stuck
  <2>1. SetMode(g, next) = g
    BY <1>2 DEF SetMode
  <2>. QED  BY <1>2, <2>1 DEF ModeDrawn, Kept
<1>3. CASE asks
  <2>. DEFINE f == [g EXCEPT !.confirm = TRUE]
              h == RenderPractice(f)
  <2>1. f \in Pages(P)
    BY <1>1, FieldsOfPages
  <2>2. Kept(g, f) /\ f.pane = g.pane /\ f.shown = g.shown /\ f.post = g.post
    BY <1>1 DEF Pages, Kept
  <2>3. SetMode(g, next) = h
    BY <1>3 DEF SetMode
  <2>. HIDE DEF f
  <2>4. IsPage(P, f)
    BY <2>1, <2>2 DEF IsPage, Kept
  <2>5. PracticeDrawn(P, f, h) /\ h.pane = f.pane /\ h.shown = f.shown
    BY <2>4, PracticeDrawing
  <2>. HIDE DEF h
  <2>6. IsPage(P, h) /\ Kept(g, h) /\ h.shown = g.shown /\ h.pane = g.pane
    BY <2>2, <2>5 DEF PracticeDrawn, Kept
  <2>. QED  BY <1>3, <2>3, <2>5, <2>6 DEF ModeDrawn, f
<1>4. CASE ~stuck /\ ~asks
  <2>. DEFINE r == (g.recorded /\ next = g.mode)
              f == [g EXCEPT !.recorded = r, !.mode = next, !.confirm = FALSE]
              h == RenderMode(f)
  <2>1. f \in Pages(P)
    <3>0. r \in BOOLEAN
      BY <1>1 DEF Pages
    <3>. HIDE DEF r
    <3>1. [g EXCEPT !.recorded = r] \in Pages(P)
      BY <1>1, <3>0, FieldsOfPages
    <3>2. [g EXCEPT !.recorded = r, !.mode = next] \in Pages(P)
      BY <3>1, FieldsOfPages
    <3>. QED  BY <3>2, FieldsOfPages
  <2>2. Kept(g, f) /\ f.shown = g.shown /\ f.post = g.post
    BY <1>1 DEF Pages, Kept
  <2>3. SetMode(g, next) = h
    BY <1>4 DEF SetMode
  <2>. HIDE DEF f
  <2>4. IsPage(P, f)
    BY <2>1, <2>2 DEF IsPage, Kept
  <2>5. /\ IsPage(P, h) /\ Kept(f, h) /\ h.shown = f.shown
        /\ f.topic = None => h = f
        /\ f.topic # None => PaneDrawn(P, f, h)
    BY <2>4, ModeDrawing
  <2>. HIDE DEF h
  <2>6. Kept(g, h) /\ h.shown = g.shown /\ (g.topic = None => h = f) /\ (g.topic # None => PaneDrawn(P, f, h))
    BY <2>2, <2>5 DEF Kept
  <2>. QED  BY <1>4, <2>3, <2>5, <2>6 DEF ModeDrawn, f
<1>. QED  BY <1>2, <1>3, <1>4

(* What a poll makes of the page: a topic that came is drawn where it was     *)
(* waited for.                                                              *)
PollStored(g, course, fresh) == [g EXCEPT !.course = course, !.topic = fresh, !.step = fresh.step]

PollDrawn(P, g, course, fresh, t, h) ==
  LET f == PollStored(g, course, fresh)
      came == fresh # None /\ g.topic # None /\ g.topic.id = t
      study == g.mode = "study" /\ ~HasLesson(g.topic)
      practice == g.mode = "practice" /\ DOMAIN g.topic.items = {}
  IN /\ IsPage(P, h) /\ h.course = course
     /\ h.mode = g.mode /\ h.feedback = g.feedback /\ h.peeked = g.peeked /\ h.hints = g.hints
     /\ h.shown = g.shown /\ h.pane = g.pane
     /\ ~came => h = [g EXCEPT !.course = course]
     /\ came => h.topic = fresh /\ IsPage(P, f)
     /\ came /\ study => StudyDrawn(P, f, h)
     /\ came /\ ~study /\ practice => PracticeDrawn(P, f, h)
     /\ came /\ ~study /\ ~practice => h = f

(* So is what a poll brings.                                                 *)
LEMMA PollDrawing ==
  ASSUME NEW P, NEW g, IsPage(P, g), NEW course \in CourseViews, course # None,
         NEW fresh \in TopicViews(P) \cup {None}, NEW t
  PROVE  PollDrawn(P, g, course, fresh, t, PollApplied(g, course, fresh, t))
<1>. DEFINE came == fresh # None /\ g.topic # None /\ g.topic.id = t
            study == g.mode = "study" /\ ~HasLesson(g.topic)
            practice == g.mode = "practice" /\ DOMAIN g.topic.items = {}
            h == PollApplied(g, course, fresh, t)
            e == [g EXCEPT !.course = course]
            f == [e EXCEPT !.topic = fresh, !.step = fresh.step]
<1>1. g \in Pages(P)
  BY DEF IsPage
<1>2. e \in Pages(P)
  BY <1>1, FieldsOfPages
<1>3. CASE ~came
  <2>1. h = e
    BY <1>3 DEF PollApplied
  <2>2. /\ e.course = course /\ e.mode = g.mode /\ e.feedback = g.feedback /\ e.peeked = g.peeked
        /\ e.hints = g.hints /\ e.shown = g.shown /\ e.pane = g.pane /\ e.post = g.post
    BY <1>1 DEF Pages
  <2>3. IsPage(P, e)
    BY <1>2, <2>2 DEF IsPage
  <2>. QED  BY <1>3, <2>1, <2>2, <2>3 DEF PollDrawn
<1>4. CASE came
  <2>1. fresh.step \in StepViews(P)
    BY <1>4 DEF TopicViews
  <2>2. f = PollStored(g, course, fresh)
    BY <1>1 DEF PollStored, Pages
  <2>3. f \in Pages(P)
    <3>1. [e EXCEPT !.topic = fresh] \in Pages(P)
      BY <1>2, FieldsOfPages
    <3>. QED  BY <2>1, <3>1, FieldsOfPages
  <2>4. /\ f.course = course /\ f.topic = fresh /\ f.mode = g.mode /\ f.feedback = g.feedback
        /\ f.peeked = g.peeked /\ f.hints = g.hints /\ f.shown = g.shown /\ f.pane = g.pane
        /\ f.post = g.post
    BY <1>1, <1>2 DEF Pages
  <2>5. h = IF study THEN RenderStudy(f) ELSE IF practice THEN RenderPractice(f) ELSE f
    BY <1>4 DEF PollApplied
  <2>. HIDE DEF f
  <2>6. IsPage(P, f) /\ f.topic # None
    BY <1>4, <2>3, <2>4 DEF IsPage
  <2>7. CASE study
    <3>1. h = RenderStudy(f)
      BY <2>5, <2>7
    <3>2. StudyDrawn(P, f, h) /\ h.pane = f.pane /\ h.shown = f.shown
      BY <2>6, <3>1, StudyDrawing
    <3>. HIDE DEF h
    <3>3. /\ IsPage(P, h) /\ h.course = course /\ h.mode = g.mode /\ h.feedback = g.feedback
          /\ h.peeked = g.peeked /\ h.hints = g.hints /\ h.shown = g.shown /\ h.pane = g.pane
          /\ h.topic = fresh
      BY <2>4, <3>2 DEF StudyDrawn, Kept
    <3>4. PollDrawn(P, g, course, fresh, t, h)
      BY <1>4, <2>2, <2>6, <2>7, <3>2, <3>3 DEF PollDrawn
    <3>. QED  BY <3>4 DEF h
  <2>8. CASE ~study /\ practice
    <3>1. h = RenderPractice(f)
      BY <2>5, <2>8
    <3>2. PracticeDrawn(P, f, h) /\ h.pane = f.pane /\ h.shown = f.shown
      BY <2>6, <3>1, PracticeDrawing
    <3>. HIDE DEF h
    <3>3. /\ IsPage(P, h) /\ h.course = course /\ h.mode = g.mode /\ h.feedback = g.feedback
          /\ h.peeked = g.peeked /\ h.hints = g.hints /\ h.shown = g.shown /\ h.pane = g.pane
          /\ h.topic = fresh
      BY <2>4, <3>2 DEF PracticeDrawn, Kept
    <3>4. PollDrawn(P, g, course, fresh, t, h)
      BY <1>4, <2>2, <2>6, <2>8, <3>2, <3>3 DEF PollDrawn
    <3>. QED  BY <3>4 DEF h
  <2>9. CASE ~study /\ ~practice
    <3>1. h = f
      BY <2>5, <2>9
    <3>2. PollDrawn(P, g, course, fresh, t, f)
      BY <1>4, <2>2, <2>4, <2>6, <2>9 DEF PollDrawn
    <3>. QED  BY <3>1, <3>2
  <2>. QED  BY <2>7, <2>8, <2>9
<1>. QED  BY <1>3, <1>4

-----------------------------------------------------------------------------
(* The types.                                                               *)
BackSteps   == {"visit", "visited", "poll", "poll_topic"}
CourseSteps == {"open_course", "add", "build", "acted", "answered", "visited", "poll"}
TopicSteps  == {"open_topic", "act", "answer", "visit", "poll_topic"}

(* Who does what.                                                            *)
Home(th, pc) ==
  /\ th \in Slots => pc \in BackSteps \cup {"idle"}
  /\ th = "load" => pc \in {"idle", "list", "open_course", "open_topic"}
  /\ th = "run" => pc \notin BackSteps

Asks(pc, kind) ==
  \/ pc = kind /\ kind \in {"list", "create", "answer", "hint"}
  \/ pc = "add" /\ kind = "documents"
  \/ pc = "build" /\ kind = "outline"
  \/ pc \in CourseSteps \ {"add", "build"} /\ kind = "course"
  \/ pc \in {"open_topic", "poll_topic"} /\ kind = "topic"
  \/ pc = "visit" /\ kind = "lesson"
  \/ pc = "act" /\ kind \in {"lesson", "questions"}
  \/ pc = "peek" /\ kind = "notes"

WellAsked(d, t) ==
  t.req # None =>
    /\ t.reply = None /\ GoodRequest(d, t.req) /\ Asks(t.pc, t.req.kind)
    /\ t.pc \in {"answer", "hint", "peek"} => t.req.item = t.item
    /\ t.pc = "poll" => t.req.course = t.course

WellAnswered(d, t) ==
  t.reply \notin {None, Failed} =>
    /\ t.pc = "list" => t.reply \in SUBSET Courses
    /\ t.pc = "create" => t.reply \in Courses
    /\ t.pc \in CourseSteps => t.reply \in CourseViews
    /\ t.pc \in TopicSteps => t.reply \in TopicViews(Known(d))
    /\ t.pc = "poll" => t.reply.id = t.course
    /\ t.pc = "build" => t.reply.revision # 0
    /\ t.pc = "peek" => "notes" \in d.helped[t.item]
    /\ t.pc = "hint" => "hint" \in d.helped[t.item]
    /\ t.pc = "answer" => d.tried[t.item] # "new"

WellKept(d, t) ==
  /\ t.pc = "open_topic" => t.topic \in Topics
  /\ t.pc \in {"answer", "hint", "peek"} => t.item \in ItemsOn(Known(d))
  /\ t.pc \in {"poll", "poll_topic"} => t.course \in Courses
  /\ t.pc = "poll_topic" => t.topic \in Topics /\ t.fresh \in CourseViews /\ t.fresh.id = t.course

GoodTask(d, course, th, t) ==
  /\ t \in Tasks(Known(d)) /\ Home(th, t.pc)
  /\ WellAsked(d, t) /\ WellAnswered(d, t) /\ WellKept(d, t)
  /\ t.pc \notin {"idle", "list", "create", "open_course"} => course # None

Places == [course : Courses \cup {None}, topic : Topics \cup {None}, last : Courses \cup {None}]

TypeInv ==
  /\ db \in Databases
  /\ IsPage(Known(db), page) /\ page.post = None
  /\ page.shown => page.course # None
  /\ DOMAIN task = Threads
  /\ \A th \in Threads : GoodTask(db, page.course, th, task[th])
  /\ place \in Places /\ moves \in Nat

(* More courses with a path, more views.                                     *)
LEMMA MoreViews ==
  ASSUME NEW P, NEW Q, P \subseteq Q
  PROVE  /\ ItemsOn(P) \subseteq ItemsOn(Q) /\ TopicViews(P) \subseteq TopicViews(Q)
         /\ Tasks(P) \subseteq Tasks(Q) /\ Pages(P) \subseteq Pages(Q)
<1>1. P \subseteq Q /\ ItemsOn(P) \subseteq ItemsOn(Q)
  BY DEF ItemsOn
<1>2. StepViews(P) \subseteq StepViews(Q)
  BY <1>1 DEF StepViews
<1>3. Marks(P) \subseteq Marks(Q)
  BY <1>1 DEF Marks
<1>4. TopicViews(P) \subseteq TopicViews(Q)
  BY <1>1, <1>2, <1>3 DEF TopicViews
<1>5. Replies(P) \subseteq Replies(Q)
  BY <1>4 DEF Replies
<1>6. RequestsOn(P) \subseteq RequestsOn(Q)
  BY <1>1 DEF RequestsOn
<1>7. Tasks(P) \subseteq Tasks(Q)
  BY <1>1, <1>5, <1>6 DEF Tasks
<1>8. Cards(P) \subseteq Cards(Q)
  BY <1>1 DEF Cards
<1>9. Pages(P) \subseteq Pages(Q)
  BY <1>1, <1>2, <1>4, <1>7, <1>8 DEF Pages
<1>. QED  BY <1>1, <1>4, <1>7, <1>9

(* A view is something, and so are a request and a report.                   *)
LEMMA NoneIsNoView ==
  ASSUME NEW P \in SUBSET Keys
  PROVE  /\ None \notin CourseViews /\ None \notin TopicViews(P)
         /\ None \notin RequestsOn(P) /\ \A t : IsReport(P, t) => t # None
<1>1. TopicViews(P) \subseteq TopicViews(Keys)
  BY MoreViews
<1>. QED  BY <1>1, ServiceAssumption, ClientAssumption DEF RequestsOn, IsReport

(* A page keeps its type as the service goes on.                              *)
LEMMA PageStays ==
  ASSUME NEW P, NEW Q, P \subseteq Q, NEW g, IsPage(P, g)
  PROVE  IsPage(Q, g)
BY MoreViews DEF IsPage, IsReport

(* So does a task, unless it asks for the path that was just built.           *)
LEMMA TaskStays ==
  ASSUME NEW d \in Databases, NEW e \in Databases, Grows(d, e), NEW course, NEW later,
         NEW th, NEW t, GoodTask(d, course, th, t),
         course # None => later # None,
         t.req # None /\ t.req.kind = "outline" => e.revision = d.revision
  PROVE  GoodTask(e, later, th, t)
<1>. DEFINE P == Known(d)
            Q == Known(e)
<1>1. P \subseteq Q /\ ItemsOn(P) \subseteq Items
  BY KnownStays DEF ItemsOn
<1>2. ItemsOn(P) \subseteq ItemsOn(Q) /\ TopicViews(P) \subseteq TopicViews(Q) /\ Tasks(P) \subseteq Tasks(Q)
  BY <1>1, MoreViews
<1>3. WellAsked(e, t)
  BY <1>2 DEF GoodTask, WellAsked, GoodRequest
<1>4. WellKept(e, t)
  BY <1>2 DEF GoodTask, WellKept
<1>5. WellAnswered(e, t)
  <2>1. t.pc \in {"answer", "hint", "peek"} => t.item \in Items
    BY <1>1 DEF GoodTask, WellKept
  <2>2. TopicViews(P) \subseteq TopicViews(Q)
    BY <1>2
  <2>. QED  BY <2>1, <2>2 DEF GoodTask, WellAnswered, Grows
<1>. QED  BY <1>2, <1>3, <1>4, <1>5 DEF GoodTask

(* A report is a task of a background slot.                                  *)
LEMMA ReportIsTask ==
  ASSUME NEW d \in Databases, NEW course, course # None, NEW s \in Slots, NEW t,
         IsReport(Known(d), t)
  PROVE  GoodTask(d, course, s, t)
<1>1. PICK c \in Courses : t.req = Request("lesson", c, t.topic, None, FALSE)
  BY DEF IsReport
<1>2. t \in Tasks(Known(d)) /\ t.pc = "visit" /\ t.reply = None /\ t.topic \in Topics
  BY DEF IsReport
<1>3. s \notin {"run", "load"}
  BY ClientAssumption
<1>4. WellAsked(d, t)
  BY <1>1, <1>2 DEF WellAsked, GoodRequest, Asks, Request
<1>. QED  BY <1>2, <1>3, <1>4 DEF GoodTask, Home, BackSteps, WellAnswered, WellKept

(* The idle task.                                                            *)
LEMMA IdleIsGood ==
  ASSUME NEW d, NEW course, NEW th
  PROVE  GoodTask(d, course, th, Idle)
<1>1. Idle \in Tasks(Known(d)) /\ Idle.pc = "idle" /\ Idle.req = None /\ Idle.reply = None
  BY IdleIsTask
<1>. QED  BY <1>1 DEF GoodTask, Home, BackSteps, WellAsked, WellAnswered, WellKept

(* What Show makes of the page and the tasks.                                *)
SamePage(g, h) ==
  /\ Kept(g, h)
  /\ h.mode = g.mode /\ h.pane = g.pane /\ h.item = g.item /\ h.confirm = g.confirm
  /\ h.recorded = g.recorded /\ h.shown = g.shown /\ h.study = g.study /\ h.notes = g.notes
  /\ h.card = g.card /\ h.step = g.step /\ h.draft = g.draft

(* Show keeps the types of the page and of the tasks.                        *)
LEMMA ShowKeepsTypes ==
  ASSUME db \in Databases, NEW g, IsPage(Known(db), g),
         NEW tasks, DOMAIN tasks = Threads,
         \A th \in Threads : GoodTask(db, g.course, th, tasks[th]),
         Show(g, tasks)
  PROVE  /\ IsPage(Known(db), page') /\ page'.post = None /\ SamePage(g, page')
         /\ DOMAIN task' = Threads
         /\ \A th \in Threads : GoodTask(db, page'.course, th, task'[th])
         /\ \A th \in Threads : th \notin Slots \/ tasks[th].pc # "idle" => task'[th] = tasks[th]
<1>. DEFINE P == Known(db)
<1>1. g \in Pages(P) /\ page' = [g EXCEPT !.post = None]
  BY DEF IsPage, Show
<1>2. page' \in Pages(P)
  BY <1>1, FieldsOfPages
<1>3. page'.post = None /\ SamePage(g, page')
  BY <1>1 DEF Pages, SamePage, Kept
<1>4. IsPage(P, page')
  BY <1>2, <1>3 DEF IsPage, SamePage, Kept
<1>5. page'.course = g.course
  BY <1>3 DEF SamePage, Kept
<1>6. CASE g.post = None
  <2>1. task' = tasks
    BY <1>6 DEF Show
  <2>. QED  BY <1>3, <1>4, <1>5, <2>1
<1>7. CASE g.post # None
  <2>. DEFINE free == {s \in Slots : tasks[s].pc = "idle"}
              s == CHOOSE r \in free : TRUE
  <2>1. free # {} /\ task' = [tasks EXCEPT ![s] = g.post]
    BY <1>7 DEF Show
  <2>2. s \in free
    BY <2>1
  <2>. HIDE DEF s
  <2>3. s \in Slots /\ s \in Threads /\ tasks[s].pc = "idle"
    BY <2>2 DEF Threads
  <2>4. GoodTask(db, g.course, s, g.post)
    BY <1>7, <2>3, ReportIsTask DEF IsPage
  <2>. QED  BY <1>3, <1>4, <1>5, <2>1, <2>3, <2>4
<1>. QED  BY <1>6, <1>7

(* The four ways a handler ends: it asks the service at once, or goes on      *)
(* asking, or is over, or asks nothing.                                     *)
LEMMA BeginKeepsTypes ==
  ASSUME TypeInv, NEW g, IsPage(Known(db), g), g.post = None, g.course = page.course,
         g.shown => g.course # None,
         NEW call, GoodTask(db, page.course, "run", call), Begin(g, call)
  PROVE  TypeInv'
<1>1. /\ page' = g /\ task' = [task EXCEPT !["run"] = call] /\ db' = db /\ place' = place
      /\ moves' = moves - 1 /\ moves > 0
  BY DEF Begin
<1>2. moves' \in Nat
  BY <1>1 DEF TypeInv
<1>3. \A th \in Threads : GoodTask(db, page.course, th, task'[th])
  BY <1>1 DEF TypeInv, Threads
<1>4. DOMAIN task' = Threads
  BY <1>1 DEF TypeInv
<1>. QED  BY <1>1, <1>2, <1>3, <1>4 DEF TypeInv

(* It goes on asking.                                                        *)
LEMMA ContinueKeepsTypes ==
  ASSUME TypeInv, NEW g, IsPage(Known(db), g),
         page.course # None \/ g.shown => g.course # None,
         NEW th \in Threads, NEW call, GoodTask(db, g.course, th, call),
         Continue(th, g, call), place' \in Places
  PROVE  TypeInv'
<1>. DEFINE tasks == [task EXCEPT ![th] = call]
<1>1. Show(g, tasks) /\ db' = db /\ moves' = moves
  BY DEF Continue
<1>2. DOMAIN tasks = Threads
  BY DEF TypeInv
<1>3. \A r \in Threads : GoodTask(db, g.course, r, task[r])
  BY DEF TypeInv, GoodTask
<1>4. \A r \in Threads : GoodTask(db, g.course, r, tasks[r])
  BY <1>3 DEF TypeInv
<1>. HIDE DEF tasks
<1>5. db \in Databases
  BY DEF TypeInv
<1>6. /\ IsPage(Known(db), page') /\ page'.post = None /\ DOMAIN task' = Threads
      /\ \A r \in Threads : GoodTask(db, page'.course, r, task'[r])
      /\ SamePage(g, page')
  BY <1>1, <1>2, <1>4, <1>5, ShowKeepsTypes
<1>. QED  BY <1>1, <1>5, <1>6 DEF TypeInv, SamePage, Kept

(* It is over.                                                               *)
LEMMA FinishKeepsTypes ==
  ASSUME TypeInv, NEW g, IsPage(Known(db), g),
         page.course # None \/ g.shown => g.course # None,
         NEW th \in Threads, Finish(th, g), place' \in Places
  PROVE  TypeInv'
<1>. DEFINE tasks == [task EXCEPT ![th] = Idle]
<1>1. Show(g, tasks) /\ db' = db /\ moves' = moves
  BY DEF Finish
<1>2. DOMAIN tasks = Threads
  BY DEF TypeInv
<1>3. \A r \in Threads : GoodTask(db, g.course, r, task[r])
  BY DEF TypeInv, GoodTask
<1>4. \A r \in Threads : GoodTask(db, g.course, r, tasks[r])
  BY <1>3, IdleIsGood DEF TypeInv
<1>. HIDE DEF tasks
<1>5. db \in Databases
  BY DEF TypeInv
<1>6. /\ IsPage(Known(db), page') /\ page'.post = None /\ DOMAIN task' = Threads
      /\ \A r \in Threads : GoodTask(db, page'.course, r, task'[r])
      /\ SamePage(g, page')
  BY <1>1, <1>2, <1>4, <1>5, ShowKeepsTypes
<1>. QED  BY <1>1, <1>5, <1>6 DEF TypeInv, SamePage, Kept

(* It asks nothing.                                                          *)
LEMMA ClickKeepsTypes ==
  ASSUME TypeInv, NEW g, IsPage(Known(db), g), g.course = page.course,
         g.shown => g.course # None, Click(g)
  PROVE  TypeInv'
<1>1. Show(g, task) /\ db' = db /\ moves' = moves - 1 /\ moves > 0 /\ place' = place
  BY DEF Click
<1>2. moves' \in Nat /\ db \in Databases
  BY <1>1 DEF TypeInv
<1>3. /\ IsPage(Known(db), page') /\ page'.post = None /\ DOMAIN task' = Threads
      /\ \A r \in Threads : GoodTask(db, page'.course, r, task'[r])
      /\ SamePage(g, page')
  BY <1>1, <1>2, ShowKeepsTypes DEF TypeInv
<1>. QED  BY <1>1, <1>2, <1>3 DEF TypeInv, SamePage, Kept

(* The requests of the page.                                                *)
LEMMA CourseCallIsGood ==
  ASSUME NEW d, NEW course, NEW th, NEW c \in Courses,
         NEW pc \in CourseSteps \ {"add", "build", "poll"}, Home(th, pc),
         pc # "open_course" => course # None
  PROVE  /\ GoodTask(d, course, th, CourseCall(pc, c))
         /\ \A t \in Topics \cup {None} :
              GoodTask(d, course, th, [CourseCall(pc, c) EXCEPT !.topic = t])
         /\ \A f \in BOOLEAN : GoodTask(d, course, th, [CourseCall(pc, c) EXCEPT !.flag = f])
<1>. DEFINE q == Request("course", c, None, None, FALSE)
            a == CourseCall(pc, c)
            P == Known(d)
            Good(x) == x \in Tasks(P) /\ x.pc = pc /\ x.req = q /\ x.reply = None
<1>1. a = Call(pc, q)
  BY DEF CourseCall
<1>2. q \in RequestsOn(P) \cup {None} /\ GoodRequest(d, q) /\ q.kind = "course"
  BY DEF Request, RequestsOn, Requests, GoodRequest
<1>3. pc \in Steps
  BY DEF Steps, CourseSteps
<1>. HIDE DEF q, a
<1>4. Good(a)
  BY <1>1, <1>2, <1>3, CallIsTask, CallFields
<1>5. \A t \in Topics \cup {None} : Good([a EXCEPT !.topic = t])
  BY <1>4, FieldsOfTasks DEF Tasks
<1>6. \A f \in BOOLEAN : Good([a EXCEPT !.flag = f])
  BY <1>4, FieldsOfTasks DEF Tasks
<1>7. \A x : Good(x) => GoodTask(d, course, th, x)
  BY <1>2 DEF GoodTask, WellAsked, WellAnswered, WellKept, Asks, CourseSteps
<1>. HIDE DEF Good
<1>. QED  BY <1>4, <1>5, <1>6, <1>7 DEF a

(* Any other call is good if it asks for what exists and keeps what it needs. *)
LEMMA CallIsGood ==
  ASSUME NEW d, NEW course, course # None, NEW th, NEW x \in Tasks(Known(d)),
         GoodRequest(d, x.req), Asks(x.pc, x.req.kind), Home(th, x.pc), x.reply = None,
         x.pc \in {"answer", "hint", "peek"} => x.req.item = x.item,
         x.pc = "poll" => x.req.course = x.course, WellKept(d, x)
  PROVE  GoodTask(d, course, th, x)
BY DEF GoodTask, WellAsked, WellAnswered

(* A topic is opened.                                                       *)
LEMMA TopicCallIsGood ==
  ASSUME NEW d, NEW course, course # None, NEW th \in {"run", "load"},
         NEW c \in Courses, NEW t \in Topics
  PROVE  GoodTask(d, course, th, TopicCall(c, t))
<1>. DEFINE P == Known(d)
            q == Request("topic", c, t, None, FALSE)
            a == Call("open_topic", q)
            x == TopicCall(c, t)
<1>1. q \in RequestsOn(P) \cup {None} /\ GoodRequest(d, q) /\ q.kind = "topic"
  BY DEF Request, RequestsOn, Requests, GoodRequest
<1>2. x = [a EXCEPT !.course = c, !.topic = t]
  BY DEF TopicCall
<1>. HIDE DEF q, x
<1>3. a \in Tasks(P) /\ a.pc = "open_topic" /\ a.req = q /\ a.reply = None
  BY <1>1, CallIsTask, CallFields DEF Steps
<1>. HIDE DEF a
<1>4. x \in Tasks(P)
  <2>1. [a EXCEPT !.course = c] \in Tasks(P)
    BY <1>3, FieldsOfTasks
  <2>. QED  BY <1>2, <2>1, FieldsOfTasks
<1>5. x.pc = "open_topic" /\ x.req = q /\ x.reply = None /\ x.topic = t
  BY <1>2, <1>3 DEF Tasks
<1>6. th \notin Slots
  BY ClientAssumption
<1>7. GoodTask(d, course, th, x)
  BY <1>1, <1>4, <1>5, <1>6, CallIsGood DEF Asks, Home, BackSteps, WellKept
<1>. QED  BY <1>7 DEF x

(* Notes or questions are written.                                          *)
LEMMA ActCallIsGood ==
  ASSUME NEW d, NEW course, course # None, NEW kind \in {"lesson", "questions"},
         NEW c \in Courses, NEW t \in Topics, NEW full \in BOOLEAN
  PROVE  LET a == Call("act", Request(kind, c, t, None, full))
         IN GoodTask(d, course, "run", a) /\ GoodTask(d, course, "run", [a EXCEPT !.flag = TRUE])
<1>. DEFINE P == Known(d)
            q == Request(kind, c, t, None, full)
            a == Call("act", q)
            Good(x) == x \in Tasks(P) /\ x.pc = "act" /\ x.req = q /\ x.reply = None
<1>1. q \in RequestsOn(P) \cup {None} /\ GoodRequest(d, q) /\ q.kind = kind
  BY DEF Request, RequestsOn, Requests, GoodRequest
<1>. HIDE DEF q
<1>2. Good(a)
  BY <1>1, CallIsTask, CallFields DEF Steps
<1>. HIDE DEF a
<1>3. \A f \in BOOLEAN : Good([a EXCEPT !.flag = f])
  BY <1>2, FieldsOfTasks DEF Tasks
<1>4. "run" \notin Slots
  BY ClientAssumption
<1>5. \A x : Good(x) => GoodTask(d, course, "run", x)
  BY <1>1, <1>4, CallIsGood DEF Asks, Home, BackSteps, WellKept
<1>. HIDE DEF Good
<1>6. GoodTask(d, course, "run", a) /\ GoodTask(d, course, "run", [a EXCEPT !.flag = TRUE])
  BY <1>2, <1>3, <1>5
<1>. QED  BY <1>6 DEF a, q

(* The question on the screen is answered, or help is asked for.             *)
LEMMA QuestionCallIsGood ==
  ASSUME NEW d, NEW course, course # None, page.card.item \in ItemsOn(Known(d)),
         NEW pc \in {"answer", "hint", "peek"}, NEW kind, Asks(pc, kind), NEW full \in BOOLEAN
  PROVE  /\ GoodTask(d, course, "run", QuestionCall(pc, kind, full))
         /\ \A f \in BOOLEAN :
              GoodTask(d, course, "run", [QuestionCall(pc, kind, full) EXCEPT !.flag = f])
<1>. DEFINE P == Known(d)
            i == page.card.item
            q == Request(kind, None, None, i, full)
            a == Call(pc, q)
            b == QuestionCall(pc, kind, full)
            Good(x) == /\ x \in Tasks(P) /\ x.pc = pc /\ x.req = q /\ x.reply = None
                       /\ x.item = i
<1>1. kind \in {"answer", "hint", "notes"}
  BY DEF Asks, CourseSteps
<1>2. q \in RequestsOn(P) \cup {None} /\ GoodRequest(d, q) /\ q.kind = kind /\ q.item = i
  BY <1>1 DEF Request, RequestsOn, Requests, GoodRequest, ItemsOn
<1>3. b = [a EXCEPT !.item = i]
  BY DEF QuestionCall
<1>. HIDE DEF q, i, b
<1>4. a \in Tasks(P) /\ a.pc = pc /\ a.req = q /\ a.reply = None
  BY <1>2, CallIsTask, CallFields DEF Steps
<1>. HIDE DEF a
<1>5. i \in ItemsOn(P) \cup {None}
  BY DEF i
<1>6. Good(b)
  BY <1>3, <1>4, <1>5, FieldsOfTasks DEF Tasks
<1>7. \A f \in BOOLEAN : Good([b EXCEPT !.flag = f])
  BY <1>6, FieldsOfTasks DEF Tasks
<1>8. "run" \notin Slots
  BY ClientAssumption
<1>9. i \in ItemsOn(P)
  BY DEF i
<1>10. \A x : Good(x) => GoodTask(d, course, "run", x)
  BY <1>2, <1>8, <1>9, CallIsGood DEF Home, BackSteps, WellKept
<1>. HIDE DEF Good
<1>. QED  BY <1>6, <1>7, <1>10 DEF b

(* The list of courses is read, for the loading of the page or a new course.  *)
LEMMA LoadingIsGood ==
  ASSUME NEW d, NEW course, NEW th \in {"run", "load"}, NEW where \in Places
  PROVE  /\ GoodTask(d, course, th, Loading(where))
         /\ \A c \in Courses : GoodTask(d, course, th, [Loading(where) EXCEPT !.course = c])
<1>. DEFINE P == Known(d)
            q == Request("list", None, None, None, FALSE)
            a == Call("list", q)
            b == IF where.course # None THEN where.course ELSE where.last
            x == Loading(where)
            Good(y) == y \in Tasks(P) /\ y.pc = "list" /\ y.req = q /\ y.reply = None
<1>1. q \in RequestsOn(P) \cup {None} /\ GoodRequest(d, q) /\ q.kind = "list"
  BY DEF Request, RequestsOn, Requests, GoodRequest
<1>2. x = [a EXCEPT !.course = b, !.topic = where.topic]
  BY DEF Loading
<1>3. b \in Courses \cup {None} /\ where.topic \in Topics \cup {None}
  BY DEF Places
<1>. HIDE DEF q, x, b
<1>4. Good(a)
  BY <1>1, CallIsTask, CallFields DEF Steps
<1>. HIDE DEF a
<1>5. Good(x)
  <2>1. [a EXCEPT !.course = b] \in Tasks(P)
    BY <1>3, <1>4, FieldsOfTasks
  <2>2. x \in Tasks(P)
    BY <1>2, <1>3, <2>1, FieldsOfTasks
  <2>. QED  BY <1>2, <1>4, <2>2 DEF Tasks
<1>6. \A c \in Courses : Good([x EXCEPT !.course = c])
  BY <1>5, FieldsOfTasks DEF Tasks
<1>7. th \notin Slots
  BY ClientAssumption
<1>8. \A y : Good(y) => GoodTask(d, course, th, y)
  BY <1>1, <1>7 DEF GoodTask, WellAsked, WellAnswered, WellKept, Asks, Home, BackSteps,
                    CourseSteps, TopicSteps
<1>. HIDE DEF Good
<1>. QED  BY <1>5, <1>6, <1>8 DEF x

(* The page of a state.                                                     *)
LEMMA PageFacts ==
  ASSUME TypeInv
  PROVE  /\ page \in Pages(Known(db)) /\ IsPage(Known(db), page) /\ page.post = None
         /\ page.course # None => page.course.id \in Courses
         /\ page.topic # None => page.course # None /\ page.topic.id \in Topics
         /\ page.step # None => page.step \in StepViews(Known(db))
         /\ page.card.kind = "question" => page.card.item \in ItemsOn(Known(db))
         /\ page.draft \in BOOLEAN /\ page.options \subseteq Courses
BY DEF TypeInv, IsPage, Pages, CourseViews, TopicViews, Cards

(* The student's actions that ask the service.                              *)
LEMMA RequestsKeepTypes ==
  ASSUME TypeInv,
         \/ \E c \in Courses : SelectCourse(c)
         \/ CreateCourse \/ AddDocument \/ BuildPath
         \/ \E t \in Topics : OpenTopic(t)
         \/ WriteNotes \/ (\E more \in BOOLEAN : WriteQuestions(more)) \/ Submit \/ AskHint
         \/ \E b \in BOOLEAN : PeekNotes(b)
  PROVE  TypeInv'
<1>. DEFINE P == Known(db)
            Begins == \E call : GoodTask(db, page.course, "run", call) /\ Begin(page, call)
<1>0. "run" \notin Slots
  BY ClientAssumption
<1>1. Begins => TypeInv'
  BY BeginKeepsTypes, PageFacts DEF TypeInv
<1>2. ASSUME NEW c \in Courses, SelectCourse(c) PROVE Begins
  <2>1. GoodTask(db, page.course, "run", CourseCall("open_course", c))
    BY <1>0, CourseCallIsGood DEF CourseSteps, Home, BackSteps
  <2>. QED  BY <1>2, <2>1 DEF SelectCourse
<1>3. ASSUME CreateCourse PROVE Begins
  <2>. DEFINE q == Request("create", None, None, None, FALSE)
              a == Call("create", q)
  <2>1. q \in RequestsOn(P) \cup {None} /\ GoodRequest(db, q) /\ q.kind = "create"
    BY DEF Request, RequestsOn, Requests, GoodRequest
  <2>. HIDE DEF q
  <2>2. a \in Tasks(P) /\ a.pc = "create" /\ a.req = q /\ a.reply = None
    BY <2>1, CallIsTask, CallFields DEF Steps
  <2>. HIDE DEF a
  <2>3. GoodTask(db, page.course, "run", a)
    BY <1>0, <2>1, <2>2 DEF GoodTask, WellAsked, WellAnswered, WellKept, Asks, Home, BackSteps
  <2>. QED  BY <1>3, <2>3 DEF CreateCourse, a, q
<1>4. ASSUME AddDocument \/ BuildPath PROVE Begins
  <2>. DEFINE pc == IF AddDocument THEN "add" ELSE "build"
              kind == IF AddDocument THEN "documents" ELSE "outline"
              q == Request(kind, page.course.id, None, None, FALSE)
              a == Call(pc, q)
  <2>1. page.course # None /\ page.course.id \in Courses
    BY <1>4, PageFacts DEF AddDocument, BuildPath
  <2>2. kind = "outline" => db.revision[page.course.id] < MaxRevision
    BY <1>4 DEF BuildPath
  <2>3. q \in RequestsOn(P) \cup {None} /\ GoodRequest(db, q) /\ q.kind = kind
    BY <2>1, <2>2 DEF Request, RequestsOn, Requests, GoodRequest
  <2>4. Begin(page, a)
    BY <1>4 DEF AddDocument, BuildPath
  <2>5. pc \in Steps /\ pc \in {"add", "build"} /\ Asks(pc, kind)
    BY DEF Steps, Asks
  <2>. HIDE DEF q, pc, kind
  <2>6. a \in Tasks(P) /\ a.pc = pc /\ a.req = q /\ a.reply = None
    BY <2>3, <2>5, CallIsTask, CallFields
  <2>. HIDE DEF a
  <2>7. GoodTask(db, page.course, "run", a)
    BY <1>0, <2>1, <2>3, <2>5, <2>6, CallIsGood DEF WellKept, Home, BackSteps
  <2>. QED  BY <2>4, <2>7
<1>5. ASSUME NEW t \in Topics, OpenTopic(t) PROVE Begins
  <2>1. page.course # None /\ page.course.id \in Courses
    BY <1>5, PageFacts DEF OpenTopic
  <2>2. GoodTask(db, page.course, "run", TopicCall(page.course.id, t))
    BY <2>1, TopicCallIsGood
  <2>. QED  BY <1>5, <2>2 DEF OpenTopic
<1>6. ASSUME NEW more \in BOOLEAN, WriteQuestions(more) PROVE Begins
  <2>2. page.course # None /\ page.course.id \in Courses /\ page.topic.id \in Topics
    BY <1>6, PageFacts DEF WriteQuestions
  <2>3. GoodTask(db, page.course, "run", [Call("act", TopicRequest("questions", more)) EXCEPT !.flag = TRUE])
    BY <2>2, ActCallIsGood DEF TopicRequest
  <2>. QED  BY <1>6, <2>3 DEF WriteQuestions
<1>7. ASSUME Submit PROVE Begins
  <2>1. page.course # None /\ page.card.item \in ItemsOn(P) /\ page.draft \in BOOLEAN
    BY <1>7, PageFacts DEF Submit, Open, OnScreen, TypeInv
  <2>2. GoodTask(db, page.course, "run", QuestionCall("answer", "answer", page.draft))
    BY <2>1, QuestionCallIsGood DEF Asks
  <2>. QED  BY <1>7, <2>2 DEF Submit
<1>8. ASSUME AskHint PROVE Begins
  <2>1. page.course # None /\ page.card.item \in ItemsOn(P)
    BY <1>8, PageFacts DEF AskHint, Open, OnScreen, TypeInv
  <2>2. GoodTask(db, page.course, "run", QuestionCall("hint", "hint", FALSE))
    BY <2>1, QuestionCallIsGood DEF Asks
  <2>. QED  BY <1>8, <2>2 DEF AskHint
<1>9. ASSUME NEW b \in BOOLEAN, PeekNotes(b) PROVE Begins
  <2>1. page.course # None /\ page.card.item \in ItemsOn(P)
    BY <1>9, PageFacts DEF PeekNotes, Open, OnScreen, TypeInv
  <2>2. GoodTask(db, page.course, "run", [QuestionCall("peek", "notes", FALSE) EXCEPT !.flag = b])
    BY <2>1, QuestionCallIsGood DEF Asks
  <2>. QED  BY <1>9, <2>2 DEF PeekNotes
<1>10. ASSUME WriteNotes PROVE TypeInv'
  <2>. DEFINE g == [page EXCEPT !.recorded = TRUE]
              a == Call("act", TopicRequest("lesson", FALSE))
  <2>1. page.course # None /\ page.course.id \in Courses /\ page.topic.id \in Topics
    BY <1>10, PageFacts DEF WriteNotes
  <2>2. GoodTask(db, page.course, "run", a)
    BY <2>1, ActCallIsGood DEF TopicRequest
  <2>3. g \in Pages(P)
    BY PageFacts, FieldsOfPages
  <2>4. g.course = page.course /\ g.topic = page.topic /\ g.post = page.post /\ g.shown = page.shown
    BY PageFacts DEF Pages
  <2>5. Begin(g, a)
    BY <1>10 DEF WriteNotes
  <2>. HIDE DEF g, a
  <2>6. IsPage(P, g) /\ g.post = None
    BY <2>3, <2>4, PageFacts DEF IsPage
  <2>. QED  BY <2>1, <2>2, <2>4, <2>5, <2>6, BeginKeepsTypes
<1>. HIDE DEF Begins
<1>. QED  BY <1>1, <1>2, <1>3, <1>4, <1>5, <1>6, <1>7, <1>8, <1>9, <1>10

(* The question of the next step is put first, and the practice pane drawn.   *)
AtQuestion(g) == SetMode([g EXCEPT !.item = g.step.item], "practice")

(* The page before and after the mode of the question is set.                *)
LEMMA AtQuestionDrawing ==
  ASSUME NEW P, NEW g, IsPage(P, g), g.step # None, g.step \in StepViews(P)
  PROVE  LET f == [g EXCEPT !.item = g.step.item]
             h == AtQuestion(g)
         IN /\ IsPage(P, f) /\ Kept(g, f) /\ f.mode = g.mode /\ f.pane = g.pane
            /\ f.shown = g.shown /\ f.item = g.step.item /\ f.confirm = g.confirm
            /\ f.card = g.card /\ f.study = g.study /\ f.notes = g.notes /\ f.recorded = g.recorded
            /\ f.post = g.post
            /\ ModeDrawn(P, f, "practice", h)
            /\ IsPage(P, h) /\ Kept(g, h) /\ h.shown = g.shown
<1>. DEFINE f == [g EXCEPT !.item = g.step.item]
            h == AtQuestion(g)
<1>1. g \in Pages(P) /\ g.step.item \in ItemsOn(P) \cup {None}
  BY DEF IsPage, StepViews
<1>2. f \in Pages(P)
  BY <1>1, FieldsOfPages
<1>3. /\ Kept(g, f) /\ f.mode = g.mode /\ f.pane = g.pane /\ f.shown = g.shown
      /\ f.item = g.step.item /\ f.confirm = g.confirm /\ f.card = g.card /\ f.study = g.study
      /\ f.notes = g.notes /\ f.recorded = g.recorded /\ f.post = g.post
  BY <1>1 DEF Pages, Kept
<1>4. h = SetMode(f, "practice")
  BY DEF AtQuestion
<1>. HIDE DEF f, h
<1>5. IsPage(P, f)
  BY <1>2, <1>3 DEF IsPage, Kept
<1>6. ModeDrawn(P, f, "practice", h)
  BY <1>4, <1>5, SetModeDrawing
<1>7. IsPage(P, h) /\ Kept(g, h) /\ h.shown = g.shown
  BY <1>3, <1>6 DEF ModeDrawn, Kept
<1>. QED  BY <1>3, <1>5, <1>6, <1>7 DEF f, h

(* The student's actions that ask nothing.                                  *)
LEMMA ClicksKeepTypes ==
  ASSUME TypeInv,
         DoThisNow \/ (\E m \in {"study", "practice"} : Tab(m)) \/ KeepPracticing
         \/ NextQuestion \/ Type
  PROVE  TypeInv'
<1>. DEFINE P == Known(db)
            Fine(g) == IsPage(P, g) /\ Kept(page, g) /\ g.shown = page.shown
<1>0. IsPage(P, page) /\ page \in Pages(P) /\ page.post = None
  BY PageFacts
<1>1. \A g : Fine(g) /\ Click(g) => TypeInv'
  <2>1. SUFFICES ASSUME NEW g, Fine(g), Click(g) PROVE TypeInv'
    OBVIOUS
  <2>2. g.course = page.course /\ (g.shown => g.course # None)
    BY <2>1 DEF Kept, TypeInv
  <2>. QED  BY <2>1, <2>2, ClickKeepsTypes
<1>2. \A next \in {"study", "practice"} : Fine(SetMode(page, next))
  BY <1>0, SetModeDrawing DEF ModeDrawn
<1>3. \A g : Fine(g) => Fine(RenderPractice(g))
  <2>1. SUFFICES ASSUME NEW g, Fine(g) PROVE Fine(RenderPractice(g))
    OBVIOUS
  <2>2. PracticeDrawn(P, g, RenderPractice(g)) /\ RenderPractice(g).shown = g.shown
    BY <2>1, PracticeDrawing
  <2>. QED  BY <2>1, <2>2 DEF PracticeDrawn, Kept
<1>4. ASSUME DoThisNow PROVE TypeInv'
  <2>1. page.step # None /\ page.step \in StepViews(P)
    BY <1>4, PageFacts DEF DoThisNow
  <2>2. \/ OpenTopic(page.step.topic)
        \/ Click(SetMode(page, "study"))
        \/ WriteQuestions(TRUE)
        \/ LET g == AtQuestion(page) IN Click(IF g.topic = None THEN g ELSE RenderPractice(g))
    BY <1>4, <2>1 DEF DoThisNow, AtQuestion
  <2>3. page.step.topic \in Topics
    BY <2>1 DEF StepViews
  <2>4. CASE OpenTopic(page.step.topic)
    BY <2>3, <2>4, RequestsKeepTypes
  <2>5. CASE Click(SetMode(page, "study"))
    BY <1>1, <1>2, <2>5
  <2>6. CASE WriteQuestions(TRUE)
    BY <2>6, RequestsKeepTypes
  <2>7. Fine(AtQuestion(page))
    BY <1>0, <2>1, AtQuestionDrawing
  <2>8. Fine(RenderPractice(AtQuestion(page)))
    BY <1>3, <2>7
  <2>. HIDE DEF Fine
  <2>. QED  BY <1>1, <2>2, <2>4, <2>5, <2>6, <2>7, <2>8
<1>5. ASSUME NEW m \in {"study", "practice"}, Tab(m) PROVE TypeInv'
  BY <1>1, <1>2, <1>5 DEF Tab
<1>6. ASSUME KeepPracticing PROVE TypeInv'
  <2>. DEFINE g == [page EXCEPT !.confirm = FALSE]
  <2>1. g \in Pages(P)
    BY <1>0, FieldsOfPages
  <2>2. Kept(page, g) /\ g.shown = page.shown /\ g.post = page.post
    BY <1>0 DEF Pages, Kept
  <2>3. Click(RenderPractice(g))
    BY <1>6 DEF KeepPracticing
  <2>. HIDE DEF g
  <2>4. Fine(g)
    BY <1>0, <2>1, <2>2 DEF IsPage, Kept
  <2>. HIDE DEF Fine
  <2>. QED  BY <1>1, <1>3, <2>3, <2>4
<1>7. ASSUME NextQuestion PROVE TypeInv'
  <2>. DEFINE x == page.card.next
              g == [page EXCEPT !.item = x, !.feedback = None]
  <2>1. x \in ItemsOn(P) \cup {None}
    BY <1>0 DEF Pages, Cards
  <2>2. g \in Pages(P)
    <3>1. [page EXCEPT !.item = x] \in Pages(P)
      BY <1>0, <2>1, FieldsOfPages
    <3>. QED  BY <3>1, FieldsOfPages
  <2>3. /\ g.course = page.course /\ g.topic = page.topic /\ g.shown = page.shown
        /\ g.post = page.post
    BY <1>0 DEF Pages
  <2>4. Click(RenderPractice(g))
    BY <1>7 DEF NextQuestion
  <2>. HIDE DEF g
  <2>5. IsPage(P, g)
    BY <1>0, <2>2, <2>3 DEF IsPage
  <2>6. PracticeDrawn(P, g, RenderPractice(g)) /\ RenderPractice(g).shown = g.shown
    BY <2>5, PracticeDrawing
  <2>. DEFINE h == RenderPractice(g)
  <2>7. h.course = page.course /\ (h.shown => h.course # None) /\ IsPage(P, h)
    BY <2>3, <2>6 DEF PracticeDrawn, Kept, TypeInv
  <2>. QED  BY <2>4, <2>7, ClickKeepsTypes
<1>8. ASSUME Type PROVE TypeInv'
  <2>. DEFINE g == [page EXCEPT !.draft = TRUE]
  <2>1. g \in Pages(P)
    BY <1>0, FieldsOfPages
  <2>2. Kept(page, g) /\ g.shown = page.shown /\ g.post = page.post
    BY <1>0 DEF Pages, Kept
  <2>3. page' = g /\ UNCHANGED <<db, task, place, moves>>
    BY <1>8 DEF Type
  <2>. HIDE DEF g
  <2>4. IsPage(P, g)
    BY <1>0, <2>1, <2>2 DEF IsPage, Kept
  <2>. QED  BY <1>0, <2>2, <2>3, <2>4 DEF TypeInv, Kept
<1>. QED  BY <1>4, <1>5, <1>6, <1>7, <1>8

(* An address without a course.                                             *)
LEMMA NowhereIsPlace == Nowhere \in Places
BY DEF Nowhere, Places

(* The page is loaded for the first time.                                   *)
LEMMA InitIsTyped ==
  ASSUME Init
  PROVE  TypeInv
<1>0. /\ db \in Databases /\ moves \in Nat /\ page = Blank /\ place = Nowhere /\ place \in Places
      /\ task = [th \in Threads |-> IF th = "load" THEN Loading(place) ELSE Idle]
  BY ClientAssumption, NowhereIsPlace DEF Init
<1>1. Card("none") \in Cards(Known(db))
  BY DEF Card, Cards
<1>2. Blank \in Pages(Known(db)) /\ Blank.topic = None /\ Blank.post = None /\ ~Blank.shown
      /\ Blank.course = None
  BY <1>1 DEF Blank, Pages
<1>3. IsPage(Known(db), Blank)
  BY <1>2 DEF IsPage
<1>4. DOMAIN task = Threads /\ "load" \in Threads
  BY <1>0 DEF Threads
<1>5. \A th \in Threads : GoodTask(db, Blank.course, th, task[th])
  BY <1>0, IdleIsGood, LoadingIsGood
<1>. QED  BY <1>0, <1>2, <1>3, <1>4, <1>5 DEF TypeInv

(* The page is loaded again.                                                *)
LEMMA BlankKeepsTypes ==
  ASSUME db' \in Databases, NEW where \in Places, place' \in Places, moves' \in Nat, page' = Blank,
         task' = [th \in Threads |-> IF th = "load" THEN Loading(where) ELSE Idle]
  PROVE  TypeInv'
<1>1. Card("none") \in Cards(Known(db'))
  BY DEF Card, Cards
<1>2. Blank \in Pages(Known(db')) /\ Blank.topic = None /\ Blank.post = None /\ ~Blank.shown
      /\ Blank.course = None
  BY <1>1 DEF Blank, Pages
<1>3. IsPage(Known(db'), Blank)
  BY <1>2 DEF IsPage
<1>4. DOMAIN task' = Threads /\ "load" \in Threads
  BY DEF Threads
<1>5. \A th \in Threads : GoodTask(db', Blank.course, th, task'[th])
  BY IdleIsGood, LoadingIsGood
<1>. QED  BY <1>2, <1>3, <1>4, <1>5 DEF TypeInv

(* What an answer is, and what its task has kept.                            *)
LEMMA AnswerFacts ==
  ASSUME TypeInv, NEW th \in Threads, NEW pc, Answers(th, pc)
  PROVE  /\ task[th].pc = pc /\ Home(th, pc) /\ task[th] \in Tasks(Known(db))
         /\ pc \notin {"idle", "list", "create", "open_course"} => page.course # None
         /\ pc = "list" => task[th].reply \in SUBSET Courses
         /\ pc = "create" => task[th].reply \in Courses
         /\ pc \in CourseSteps => task[th].reply \in CourseViews /\ task[th].reply.id \in Courses
         /\ pc \in TopicSteps => task[th].reply \in TopicViews(Known(db))
         /\ pc = "poll" => task[th].reply.id = task[th].course
         /\ pc = "build" => task[th].reply.revision # 0
         /\ pc = "peek" => "notes" \in db.helped[task[th].item]
         /\ pc = "hint" => "hint" \in db.helped[task[th].item]
         /\ pc = "answer" => db.tried[task[th].item] # "new"
         /\ WellKept(db, task[th])
<1>1. GoodTask(db, page.course, th, task[th]) /\ task[th].pc = pc
      /\ task[th].reply \notin {None, Failed}
  BY DEF TypeInv, Answers
<1>2. pc \in CourseSteps => task[th].reply \in CourseViews
  BY <1>1 DEF GoodTask, WellAnswered
<1>. QED  BY <1>1, <1>2 DEF GoodTask, WellAnswered, CourseViews

(* The answers about courses.                                               *)
LEMMA CourseAnswersKeepTypes ==
  ASSUME TypeInv, NEW th \in Threads,
         Created(th) \/ Listed(th) \/ OpenedCourse(th) \/ DocumentAdded(th) \/ Built(th)
  PROVE  TypeInv'
<1>. DEFINE P == Known(db)
<1>0. /\ IsPage(P, page) /\ page \in Pages(P) /\ page.post = None /\ place \in Places
      /\ page.shown => page.course # None
  BY PageFacts DEF TypeInv
<1>1. ASSUME NEW v \in CourseViews PROVE v # None
  BY <1>1, ServiceAssumption
<1>2. \A v \in CourseViews : LET g == [page EXCEPT !.course = v] IN
        IsPage(P, g) /\ g.course = v /\ g.topic = page.topic
  <2>1. SUFFICES ASSUME NEW v \in CourseViews, NEW g, g = [page EXCEPT !.course = v]
                 PROVE  IsPage(P, g) /\ g.course = v /\ g.topic = page.topic
    OBVIOUS
  <2>2. g \in Pages(P)
    BY <1>0, <2>1, FieldsOfPages
  <2>3. g.course = v /\ g.topic = page.topic /\ g.post = page.post
    BY <1>0, <2>1 DEF Pages
  <2>. QED  BY <1>0, <1>1, <2>1, <2>2, <2>3 DEF IsPage
<1>3. ASSUME Created(th) PROVE TypeInv'
  <2>1. Answers(th, "create")
    BY <1>3 DEF Created
  <2>2. task[th].reply \in Courses /\ th \in {"run", "load"} /\ th # "load"
    BY <2>1, AnswerFacts DEF Home, BackSteps, Threads
  <2>3. GoodTask(db, page.course, th, [Loading(Nowhere) EXCEPT !.course = task[th].reply])
    BY <2>2, LoadingIsGood, NowhereIsPlace
  <2>. QED  BY <1>0, <1>3, <2>3, ContinueKeepsTypes DEF Created
<1>4. ASSUME Listed(th) PROVE TypeInv'
  <2>. DEFINE x == task[th].reply
              g == [page EXCEPT !.options = x]
              c == task[th].course
              a == [CourseCall("open_course", c) EXCEPT !.topic = task[th].topic]
  <2>1. Answers(th, "list") /\ place' = place
    BY <1>4 DEF Listed
  <2>2. x \in SUBSET Courses /\ task[th].topic \in Topics \cup {None} /\ Home(th, "list")
    BY <2>1, AnswerFacts DEF Tasks
  <2>3. g \in Pages(P)
    BY <1>0, <2>2, FieldsOfPages
  <2>4. /\ g.course = page.course /\ g.topic = page.topic /\ g.post = page.post
        /\ g.shown = page.shown /\ g.options = x
    BY <1>0 DEF Pages
  <2>5. IF c \in g.options THEN Continue(th, g, a) ELSE Finish(th, g)
    BY <1>4 DEF Listed
  <2>. HIDE DEF g, c
  <2>6. IsPage(P, g) /\ (page.course # None \/ g.shown => g.course # None)
    BY <1>0, <2>3, <2>4 DEF IsPage
  <2>7. CASE c \in g.options
    <3>1. th \notin Slots
      BY <2>2 DEF Home, BackSteps
    <3>2. Home(th, "open_course") /\ c \in Courses
      BY <2>2, <2>4, <2>7, <3>1 DEF Home, BackSteps
    <3>3. GoodTask(db, g.course, th, a)
      BY <2>2, <3>2, CourseCallIsGood DEF CourseSteps
    <3>. HIDE DEF a
    <3>. QED  BY <1>0, <2>1, <2>5, <2>6, <2>7, <3>3, ContinueKeepsTypes
  <2>8. CASE c \notin g.options
    BY <1>0, <2>1, <2>5, <2>6, <2>8, FinishKeepsTypes
  <2>. QED  BY <2>7, <2>8
<1>5. ASSUME OpenedCourse(th) PROVE TypeInv'
  <2>. DEFINE v == task[th].reply
              g == [page EXCEPT !.course = v]
              h == [g EXCEPT !.topic = None, !.shown = FALSE]
              wanted == IF task[th].topic # None THEN task[th].topic ELSE v.recommended
  <2>1. Answers(th, "open_course") /\ place' = [place EXCEPT !.last = v.id]
    BY <1>5 DEF OpenedCourse
  <2>2. /\ v \in CourseViews /\ v.id \in Courses /\ task[th].topic \in Topics \cup {None}
        /\ Home(th, "open_course")
    BY <2>1, AnswerFacts DEF Tasks, CourseSteps
  <2>3. place' \in Places
    BY <1>0, <2>1, <2>2 DEF Places
  <2>4. IF v.revision # 0 THEN Continue(th, g, TopicCall(v.id, wanted)) ELSE Finish(th, h)
    BY <1>5 DEF OpenedCourse
  <2>5. IsPage(P, g) /\ g.course = v /\ v # None /\ g \in Pages(P)
    BY <1>1, <1>2, <2>2 DEF IsPage
  <2>6. v.revision # 0 => wanted \in Topics
    BY <2>2 DEF CourseViews
  <2>. HIDE DEF g, v, wanted
  <2>7. CASE v.revision # 0
    <3>1. th \in {"run", "load"}
      BY <2>2 DEF Home, BackSteps, Threads
    <3>2. GoodTask(db, g.course, th, TopicCall(v.id, wanted))
      BY <2>2, <2>5, <2>6, <2>7, <3>1, TopicCallIsGood
    <3>. QED  BY <2>3, <2>4, <2>5, <2>7, <3>2, ContinueKeepsTypes
  <2>8. CASE v.revision = 0
    <3>1. h \in Pages(P)
      <4>1. [g EXCEPT !.topic = None] \in Pages(P)
        BY <2>5, FieldsOfPages
      <4>. QED  BY <4>1, FieldsOfPages
    <3>2. h.course = v /\ h.topic = None /\ h.post = g.post
      BY <2>5 DEF Pages
    <3>. HIDE DEF h
    <3>3. IsPage(P, h)
      BY <2>5, <3>1, <3>2 DEF IsPage
    <3>. QED  BY <2>3, <2>4, <2>5, <2>8, <3>2, <3>3, FinishKeepsTypes
  <2>. QED  BY <2>7, <2>8
<1>6. ASSUME DocumentAdded(th) PROVE TypeInv'
  <2>. DEFINE v == task[th].reply
              g == [page EXCEPT !.course = v]
  <2>1. Answers(th, "add") /\ place' = place
    BY <1>6 DEF DocumentAdded
  <2>2. v \in CourseViews
    BY <2>1, AnswerFacts DEF CourseSteps
  <2>3. IsPage(P, g) /\ g.course = v /\ v # None
    BY <1>1, <1>2, <2>2
  <2>4. Finish(th, g)
    BY <1>6 DEF DocumentAdded
  <2>. HIDE DEF g, v
  <2>. QED  BY <1>0, <2>1, <2>3, <2>4, FinishKeepsTypes
<1>7. ASSUME Built(th) PROVE TypeInv'
  <2>. DEFINE v == task[th].reply
              g == [page EXCEPT !.course = v]
              h == [g EXCEPT !.topic = None]
  <2>1. Answers(th, "build") /\ place' = place
    BY <1>7 DEF Built
  <2>2. /\ v \in CourseViews /\ v.id \in Courses /\ v.revision # 0 /\ Home(th, "build")
    BY <2>1, AnswerFacts DEF CourseSteps
  <2>3. IsPage(P, g) /\ g.course = v /\ v # None /\ g \in Pages(P)
    BY <1>1, <1>2, <2>2 DEF IsPage
  <2>4. Continue(th, h, TopicCall(v.id, v.recommended))
    BY <1>7 DEF Built
  <2>5. v.recommended \in Topics
    BY <2>2 DEF CourseViews
  <2>. HIDE DEF g, v
  <2>6. h \in Pages(P)
    BY <2>3, FieldsOfPages
  <2>7. h.course = v /\ h.topic = None /\ h.post = g.post
    BY <2>3 DEF Pages
  <2>. HIDE DEF h
  <2>8. IsPage(P, h)
    BY <2>3, <2>6, <2>7 DEF IsPage
  <2>9. th \in {"run", "load"}
    BY <2>2 DEF Home, BackSteps, Threads
  <2>10. GoodTask(db, h.course, th, TopicCall(v.id, v.recommended))
    BY <2>2, <2>3, <2>5, <2>7, <2>9, TopicCallIsGood
  <2>. QED  BY <1>0, <2>1, <2>3, <2>4, <2>7, <2>8, <2>10, ContinueKeepsTypes
<1>. QED  BY <1>3, <1>4, <1>5, <1>6, <1>7

(* The page that a handler draws, field by field.                            *)
SameCard(g, h) ==
  /\ h.card = g.card /\ h.pane = g.pane /\ h.study = g.study /\ h.notes = g.notes
  /\ h.post = g.post /\ h.shown = g.shown /\ h.draft = g.draft

OpenedPage(v, t) ==
  LET practice == v.step.topic = t /\ v.step.kind = "answer_check"
  IN [page EXCEPT !.topic = v, !.feedback = None, !.confirm = FALSE, !.recorded = FALSE,
                  !.mode = IF practice THEN "practice" ELSE "study",
                  !.item = IF practice THEN v.step.item ELSE None]

(* The topic that was opened.                                               *)
LEMMA OpenedTopicDraws ==
  ASSUME TypeInv, NEW th \in Threads, OpenedTopic(th)
  PROVE  LET P == Known(db)
             v == task[th].reply
             g == OpenedPage(v, task[th].topic)
             h == RenderTopic(g)
         IN /\ Answers(th, "open_topic") /\ Finish(th, h)
            /\ v \in TopicViews(P) /\ v # None /\ page.course # None /\ task[th].topic \in Topics
            /\ IsPage(P, g) /\ SameCard(page, g) /\ g.course = page.course /\ g.topic = v
            /\ g.feedback = None /\ ~g.confirm /\ ~g.recorded
            /\ g.peeked = page.peeked /\ g.hints = page.hints /\ g.options = page.options
            /\ TopicDrawn(P, g, h) /\ place' \in Places
<1>. DEFINE P == Known(db)
            v == task[th].reply
            t == task[th].topic
            practice == v.step.topic = t /\ v.step.kind = "answer_check"
            m == IF practice THEN "practice" ELSE "study"
            i == IF practice THEN v.step.item ELSE None
            g == OpenedPage(v, t)
            h == RenderTopic(g)
<1>1. Answers(th, "open_topic") /\ Finish(th, h)
  BY DEF OpenedTopic, OpenedPage
<1>2. /\ page \in Pages(P) /\ page.post = None /\ page.course # None /\ page.course.id \in Courses
      /\ place \in Places
  BY <1>1, PageFacts, AnswerFacts DEF TypeInv
<1>3. v \in TopicViews(P) /\ t \in Topics
  BY <1>1, AnswerFacts DEF TopicSteps, WellKept
<1>4. v # None
  BY <1>3, NoneIsNoView DEF Known
<1>5. m \in {"study", "practice"} /\ i \in ItemsOn(P) \cup {None}
  BY <1>3 DEF TopicViews, StepViews
<1>6. g = [page EXCEPT !.topic = v, !.feedback = None, !.confirm = FALSE, !.recorded = FALSE,
                       !.mode = m, !.item = i]
  BY DEF OpenedPage
<1>7. place' \in Places
  <2>1. place' = IF page.course.revision = 0 THEN place
                 ELSE [place EXCEPT !.course = page.course.id, !.topic = t]
    BY DEF OpenedTopic
  <2>. QED  BY <1>2, <1>3, <2>1 DEF Places
<1>. HIDE DEF g, m, i, v
<1>8. g \in Pages(P)
  <2>1. [page EXCEPT !.topic = v] \in Pages(P)
    BY <1>2, <1>3, FieldsOfPages
  <2>2. [page EXCEPT !.topic = v, !.feedback = None] \in Pages(P)
    BY <2>1, FieldsOfPages
  <2>3. [page EXCEPT !.topic = v, !.feedback = None, !.confirm = FALSE] \in Pages(P)
    BY <2>2, FieldsOfPages
  <2>4. [page EXCEPT !.topic = v, !.feedback = None, !.confirm = FALSE, !.recorded = FALSE]
          \in Pages(P)
    BY <2>3, FieldsOfPages
  <2>5. [page EXCEPT !.topic = v, !.feedback = None, !.confirm = FALSE, !.recorded = FALSE,
                     !.mode = m] \in Pages(P)
    BY <1>5, <2>4, FieldsOfPages
  <2>. QED  BY <1>5, <1>6, <2>5, FieldsOfPages
<1>9. /\ SameCard(page, g) /\ g.course = page.course /\ g.topic = v
      /\ g.feedback = None /\ ~g.confirm /\ ~g.recorded
      /\ g.peeked = page.peeked /\ g.hints = page.hints /\ g.options = page.options
  BY <1>2, <1>6 DEF Pages, SameCard
<1>10. IsPage(P, g)
  BY <1>2, <1>8, <1>9 DEF IsPage, SameCard
<1>11. TopicDrawn(P, g, h)
  BY <1>10, TopicDrawing
<1>. QED  BY <1>1, <1>2, <1>3, <1>4, <1>7, <1>9, <1>10, <1>11 DEF v, g

(* A new view of the topic, and a course view.                              *)
LEMMA TopicStored ==
  ASSUME TypeInv, page.course # None, NEW v \in TopicViews(Known(db))
  PROVE  LET P == Known(db)
             g == [page EXCEPT !.topic = v]
         IN /\ v # None /\ IsPage(P, g) /\ SameCard(page, g) /\ g.course = page.course /\ g.topic = v
            /\ g.mode = page.mode /\ g.item = page.item /\ g.feedback = page.feedback
            /\ g.confirm = page.confirm /\ g.recorded = page.recorded
            /\ g.peeked = page.peeked /\ g.hints = page.hints /\ g.options = page.options
<1>. DEFINE P == Known(db)
            g == [page EXCEPT !.topic = v]
<1>1. page \in Pages(P) /\ page.post = None
  BY PageFacts
<1>2. v # None
  BY NoneIsNoView DEF Known
<1>3. g \in Pages(P)
  BY <1>1, FieldsOfPages
<1>4. /\ SameCard(page, g) /\ g.course = page.course /\ g.topic = v
      /\ g.mode = page.mode /\ g.item = page.item /\ g.feedback = page.feedback
      /\ g.confirm = page.confirm /\ g.recorded = page.recorded
      /\ g.peeked = page.peeked /\ g.hints = page.hints /\ g.options = page.options
  BY <1>1 DEF Pages, SameCard
<1>. HIDE DEF g
<1>5. IsPage(P, g)
  BY <1>1, <1>3, <1>4 DEF IsPage, SameCard
<1>. QED  BY <1>2, <1>4, <1>5 DEF g

(* A new course view is stored.                                              *)
LEMMA CourseStored ==
  ASSUME TypeInv, NEW v \in CourseViews
  PROVE  LET P == Known(db)
             g == [page EXCEPT !.course = v]
         IN /\ v # None /\ IsPage(P, g) /\ SameCard(page, g) /\ g.course = v /\ g.topic = page.topic
            /\ g.mode = page.mode /\ g.item = page.item /\ g.feedback = page.feedback
            /\ g.confirm = page.confirm /\ g.recorded = page.recorded
            /\ g.peeked = page.peeked /\ g.hints = page.hints /\ g.options = page.options
<1>. DEFINE P == Known(db)
            g == [page EXCEPT !.course = v]
<1>1. page \in Pages(P) /\ page.post = None
  BY PageFacts
<1>2. v # None
  BY ServiceAssumption
<1>3. g \in Pages(P)
  BY <1>1, FieldsOfPages
<1>4. /\ SameCard(page, g) /\ g.course = v /\ g.topic = page.topic
      /\ g.mode = page.mode /\ g.item = page.item /\ g.feedback = page.feedback
      /\ g.confirm = page.confirm /\ g.recorded = page.recorded
      /\ g.peeked = page.peeked /\ g.hints = page.hints /\ g.options = page.options
  BY <1>1 DEF Pages, SameCard
<1>. HIDE DEF g
<1>5. IsPage(P, g)
  BY <1>1, <1>2, <1>3, <1>4 DEF IsPage, SameCard
<1>. QED  BY <1>2, <1>4, <1>5 DEF g

(* The drawing after a topic action, which puts a question if questions were   *)
(* asked for.                                                               *)
Restarted(g) == [g EXCEPT !.item = None, !.feedback = None, !.mode = "practice"]

(* The drawing that starts practice anew.                                    *)
LEMMA RestartedDraws ==
  ASSUME NEW P, NEW g, IsPage(P, g)
  PROVE  LET f == Restarted(g)
             h == RenderMode(f)
         IN /\ IsPage(P, f) /\ SameCard(g, f) /\ f.course = g.course /\ f.topic = g.topic
            /\ f.mode = "practice" /\ f.item = None /\ f.feedback = None
            /\ f.confirm = g.confirm /\ f.recorded = g.recorded
            /\ f.peeked = g.peeked /\ f.hints = g.hints /\ f.options = g.options
            /\ IsPage(P, h) /\ Kept(f, h) /\ h.shown = g.shown /\ h.mode = "practice"
            /\ g.topic = None => h = f
            /\ g.topic # None => PaneDrawn(P, f, h)
<1>. DEFINE f == Restarted(g)
            h == RenderMode(f)
<1>1. f \in Pages(P)
  <2>1. g \in Pages(P)
    BY DEF IsPage
  <2>2. [g EXCEPT !.item = None] \in Pages(P)
    BY <2>1, FieldsOfPages
  <2>3. [g EXCEPT !.item = None, !.feedback = None] \in Pages(P)
    BY <2>2, FieldsOfPages
  <2>. QED  BY <2>3, FieldsOfPages DEF Restarted
<1>2. /\ SameCard(g, f) /\ f.course = g.course /\ f.topic = g.topic
      /\ f.mode = "practice" /\ f.item = None /\ f.feedback = None
      /\ f.confirm = g.confirm /\ f.recorded = g.recorded
      /\ f.peeked = g.peeked /\ f.hints = g.hints /\ f.options = g.options
  BY DEF IsPage, Pages, SameCard, Restarted
<1>. HIDE DEF f
<1>3. IsPage(P, f)
  BY <1>1, <1>2 DEF IsPage, SameCard
<1>4. /\ IsPage(P, h) /\ Kept(f, h) /\ h.mode = f.mode /\ h.shown = f.shown
      /\ f.topic = None => h = f
      /\ f.topic # None => PaneDrawn(P, f, h)
  BY <1>3, ModeDrawing
<1>. HIDE DEF h
<1>. QED  BY <1>2, <1>3, <1>4 DEF f, h, SameCard

(* The course was read again, and the whole topic is drawn.                  *)
LEMMA CourseDraws ==
  ASSUME TypeInv, NEW th \in Threads, NEW pc \in {"acted", "answered"}, Answers(th, pc)
  PROVE  LET P == Known(db)
             v == task[th].reply
             g == [page EXCEPT !.course = v]
         IN v \in CourseViews /\ v # None /\ page.course # None /\ IsPage(P, g) /\ g.course = v
            /\ TopicDrawn(P, g, RenderTopic(g))
<1>1. task[th].reply \in CourseViews /\ page.course # None
  BY AnswerFacts DEF CourseSteps
<1>. QED  BY <1>1, CourseStored, TopicDrawing

(* The answers about topics and questions.                                  *)
LEMMA TopicAnswersKeepTypes ==
  ASSUME TypeInv, NEW th \in Threads,
         \/ OpenedTopic(th) \/ Acted(th) \/ ActedRefreshed(th) \/ AnswerChecked(th)
         \/ AnswerShown(th) \/ HintShown(th) \/ NotesPeeked(th)
  PROVE  TypeInv'
<1>. DEFINE P == Known(db)
            v == task[th].reply
<1>0. /\ IsPage(P, page) /\ page \in Pages(P) /\ page.post = None /\ place \in Places
      /\ page.course # None => page.course.id \in Courses
  BY PageFacts DEF TypeInv
<1>1. ASSUME OpenedTopic(th) PROVE TypeInv'
  <2>. DEFINE g == OpenedPage(v, task[th].topic)
              h == RenderTopic(g)
  <2>1. /\ Finish(th, h) /\ page.course # None /\ g.course = page.course
        /\ TopicDrawn(P, g, h) /\ place' \in Places
    BY <1>1, OpenedTopicDraws
  <2>. HIDE DEF h
  <2>2. IsPage(P, h) /\ h.course # None
    BY <2>1 DEF TopicDrawn, Kept
  <2>. QED  BY <2>1, <2>2, FinishKeepsTypes
<1>2. ASSUME Acted(th) PROVE TypeInv'
  <2>. DEFINE g == [page EXCEPT !.topic = v]
              a == [CourseCall("acted", page.course.id) EXCEPT !.flag = task[th].flag]
  <2>1. Answers(th, "act") /\ place' = place /\ Continue(th, g, a)
    BY <1>2 DEF Acted
  <2>2. v \in TopicViews(P) /\ page.course # None /\ Home(th, "act") /\ task[th].flag \in BOOLEAN
    BY <2>1, AnswerFacts DEF TopicSteps, Tasks
  <2>3. IsPage(P, g) /\ g.course = page.course
    BY <2>2, TopicStored
  <2>4. Home(th, "acted")
    BY <2>2 DEF Home, BackSteps
  <2>. HIDE DEF g
  <2>5. GoodTask(db, g.course, th, a)
    BY <1>0, <2>2, <2>3, <2>4, CourseCallIsGood DEF CourseSteps
  <2>. HIDE DEF a
  <2>. QED  BY <1>0, <2>1, <2>2, <2>3, <2>5, ContinueKeepsTypes
<1>3. ASSUME AnswerChecked(th) PROVE TypeInv'
  <2>. DEFINE f == [page EXCEPT !.topic = v]
              i == task[th].item
              g == [f EXCEPT !.feedback = i]
              a == CourseCall("answered", page.course.id)
  <2>1. Answers(th, "answer") /\ place' = place /\ Continue(th, g, a)
    BY <1>3 DEF AnswerChecked
  <2>2. v \in TopicViews(P) /\ page.course # None /\ Home(th, "answer") /\ i \in ItemsOn(P)
    BY <2>1, AnswerFacts DEF TopicSteps, WellKept
  <2>3. IsPage(P, f) /\ f.course = page.course /\ f \in Pages(P)
    BY <2>2, TopicStored DEF IsPage
  <2>4. Home(th, "answered")
    BY <2>2 DEF Home, BackSteps
  <2>. HIDE DEF f, i
  <2>5. g \in Pages(P)
    BY <2>2, <2>3, FieldsOfPages
  <2>6. g.course = f.course /\ g.topic = f.topic /\ g.post = f.post
    BY <2>3 DEF Pages
  <2>. HIDE DEF g
  <2>7. IsPage(P, g)
    BY <2>3, <2>5, <2>6 DEF IsPage
  <2>8. GoodTask(db, g.course, th, a)
    BY <1>0, <2>2, <2>3, <2>4, <2>6, CourseCallIsGood DEF CourseSteps
  <2>. HIDE DEF a
  <2>. QED  BY <1>0, <2>1, <2>2, <2>3, <2>6, <2>7, <2>8, ContinueKeepsTypes
<1>4. ASSUME AnswerShown(th) PROVE TypeInv'
  <2>. DEFINE g == [page EXCEPT !.course = v]
              h == RenderTopic(g)
  <2>1. Answers(th, "answered") /\ place' = place /\ Finish(th, h)
    BY <1>4 DEF AnswerShown
  <2>2. v # None /\ g.course = v /\ TopicDrawn(P, g, h)
    BY <2>1, CourseDraws
  <2>. HIDE DEF h
  <2>3. IsPage(P, h) /\ h.course # None
    BY <2>2 DEF TopicDrawn, Kept
  <2>. QED  BY <1>0, <2>1, <2>3, FinishKeepsTypes
<1>5. ASSUME ActedRefreshed(th) PROVE TypeInv'
  <2>. DEFINE g == [page EXCEPT !.course = v]
              h == RenderTopic(g)
              r == RenderMode(Restarted(h))
              k == IF ~task[th].flag \/ Raises(h) THEN h ELSE r
  <2>1. Answers(th, "acted") /\ place' = place /\ Finish(th, k)
    BY <1>5 DEF ActedRefreshed, Restarted
  <2>2. v # None /\ g.course = v /\ TopicDrawn(P, g, h)
    BY <2>1, CourseDraws
  <2>. HIDE DEF h
  <2>3. IsPage(P, h) /\ h.course = v
    BY <2>2 DEF TopicDrawn, Kept
  <2>4. IsPage(P, r) /\ r.course = v
    BY <2>3, RestartedDraws DEF Kept
  <2>. HIDE DEF r
  <2>5. IsPage(P, k) /\ k.course # None
    BY <2>2, <2>3, <2>4
  <2>. HIDE DEF k
  <2>. QED  BY <1>0, <2>1, <2>5, FinishKeepsTypes
<1>6. ASSUME HintShown(th) PROVE TypeInv'
  <2>. DEFINE x == page.hints \cup {task[th].item}
              g == [page EXCEPT !.hints = x]
              h == RenderPractice(g)
  <2>1. Answers(th, "hint") /\ place' = place /\ Finish(th, h)
    BY <1>0, <1>6 DEF HintShown, Pages
  <2>2. page.course # None /\ task[th].item \in ItemsOn(P)
    BY <2>1, AnswerFacts DEF WellKept
  <2>3. x \in SUBSET ItemsOn(P)
    BY <1>0, <2>2 DEF Pages
  <2>. HIDE DEF x
  <2>4. g \in Pages(P)
    BY <1>0, <2>3, FieldsOfPages
  <2>5. g.course = page.course /\ g.topic = page.topic /\ g.post = page.post
    BY <1>0 DEF Pages
  <2>. HIDE DEF g
  <2>6. IsPage(P, g)
    BY <1>0, <2>4, <2>5 DEF IsPage
  <2>7. PracticeDrawn(P, g, h)
    BY <2>6, PracticeDrawing
  <2>. HIDE DEF h
  <2>8. IsPage(P, h) /\ h.course # None
    BY <2>2, <2>5, <2>7 DEF PracticeDrawn, Kept
  <2>. QED  BY <1>0, <2>1, <2>8, FinishKeepsTypes
<1>7. ASSUME NotesPeeked(th) PROVE TypeInv'
  <2>. DEFINE x == page.peeked \cup {task[th].item}
              g == [page EXCEPT !.peeked = x, !.confirm = FALSE]
              h == IF task[th].flag THEN SetMode(g, "study") ELSE RenderPractice(g)
  <2>1. Answers(th, "peek") /\ place' = place /\ Finish(th, h)
    BY <1>0, <1>7 DEF NotesPeeked, Pages
  <2>2. page.course # None /\ task[th].item \in ItemsOn(P)
    BY <2>1, AnswerFacts DEF WellKept
  <2>3. x \in SUBSET ItemsOn(P)
    BY <1>0, <2>2 DEF Pages
  <2>. HIDE DEF x
  <2>4. g \in Pages(P)
    <3>1. [page EXCEPT !.peeked = x] \in Pages(P)
      BY <1>0, <2>3, FieldsOfPages
    <3>. QED  BY <3>1, FieldsOfPages
  <2>5. g.course = page.course /\ g.topic = page.topic /\ g.post = page.post
    BY <1>0 DEF Pages
  <2>. HIDE DEF g
  <2>6. IsPage(P, g)
    BY <1>0, <2>4, <2>5 DEF IsPage
  <2>7. PracticeDrawn(P, g, RenderPractice(g)) /\ ModeDrawn(P, g, "study", SetMode(g, "study"))
    BY <2>6, PracticeDrawing, SetModeDrawing
  <2>8. IsPage(P, h) /\ h.course # None
    BY <2>2, <2>5, <2>7 DEF PracticeDrawn, ModeDrawn, Kept
  <2>. HIDE DEF h
  <2>. QED  BY <1>0, <2>1, <2>8, FinishKeepsTypes
<1>. QED  BY <1>1, <1>2, <1>3, <1>4, <1>5, <1>6, <1>7

(* A background task goes on, or is over.                                    *)
LEMMA ShownKeepsTypes ==
  ASSUME TypeInv, NEW g, IsPage(Known(db), g),
         page.course # None \/ g.shown => g.course # None,
         NEW th \in Threads, NEW call, GoodTask(db, g.course, th, call),
         Show(g, [task EXCEPT ![th] = call]), UNCHANGED <<db, place, moves>>
  PROVE  TypeInv'
<1>. DEFINE tasks == [task EXCEPT ![th] = call]
<1>1. DOMAIN tasks = Threads
  BY DEF TypeInv
<1>2. \A r \in Threads : GoodTask(db, g.course, r, task[r])
  BY DEF TypeInv, GoodTask
<1>3. \A r \in Threads : GoodTask(db, g.course, r, tasks[r])
  BY <1>2 DEF TypeInv
<1>. HIDE DEF tasks
<1>4. db \in Databases
  BY DEF TypeInv
<1>5. Show(g, tasks)
  BY DEF tasks
<1>6. /\ IsPage(Known(db), page') /\ page'.post = None /\ DOMAIN task' = Threads
      /\ \A r \in Threads : GoodTask(db, page'.course, r, task'[r])
      /\ SamePage(g, page')
  BY <1>1, <1>3, <1>4, <1>5, ShowKeepsTypes
<1>. QED  BY <1>4, <1>6 DEF TypeInv, SamePage, Kept

(* The report of a visit was answered: the next step of the topic is replaced.  *)
StepStored(x) == [page EXCEPT !.topic.step = x, !.step = x]

(* The page with the new step is a page of the same topic.                   *)
LEMMA StepStoredIsPage ==
  ASSUME TypeInv, page.topic # None, NEW x \in StepViews(Known(db))
  PROVE  LET g == StepStored(x)
         IN /\ IsPage(Known(db), g) /\ SameCard(page, g) /\ g.course = page.course
            /\ g.topic # None /\ g.topic.id = page.topic.id /\ g.topic.key = page.topic.key
            /\ g.topic.notes = page.topic.notes /\ g.topic.items = page.topic.items
            /\ g.mode = page.mode /\ g.item = page.item /\ g.feedback = page.feedback
            /\ g.confirm = page.confirm /\ g.recorded = page.recorded
            /\ g.peeked = page.peeked /\ g.hints = page.hints /\ g.options = page.options
<1>. DEFINE P == Known(db)
            t == [page.topic EXCEPT !.step = x]
            g == [page EXCEPT !.topic = t, !.step = x]
<1>1. page \in Pages(P) /\ page.post = None /\ page.course # None
  BY PageFacts
<1>2. page.topic \in TopicViews(P)
  BY <1>1 DEF Pages
<1>3. t \in TopicViews(P)
  BY <1>2 DEF TopicViews
<1>4. /\ t.id = page.topic.id /\ t.key = page.topic.key /\ t.notes = page.topic.notes
      /\ t.items = page.topic.items
  BY <1>2 DEF TopicViews
<1>5. StepStored(x) = g
  BY <1>1 DEF StepStored, Pages
<1>. HIDE DEF t
<1>6. t # None
  BY <1>3, NoneIsNoView DEF Known
<1>7. g \in Pages(P)
  <2>1. [page EXCEPT !.topic = t] \in Pages(P)
    BY <1>1, <1>3, FieldsOfPages
  <2>. QED  BY <2>1, FieldsOfPages
<1>8. /\ SameCard(page, g) /\ g.course = page.course /\ g.topic = t
      /\ g.mode = page.mode /\ g.item = page.item /\ g.feedback = page.feedback
      /\ g.confirm = page.confirm /\ g.recorded = page.recorded
      /\ g.peeked = page.peeked /\ g.hints = page.hints /\ g.options = page.options
  BY <1>1 DEF Pages, SameCard
<1>. HIDE DEF g
<1>9. IsPage(P, g)
  BY <1>1, <1>7, <1>8 DEF IsPage, SameCard
<1>. QED  BY <1>4, <1>5, <1>6, <1>8, <1>9

(* The end of a poll.                                                       *)
LEMMA PollEndDraws ==
  ASSUME TypeInv, NEW s, NEW course \in CourseViews, NEW t,
         NEW fresh \in TopicViews(Known(db)) \cup {None}
  PROVE  LET g == PollApplied(page, course, fresh, t)
         IN course # None /\ PollDrawn(Known(db), page, course, fresh, t, g)
<1>1. course # None
  BY ServiceAssumption
<1>. QED  BY <1>1, PageFacts, PollDrawing

(* The end of a poll keeps the types.                                        *)
LEMMA PollEndKeepsTypes ==
  ASSUME TypeInv, NEW s \in Threads, NEW course \in CourseViews,
         NEW fresh \in TopicViews(Known(db)) \cup {None}, PollEnd(s, course, fresh)
  PROVE  TypeInv'
<1>. DEFINE h == PollApplied(page, course, fresh, task[s].topic)
            g == IF Discarded(task[s].course) THEN page ELSE h
<1>1. Finish(s, g) /\ place' = place
  BY DEF PollEnd
<1>2. course # None /\ PollDrawn(Known(db), page, course, fresh, task[s].topic, h)
  BY PollEndDraws
<1>. HIDE DEF h
<1>3. IsPage(Known(db), h) /\ h.course # None
  BY <1>2 DEF PollDrawn
<1>4. IsPage(Known(db), page) /\ (page.shown => page.course # None) /\ place \in Places
  BY DEF TypeInv
<1>5. IsPage(Known(db), g) /\ (page.course # None \/ g.shown => g.course # None)
  BY <1>3, <1>4
<1>. HIDE DEF g
<1>. QED  BY <1>1, <1>4, <1>5, FinishKeepsTypes

(* The topic of a poll is asked for after its course.                        *)
LEMMA PollTopicCallIsGood ==
  ASSUME NEW d, NEW course, course # None, NEW s \in Slots, NEW c \in Courses, NEW b \in Courses,
         NEW t \in Topics, NEW v \in CourseViews, v.id = b
  PROVE  GoodTask(d, course, s, [Call("poll_topic", Request("topic", c, t, None, FALSE))
                                   EXCEPT !.course = b, !.topic = t, !.fresh = v])
<1>. DEFINE P == Known(d)
            q == Request("topic", c, t, None, FALSE)
            a == Call("poll_topic", q)
            x == [a EXCEPT !.course = b, !.topic = t, !.fresh = v]
<1>1. q \in RequestsOn(P) \cup {None} /\ GoodRequest(d, q) /\ q.kind = "topic"
  BY DEF Request, RequestsOn, Requests, GoodRequest
<1>. HIDE DEF q
<1>2. a \in Tasks(P) /\ a.pc = "poll_topic" /\ a.req = q /\ a.reply = None
  BY <1>1, CallIsTask, CallFields DEF Steps
<1>. HIDE DEF a
<1>3. x \in Tasks(P)
  <2>1. [a EXCEPT !.course = b] \in Tasks(P)
    BY <1>2, FieldsOfTasks
  <2>2. [a EXCEPT !.course = b, !.topic = t] \in Tasks(P)
    BY <2>1, FieldsOfTasks
  <2>. QED  BY <2>2, FieldsOfTasks
<1>4. /\ x.pc = "poll_topic" /\ x.req = q /\ x.reply = None
      /\ x.course = b /\ x.topic = t /\ x.fresh = v
  BY <1>2 DEF Tasks
<1>5. s \notin {"run", "load"}
  BY ClientAssumption
<1>. HIDE DEF x
<1>6. GoodTask(d, course, s, x)
  BY <1>1, <1>3, <1>4, <1>5, CallIsGood DEF Asks, Home, BackSteps, WellKept
<1>. QED  BY <1>6 DEF x, a, q

(* A poll asks for the course.                                               *)
LEMMA PollCallIsGood ==
  ASSUME NEW d, NEW course, course # None, NEW s \in Slots, NEW c \in Courses,
         NEW t \in Topics \cup {None}
  PROVE  GoodTask(d, course, s, [CourseCall("poll", c) EXCEPT !.course = c, !.topic = t])
<1>. DEFINE P == Known(d)
            q == Request("course", c, None, None, FALSE)
            a == CourseCall("poll", c)
            x == [a EXCEPT !.course = c, !.topic = t]
<1>1. q \in RequestsOn(P) \cup {None} /\ GoodRequest(d, q) /\ q.kind = "course" /\ q.course = c
  BY DEF Request, RequestsOn, Requests, GoodRequest
<1>2. a = Call("poll", q)
  BY DEF CourseCall
<1>. HIDE DEF q, a
<1>3. a \in Tasks(P) /\ a.pc = "poll" /\ a.req = q /\ a.reply = None
  BY <1>1, <1>2, CallIsTask, CallFields DEF Steps
<1>4. x \in Tasks(P)
  <2>1. [a EXCEPT !.course = c] \in Tasks(P)
    BY <1>3, FieldsOfTasks
  <2>. QED  BY <2>1, FieldsOfTasks
<1>5. x.pc = "poll" /\ x.req = q /\ x.reply = None /\ x.course = c
  BY <1>3 DEF Tasks
<1>6. s \notin {"run", "load"}
  BY ClientAssumption
<1>. HIDE DEF x
<1>7. GoodTask(d, course, s, x)
  BY <1>1, <1>4, <1>5, <1>6, CallIsGood DEF Asks, Home, BackSteps, CourseSteps, WellKept
<1>. QED  BY <1>7 DEF x, a

(* What is answered in the background, and the poll.                         *)
LEMMA BackgroundKeepsTypes ==
  ASSUME TypeInv, NEW s \in Threads,
         VisitRecorded(s) \/ VisitedCourse(s) \/ PolledCourse(s) \/ PolledTopic(s)
  PROVE  TypeInv'
<1>. DEFINE P == Known(db)
            v == task[s].reply
<1>0. /\ IsPage(P, page) /\ page \in Pages(P) /\ page.post = None /\ place \in Places
      /\ page.course # None => page.course.id \in Courses
  BY PageFacts DEF TypeInv
<1>1. ASSUME VisitRecorded(s) PROVE TypeInv'
  <2>. DEFINE g == StepStored(v.step)
              a == CourseCall("visited", page.course.id)
  <2>1. Answers(s, "visit") /\ UNCHANGED <<db, place, moves>>
    BY <1>1 DEF VisitRecorded
  <2>2. v \in TopicViews(P) /\ page.course # None /\ Home(s, "visit")
    BY <2>1, AnswerFacts DEF TopicSteps
  <2>3. CASE page.topic = None \/ page.topic.id # task[s].topic
    <3>1. Show(page, [task EXCEPT ![s] = Idle])
      BY <1>1, <2>3 DEF VisitRecorded
    <3>. QED  BY <1>0, <2>1, <2>2, <3>1, IdleIsGood, ShownKeepsTypes
  <2>4. CASE page.topic # None /\ page.topic.id = task[s].topic
    <3>1. Show(g, [task EXCEPT ![s] = a])
      BY <1>1, <2>4 DEF VisitRecorded, StepStored
    <3>2. v.step \in StepViews(P)
      BY <2>2 DEF TopicViews
    <3>3. IsPage(P, g) /\ g.course = page.course
      BY <2>4, <3>2, StepStoredIsPage
    <3>4. Home(s, "visited")
      BY <2>2 DEF Home, BackSteps
    <3>5. GoodTask(db, g.course, s, a)
      BY <1>0, <2>2, <3>3, <3>4, CourseCallIsGood DEF CourseSteps
    <3>. HIDE DEF g, a
    <3>. QED  BY <2>1, <2>2, <3>1, <3>3, <3>5, ShownKeepsTypes
  <2>. QED  BY <2>3, <2>4
<1>2. ASSUME VisitedCourse(s) PROVE TypeInv'
  <2>. DEFINE g == [page EXCEPT !.course = v]
  <2>1. /\ Answers(s, "visited") /\ UNCHANGED <<db, place, moves>>
        /\ Show(g, [task EXCEPT ![s] = Idle])
    BY <1>2 DEF VisitedCourse
  <2>2. v \in CourseViews
    BY <2>1, AnswerFacts DEF CourseSteps
  <2>3. IsPage(P, g) /\ g.course = v /\ v # None
    BY <2>2, CourseStored
  <2>. HIDE DEF g
  <2>. QED  BY <2>1, <2>3, IdleIsGood, ShownKeepsTypes
<1>3. ASSUME PolledCourse(s) PROVE TypeInv'
  <2>. DEFINE a == [Call("poll_topic", Request("topic", page.course.id, task[s].topic, None, FALSE))
                      EXCEPT !.course = task[s].course, !.topic = task[s].topic, !.fresh = v]
  <2>1. Answers(s, "poll")
    BY <1>3 DEF PolledCourse
  <2>2. /\ v \in CourseViews /\ page.course # None /\ v.id = task[s].course /\ task[s].course \in Courses
        /\ task[s].topic \in Topics \cup {None} /\ Home(s, "poll")
    BY <2>1, AnswerFacts DEF CourseSteps, WellKept, Tasks
  <2>3. s \in Slots
    BY <2>2 DEF Home, BackSteps, Threads
  <2>4. CASE task[s].topic = None
    <3>1. PollEnd(s, v, None)
      BY <1>3, <2>4 DEF PolledCourse
    <3>. QED  BY <2>2, <3>1, PollEndKeepsTypes
  <2>5. CASE task[s].topic # None
    <3>1. Continue(s, page, a) /\ place' = place
      BY <1>3, <2>5 DEF PolledCourse
    <3>2. GoodTask(db, page.course, s, a)
      BY <1>0, <2>2, <2>3, <2>5, PollTopicCallIsGood
    <3>. HIDE DEF a
    <3>. QED  BY <1>0, <2>2, <3>1, <3>2, ContinueKeepsTypes
  <2>. QED  BY <2>4, <2>5
<1>4. ASSUME PolledTopic(s) PROVE TypeInv'
  <2>1. Answers(s, "poll_topic") /\ PollEnd(s, task[s].fresh, v)
    BY <1>4 DEF PolledTopic
  <2>2. v \in TopicViews(P) /\ task[s].fresh \in CourseViews
    BY <2>1, AnswerFacts DEF TopicSteps, WellKept
  <2>. QED  BY <2>1, <2>2, PollEndKeepsTypes
<1>. QED  BY <1>1, <1>2, <1>3, <1>4

(* The timer fires.                                                         *)
LEMMA PollKeepsTypes ==
  ASSUME TypeInv, Poll
  PROVE  TypeInv'
<1>. DEFINE t == IF page.topic = None THEN None ELSE page.topic.id
            c == page.course.id
            a == [CourseCall("poll", c) EXCEPT !.course = c, !.topic = t]
<1>1. PICK s \in Slots : task' = [task EXCEPT ![s] = a]
  BY DEF Poll
<1>2. page.course # None /\ UNCHANGED <<db, page, place, moves>>
  BY DEF Poll
<1>3. c \in Courses /\ t \in Topics \cup {None}
  BY <1>2, PageFacts
<1>. HIDE DEF t, c
<1>4. GoodTask(db, page.course, s, a)
  BY <1>2, <1>3, PollCallIsGood
<1>. HIDE DEF a
<1>. QED  BY <1>1, <1>2, <1>4 DEF TypeInv, Threads

(* A task that has been served.                                             *)
LEMMA ServedTask ==
  ASSUME NEW d \in Databases, NEW course, NEW th, NEW t, GoodTask(d, course, th, t),
         t.req # None, NEW out, Served(d, t.req, out)
  PROVE  LET u == [t EXCEPT !.req = None, !.reply = out.reply]
         IN /\ GoodTask(out.db, course, th, u) /\ u.pc = t.pc /\ u.req = None /\ u.reply = out.reply
            /\ u.course = t.course /\ u.topic = t.topic /\ u.item = t.item /\ u.flag = t.flag
<1>. DEFINE q == t.req
            e == out.db
            r == out.reply
            P == Known(d)
            Q == Known(e)
            u == [t EXCEPT !.req = None, !.reply = r]
<1>1. t \in Tasks(P) /\ GoodRequest(d, q) /\ Asks(t.pc, q.kind)
  BY DEF GoodTask, WellAsked
<1>2. e \in Databases /\ P \subseteq Q
  BY KnownStays DEF Served
<1>3. t \in Tasks(Q) /\ ItemsOn(P) \subseteq ItemsOn(Q)
  BY <1>1, <1>2, MoreViews
<1>4. r = Failed \/ (GoodReply(Q, q, r) /\ HasServed(q, e, r))
  BY DEF Served
<1>5. r \in Replies(Q)
  <2>1. q.kind = "list" \/ q.kind = "create" \/ q.kind \in {"documents", "outline", "course"}
        \/ q.kind \in {"topic", "lesson", "questions", "answer"} \/ q.kind \in {"hint", "notes"}
    BY <1>1 DEF GoodRequest
  <2>2. \/ r = Failed \/ r \in SUBSET Courses \/ r \in Courses \/ r \in CourseViews
        \/ r \in TopicViews(Q) \/ r = "shown"
    <3>. HIDE DEF r, q, Q
    <3>. QED  BY <1>4, <2>1 DEF GoodReply
  <2>. HIDE DEF r, Q
  <2>. QED  BY <2>2 DEF Replies
<1>6. u \in Tasks(Q)
  <2>. HIDE DEF r
  <2>1. [t EXCEPT !.req = None] \in Tasks(Q)
    BY <1>3, FieldsOfTasks
  <2>. QED  BY <1>5, <2>1, FieldsOfTasks
<1>7. /\ u.pc = t.pc /\ u.req = None /\ u.reply = r /\ u.course = t.course /\ u.topic = t.topic
      /\ u.item = t.item /\ u.fresh = t.fresh /\ u.flag = t.flag
  BY <1>1 DEF Tasks
<1>. HIDE DEF u
<1>8. WellKept(e, u)
  BY <1>3, <1>7 DEF GoodTask, WellKept
<1>9. WellAnswered(e, u)
  <2>1. SUFFICES ASSUME r \notin {None, Failed} PROVE WellAnswered(e, u)
    BY <1>7 DEF WellAnswered
  <2>2. GoodReply(Q, q, r) /\ HasServed(q, e, r)
    BY <1>4, <2>1
  <2>3. /\ t.pc \in {"answer", "hint", "peek"} => q.item = t.item
        /\ t.pc = "poll" => q.course = t.course
    BY DEF GoodTask, WellAsked
  <2>4. /\ t.pc = "list" => q.kind = "list"
        /\ t.pc = "create" => q.kind = "create"
        /\ t.pc = "build" => q.kind = "outline"
        /\ t.pc = "poll" => q.kind = "course"
        /\ t.pc = "peek" => q.kind = "notes"
        /\ t.pc = "hint" => q.kind = "hint"
        /\ t.pc = "answer" => q.kind = "answer"
        /\ t.pc \in CourseSteps => q.kind \in {"documents", "outline", "course"}
        /\ t.pc \in TopicSteps => q.kind \in {"topic", "lesson", "questions", "answer"}
    BY <1>1 DEF Asks, CourseSteps, TopicSteps
  <2>5. /\ t.pc = "list" => r \in SUBSET Courses
        /\ t.pc = "create" => r \in Courses
        /\ t.pc \in CourseSteps => r \in CourseViews
        /\ t.pc \in TopicSteps => r \in TopicViews(Q)
        /\ t.pc = "poll" => r.id = t.course
        /\ t.pc = "build" => r.revision # 0
    BY <2>2, <2>3, <2>4 DEF GoodReply
  <2>6. /\ t.pc = "peek" => "notes" \in e.helped[t.item]
        /\ t.pc = "hint" => "hint" \in e.helped[t.item]
        /\ t.pc = "answer" => e.tried[t.item] # "new"
    BY <2>2, <2>3, <2>4 DEF HasServed
  <2>. QED  BY <1>7, <2>5, <2>6 DEF WellAnswered
<1>10. WellAsked(e, u)
  BY <1>7 DEF WellAsked
<1>11. GoodTask(e, course, th, u)
  BY <1>6, <1>7, <1>8, <1>9, <1>10 DEF GoodTask
<1>. QED  BY <1>7, <1>11 DEF u

(* The service answers.                                                     *)
LEMMA ServeFacts ==
  ASSUME TypeInv, NEW th \in Threads, Serve(th)
  PROVE  \E out : /\ Served(db, task[th].req, out) /\ db' = out.db /\ task[th].req # None
                  /\ task' = [task EXCEPT ![th].req = None, ![th].reply = out.reply]
                  /\ UNCHANGED <<page, timer, place, moves, failures, missed, torn>>
<1>1. db \in Databases /\ GoodTask(db, page.course, th, task[th]) /\ task[th].req # None
  BY DEF TypeInv, Serve
<1>2. GoodRequest(db, task[th].req)
  BY <1>1 DEF GoodTask, WellAsked
<1>3. PICK out \in Handle(db, task[th].req) :
        /\ db' = out.db /\ task' = [task EXCEPT ![th].req = None, ![th].reply = out.reply]
  BY DEF Serve
<1>4. Served(db, task[th].req, out)
  BY <1>1, <1>2, HandleServes
<1>. QED  BY <1>1, <1>3, <1>4 DEF Serve

(* The service keeps the types.                                              *)
LEMMA ServeKeepsTypes ==
  ASSUME TypeInv, NEW th \in Threads, Serve(th)
  PROVE  TypeInv'
<1>. DEFINE t == task[th]
            q == t.req
<1>1. PICK out : /\ Served(db, q, out) /\ db' = out.db /\ q # None
                 /\ task' = [task EXCEPT ![th].req = None, ![th].reply = out.reply]
                 /\ UNCHANGED <<page, place, moves>>
  BY ServeFacts
<1>. DEFINE u == [t EXCEPT !.req = None, !.reply = out.reply]
<1>2. task' = [task EXCEPT ![th] = u]
  BY <1>1 DEF TypeInv
<1>3. /\ db \in Databases /\ \A r \in Threads : GoodTask(db, page.course, r, task[r])
      /\ DOMAIN task = Threads
  BY DEF TypeInv
<1>4. db' \in Databases /\ Grows(db, db') /\ (q.kind # "outline" => db'.revision = db.revision)
  BY <1>1 DEF Served
<1>5. GoodTask(db', page.course, th, u)
  BY <1>1, <1>3, ServedTask
<1>. HIDE DEF u
<1>6. ASSUME NEW r \in Threads, r # th PROVE GoodTask(db', page.course, r, task[r])
  <2>1. task[r].req # None /\ task[r].req.kind = "outline" => db'.revision = db.revision
    <3>1. SUFFICES ASSUME task[r].req # None, task[r].req.kind = "outline", q.kind = "outline"
                   PROVE  FALSE
      BY <1>4
    <3>2. task[r].pc = "build" /\ t.pc = "build"
      BY <1>1, <1>3, <3>1 DEF GoodTask, WellAsked, Asks
    <3>3. Home(r, "build") /\ Home(th, "build")
      BY <1>3, <3>2 DEF GoodTask
    <3>. QED  BY <1>6, <3>3 DEF Home, BackSteps, Threads
  <2>. QED  BY <1>3, <1>4, <2>1, TaskStays
<1>7. \A r \in Threads : GoodTask(db', page.course, r, task'[r])
  BY <1>2, <1>3, <1>5, <1>6
<1>8. IsPage(Known(db'), page)
  BY <1>4, KnownStays, PageStays DEF TypeInv
<1>. QED  BY <1>1, <1>2, <1>3, <1>4, <1>7, <1>8 DEF TypeInv

(* A job ends.                                                              *)
LEMMA WorkFacts ==
  ASSUME TypeInv, Work
  PROVE  /\ db' \in Databases /\ db'.revision = db.revision /\ db'.summary = db.summary
         /\ db'.tried = db.tried /\ db'.helped = db.helped
         /\ UNCHANGED <<page, task, timer, place, moves, missed, torn>>
BY WorkedIsDatabase DEF Work, TypeInv

(* A job keeps the types.                                                    *)
LEMMA WorkKeepsTypes ==
  ASSUME TypeInv, Work
  PROVE  TypeInv'
<1>1. /\ db' \in Databases /\ db'.revision = db.revision /\ Grows(db, db')
      /\ UNCHANGED <<page, task, place, moves>>
  BY WorkFacts, SameRecordGrows DEF TypeInv
<1>2. \A r \in Threads : GoodTask(db', page.course, r, task[r])
  BY <1>1, TaskStays DEF TypeInv
<1>3. IsPage(Known(db'), page)
  BY <1>1, KnownStays, PageStays DEF TypeInv
<1>. QED  BY <1>1, <1>2, <1>3 DEF TypeInv

(* A task is given up.                                                      *)
LEMMA GiveUpKeepsTypes ==
  ASSUME TypeInv, NEW th \in Threads, GiveUp(th)
  PROVE  TypeInv'
<1>1. task' = [task EXCEPT ![th] = Idle] /\ UNCHANGED <<db, page, place, moves>>
  BY DEF GiveUp
<1>. QED  BY <1>1, IdleIsGood DEF TypeInv

(* Every state that is reached is well formed: what the page holds, what is   *)
(* asked and what is answered.                                              *)
THEOREM TypeInvCorrect == Spec => []TypeInv
<1>1. Init => TypeInv
  BY InitIsTyped
<1>2. TypeInv /\ [Next]_vars => TypeInv'
  <2>1. SUFFICES ASSUME TypeInv, [Next]_vars PROVE TypeInv'
    OBVIOUS
  <2>2. CASE UNCHANGED vars
    BY <2>1, <2>2 DEF vars, TypeInv
  <2>3. CASE Student
    <3>1. CASE \/ \E c \in Courses : SelectCourse(c)
               \/ CreateCourse \/ AddDocument \/ BuildPath
               \/ \E t \in Topics : OpenTopic(t)
               \/ WriteNotes \/ Submit \/ AskHint
               \/ \E b \in BOOLEAN : PeekNotes(b)
      BY <2>1, <3>1, RequestsKeepTypes
    <3>2. CASE WriteMore
      <4>1. PICK more \in BOOLEAN : WriteQuestions(more)
        BY <3>2 DEF WriteMore
      <4>. QED  BY <2>1, <4>1, RequestsKeepTypes
    <3>3. CASE DoThisNow \/ (\E m \in {"study", "practice"} : Tab(m)) \/ KeepPracticing
               \/ NextQuestion \/ Type
      BY <2>1, <3>3, ClicksKeepTypes
    <3>4. CASE Reload
      <4>1. db' = db /\ place' = place /\ moves' = moves - 1 /\ moves > 0 /\ page' = Blank
        BY <3>4 DEF Reload
      <4>2. task' = [th \in Threads |-> IF th = "load" THEN Loading(place) ELSE Idle]
        BY <3>4 DEF Reload
      <4>3. db' \in Databases /\ place \in Places /\ moves' \in Nat
        BY <2>1, <4>1 DEF TypeInv
      <4>. QED  BY <4>1, <4>2, <4>3, BlankKeepsTypes
    <3>. QED  BY <2>3, <3>1, <3>2, <3>3, <3>4 DEF Student
  <2>4. CASE Work
    BY <2>1, <2>4, WorkKeepsTypes
  <2>5. CASE Poll
    BY <2>1, <2>5, PollKeepsTypes
  <2>6. ASSUME NEW th \in Threads, Serve(th) PROVE TypeInv'
    BY <2>1, <2>6, ServeKeepsTypes
  <2>7. ASSUME NEW th \in Threads, Lose(th) PROVE TypeInv'
    BY <2>1, <2>7, GiveUpKeepsTypes DEF Lose
  <2>8. ASSUME NEW th \in Threads, Replied(th) PROVE TypeInv'
    <3>1. CASE Created(th) \/ Listed(th) \/ OpenedCourse(th) \/ DocumentAdded(th) \/ Built(th)
      BY <2>1, <3>1, CourseAnswersKeepTypes
    <3>2. CASE \/ OpenedTopic(th) \/ Acted(th) \/ ActedRefreshed(th) \/ AnswerChecked(th)
               \/ AnswerShown(th) \/ HintShown(th) \/ NotesPeeked(th)
      BY <2>1, <3>2, TopicAnswersKeepTypes
    <3>3. CASE VisitRecorded(th) \/ VisitedCourse(th) \/ PolledCourse(th) \/ PolledTopic(th)
      BY <2>1, <3>3, BackgroundKeepsTypes
    <3>4. CASE Refused(th)
      BY <2>1, <3>4, GiveUpKeepsTypes DEF Refused
    <3>. QED  BY <2>8, <3>1, <3>2, <3>3, <3>4 DEF Replied
  <2>. QED  BY <2>1, <2>2, <2>3, <2>4, <2>5, <2>6, <2>7, <2>8 DEF Next
<1>. QED  BY <1>1, <1>2, PTL DEF Spec

-----------------------------------------------------------------------------
(* What the actions make of the page.                                       *)

(* What is drawn next differs from g in no more than what Show sends.         *)
LEMMA ShowPage ==
  ASSUME NEW P, NEW g \in Pages(P), NEW tasks, Show(g, tasks)
  PROVE  SamePage(g, page')
BY DEF Show, Pages, SamePage, Kept

(* What the script holds apart from the views.                               *)
SameMind(g, h) ==
  /\ h.mode = g.mode /\ h.item = g.item /\ h.feedback = g.feedback /\ h.confirm = g.confirm
  /\ h.recorded = g.recorded /\ h.peeked = g.peeked /\ h.hints = g.hints

(* The handlers that store an answer and draw nothing.                       *)
StoresOnly(th) ==
  Created(th) \/ Listed(th) \/ OpenedCourse(th) \/ DocumentAdded(th) \/ Built(th) \/ Acted(th)
    \/ VisitRecorded(th) \/ VisitedCourse(th)

(* They leave the screen and the mind of the script as they are.             *)
LEMMA StoresOnlyStores ==
  ASSUME TypeInv, NEW th \in Threads, StoresOnly(th)
  PROVE  /\ SameMind(page, page') /\ db' = db /\ moves' = moves
         /\ page'.card = page.card /\ page'.pane = page.pane /\ page'.study = page.study
         /\ page'.notes = page.notes /\ page'.draft = page.draft
         /\ page'.shown => page.shown
         /\ page'.topic # None => Acted(th) \/ (page.topic # None /\ page'.topic.key = page.topic.key)
<1>. DEFINE P == Known(db)
            v == task[th].reply
            Good(g) == /\ SameMind(page, g) /\ g \in Pages(P)
                       /\ g.card = page.card /\ g.pane = page.pane /\ g.study = page.study
                       /\ g.notes = page.notes /\ g.draft = page.draft
                       /\ g.shown => page.shown
                       /\ g.topic # None => Acted(th) \/ (page.topic # None /\ g.topic.key = page.topic.key)
<1>0. page \in Pages(P) /\ Good(page)
  BY PageFacts DEF SameMind
<1>1. SUFFICES \E g, tasks : Good(g) /\ Show(g, tasks) /\ UNCHANGED <<db, moves>>
  BY ShowPage DEF SamePage, Kept, SameMind
<1>2. \A c \in CourseViews : Good([page EXCEPT !.course = c])
  BY <1>0, CourseStored DEF SameMind, SameCard, IsPage
<1>3. CASE Created(th) \/ Listed(th)
  <2>. DEFINE g == [page EXCEPT !.options = v]
  <2>1. CASE Created(th)
    BY <1>0, <2>1 DEF Created, Continue
  <2>2. CASE Listed(th)
    <3>1. \E tasks : Show(g, tasks) /\ UNCHANGED <<db, moves>>
      BY <2>2 DEF Listed, Continue, Finish
    <3>2. v \in SUBSET Courses
      BY <2>2, AnswerFacts DEF Listed
    <3>3. g \in Pages(P)
      BY <1>0, <3>2, FieldsOfPages
    <3>4. Good(g)
      BY <1>0, <3>3 DEF Pages, SameMind
    <3>. HIDE DEF g, Good
    <3>. QED  BY <3>1, <3>4
  <2>. QED  BY <1>3, <2>1, <2>2
<1>4. CASE OpenedCourse(th)
  <2>. DEFINE g == [page EXCEPT !.course = v]
              h == [g EXCEPT !.topic = None, !.shown = FALSE]
  <2>1. v \in CourseViews
    BY <1>4, AnswerFacts DEF OpenedCourse, CourseSteps
  <2>2. Good(g) /\ g \in Pages(P)
    BY <1>2, <2>1
  <2>3. \E x, tasks : (x = g \/ x = h) /\ Show(x, tasks) /\ UNCHANGED <<db, moves>>
    BY <1>4 DEF OpenedCourse, Continue, Finish
  <2>. HIDE DEF g
  <2>4. h \in Pages(P)
    <3>1. [g EXCEPT !.topic = None] \in Pages(P)
      BY <2>2, FieldsOfPages
    <3>. QED  BY <3>1, FieldsOfPages
  <2>5. Good(h)
    BY <2>2, <2>4 DEF Pages, SameMind
  <2>. HIDE DEF h, Good
  <2>. QED  BY <2>2, <2>3, <2>5
<1>5. CASE DocumentAdded(th) \/ VisitedCourse(th)
  <2>. DEFINE g == [page EXCEPT !.course = v]
  <2>1. v \in CourseViews
    BY <1>5, AnswerFacts DEF DocumentAdded, VisitedCourse, CourseSteps
  <2>2. Good(g)
    BY <1>2, <2>1
  <2>3. \E tasks : Show(g, tasks) /\ UNCHANGED <<db, moves>>
    BY <1>5 DEF DocumentAdded, VisitedCourse, Finish
  <2>. HIDE DEF g, Good
  <2>. QED  BY <2>2, <2>3
<1>6. CASE Built(th)
  <2>. DEFINE g == [page EXCEPT !.course = v]
              h == [g EXCEPT !.topic = None]
  <2>1. v \in CourseViews
    BY <1>6, AnswerFacts DEF Built, CourseSteps
  <2>2. Good(g) /\ g \in Pages(P)
    BY <1>2, <2>1
  <2>3. \E tasks : Show(h, tasks) /\ UNCHANGED <<db, moves>>
    BY <1>6 DEF Built, Continue
  <2>. HIDE DEF g
  <2>4. h \in Pages(P)
    BY <2>2, FieldsOfPages
  <2>5. Good(h)
    BY <2>2, <2>4 DEF Pages, SameMind
  <2>. HIDE DEF h, Good
  <2>. QED  BY <2>3, <2>5
<1>7. CASE Acted(th)
  <2>. DEFINE g == [page EXCEPT !.topic = v]
  <2>1. v \in TopicViews(P) /\ page.course # None
    BY <1>7, AnswerFacts DEF Acted, TopicSteps
  <2>2. Good(g)
    BY <1>7, <2>1, TopicStored DEF SameMind, SameCard, IsPage
  <2>3. \E tasks : Show(g, tasks) /\ UNCHANGED <<db, moves>>
    BY <1>7 DEF Acted, Continue
  <2>. HIDE DEF g, Good
  <2>. QED  BY <2>2, <2>3
<1>8. CASE VisitRecorded(th)
  <2>. DEFINE g == StepStored(v.step)
  <2>1. v.step \in StepViews(P)
    BY <1>8, AnswerFacts DEF VisitRecorded, TopicSteps, TopicViews
  <2>2. page.topic # None => Good(g)
    BY <2>1, StepStoredIsPage DEF SameMind, SameCard, IsPage
  <2>3. \E x, tasks : (x = page \/ (page.topic # None /\ x = g)) /\ Show(x, tasks) /\ UNCHANGED <<db, moves>>
    BY <1>8 DEF VisitRecorded, StepStored
  <2>. HIDE DEF g, Good
  <2>. QED  BY <1>0, <2>2, <2>3
<1>. QED  BY <1>3, <1>4, <1>5, <1>6, <1>7, <1>8 DEF StoresOnly

(* An answer was checked.                                                   *)
LEMMA AnswerCheckedStores ==
  ASSUME TypeInv, NEW th \in Threads, AnswerChecked(th)
  PROVE  LET P == Known(db)
             v == task[th].reply
             i == task[th].item
             g == [page EXCEPT !.topic = v, !.feedback = i]
         IN /\ Answers(th, "answer") /\ v \in TopicViews(P) /\ v # None /\ i \in ItemsOn(P)
            /\ Continue(th, g, CourseCall("answered", page.course.id))
            /\ IsPage(P, g) /\ SameCard(page, g) /\ g.course = page.course /\ g.topic = v
            /\ g.mode = page.mode /\ g.item = page.item /\ g.feedback = i
            /\ g.confirm = page.confirm /\ g.recorded = page.recorded
            /\ g.peeked = page.peeked /\ g.hints = page.hints
<1>. DEFINE P == Known(db)
            v == task[th].reply
            i == task[th].item
            f == [page EXCEPT !.topic = v]
            g == [f EXCEPT !.feedback = i]
<1>1. Answers(th, "answer") /\ Continue(th, g, CourseCall("answered", page.course.id))
  BY DEF AnswerChecked
<1>2. v \in TopicViews(P) /\ page.course # None /\ i \in ItemsOn(P)
  BY <1>1, AnswerFacts DEF TopicSteps, WellKept
<1>3. /\ v # None /\ IsPage(P, f) /\ SameCard(page, f) /\ f.course = page.course /\ f.topic = v
      /\ f.mode = page.mode /\ f.item = page.item
      /\ f.confirm = page.confirm /\ f.recorded = page.recorded
      /\ f.peeked = page.peeked /\ f.hints = page.hints
  BY <1>2, TopicStored
<1>4. f \in Pages(P)
  BY <1>3 DEF IsPage
<1>5. g = [page EXCEPT !.topic = v, !.feedback = i]
  BY PageFacts DEF Pages
<1>. HIDE DEF f, i
<1>6. g \in Pages(P)
  BY <1>2, <1>4, FieldsOfPages
<1>7. /\ SameCard(f, g) /\ g.course = f.course /\ g.topic = f.topic
      /\ g.mode = f.mode /\ g.item = f.item /\ g.feedback = i
      /\ g.confirm = f.confirm /\ g.recorded = f.recorded
      /\ g.peeked = f.peeked /\ g.hints = f.hints
  BY <1>4 DEF Pages, SameCard
<1>. HIDE DEF g
<1>8. IsPage(P, g)
  BY <1>3, <1>6, <1>7 DEF IsPage, SameCard
<1>9. SameCard(page, g)
  BY <1>3, <1>7 DEF SameCard
<1>. QED  BY <1>1, <1>2, <1>3, <1>5, <1>7, <1>8, <1>9 DEF i, g, f

(* A hint came.                                                             *)
LEMMA HintDraws ==
  ASSUME TypeInv, NEW th \in Threads, HintShown(th)
  PROVE  LET P == Known(db)
             g == [page EXCEPT !.hints = page.hints \cup {task[th].item}]
             h == RenderPractice(g)
         IN /\ Answers(th, "hint") /\ Finish(th, h)
            /\ IsPage(P, g) /\ SameCard(page, g) /\ g.course = page.course /\ g.topic = page.topic
            /\ g.mode = page.mode /\ g.item = page.item /\ g.feedback = page.feedback
            /\ g.confirm = page.confirm /\ g.recorded = page.recorded
            /\ g.peeked = page.peeked /\ g.hints = page.hints \cup {task[th].item}
            /\ PracticeDrawn(P, g, h) /\ h.pane = g.pane /\ h.shown = g.shown
<1>. DEFINE P == Known(db)
            x == page.hints \cup {task[th].item}
            g == [page EXCEPT !.hints = x]
            h == RenderPractice(g)
<1>1. page \in Pages(P) /\ page.post = None /\ (page.topic # None => page.course # None)
  BY PageFacts
<1>2. Answers(th, "hint") /\ Finish(th, h)
  BY <1>1 DEF HintShown, Pages
<1>3. x \in SUBSET ItemsOn(P)
  <2>1. task[th].item \in ItemsOn(P)
    BY <1>2, AnswerFacts DEF WellKept
  <2>. QED  BY <1>1, <2>1 DEF Pages
<1>. HIDE DEF x
<1>4. g \in Pages(P)
  BY <1>1, <1>3, FieldsOfPages
<1>5. /\ SameCard(page, g) /\ g.course = page.course /\ g.topic = page.topic
      /\ g.mode = page.mode /\ g.item = page.item /\ g.feedback = page.feedback
      /\ g.confirm = page.confirm /\ g.recorded = page.recorded
      /\ g.peeked = page.peeked /\ g.hints = x
  BY <1>1 DEF Pages, SameCard
<1>. HIDE DEF g
<1>6. IsPage(P, g)
  BY <1>1, <1>4, <1>5 DEF IsPage, SameCard
<1>7. PracticeDrawn(P, g, h) /\ h.pane = g.pane /\ h.shown = g.shown
  BY <1>6, PracticeDrawing
<1>. QED  BY <1>2, <1>5, <1>6, <1>7 DEF g, x

(* The notes were asked for in a question.                                   *)
LEMMA PeekDraws ==
  ASSUME TypeInv, NEW th \in Threads, NotesPeeked(th)
  PROVE  LET P == Known(db)
             g == [page EXCEPT !.peeked = page.peeked \cup {task[th].item}, !.confirm = FALSE]
             h == IF task[th].flag THEN SetMode(g, "study") ELSE RenderPractice(g)
         IN /\ Answers(th, "peek") /\ Finish(th, h)
            /\ IsPage(P, g) /\ SameCard(page, g) /\ g.course = page.course /\ g.topic = page.topic
            /\ g.mode = page.mode /\ g.item = page.item /\ g.feedback = page.feedback
            /\ ~g.confirm /\ g.recorded = page.recorded
            /\ g.peeked = page.peeked \cup {task[th].item} /\ g.hints = page.hints
            /\ task[th].flag => ModeDrawn(P, g, "study", h)
            /\ ~task[th].flag => PracticeDrawn(P, g, h) /\ h.pane = g.pane /\ h.shown = g.shown
<1>. DEFINE P == Known(db)
            x == page.peeked \cup {task[th].item}
            g == [page EXCEPT !.peeked = x, !.confirm = FALSE]
            h == IF task[th].flag THEN SetMode(g, "study") ELSE RenderPractice(g)
<1>1. page \in Pages(P) /\ page.post = None /\ (page.topic # None => page.course # None)
  BY PageFacts
<1>2. Answers(th, "peek") /\ Finish(th, h)
  BY <1>1 DEF NotesPeeked, Pages
<1>3. x \in SUBSET ItemsOn(P)
  <2>1. task[th].item \in ItemsOn(P)
    BY <1>2, AnswerFacts DEF WellKept
  <2>. QED  BY <1>1, <2>1 DEF Pages
<1>. HIDE DEF x
<1>4. g \in Pages(P)
  <2>1. [page EXCEPT !.peeked = x] \in Pages(P)
    BY <1>1, <1>3, FieldsOfPages
  <2>. QED  BY <2>1, FieldsOfPages
<1>5. /\ SameCard(page, g) /\ g.course = page.course /\ g.topic = page.topic
      /\ g.mode = page.mode /\ g.item = page.item /\ g.feedback = page.feedback
      /\ ~g.confirm /\ g.recorded = page.recorded
      /\ g.peeked = x /\ g.hints = page.hints
  BY <1>1 DEF Pages, SameCard
<1>. HIDE DEF g
<1>6. IsPage(P, g)
  BY <1>1, <1>4, <1>5 DEF IsPage, SameCard
<1>7. /\ PracticeDrawn(P, g, RenderPractice(g)) /\ RenderPractice(g).pane = g.pane
      /\ RenderPractice(g).shown = g.shown /\ ModeDrawn(P, g, "study", SetMode(g, "study"))
  BY <1>6, PracticeDrawing, SetModeDrawing
<1>. QED  BY <1>2, <1>5, <1>6, <1>7 DEF g, x

(* The confirmation is taken back.                                          *)
LEMMA KeepDraws ==
  ASSUME TypeInv, KeepPracticing
  PROVE  LET P == Known(db)
             g == [page EXCEPT !.confirm = FALSE]
             h == RenderPractice(g)
         IN /\ Click(h) /\ IsPage(P, g) /\ SameCard(page, g) /\ Kept(page, g)
            /\ g.mode = page.mode /\ g.item = page.item /\ ~g.confirm
            /\ g.recorded = page.recorded
            /\ PracticeDrawn(P, g, h) /\ h.pane = g.pane /\ h.shown = g.shown
<1>. DEFINE P == Known(db)
            g == [page EXCEPT !.confirm = FALSE]
<1>1. IsPage(P, page) /\ page \in Pages(P)
  BY PageFacts
<1>2. g \in Pages(P)
  BY <1>1, FieldsOfPages
<1>3. /\ SameCard(page, g) /\ Kept(page, g) /\ g.mode = page.mode /\ g.item = page.item
      /\ ~g.confirm /\ g.recorded = page.recorded
  BY <1>1 DEF Pages, SameCard, Kept
<1>4. Click(RenderPractice(g))
  BY DEF KeepPracticing
<1>. HIDE DEF g
<1>5. IsPage(P, g)
  BY <1>1, <1>2, <1>3 DEF IsPage, Kept, SameCard
<1>. QED  BY <1>3, <1>4, <1>5, PracticeDrawing DEF g

(* The next question.                                                       *)
LEMMA NextDraws ==
  ASSUME TypeInv, NextQuestion
  PROVE  LET P == Known(db)
             g == [page EXCEPT !.item = page.card.next, !.feedback = None]
             h == RenderPractice(g)
         IN /\ Click(h) /\ IsPage(P, g) /\ SameCard(page, g)
            /\ g.course = page.course /\ g.topic = page.topic /\ g.peeked = page.peeked
            /\ g.hints = page.hints /\ g.mode = page.mode /\ g.item = page.card.next
            /\ g.feedback = None /\ g.confirm = page.confirm /\ g.recorded = page.recorded
            /\ PracticeDrawn(P, g, h) /\ h.pane = g.pane /\ h.shown = g.shown
<1>. DEFINE P == Known(db)
            x == page.card.next
            g == [page EXCEPT !.item = x, !.feedback = None]
<1>1. IsPage(P, page) /\ page \in Pages(P)
  BY PageFacts
<1>2. x \in ItemsOn(P) \cup {None}
  BY <1>1 DEF Pages, Cards
<1>3. Click(RenderPractice(g))
  BY DEF NextQuestion
<1>. HIDE DEF x
<1>4. g \in Pages(P)
  <2>1. [page EXCEPT !.item = x] \in Pages(P)
    BY <1>1, <1>2, FieldsOfPages
  <2>. QED  BY <2>1, FieldsOfPages
<1>5. /\ SameCard(page, g) /\ g.course = page.course /\ g.topic = page.topic
      /\ g.peeked = page.peeked /\ g.hints = page.hints /\ g.mode = page.mode /\ g.item = x
      /\ g.feedback = None /\ g.confirm = page.confirm /\ g.recorded = page.recorded
  BY <1>1 DEF Pages, SameCard
<1>. HIDE DEF g
<1>6. IsPage(P, g)
  BY <1>1, <1>4, <1>5 DEF IsPage, SameCard
<1>. QED  BY <1>3, <1>5, <1>6, PracticeDrawing DEF g, x

(* The student's actions, by what they make of the page.                     *)
Begun == {"open_course", "create", "add", "build", "open_topic", "act", "answer", "hint", "peek"}

(* What a student asks for, beside the notes of a topic.                      *)
Asked(call) ==
  /\ Begin(page, call) /\ call.pc \in Begun
  /\ call.pc = "act" => call.flag /\ page.topic # None
  /\ call.pc \in {"answer", "hint", "peek"} => Open /\ call.item = page.card.item

(* Every action of the student asks, or draws one of a few things.           *)
LEMMA StudentDraws ==
  ASSUME TypeInv, Student
  PROVE  LET P == Known(db)
             q == AtQuestion(page)
         IN \/ \E call : Asked(call)
            \/ WriteNotes \/ Type \/ KeepPracticing \/ NextQuestion \/ Reload
            \/ \E m \in {"study", "practice"} : page.shown /\ Click(SetMode(page, m))
            \/ /\ page.shown /\ page.step # None /\ page.step \in StepViews(P)
               /\ page.step.item \in ItemsOn(P)
               /\ Click(IF q.topic = None THEN q ELSE RenderPractice(q))
<1>. DEFINE Begins == \E call : Asked(call)
<1>0. \A call : Begin(page, call) /\ call.pc \in {"open_course", "create", "add", "build", "open_topic"}
                  => Begins
  BY DEF Asked, Begun
<1>1. ASSUME NEW c \in Courses, SelectCourse(c) PROVE Begins
  <2>1. CourseCall("open_course", c).pc = "open_course"
    BY CallFields DEF CourseCall
  <2>. HIDE DEF Begins
  <2>. QED  BY <1>0, <1>1, <2>1 DEF SelectCourse
<1>2. ASSUME CreateCourse \/ AddDocument \/ BuildPath PROVE Begins
  <2>. HIDE DEF Begins
  <2>1. \A q : /\ Begin(page, Call("create", q)) => Begins
               /\ Begin(page, Call("add", q)) => Begins
               /\ Begin(page, Call("build", q)) => Begins
    BY <1>0, CallFields
  <2>. QED  BY <1>2, <2>1 DEF CreateCourse, AddDocument, BuildPath
<1>3. \A t : OpenTopic(t) => Begins
  <2>1. \A c, t : TopicCall(c, t).pc = "open_topic"
    BY DEF TopicCall, Call, Idle
  <2>. HIDE DEF Begins
  <2>. QED  BY <1>0, <2>1 DEF OpenTopic
<1>4. \A more : WriteQuestions(more) => Begins
  <2>1. \A r : LET a == [Call("act", r) EXCEPT !.flag = TRUE] IN a.pc = "act" /\ a.flag
    BY DEF Call, Idle
  <2>2. \A call : Begin(page, call) /\ call.pc = "act" /\ call.flag /\ page.topic # None => Begins
    BY DEF Asked, Begun
  <2>. HIDE DEF Begins
  <2>. QED  BY <2>1, <2>2 DEF WriteQuestions
<1>5. \A call : \A pc \in {"answer", "hint", "peek"} :
         Begin(page, call) /\ Open /\ call.pc = pc /\ call.item = page.card.item => Begins
  BY DEF Asked, Begun
<1>6. \A pc, kind, full : LET a == QuestionCall(pc, kind, full) IN a.pc = pc /\ a.item = page.card.item
  BY DEF QuestionCall, Call, Idle
<1>. HIDE DEF Begins
<1>7. ASSUME Submit \/ AskHint PROVE Begins
  <2>. DEFINE a(pc, kind, full) == QuestionCall(pc, kind, full)
  <2>1. Open /\ \E pc \in {"answer", "hint"} : \E kind, full : Begin(page, a(pc, kind, full))
    BY <1>7 DEF Submit, AskHint
  <2>2. \A pc, kind, full : a(pc, kind, full).pc = pc /\ a(pc, kind, full).item = page.card.item
    BY <1>6
  <2>. HIDE DEF a
  <2>. QED  BY <1>5, <2>1, <2>2
<1>8. \A b : PeekNotes(b) => Begins
  <2>. DEFINE a(b) == [QuestionCall("peek", "notes", FALSE) EXCEPT !.flag = b]
  <2>1. \A b : a(b).pc = "peek" /\ a(b).item = page.card.item
    BY DEF QuestionCall, Call, Idle
  <2>2. \A b : PeekNotes(b) => Open /\ Begin(page, a(b))
    BY DEF PeekNotes
  <2>. HIDE DEF a
  <2>. QED  BY <1>5, <2>1, <2>2
<1>9. WriteMore => Begins
  BY <1>4 DEF WriteMore
<1>10. ASSUME DoThisNow
       PROVE  \/ Begins \/ \E m \in {"study", "practice"} : page.shown /\ Click(SetMode(page, m))
              \/ /\ page.shown /\ page.step # None /\ page.step \in StepViews(Known(db))
                 /\ page.step.item \in ItemsOn(Known(db))
                 /\ LET q == AtQuestion(page) IN Click(IF q.topic = None THEN q ELSE RenderPractice(q))
  <2>1. page.shown /\ page.step # None /\ page.step \in StepViews(Known(db))
    BY <1>10, PageFacts DEF DoThisNow
  <2>2. \/ OpenTopic(page.step.topic)
        \/ Click(SetMode(page, "study"))
        \/ WriteQuestions(TRUE)
        \/ /\ page.step.kind = "answer_check" /\ ~page.step.more
           /\ LET g == AtQuestion(page) IN Click(IF g.topic = None THEN g ELSE RenderPractice(g))
    BY <1>10, <2>1 DEF DoThisNow, AtQuestion
  <2>3. page.step.kind = "answer_check" /\ ~page.step.more => page.step.item \in ItemsOn(Known(db))
    BY <2>1 DEF StepViews
  <2>. QED  BY <1>3, <1>4, <2>1, <2>2, <2>3
<1>11. ASSUME NEW m \in {"study", "practice"}, Tab(m)
       PROVE  page.shown /\ Click(SetMode(page, m))
  BY <1>11 DEF Tab
<1>. QED  BY <1>1, <1>2, <1>3, <1>7, <1>8, <1>9, <1>10, <1>11 DEF Student, Begins

(* What a click makes of the page.                                          *)
LEMMA ClickPage ==
  ASSUME NEW P, NEW g, IsPage(P, g), Click(g)
  PROVE  SamePage(g, page') /\ Show(g, task) /\ db' = db /\ moves' = moves - 1 /\ moves > 0
BY ShowPage DEF Click, IsPage

(* What the end of a task makes of the page.                                 *)
LEMMA FinishPage ==
  ASSUME NEW P, NEW g, IsPage(P, g), NEW th, Finish(th, g)
  PROVE  /\ SamePage(g, page') /\ Show(g, [task EXCEPT ![th] = Idle]) /\ db' = db
         /\ moves' = moves
BY ShowPage DEF Finish, IsPage

(* The next step is drawn: the question is put and the pane drawn.           *)
LEMMA AtQuestionClick ==
  ASSUME TypeInv, page.step # None, page.step \in StepViews(Known(db))
  PROVE  LET P == Known(db)
             q == AtQuestion(page)
             h == IF q.topic = None THEN q ELSE RenderPractice(q)
         IN /\ IsPage(P, h) /\ Kept(page, h) /\ h.shown = page.shown
            /\ q.topic # None => PracticeDrawn(P, q, h) /\ h.pane = q.pane
<1>1. IsPage(Known(db), page)
  BY PageFacts
<1>2. IsPage(Known(db), AtQuestion(page)) /\ Kept(page, AtQuestion(page)) /\ AtQuestion(page).shown = page.shown
  BY <1>1, AtQuestionDrawing
<1>3. /\ PracticeDrawn(Known(db), AtQuestion(page), RenderPractice(AtQuestion(page)))
      /\ RenderPractice(AtQuestion(page)).pane = AtQuestion(page).pane
      /\ RenderPractice(AtQuestion(page)).shown = AtQuestion(page).shown
  BY <1>2, PracticeDrawing
<1>. QED  BY <1>2, <1>3 DEF PracticeDrawn, Kept

-----------------------------------------------------------------------------
(* Help that is shown is recorded.                                          *)

(* Recorded help stays recorded.                                            *)
LEMMA HelpStays ==
  ASSUME TypeInv, HelpIsRecorded, page'.peeked \subseteq page.peeked, page'.hints \subseteq page.hints,
         \A i \in Items : db.helped[i] \subseteq db'.helped[i]
  PROVE  HelpIsRecorded'
<1>1. page.peeked \subseteq Items /\ page.hints \subseteq Items
  BY PageFacts DEF Pages, ItemsOn
<1>. QED  BY <1>1 DEF HelpIsRecorded

(* The student's actions show no new help.                                   *)
LEMMA StudentKeepsHelp ==
  ASSUME TypeInv, Student
  PROVE  page'.peeked \subseteq page.peeked /\ page'.hints \subseteq page.hints /\ db' = db
<1>. DEFINE P == Known(db)
            Fine(h) == h.peeked = page.peeked /\ h.hints = page.hints
<1>0. IsPage(P, page) /\ page \in Pages(P)
  BY PageFacts
<1>1. \A h : IsPage(P, h) /\ Fine(h) /\ Click(h) => Fine(page') /\ db' = db
  <2>1. SUFFICES ASSUME NEW h, IsPage(P, h), Fine(h), Click(h) PROVE Fine(page') /\ db' = db
    OBVIOUS
  <2>. QED  BY <2>1, ClickPage DEF SamePage, Kept
<1>2. ASSUME NEW call, Asked(call) PROVE Fine(page') /\ db' = db
  BY <1>2 DEF Asked, Begin
<1>3. ASSUME WriteNotes PROVE Fine(page') /\ db' = db
  <2>1. page' = [page EXCEPT !.recorded = TRUE] /\ db' = db
    BY <1>3 DEF WriteNotes, Begin
  <2>. QED  BY <1>0, <2>1 DEF Pages
<1>4. ASSUME Type PROVE Fine(page') /\ db' = db
  <2>1. page' = [page EXCEPT !.draft = TRUE] /\ db' = db
    BY <1>4 DEF Type
  <2>. QED  BY <1>0, <2>1 DEF Pages
<1>5. ASSUME KeepPracticing PROVE Fine(page') /\ db' = db
  <2>. DEFINE h == RenderPractice([page EXCEPT !.confirm = FALSE])
  <2>1. Click(h) /\ IsPage(P, h) /\ Fine(h)
    BY <1>5, KeepDraws DEF PracticeDrawn, Kept
  <2>. HIDE DEF h
  <2>. QED  BY <1>1, <2>1
<1>6. ASSUME NextQuestion PROVE Fine(page') /\ db' = db
  <2>. DEFINE h == RenderPractice([page EXCEPT !.item = page.card.next, !.feedback = None])
  <2>1. Click(h) /\ IsPage(P, h) /\ Fine(h)
    BY <1>6, NextDraws DEF PracticeDrawn, Kept
  <2>. HIDE DEF h
  <2>. QED  BY <1>1, <2>1
<1>7. ASSUME NEW m \in {"study", "practice"}, Click(SetMode(page, m))
      PROVE  Fine(page') /\ db' = db
  <2>. DEFINE h == SetMode(page, m)
  <2>1. Click(h) /\ IsPage(P, h) /\ Fine(h)
    BY <1>0, <1>7, SetModeDrawing DEF ModeDrawn, Kept
  <2>. HIDE DEF h
  <2>. QED  BY <1>1, <2>1
<1>8. ASSUME page.step # None, page.step \in StepViews(P), NEW q, q = AtQuestion(page),
             Click(IF q.topic = None THEN q ELSE RenderPractice(q))
      PROVE  Fine(page') /\ db' = db
  <2>. DEFINE h == IF q.topic = None THEN q ELSE RenderPractice(q)
  <2>1. Click(h) /\ IsPage(P, h) /\ Fine(h)
    BY <1>8, AtQuestionClick DEF Kept
  <2>. HIDE DEF h
  <2>. QED  BY <1>1, <2>1
<1>9. ASSUME Reload PROVE page'.peeked = {} /\ page'.hints = {} /\ db' = db
  BY <1>9 DEF Reload, Blank
<1>. HIDE DEF P
<1>10. (Fine(page') /\ db' = db) \/ (page'.peeked = {} /\ page'.hints = {} /\ db' = db)
  <2>. HIDE DEF Fine
  <2>. QED  BY <1>2, <1>3, <1>4, <1>5, <1>6, <1>7, <1>8, <1>9, StudentDraws DEF P
<1>. QED  BY <1>10

(* Nor do the answers, but for those to a request for help.                  *)
LEMMA RepliesKeepHelp ==
  ASSUME TypeInv, NEW th \in Threads, Replied(th), ~HintShown(th), ~NotesPeeked(th)
  PROVE  page'.peeked = page.peeked /\ page'.hints = page.hints /\ db' = db
<1>. DEFINE P == Known(db)
            Fine(h) == h.peeked = page.peeked /\ h.hints = page.hints
<1>0. IsPage(P, page) /\ page \in Pages(P)
  BY PageFacts
<1>1. \A h : IsPage(P, h) /\ Fine(h) /\ Finish(th, h) => Fine(page') /\ db' = db
  <2>1. SUFFICES ASSUME NEW h, IsPage(P, h), Fine(h), Finish(th, h) PROVE Fine(page') /\ db' = db
    OBVIOUS
  <2>. QED  BY <2>1, FinishPage DEF SamePage, Kept
<1>2. ASSUME StoresOnly(th) PROVE Fine(page') /\ db' = db
  BY <1>2, StoresOnlyStores DEF SameMind
<1>3. ASSUME OpenedTopic(th) PROVE Fine(page') /\ db' = db
  <2>. DEFINE g == OpenedPage(task[th].reply, task[th].topic)
              h == RenderTopic(g)
  <2>1. Finish(th, h) /\ IsPage(P, h) /\ Fine(h)
    BY <1>3, OpenedTopicDraws DEF TopicDrawn, Kept
  <2>. HIDE DEF h
  <2>. QED  BY <1>1, <2>1
<1>4. ASSUME NEW v \in CourseViews
      PROVE  LET h == RenderTopic([page EXCEPT !.course = v]) IN IsPage(P, h) /\ Fine(h)
  <2>. DEFINE g == [page EXCEPT !.course = v]
              h == RenderTopic(g)
  <2>1. IsPage(P, g) /\ Fine(g)
    BY <1>4, CourseStored DEF SameMind
  <2>. HIDE DEF g
  <2>2. TopicDrawn(P, g, h)
    BY <2>1, TopicDrawing
  <2>3. IsPage(P, h) /\ Kept(g, h)
    BY <2>2 DEF TopicDrawn
  <2>4. Fine(h)
    BY <2>1, <2>3 DEF Kept
  <2>. QED  BY <2>3, <2>4 DEF g
<1>5. ASSUME AnswerShown(th) PROVE Fine(page') /\ db' = db
  <2>. DEFINE v == task[th].reply
              h == RenderTopic([page EXCEPT !.course = v])
  <2>1. Finish(th, h) /\ v \in CourseViews
    BY <1>5, AnswerFacts DEF AnswerShown, CourseSteps
  <2>2. IsPage(P, h) /\ Fine(h)
    BY <1>4, <2>1
  <2>. HIDE DEF h
  <2>. QED  BY <1>1, <2>1, <2>2
<1>6. ASSUME ActedRefreshed(th) PROVE Fine(page') /\ db' = db
  <2>. DEFINE v == task[th].reply
              h == RenderTopic([page EXCEPT !.course = v])
              r == RenderMode(Restarted(h))
              k == IF ~task[th].flag \/ Raises(h) THEN h ELSE r
  <2>1. Finish(th, k) /\ v \in CourseViews
    BY <1>6, AnswerFacts DEF ActedRefreshed, Restarted, CourseSteps
  <2>2. IsPage(P, h) /\ Fine(h)
    BY <1>4, <2>1
  <2>. HIDE DEF h
  <2>3. IsPage(P, r) /\ Fine(r)
    BY <2>2, RestartedDraws DEF Kept
  <2>. HIDE DEF r
  <2>4. IsPage(P, k) /\ Fine(k)
    BY <2>2, <2>3
  <2>. HIDE DEF k
  <2>. QED  BY <1>1, <2>1, <2>4
<1>7. ASSUME AnswerChecked(th) PROVE Fine(page') /\ db' = db
  <2>. DEFINE g == [page EXCEPT !.topic = task[th].reply, !.feedback = task[th].item]
              a == CourseCall("answered", page.course.id)
  <2>1. IsPage(P, g) /\ Fine(g) /\ Continue(th, g, a)
    BY <1>7, AnswerCheckedStores
  <2>. HIDE DEF g, a
  <2>. QED  BY <2>1, ShowPage DEF Continue, IsPage, SamePage, Kept
<1>8. ASSUME PolledCourse(th) \/ PolledTopic(th) PROVE Fine(page') /\ db' = db
  <2>1. ASSUME NEW course \in CourseViews, NEW fresh \in TopicViews(P) \cup {None},
               PollEnd(th, course, fresh)
        PROVE  Fine(page') /\ db' = db
    <3>. DEFINE h == PollApplied(page, course, fresh, task[th].topic)
                k == IF Discarded(task[th].course) THEN page ELSE h
    <3>1. Finish(th, k)
      BY <2>1 DEF PollEnd
    <3>2. IsPage(P, h) /\ Fine(h)
      BY <2>1, PollEndDraws DEF PollDrawn
    <3>. HIDE DEF h
    <3>3. IsPage(P, k) /\ Fine(k)
      BY <1>0, <3>2
    <3>. HIDE DEF k
    <3>. QED  BY <1>1, <3>1, <3>3
  <2>2. CASE PolledTopic(th)
    <3>1. task[th].fresh \in CourseViews /\ task[th].reply \in TopicViews(P)
      BY <2>2, AnswerFacts DEF PolledTopic, TopicSteps, WellKept
    <3>. QED  BY <2>1, <2>2, <3>1 DEF PolledTopic
  <2>3. CASE PolledCourse(th)
    <3>1. task[th].reply \in CourseViews
      BY <2>3, AnswerFacts DEF PolledCourse, CourseSteps
    <3>2. CASE task[th].topic = None
      BY <2>1, <2>3, <3>1, <3>2 DEF PolledCourse
    <3>3. CASE task[th].topic # None
      <4>1. \E call : Continue(th, page, call)
        BY <2>3, <3>3 DEF PolledCourse
      <4>. QED  BY <1>0, <4>1, ShowPage DEF Continue, SamePage, Kept
    <3>. QED  BY <3>2, <3>3
  <2>. QED  BY <1>8, <2>2, <2>3
<1>9. ASSUME Refused(th) PROVE Fine(page') /\ db' = db
  BY <1>9 DEF Refused, GiveUp
<1>10. Fine(page') /\ db' = db
  <2>. HIDE DEF Fine
  <2>. QED  BY <1>2, <1>3, <1>5, <1>6, <1>7, <1>8, <1>9 DEF Replied, StoresOnly
<1>. QED  BY <1>10

(* The hints and the notes that a question shows were recorded for it before   *)
(* they were shown.                                                         *)
THEOREM HelpIsRecordedCorrect == Spec => []HelpIsRecorded
<1>1. Init => HelpIsRecorded
  BY DEF Init, HelpIsRecorded, Blank
<1>2. TypeInv /\ HelpIsRecorded /\ [Next]_vars => HelpIsRecorded'
  <2>1. SUFFICES ASSUME TypeInv, HelpIsRecorded, [Next]_vars PROVE HelpIsRecorded'
    OBVIOUS
  <2>2. CASE UNCHANGED vars
    BY <2>1, <2>2 DEF vars, HelpIsRecorded
  <2>3. CASE Student
    BY <2>1, <2>3, StudentKeepsHelp, HelpStays
  <2>4. CASE Work
    BY <2>1, <2>4, WorkFacts, HelpStays
  <2>5. CASE Poll
    BY <2>1, <2>5, HelpStays DEF Poll
  <2>6. ASSUME NEW th \in Threads, Serve(th) PROVE HelpIsRecorded'
    <3>1. page' = page /\ \A i \in Items : db.helped[i] \subseteq db'.helped[i]
      BY <2>1, <2>6, ServeFacts DEF Served, Grows
    <3>. QED  BY <2>1, <3>1, HelpStays
  <2>7. ASSUME NEW th \in Threads, Lose(th) PROVE HelpIsRecorded'
    BY <2>1, <2>7, HelpStays DEF Lose, GiveUp
  <2>8. ASSUME NEW th \in Threads, HintShown(th) PROVE HelpIsRecorded'
    <3>. DEFINE h == RenderPractice([page EXCEPT !.hints = page.hints \cup {task[th].item}])
    <3>1. /\ Answers(th, "hint") /\ Finish(th, h) /\ IsPage(Known(db), h)
          /\ h.peeked = page.peeked /\ h.hints = page.hints \cup {task[th].item}
      BY <2>1, <2>8, HintDraws DEF PracticeDrawn, Kept
    <3>. HIDE DEF h
    <3>2. "hint" \in db.helped[task[th].item]
      BY <2>1, <3>1, AnswerFacts
    <3>3. page'.peeked = h.peeked /\ page'.hints = h.hints /\ db' = db
      BY <3>1, FinishPage DEF SamePage, Kept
    <3>. QED  BY <2>1, <3>1, <3>2, <3>3 DEF HelpIsRecorded
  <2>9. ASSUME NEW th \in Threads, NotesPeeked(th) PROVE HelpIsRecorded'
    <3>. DEFINE g == [page EXCEPT !.peeked = page.peeked \cup {task[th].item}, !.confirm = FALSE]
                h == IF task[th].flag THEN SetMode(g, "study") ELSE RenderPractice(g)
    <3>1. /\ Answers(th, "peek") /\ Finish(th, h) /\ IsPage(Known(db), h)
          /\ h.peeked = page.peeked \cup {task[th].item} /\ h.hints = page.hints
      <4>1. /\ Answers(th, "peek") /\ Finish(th, h)
            /\ g.peeked = page.peeked \cup {task[th].item} /\ g.hints = page.hints
            /\ task[th].flag => ModeDrawn(Known(db), g, "study", h)
            /\ ~task[th].flag => PracticeDrawn(Known(db), g, h)
        BY <2>1, <2>9, PeekDraws
      <4>. HIDE DEF g, h
      <4>. QED  BY <4>1 DEF ModeDrawn, PracticeDrawn, Kept
    <3>. HIDE DEF h
    <3>2. "notes" \in db.helped[task[th].item]
      BY <2>1, <3>1, AnswerFacts
    <3>3. page'.peeked = h.peeked /\ page'.hints = h.hints /\ db' = db
      BY <3>1, FinishPage DEF SamePage, Kept
    <3>. QED  BY <2>1, <3>1, <3>2, <3>3 DEF HelpIsRecorded
  <2>10. ASSUME NEW th \in Threads, Replied(th), ~HintShown(th), ~NotesPeeked(th)
         PROVE  HelpIsRecorded'
    <3>1. page'.peeked = page.peeked /\ page'.hints = page.hints /\ db' = db
      BY <2>1, <2>10, RepliesKeepHelp
    <3>. QED  BY <2>1, <3>1, HelpStays
  <2>. QED  BY <2>1, <2>2, <2>3, <2>4, <2>5, <2>6, <2>7, <2>8, <2>9, <2>10 DEF Next
<1>. QED  BY <1>1, <1>2, TypeInvCorrect, PTL DEF Spec
-----------------------------------------------------------------------------
(* A poll keeps to its course.                                              *)

(* Show writes a report into a free slot, and nowhere else.                  *)
LEMMA ShowLeavesBusy ==
  ASSUME NEW g, NEW tasks, Show(g, tasks), NEW s, s \notin Slots \/ tasks[s].pc # "idle"
  PROVE  task'[s] = tasks[s]
<1>1. CASE g.post = None
  BY <1>1 DEF Show
<1>2. CASE g.post # None
  <2>. DEFINE free == {r \in Slots : tasks[r].pc = "idle"}
              r == CHOOSE x \in free : TRUE
  <2>1. free # {} /\ task' = [tasks EXCEPT ![r] = g.post]
    BY <1>2 DEF Show
  <2>2. r \in free
    BY <2>1
  <2>3. r # s
    BY <2>2
  <2>. HIDE DEF r
  <2>. QED  BY <2>1, <2>3
<1>. QED  BY <1>1, <1>2

(* Whoever takes an answer touches its own task and free slots only.         *)
LEMMA RepliesLeaveBusy ==
  ASSUME TypeInv, NEW th \in Threads, Replied(th), NEW s \in Threads, s # th,
         s \notin Slots \/ task[s].pc # "idle"
  PROVE  task'[s] = task[s]
<1>1. ASSUME NEW g, NEW call, Show(g, [task EXCEPT ![th] = call]) PROVE task'[s] = task[s]
  <2>. DEFINE tasks == [task EXCEPT ![th] = call]
  <2>1. tasks[s] = task[s]
    BY DEF TypeInv
  <2>2. Show(g, tasks)
    BY <1>1
  <2>. HIDE DEF tasks
  <2>. QED  BY <2>1, <2>2, ShowLeavesBusy
<1>2. \A g, call : Continue(th, g, call) => task'[s] = task[s]
  BY <1>1 DEF Continue
<1>3. \A g : Finish(th, g) => task'[s] = task[s]
  BY <1>1 DEF Finish
<1>4. Refused(th) => task'[s] = task[s]
  BY DEF Refused, GiveUp
<1>5. Created(th) \/ Listed(th) \/ OpenedCourse(th) \/ DocumentAdded(th) \/ Built(th)
        => task'[s] = task[s]
  BY <1>2, <1>3 DEF Created, Listed, OpenedCourse, DocumentAdded, Built
<1>6. OpenedTopic(th) \/ Acted(th) \/ ActedRefreshed(th) => task'[s] = task[s]
  BY <1>2, <1>3 DEF OpenedTopic, Acted, ActedRefreshed
<1>7. AnswerChecked(th) \/ AnswerShown(th) \/ HintShown(th) \/ NotesPeeked(th)
        => task'[s] = task[s]
  BY <1>2, <1>3 DEF AnswerChecked, AnswerShown, HintShown, NotesPeeked
<1>8. VisitRecorded(th) \/ VisitedCourse(th) => task'[s] = task[s]
  BY <1>1 DEF VisitRecorded, VisitedCourse
<1>9. PolledCourse(th) \/ PolledTopic(th) => task'[s] = task[s]
  BY <1>2, <1>3 DEF PolledCourse, PolledTopic, PollEnd
<1>. QED  BY <1>4, <1>5, <1>6, <1>7, <1>8, <1>9 DEF Replied

(* What the student does is counted, but for typing.                         *)
LEMMA StudentMoves ==
  ASSUME TypeInv, Student
  PROVE  Type \/ moves' # moves
<1>1. moves \in Nat
  BY DEF TypeInv
<1>2. /\ \A g, call : Begin(g, call) => moves' # moves
      /\ \A call : Asked(call) => moves' # moves
  BY <1>1 DEF Begin, Asked
<1>3. \A g : Click(g) => moves' # moves
  BY <1>1 DEF Click
<1>4. Reload => moves' # moves
  BY <1>1 DEF Reload
<1>5. WriteNotes => moves' # moves
  BY <1>2 DEF WriteNotes
<1>6. KeepPracticing \/ NextQuestion => moves' # moves
  BY <1>3 DEF KeepPracticing, NextQuestion
<1>. QED  BY <1>2, <1>3, <1>4, <1>5, <1>6, StudentDraws

(* A poll that ends has read the course that the page still shows.           *)
LEMMA PollEndKeepsCourse ==
  ASSUME TypeInv, NEW s \in Threads, NEW course \in CourseViews,
         NEW fresh \in TopicViews(Known(db)) \cup {None}, PollEnd(s, course, fresh),
         course.id = task[s].course
  PROVE  CourseShown(page') = CourseShown(page)
<1>. DEFINE h == PollApplied(page, course, fresh, task[s].topic)
            g == IF Discarded(task[s].course) THEN page ELSE h
<1>1. Finish(s, g)
  BY DEF PollEnd
<1>2. course # None /\ IsPage(Known(db), h) /\ h.course = course
  BY PollEndDraws DEF PollDrawn
<1>. HIDE DEF h
<1>3. IsPage(Known(db), g) /\ (g.course = page.course \/ (g.course = course /\ ~Discarded(task[s].course)))
  BY <1>2, PageFacts
<1>. HIDE DEF g
<1>4. page'.course = g.course
  BY <1>1, <1>3, FinishPage DEF SamePage, Kept
<1>. QED  BY <1>2, <1>3, <1>4 DEF CourseShown, Discarded

(* A poll never changes which course the page is about: its answer is dropped  *)
(* when another course was opened in the meantime (poll).                    *)
THEOREM PollStaysInCourseCorrect == Spec => PollStaysInCourse
<1>. DEFINE A == \A s \in Slots : task[s].pc \in {"poll", "poll_topic"} /\ task'[s] # task[s] /\ moves' = moves
                   => CourseShown(page') = CourseShown(page)
<1>1. TypeInv /\ [Next]_vars => [A]_vars
  <2>1. SUFFICES ASSUME TypeInv, Next, NEW s \in Slots, task[s].pc \in {"poll", "poll_topic"},
                        task'[s] # task[s], moves' = moves
                 PROVE  CourseShown(page') = CourseShown(page)
    OBVIOUS
  <2>2. s \in Threads
    BY DEF Threads
  <2>3. CASE Student
    BY <2>1, <2>3, StudentMoves DEF Type
  <2>4. CASE Work \/ Poll
    BY <2>1, <2>4 DEF Work, Poll
  <2>5. ASSUME NEW th \in Threads, Serve(th) \/ Lose(th) \/ Refused(th)
        PROVE  CourseShown(page') = CourseShown(page)
    BY <2>5 DEF Serve, Lose, Refused, GiveUp
  <2>6. ASSUME NEW th \in Threads, th # s, Replied(th) PROVE FALSE
    BY <2>1, <2>2, <2>6, RepliesLeaveBusy
  <2>7. CASE PolledTopic(s)
    <3>1. /\ PollEnd(s, task[s].fresh, task[s].reply) /\ task[s].fresh \in CourseViews
          /\ task[s].reply \in TopicViews(Known(db)) /\ task[s].fresh.id = task[s].course
      BY <2>1, <2>2, <2>7, AnswerFacts DEF PolledTopic, TopicSteps, WellKept
    <3>. QED  BY <2>1, <2>2, <3>1, PollEndKeepsCourse
  <2>8. CASE PolledCourse(s)
    <3>1. task[s].reply \in CourseViews /\ task[s].reply.id = task[s].course
      BY <2>1, <2>2, <2>8, AnswerFacts DEF PolledCourse, CourseSteps
    <3>2. CASE task[s].topic = None
      BY <2>1, <2>2, <2>8, <3>1, <3>2, PollEndKeepsCourse DEF PolledCourse
    <3>3. CASE task[s].topic # None
      <4>1. \E call : Continue(s, page, call)
        BY <2>8, <3>3 DEF PolledCourse
      <4>2. page \in Pages(Known(db))
        BY <2>1, PageFacts
      <4>. QED  BY <4>1, <4>2, ShowPage DEF Continue, SamePage, Kept, CourseShown
    <3>. QED  BY <3>2, <3>3
  <2>9. CASE Replied(s)
    <3>1. task[s].pc = "poll" \/ task[s].pc = "poll_topic"
      BY <2>1
    <3>2. PolledCourse(s) \/ PolledTopic(s) \/ Refused(s)
      BY <2>9, <3>1
         DEF Replied, Answers, Created, Listed, OpenedCourse, DocumentAdded, Built, OpenedTopic,
             Acted, ActedRefreshed, AnswerChecked, AnswerShown, HintShown, NotesPeeked,
             VisitRecorded, VisitedCourse
    <3>. QED  BY <2>2, <2>5, <2>7, <2>8, <3>2
  <2>. QED  BY <2>1, <2>3, <2>4, <2>5, <2>6, <2>9 DEF Next
<1>. QED  BY <1>1, TypeInvCorrect, PTL DEF Spec, PollStaysInCourse
-----------------------------------------------------------------------------
(* A draft survives what arrives in the background.                         *)

(* The end of a student's task, or of the loading, is seen in the tasks.      *)
LEMMA EndIsSeen ==
  ASSUME TypeInv, NEW th \in Threads, NEW pc \in Steps \ (BackSteps \cup {"idle"}),
         Answers(th, pc), NEW g, Finish(th, g)
  PROVE  th \in {"run", "load"} /\ task'[th] # task[th]
<1>1. task[th].pc = pc /\ Home(th, pc)
  BY AnswerFacts
<1>2. th \in {"run", "load"} /\ th \notin Slots
  BY <1>1, ClientAssumption DEF Home, Threads
<1>3. task'[th] = Idle
  <2>. DEFINE tasks == [task EXCEPT ![th] = Idle]
  <2>1. tasks[th] = Idle /\ Show(g, tasks)
    BY DEF TypeInv, Finish
  <2>. HIDE DEF tasks
  <2>. QED  BY <1>2, <2>1, ShowLeavesBusy
<1>4. Idle.pc = "idle"
  BY DEF Idle
<1>. QED  BY <1>1, <1>2, <1>3, <1>4

(* What a poll makes of a question on the screen that the page still holds.    *)
LEMMA PollEndKeepsDraft ==
  ASSUME TypeInv, NEW s \in Threads, NEW course \in CourseViews,
         NEW fresh \in TopicViews(Known(db)) \cup {None}, PollEnd(s, course, fresh),
         Current
  PROVE  page'.draft = page.draft
<1>. DEFINE P == Known(db)
            t == task[s].topic
            h == PollApplied(page, course, fresh, t)
            g == IF Discarded(task[s].course) THEN page ELSE h
            f == PollStored(page, course, fresh)
<1>0. page \in Pages(P) /\ IsPage(P, page)
  BY PageFacts
<1>1. Finish(s, g)
  BY DEF PollEnd
<1>2. PollDrawn(P, page, course, fresh, t, h)
  BY PollEndDraws
<1>. HIDE DEF h
<1>3. IsPage(P, h)
  BY <1>2 DEF PollDrawn
<1>4. [page EXCEPT !.course = course].draft = page.draft /\ f.draft = page.draft
  BY <1>0 DEF Pages, PollStored
<1>5. h.draft = page.draft
  <2>1. DOMAIN page.topic.items # {}
    BY DEF Current
  <2>2. \/ h = [page EXCEPT !.course = course] \/ StudyDrawn(P, f, h) \/ h = f
    BY <1>2, <2>1 DEF PollDrawn
  <2>. HIDE DEF f
  <2>. QED  BY <1>4, <2>2 DEF StudyDrawn
<1>6. IsPage(P, g) /\ g.draft = page.draft
  BY <1>0, <1>3, <1>5
<1>. HIDE DEF g
<1>. QED  BY <1>1, <1>6, FinishPage DEF SamePage

(* A half-typed answer is never wiped by what arrives in the background        *)
(* (schedulePoll), unless an older view of the topic, without the question,    *)
(* has arrived before.                                                      *)
THEOREM DraftSurvivesCorrect == Spec => DraftSurvives
<1>1. TypeInv /\ [Next]_vars => [page.draft /\ Current /\ InBackground => page'.draft]_vars
  <2>1. SUFFICES ASSUME TypeInv, Next, page.draft, Current, InBackground PROVE page'.draft
    OBVIOUS
  <2>2. moves' = moves /\ \A th \in {"run", "load"} : task'[th] = task[th]
    BY <2>1 DEF InBackground
  <2>3. CASE Student
    <3>1. Type
      BY <2>1, <2>2, <2>3, StudentMoves
    <3>. QED  BY <2>1, <3>1 DEF Type
  <2>4. CASE Work \/ Poll
    BY <2>1, <2>4 DEF Work, Poll
  <2>5. ASSUME NEW th \in Threads, Serve(th) \/ Lose(th) \/ Refused(th) PROVE page'.draft
    BY <2>1, <2>5 DEF Serve, Lose, Refused, GiveUp
  <2>6. ASSUME NEW th \in Threads, StoresOnly(th) PROVE page'.draft
    BY <2>1, <2>6, StoresOnlyStores
  <2>7. ASSUME NEW th \in Threads, AnswerChecked(th) PROVE page'.draft
    <3>. DEFINE g == [page EXCEPT !.topic = task[th].reply, !.feedback = task[th].item]
                a == CourseCall("answered", page.course.id)
    <3>1. IsPage(Known(db), g) /\ SameCard(page, g) /\ Continue(th, g, a)
      BY <2>1, <2>7, AnswerCheckedStores
    <3>. HIDE DEF g, a
    <3>. QED  BY <2>1, <3>1, ShowPage DEF Continue, IsPage, SamePage, SameCard
  <2>8. ASSUME NEW th \in Threads,
               \/ OpenedTopic(th) \/ ActedRefreshed(th) \/ AnswerShown(th)
               \/ HintShown(th) \/ NotesPeeked(th)
        PROVE  FALSE
    <3>1. \E pc \in {"open_topic", "acted", "answered", "hint", "peek"} : \E g : Answers(th, pc) /\ Finish(th, g)
      BY <2>8 DEF OpenedTopic, ActedRefreshed, AnswerShown, HintShown, NotesPeeked
    <3>2. \A pc \in {"open_topic", "acted", "answered", "hint", "peek"} :
            pc \in Steps \ (BackSteps \cup {"idle"})
      BY DEF Steps, BackSteps
    <3>. QED  BY <2>1, <2>2, <3>1, <3>2, EndIsSeen
  <2>9. ASSUME NEW s \in Threads, PolledCourse(s) \/ PolledTopic(s) PROVE page'.draft
    <3>1. CASE PolledTopic(s)
      <4>1. /\ PollEnd(s, task[s].fresh, task[s].reply) /\ task[s].fresh \in CourseViews
            /\ task[s].reply \in TopicViews(Known(db))
        BY <2>1, <3>1, AnswerFacts DEF PolledTopic, TopicSteps, WellKept
      <4>. QED  BY <2>1, <4>1, PollEndKeepsDraft
    <3>2. CASE PolledCourse(s) /\ task[s].topic = None
      <4>1. task[s].reply \in CourseViews
        BY <2>1, <3>2, AnswerFacts DEF PolledCourse, CourseSteps
      <4>. QED  BY <2>1, <3>2, <4>1, PollEndKeepsDraft DEF PolledCourse
    <3>3. CASE PolledCourse(s) /\ task[s].topic # None
      <4>1. \E call : Continue(s, page, call)
        BY <3>3 DEF PolledCourse
      <4>. QED  BY <2>1, <4>1, PageFacts, ShowPage DEF Continue, SamePage
    <3>. QED  BY <2>9, <3>1, <3>2, <3>3
  <2>. QED  BY <2>1, <2>3, <2>4, <2>5, <2>6, <2>7, <2>8, <2>9 DEF Next, Replied, StoresOnly
<1>. QED  BY <1>1, TypeInvCorrect, PTL DEF Spec, DraftSurvives
-----------------------------------------------------------------------------
(* An open question gives way to the notes only when its answer counts as one *)
(* with help.                                                               *)

(* The question on the screen and the one the script holds.  While a topic is *)
(* there, while a question is on the screen and during the requests of a topic *)
(* the practice pane stands for practice mode; the question that can be         *)
(* answered is the one the script holds, unless the topic is gone.             *)
OnCard == page.pane = "practice" /\ page.card.kind = "question"
Works  == {"act", "acted", "answer", "answered", "hint", "peek"}

PaneIsMode ==
  ~torn /\ page.pane = "practice"
    /\ (page.topic # None \/ page.card.kind = "question" \/ task["run"].pc \in Works)
  => page.mode = "practice"

CardIsHeld ==
  ~torn /\ OnCard =>
    /\ page.item # None
    /\ page.card.answered \/ page.item = page.card.item \/ db.tried[page.card.item] # "new"
       \/ /\ page.topic = None /\ task["run"].pc # "act"
          /\ task["run"].pc = "answer" => task["run"].item = page.card.item

FeedbackIsTried == page.feedback # None => db.tried[page.feedback] # "new"

CardInv == PaneIsMode /\ CardIsHeld /\ FeedbackIsTried

(* The question of a page that was just drawn.                               *)
Drawn(h) == h.card.kind = "question" => h.item = h.card.item /\ h.item # None

(* The practice pane that was drawn puts the question the script holds.      *)
LEMMA PracticeIsDrawn ==
  ASSUME NEW d, NEW g, NEW h, PracticeDrawn(Known(d), g, h)
  PROVE  Drawn(h)
BY ServiceAssumption DEF PracticeDrawn, Drawn, ItemsOn

(* The pane of the mode is the notes, or practice with its question.         *)
LEMMA PaneShape ==
  ASSUME NEW d, NEW g, IsPage(Known(d), g), NEW h, PaneDrawn(Known(d), g, h)
  PROVE  \/ g.mode = "study" /\ h.pane = "study"
         \/ Drawn(h) /\ h.pane = "practice" /\ h.mode = "practice"
<1>1. g.mode \in {"study", "practice"}
  BY DEF IsPage, Pages
<1>. QED  BY <1>1, PracticeIsDrawn DEF PaneDrawn, PracticeDrawn

(* What a click leaves of the question on the screen.                        *)
CardKept(h) ==
  /\ h.card = page.card /\ h.pane = page.pane
  /\ \/ h.mode = page.mode /\ h.item = page.item
     \/ page.topic = None /\ h.mode = "practice" /\ h.item # None
     \/ /\ page.topic = None /\ h.item = page.item
        /\ h.mode = "practice" \/ page.mode = "study" \/ page.item = None

(* A change of the pane: the notes only if no question is in progress.        *)
NotesGiven(g, h) ==
  h.pane = "study" /\ g.topic # None /\ ~QuestionInProgress(g)
    /\ (h.study = "lesson" => HasLesson(g.topic))

(* What a change of the pane makes of the question on the screen.            *)
LEMMA SetModeShape ==
  ASSUME NEW d, NEW g, IsPage(Known(d), g), NEW m \in {"study", "practice"}
  PROVE  LET h == SetMode(g, m)
         IN /\ Kept(g, h) /\ IsPage(Known(d), h)
            /\ \/ m = "study" /\ NotesGiven(g, h)
               \/ Drawn(h) /\ h.mode = "practice" /\ (h.pane = "practice" \/ h.pane = g.pane)
               \/ /\ h.card = g.card /\ h.pane = g.pane /\ h.item = g.item
                  /\ \/ h.mode = g.mode /\ m = "study"
                     \/ /\ g.topic = None /\ h.mode = m
                        /\ m = "practice" \/ g.mode = "study" \/ g.item = None
<1>. DEFINE P == Known(d)
            h == SetMode(g, m)
            f == [g EXCEPT !.recorded = (g.recorded /\ m = g.mode), !.mode = m, !.confirm = FALSE]
            c == [g EXCEPT !.confirm = TRUE]
<1>1. ModeDrawn(P, g, m, h)
  BY SetModeDrawing
<1>2. g \in Pages(P) /\ g.mode \in {"study", "practice"}
  BY DEF IsPage, Pages
<1>3. f.mode = m /\ SameCard(g, f) /\ Kept(g, f) /\ f.item = g.item
  BY <1>2 DEF Pages, SameCard, Kept
<1>4. c.mode = g.mode /\ c.item = g.item
  BY <1>2 DEF Pages
<1>5. CASE h = g /\ m = "study"
  BY <1>1, <1>5 DEF ModeDrawn
<1>6. CASE QuestionInProgress(g) /\ PracticeDrawn(P, c, h) /\ h.pane = g.pane
  <2>. HIDE DEF h, c
  <2>1. Drawn(h) /\ h.mode = g.mode
    BY <1>4, <1>6, PracticeIsDrawn DEF PracticeDrawn
  <2>2. g.mode = "practice"
    BY <1>6 DEF QuestionInProgress
  <2>. QED  BY <1>1, <1>6, <2>1, <2>2 DEF ModeDrawn, h
<1>7. CASE /\ ~(m = "study" /\ g.mode = "practice" /\ g.item # None /\ g.topic = None)
           /\ ~(m = "study" /\ g.topic # None /\ QuestionInProgress(g))
           /\ g.topic = None /\ h = f
  <2>. HIDE DEF h, f
  <2>. QED  BY <1>1, <1>2, <1>3, <1>7 DEF ModeDrawn, SameCard, h
<1>8. CASE /\ ~(m = "study" /\ g.topic # None /\ QuestionInProgress(g))
           /\ g.topic # None /\ PaneDrawn(P, f, h)
  <2>. HIDE DEF h, f
  <2>1. CASE m = "study"
    <3>1. h.pane = "study" /\ (h.study = "lesson" => HasLesson(f.topic)) /\ f.topic = g.topic
      BY <1>3, <1>8, <2>1 DEF PaneDrawn, StudyDrawn, Kept
    <3>. QED  BY <1>1, <1>8, <2>1, <3>1 DEF ModeDrawn, NotesGiven, h
  <2>2. CASE m = "practice"
    <3>1. PracticeDrawn(P, f, h) /\ h.pane = "practice"
      BY <1>3, <1>8, <2>2 DEF PaneDrawn
    <3>2. Drawn(h) /\ h.mode = "practice"
      BY <1>3, <2>2, <3>1, PracticeIsDrawn DEF PracticeDrawn
    <3>. QED  BY <1>1, <3>1, <3>2 DEF ModeDrawn, h
  <2>. QED  BY <2>1, <2>2
<1>9. \/ h = g /\ m = "study"
      \/ QuestionInProgress(g) /\ PracticeDrawn(P, c, h) /\ h.pane = g.pane
      \/ /\ ~(m = "study" /\ g.mode = "practice" /\ g.item # None /\ g.topic = None)
         /\ ~(m = "study" /\ g.topic # None /\ QuestionInProgress(g))
         /\ IF g.topic = None THEN h = f ELSE PaneDrawn(P, f, h)
  <2>. HIDE DEF h, f, c
  <2>. QED  BY <1>1 DEF ModeDrawn, f, c
<1>. QED  BY <1>1, <1>5, <1>6, <1>7, <1>8, <1>9

(* What a click makes of the question on the screen.                         *)
ClickShape ==
  \/ NotesGiven(page, page')
  \/ /\ Drawn(page') /\ page'.pane \in {"practice", page.pane}
     /\ page'.mode = "practice" \/ (page'.mode = page.mode /\ OnCard)
  \/ CardKept(page')

(* A click that draws g does so.                                             *)
LEMMA ClickDraws ==
  ASSUME TypeInv, NEW g, IsPage(Known(db), g), Click(g), g.topic = page.topic,
         g.feedback = page.feedback \/ g.feedback = None,
         \/ NotesGiven(page, g)
         \/ /\ Drawn(g) /\ g.pane \in {"practice", page.pane}
            /\ g.mode = "practice" \/ (g.mode = page.mode /\ OnCard)
         \/ CardKept(g)
  PROVE  /\ ClickShape /\ page'.topic = page.topic /\ db' = db /\ (torn => torn')
         /\ task'["run"] = task["run"] /\ task["run"].pc = "idle"
         /\ page'.feedback = page.feedback \/ page'.feedback = None
<1>1. SamePage(g, page') /\ Show(g, task) /\ db' = db
  BY ClickPage
<1>2. "run" \notin Slots
  BY ClientAssumption
<1>3. task'["run"] = task["run"] /\ (torn => torn')
  BY <1>1, <1>2, ShowLeavesBusy DEF Show
<1>4. task["run"].pc = "idle"
  BY DEF Click, Busy
<1>. QED  BY <1>1, <1>3, <1>4 DEF SamePage, Kept, ClickShape, NotesGiven, Drawn, CardKept

(* The clicks of the student.                                               *)
LEMMA ClicksDraw ==
  ASSUME TypeInv,
         \/ KeepPracticing \/ NextQuestion
         \/ \E m \in {"study", "practice"} : Click(SetMode(page, m))
         \/ /\ page.step # None /\ page.step \in StepViews(Known(db))
            /\ page.step.item \in ItemsOn(Known(db))
            /\ LET q == AtQuestion(page) IN Click(IF q.topic = None THEN q ELSE RenderPractice(q))
  PROVE  /\ ClickShape /\ page'.topic = page.topic /\ db' = db /\ (torn => torn')
         /\ task'["run"] = task["run"] /\ task["run"].pc = "idle"
         /\ page'.feedback = page.feedback \/ page'.feedback = None
<1>. DEFINE P == Known(db)
            Goal == /\ ClickShape /\ page'.topic = page.topic /\ db' = db /\ (torn => torn')
                    /\ task'["run"] = task["run"] /\ task["run"].pc = "idle"
                    /\ page'.feedback = page.feedback \/ page'.feedback = None
            Fits(g) == /\ IsPage(P, g) /\ g.topic = page.topic
                       /\ g.feedback = page.feedback \/ g.feedback = None
                       /\ \/ NotesGiven(page, g)
                          \/ /\ Drawn(g) /\ g.pane \in {"practice", page.pane}
                             /\ g.mode = "practice" \/ (g.mode = page.mode /\ OnCard)
                          \/ CardKept(g)
<1>0. IsPage(P, page) /\ page \in Pages(P)
  BY PageFacts
<1>1. ASSUME NEW g, Fits(g), Click(g) PROVE Goal
  BY <1>1, ClickDraws
<1>2. ASSUME KeepPracticing PROVE Goal
  <2>. DEFINE h == RenderPractice([page EXCEPT !.confirm = FALSE])
              g == [page EXCEPT !.confirm = FALSE]
  <2>1. Click(h) /\ SameCard(page, g) /\ Kept(page, g) /\ g.mode = page.mode
        /\ PracticeDrawn(P, g, h) /\ h.pane = g.pane /\ OnCard
    BY <1>2, KeepDraws DEF KeepPracticing, Open, OnScreen, OnCard
  <2>. HIDE DEF h, g
  <2>2. Fits(h)
    BY <2>1, PracticeIsDrawn DEF PracticeDrawn, Kept, SameCard
  <2>. QED  BY <1>1, <2>1, <2>2
<1>3. ASSUME NextQuestion PROVE Goal
  <2>. DEFINE g == [page EXCEPT !.item = page.card.next, !.feedback = None]
              h == RenderPractice(g)
  <2>1. Click(h) /\ SameCard(page, g) /\ g.topic = page.topic /\ g.feedback = None
        /\ g.mode = page.mode /\ PracticeDrawn(P, g, h) /\ h.pane = g.pane /\ OnCard
    BY <1>3, NextDraws DEF NextQuestion, OnScreen, OnCard
  <2>. HIDE DEF h, g
  <2>2. Fits(h)
    BY <2>1, PracticeIsDrawn DEF PracticeDrawn, Kept, SameCard
  <2>. QED  BY <1>1, <2>1, <2>2
<1>4. ASSUME NEW m \in {"study", "practice"}, Click(SetMode(page, m)) PROVE Goal
  <2>. DEFINE h == SetMode(page, m)
  <2>1. /\ Kept(page, h) /\ IsPage(P, h)
        /\ \/ NotesGiven(page, h)
           \/ Drawn(h) /\ h.pane \in {"practice", page.pane} /\ h.mode = "practice"
           \/ /\ h.card = page.card /\ h.pane = page.pane /\ h.item = page.item
              /\ \/ h.mode = page.mode
                 \/ /\ page.topic = None /\ h.mode = m
                    /\ m = "practice" \/ page.mode = "study" \/ page.item = None
    BY <1>0, SetModeShape
  <2>2. Click(h)
    BY <1>4
  <2>. HIDE DEF h
  <2>3. Fits(h)
    BY <2>1 DEF CardKept, Kept
  <2>. QED  BY <1>1, <2>2, <2>3
<1>5. ASSUME page.step # None, page.step \in StepViews(P), page.step.item \in ItemsOn(P),
             NEW q, q = AtQuestion(page),
             Click(IF q.topic = None THEN q ELSE RenderPractice(q))
      PROVE  Goal
  <2>. DEFINE f == [page EXCEPT !.item = page.step.item]
              h == IF q.topic = None THEN q ELSE RenderPractice(q)
  <2>1. /\ IsPage(P, f) /\ Kept(page, f) /\ f.mode = page.mode /\ f.pane = page.pane
        /\ f.item = page.step.item /\ f.card = page.card
    BY <1>0, <1>5, AtQuestionDrawing
  <2>2. q = SetMode(f, "practice")
    BY <1>5 DEF AtQuestion
  <2>3. f.item # None
    BY <1>5, <2>1, ServiceAssumption DEF ItemsOn
  <2>4. Click(h)
    BY <1>5
  <2>. HIDE DEF f
  <2>5. /\ Kept(f, q) /\ IsPage(P, q)
        /\ \/ Drawn(q) /\ q.pane \in {"practice", page.pane} /\ q.mode = "practice"
           \/ /\ q.card = f.card /\ q.pane = f.pane /\ q.item = f.item
              /\ f.topic = None /\ q.mode = "practice"
    BY <2>1, <2>2, SetModeShape
  <2>6. CASE q.topic = None
    <3>1. h = q
      BY <2>6
    <3>2. Fits(q)
      BY <2>1, <2>3, <2>5, <2>6 DEF CardKept, Kept
    <3>. QED  BY <1>1, <2>4, <3>1, <3>2
  <2>7. CASE q.topic # None
    <3>1. h = RenderPractice(q)
      BY <2>7
    <3>2. PracticeDrawn(P, q, h) /\ h.pane = q.pane
      BY <2>5, <3>1, PracticeDrawing
    <3>. HIDE DEF h
    <3>3. Fits(h)
      BY <2>1, <2>5, <3>2, PracticeIsDrawn DEF PracticeDrawn, Kept
    <3>. QED  BY <1>1, <2>4, <3>3
  <2>. QED  BY <2>6, <2>7
<1>. HIDE DEF Goal
<1>6. Goal
  BY <1>2, <1>3, <1>4, <1>5
<1>. QED  BY <1>6 DEF Goal

(* The student keeps the question on the screen held.                        *)
LEMMA StudentKeepsCard ==
  ASSUME TypeInv, CardInv, Student
  PROVE  CardInv'
<1>1. CASE \/ KeepPracticing \/ NextQuestion
           \/ \E m \in {"study", "practice"} : Click(SetMode(page, m))
           \/ /\ page.step # None /\ page.step \in StepViews(Known(db))
              /\ page.step.item \in ItemsOn(Known(db))
              /\ LET q == AtQuestion(page) IN Click(IF q.topic = None THEN q ELSE RenderPractice(q))
  <2>1. /\ ClickShape /\ page'.topic = page.topic /\ db' = db /\ (torn => torn')
        /\ task'["run"] = task["run"] /\ task["run"].pc = "idle"
        /\ page'.feedback = page.feedback \/ page'.feedback = None
    BY <1>1, ClicksDraw
  <2>2. FeedbackIsTried'
    BY <2>1 DEF CardInv, FeedbackIsTried
  <2>3. CASE NotesGiven(page, page')
    BY <2>2, <2>3 DEF NotesGiven, CardInv, PaneIsMode, CardIsHeld, OnCard
  <2>4. CASE /\ Drawn(page') /\ page'.pane \in {"practice", page.pane}
             /\ page'.mode = "practice" \/ (page'.mode = page.mode /\ OnCard)
    <3>1. CardIsHeld'
      BY <2>4 DEF Drawn, CardIsHeld, OnCard
    <3>2. PaneIsMode'
      BY <2>1, <2>4 DEF CardInv, PaneIsMode, OnCard
    <3>. QED  BY <2>2, <3>1, <3>2 DEF CardInv
  <2>5. CASE CardKept(page')
    BY <2>1, <2>2, <2>5 DEF CardKept, CardInv, PaneIsMode, CardIsHeld, OnCard, Works
  <2>. QED  BY <2>1, <2>3, <2>4, <2>5 DEF ClickShape
<1>2. ASSUME NEW call, Asked(call) PROVE CardInv'
  <2>1. /\ page' = page /\ db' = db /\ torn' = torn /\ task' = [task EXCEPT !["run"] = call]
        /\ task["run"].pc = "idle"
    BY <1>2 DEF Asked, Begin, Busy
  <2>2. task'["run"] = call
    BY <2>1 DEF TypeInv, Threads
  <2>3. /\ call.pc \in Begun /\ (call.pc = "act" => page.topic # None)
        /\ call.pc \in {"answer", "hint", "peek"} => OnCard /\ call.item = page.card.item
    BY <1>2 DEF Asked, Open, OnScreen, OnCard
  <2>. QED  BY <2>1, <2>2, <2>3
            DEF CardInv, PaneIsMode, CardIsHeld, FeedbackIsTried, OnCard, Works, Begun
<1>3. ASSUME WriteNotes PROVE CardInv'
  <2>1. page' = [page EXCEPT !.recorded = TRUE] /\ db' = db /\ page.pane = "study"
    BY <1>3 DEF WriteNotes, Begin
  <2>2. page'.pane = "study" /\ page'.feedback = page.feedback
    BY <2>1, PageFacts DEF Pages
  <2>. QED  BY <2>1, <2>2 DEF CardInv, PaneIsMode, CardIsHeld, FeedbackIsTried, OnCard
<1>4. ASSUME Type PROVE CardInv'
  <2>1. page' = [page EXCEPT !.draft = TRUE] /\ UNCHANGED <<db, task, torn>>
    BY <1>4 DEF Type
  <2>2. /\ page'.pane = page.pane /\ page'.feedback = page.feedback /\ page'.card = page.card
        /\ page'.item = page.item /\ page'.mode = page.mode /\ page'.topic = page.topic
    BY <2>1, PageFacts DEF Pages
  <2>. QED  BY <2>1, <2>2 DEF CardInv, PaneIsMode, CardIsHeld, FeedbackIsTried, OnCard
<1>5. ASSUME Reload PROVE CardInv'
  <2>1. page'.pane = "none" /\ page'.feedback = None
    BY <1>5 DEF Reload, Blank
  <2>. QED  BY <2>1 DEF CardInv, PaneIsMode, CardIsHeld, FeedbackIsTried, OnCard
<1>. QED  BY <1>1, <1>2, <1>3, <1>4, <1>5, StudentDraws

(* What becomes of the student's task when an answer is taken.                *)
LEMMA RunAfter ==
  ASSUME TypeInv, NEW th \in Threads, Replied(th)
  PROVE  /\ torn => torn'
         /\ \/ th # "run" /\ task'["run"] = task["run"]
            \/ /\ th = "run" /\ task'["run"].pc \notin {"act", "answer", "hint", "peek"}
               /\ task'["run"].pc \in Works => task["run"].pc \in Works
               /\ NotesPeeked(th) \/ ActedRefreshed(th) => task'["run"].pc = "idle"
<1>. DEFINE Fine(pc) == /\ pc \notin {"act", "answer", "hint", "peek"}
                        /\ pc \in Works => task["run"].pc \in Works
                        /\ NotesPeeked(th) \/ ActedRefreshed(th) => pc = "idle"
<1>0. "run" \in Threads /\ "run" \notin Slots
  BY ClientAssumption DEF Threads
<1>1. ASSUME NEW g, NEW call, Show(g, [task EXCEPT ![th] = call]), Fine(call.pc)
      PROVE  (torn => torn') /\ (th = "run" => Fine(task'["run"].pc))
  <2>. DEFINE tasks == [task EXCEPT ![th] = call]
  <2>1. tasks[th] = call /\ Show(g, tasks)
    BY <1>1 DEF TypeInv
  <2>. HIDE DEF tasks
  <2>2. th = "run" => task'["run"] = call
    BY <1>0, <2>1, ShowLeavesBusy
  <2>. QED  BY <1>1, <2>1, <2>2 DEF Show
<1>2. Fine("idle")
  BY DEF Works
<1>3. ASSUME NEW g, Finish(th, g) PROVE (torn => torn') /\ (th = "run" => Fine(task'["run"].pc))
  <2>1. Idle.pc = "idle" /\ Show(g, [task EXCEPT ![th] = Idle])
    BY <1>3 DEF Idle, Finish
  <2>. HIDE DEF Fine
  <2>. QED  BY <1>1, <1>2, <2>1
<1>4. ASSUME NEW g, NEW call, Continue(th, g, call), Fine(call.pc)
      PROVE  (torn => torn') /\ (th = "run" => Fine(task'["run"].pc))
  <2>. HIDE DEF Fine
  <2>. QED  BY <1>1, <1>4 DEF Continue
<1>. DEFINE Goal == (torn => torn') /\ (th = "run" => Fine(task'["run"].pc))
<1>5. ASSUME Created(th) \/ OpenedCourse(th) \/ Listed(th) \/ DocumentAdded(th) \/ Built(th) PROVE Goal
  <2>1. \E g, call : (Continue(th, g, call) /\ call.pc \in {"list", "open_course", "open_topic"}) \/ Finish(th, g)
    <3>. DEFINE made  == [Loading(Nowhere) EXCEPT !.course = task[th].reply]
                open(c, t) == [CourseCall("open_course", c) EXCEPT !.topic = t]
    <3>1. made.pc = "list"
      BY DEF Loading, Call, Idle
    <3>2. \A c, t : open(c, t).pc = "open_course" /\ TopicCall(c, t).pc = "open_topic"
      BY DEF CourseCall, TopicCall, Call, Idle
    <3>3. CASE Created(th)
      <4>1. Continue(th, page, made)
        BY <3>3 DEF Created
      <4>. HIDE DEF made
      <4>. QED  BY <3>1, <4>1
    <3>4. CASE Listed(th)
      <4>1. (\E g, c, t : Continue(th, g, open(c, t))) \/ (\E g : Finish(th, g))
        BY <3>4 DEF Listed
      <4>. HIDE DEF open
      <4>. QED  BY <3>2, <4>1
    <3>5. CASE OpenedCourse(th)
      <4>1. (\E g, c, t : Continue(th, g, TopicCall(c, t))) \/ (\E g : Finish(th, g))
        BY <3>5 DEF OpenedCourse
      <4>. QED  BY <3>2, <4>1
    <3>6. CASE DocumentAdded(th)
      BY <3>6 DEF DocumentAdded
    <3>7. CASE Built(th)
      <4>1. \E g, c, t : Continue(th, g, TopicCall(c, t))
        BY <3>7 DEF Built
      <4>. QED  BY <3>2, <4>1
    <3>. QED  BY <1>5, <3>3, <3>4, <3>5, <3>6, <3>7
  <2>2. ~NotesPeeked(th) /\ ~ActedRefreshed(th)
    BY <1>5 DEF NotesPeeked, ActedRefreshed, Answers, Created, OpenedCourse, Listed, DocumentAdded, Built
  <2>3. \A pc \in {"list", "open_course", "open_topic"} : Fine(pc)
    BY <2>2 DEF Works
  <2>. HIDE DEF Fine
  <2>. QED  BY <1>3, <1>4, <2>1, <2>3
<1>6. ASSUME Acted(th) \/ AnswerChecked(th) PROVE Goal
  <2>1. \E g, call : Continue(th, g, call) /\ call.pc \in {"acted", "answered"}
    <3>. DEFINE again(c, b) == [CourseCall("acted", c) EXCEPT !.flag = b]
    <3>1. \A c, b : again(c, b).pc = "acted" /\ CourseCall("answered", c).pc = "answered"
      BY DEF CourseCall, Call, Idle
    <3>2. (\E g, c, b : Continue(th, g, again(c, b))) \/ (\E g, c : Continue(th, g, CourseCall("answered", c)))
      BY <1>6 DEF Acted, AnswerChecked
    <3>. HIDE DEF again
    <3>. QED  BY <3>1, <3>2
  <2>2. ~NotesPeeked(th) /\ ~ActedRefreshed(th) /\ task[th].pc \in {"act", "answer"}
    BY <1>6 DEF NotesPeeked, ActedRefreshed, Answers, Acted, AnswerChecked
  <2>3. th = "run" => \A pc \in {"acted", "answered"} : Fine(pc)
    BY <2>2 DEF Works
  <2>4. th = "run"
    <3>1. Home(th, task[th].pc)
      BY DEF TypeInv, GoodTask
    <3>. QED  BY <2>2, <3>1 DEF Home, BackSteps, Threads
  <2>. HIDE DEF Fine
  <2>. QED  BY <1>4, <2>1, <2>3, <2>4
<1>7. ASSUME VisitRecorded(th) \/ VisitedCourse(th) \/ PolledCourse(th) \/ PolledTopic(th) PROVE Goal
  <2>1. task[th].pc \in BackSteps /\ Home(th, task[th].pc)
    BY <1>7 DEF VisitRecorded, VisitedCourse, PolledCourse, PolledTopic, Answers, BackSteps,
                TypeInv, GoodTask
  <2>2. th # "run"
    BY <2>1 DEF Home
  <2>3. \E g, call : Show(g, [task EXCEPT ![th] = call])
    BY <1>7 DEF VisitRecorded, VisitedCourse, PolledCourse, PolledTopic, PollEnd, Finish, Continue
  <2>4. torn => torn'
    BY <2>3 DEF Show
  <2>. QED  BY <2>2, <2>4
<1>8. ASSUME \/ OpenedTopic(th) \/ ActedRefreshed(th) \/ AnswerShown(th)
             \/ HintShown(th) \/ NotesPeeked(th)
      PROVE  Goal
  <2>1. \E g : Finish(th, g)
    BY <1>8 DEF OpenedTopic, ActedRefreshed, AnswerShown, HintShown, NotesPeeked
  <2>. HIDE DEF Fine
  <2>. QED  BY <1>3, <2>1
<1>9. ASSUME Refused(th) PROVE Goal
  <2>1. task' = [task EXCEPT ![th] = Idle] /\ torn' = torn /\ Idle.pc = "idle"
    BY <1>9 DEF Refused, GiveUp, Idle
  <2>2. task'[th].pc = "idle"
    BY <2>1 DEF TypeInv
  <2>. HIDE DEF Fine
  <2>. QED  BY <1>2, <2>1, <2>2
<1>10. Goal
  <2>. HIDE DEF Goal
  <2>. QED  BY <1>5, <1>6, <1>7, <1>8, <1>9 DEF Replied
<1>11. th # "run" => task'["run"] = task["run"]
  BY <1>0, RepliesLeaveBusy
<1>. QED  BY <1>10, <1>11

(* What an answer makes of the question on the screen.                       *)
ReplyShape(th) ==
  \/ torn' /\ page'.pane = page.pane
  \/ page'.pane = "study" /\ (page.mode = "study" \/ OpenedTopic(th))
  \/ NotesPeeked(th) /\ \E g : /\ IsPage(Known(db), g) /\ g.topic = page.topic /\ g.mode = page.mode
                               /\ g.item = page.item /\ g.feedback = page.feedback
                               /\ g.peeked = page.peeked \cup {task[th].item}
                               /\ NotesGiven(g, page')
  \/ Drawn(page') /\ page'.pane \in {"practice", page.pane} /\ page'.mode = "practice"
  \/ /\ Drawn(page') /\ page'.mode = page.mode /\ page'.pane = page.pane
     /\ page.topic # None \/ task["run"].pc \in Works
  \/ /\ page'.card = page.card /\ page'.pane = page.pane /\ page'.item = page.item
     /\ page'.mode = page.mode \/ (NotesPeeked(th) /\ page'.topic = None /\ (page.mode = "study" \/ page.item = None))
     /\ page'.topic # None => page.topic # None \/ Acted(th) \/ AnswerChecked(th)

(* A whole topic is drawn from g.                                            *)
LEMMA WholeShape ==
  ASSUME NEW d, NEW g, IsPage(Known(d), g), NEW h, TopicDrawn(Known(d), g, h)
  PROVE  \/ h.topic # None /\ Raises(h) /\ h.pane = g.pane
         \/ h.pane = "study" /\ g.mode = "study"
         \/ Drawn(h) /\ h.pane = "practice" /\ h.mode = "practice"
         \/ /\ g.topic = None /\ h.topic = None /\ h.card = g.card /\ h.pane = g.pane
            /\ h.item = g.item /\ h.mode = g.mode
<1>1. h.topic = g.topic /\ h.course = g.course
  BY DEF TopicDrawn, Kept
<1>2. CASE Raises(g) /\ g.topic # None
  <2>1. h = [g EXCEPT !.shown = TRUE]
    BY <1>2 DEF TopicDrawn
  <2>2. h.pane = g.pane
    BY <2>1 DEF IsPage, Pages
  <2>. QED  BY <1>1, <1>2, <2>2 DEF Raises
<1>3. CASE g.topic = None
  <2>1. h = [g EXCEPT !.shown = TRUE]
    BY <1>3 DEF TopicDrawn, Raises
  <2>2. h.card = g.card /\ h.pane = g.pane /\ h.item = g.item /\ h.mode = g.mode
    BY <2>1 DEF IsPage, Pages
  <2>. QED  BY <1>1, <1>3, <2>2
<1>4. CASE ~Raises(g)
  BY <1>4, PaneShape DEF TopicDrawn
<1>. QED  BY <1>2, <1>3, <1>4 DEF Raises

(* The task of an answer that only the student or the loading awaits.         *)
LEMMA AwaitedInRun ==
  ASSUME TypeInv, NEW th \in Threads, NEW pc \in Works, Answers(th, pc)
  PROVE  th = "run" /\ task["run"].pc = pc
BY AnswerFacts DEF Works, Home, BackSteps, Threads

(* What is answered during the student's action.                             *)
LEMMA DrawnRepliesDraw ==
  ASSUME TypeInv, NEW th \in Threads,
         \/ OpenedTopic(th) \/ ActedRefreshed(th) \/ AnswerChecked(th) \/ AnswerShown(th)
         \/ HintShown(th) \/ NotesPeeked(th)
  PROVE  /\ ReplyShape(th) /\ db' = db
         /\ \/ page'.feedback = page.feedback \/ page'.feedback = None
            \/ AnswerChecked(th) /\ page'.feedback = task[th].item
<1>. DEFINE P == Known(db)
            v == task[th].reply
            Goal == /\ ReplyShape(th) /\ db' = db
                    /\ \/ page'.feedback = page.feedback \/ page'.feedback = None
                       \/ AnswerChecked(th) /\ page'.feedback = task[th].item
<1>0. IsPage(P, page) /\ page \in Pages(P)
  BY PageFacts
<1>1. ASSUME NEW h, IsPage(P, h), Finish(th, h)
      PROVE  SamePage(h, page') /\ db' = db /\ (h.topic # None /\ Raises(h) => torn')
  BY <1>1, FinishPage DEF Show
<1>2. ASSUME OpenedTopic(th) PROVE Goal
  <2>. DEFINE g == OpenedPage(v, task[th].topic)
              h == RenderTopic(g)
  <2>1. /\ Finish(th, h) /\ IsPage(P, g) /\ g.topic # None /\ g.feedback = None
        /\ TopicDrawn(P, g, h) /\ g.pane = page.pane
    BY <1>2, OpenedTopicDraws DEF SameCard
  <2>. HIDE DEF g, h
  <2>2. IsPage(P, h) /\ h.feedback = None
    BY <2>1 DEF TopicDrawn, Kept
  <2>3. SamePage(h, page') /\ db' = db /\ (h.topic # None /\ Raises(h) => torn')
    BY <1>1, <2>1, <2>2
  <2>4. \/ h.topic # None /\ Raises(h) /\ h.pane = page.pane
        \/ h.pane = "study"
        \/ Drawn(h) /\ h.pane \in {"practice", page.pane} /\ h.mode = "practice"
    BY <2>1, WholeShape
  <2>. QED  BY <1>2, <2>2, <2>3, <2>4 DEF ReplyShape, SamePage, Kept, Drawn
<1>3. ASSUME NEW pc \in {"acted", "answered"}, Answers(th, pc)
      PROVE  LET g == [page EXCEPT !.course = v]
                 h == RenderTopic(g)
             IN /\ IsPage(P, h) /\ h.feedback = page.feedback /\ h.topic = page.topic
                /\ \/ h.topic # None /\ Raises(h) /\ h.pane = page.pane
                   \/ h.pane = "study" /\ page.mode = "study"
                   \/ Drawn(h) /\ h.pane \in {"practice", page.pane} /\ h.mode = "practice"
                   \/ /\ page.topic = None /\ h.card = page.card /\ h.pane = page.pane
                      /\ h.item = page.item /\ h.mode = page.mode
  <2>. DEFINE g == [page EXCEPT !.course = v]
              h == RenderTopic(g)
  <2>1. v \in CourseViews /\ IsPage(P, g) /\ TopicDrawn(P, g, h)
    BY <1>3, CourseDraws
  <2>2. /\ SameCard(page, g) /\ g.topic = page.topic /\ g.mode = page.mode /\ g.item = page.item
        /\ g.feedback = page.feedback
    BY <2>1, CourseStored
  <2>. HIDE DEF g, h
  <2>3. \/ h.topic # None /\ Raises(h) /\ h.pane = g.pane
        \/ h.pane = "study" /\ g.mode = "study"
        \/ Drawn(h) /\ h.pane = "practice" /\ h.mode = "practice"
        \/ /\ g.topic = None /\ h.topic = None /\ h.card = g.card /\ h.pane = g.pane
           /\ h.item = g.item /\ h.mode = g.mode
    BY <2>1, WholeShape
  <2>4. IsPage(P, h) /\ h.feedback = page.feedback /\ h.topic = page.topic
    BY <2>1, <2>2 DEF TopicDrawn, Kept
  <2>5. /\ IsPage(P, h) /\ h.feedback = page.feedback /\ h.topic = page.topic
        /\ \/ h.topic # None /\ Raises(h) /\ h.pane = page.pane
           \/ h.pane = "study" /\ page.mode = "study"
           \/ Drawn(h) /\ h.pane \in {"practice", page.pane} /\ h.mode = "practice"
           \/ /\ page.topic = None /\ h.card = page.card /\ h.pane = page.pane
              /\ h.item = page.item /\ h.mode = page.mode
    BY <2>2, <2>3, <2>4 DEF SameCard
  <2>. QED  BY <2>5 DEF h, g
<1>4. ASSUME AnswerShown(th) PROVE Goal
  <2>. DEFINE h == RenderTopic([page EXCEPT !.course = v])
  <2>1. Answers(th, "answered") /\ Finish(th, h)
    BY <1>4 DEF AnswerShown
  <2>2. /\ IsPage(P, h) /\ h.feedback = page.feedback /\ h.topic = page.topic
        /\ \/ h.topic # None /\ Raises(h) /\ h.pane = page.pane
           \/ h.pane = "study" /\ page.mode = "study"
           \/ Drawn(h) /\ h.pane \in {"practice", page.pane} /\ h.mode = "practice"
           \/ /\ page.topic = None /\ h.card = page.card /\ h.pane = page.pane
              /\ h.item = page.item /\ h.mode = page.mode
    BY <1>3, <2>1
  <2>. HIDE DEF h
  <2>3. SamePage(h, page') /\ db' = db /\ (h.topic # None /\ Raises(h) => torn')
    BY <1>1, <2>1, <2>2
  <2>. QED  BY <2>2, <2>3 DEF ReplyShape, SamePage, Kept, Drawn
<1>5. ASSUME ActedRefreshed(th) PROVE Goal
  <2>. DEFINE h == RenderTopic([page EXCEPT !.course = v])
              f == Restarted(h)
              r == RenderMode(f)
              k == IF ~task[th].flag \/ Raises(h) THEN h ELSE r
  <2>1. Answers(th, "acted") /\ Finish(th, k)
    BY <1>5 DEF ActedRefreshed, Restarted
  <2>2. /\ IsPage(P, h) /\ h.feedback = page.feedback /\ h.topic = page.topic
        /\ \/ h.topic # None /\ Raises(h) /\ h.pane = page.pane
           \/ h.pane = "study" /\ page.mode = "study"
           \/ Drawn(h) /\ h.pane \in {"practice", page.pane} /\ h.mode = "practice"
           \/ /\ page.topic = None /\ h.card = page.card /\ h.pane = page.pane
              /\ h.item = page.item /\ h.mode = page.mode
    BY <1>3, <2>1
  <2>. HIDE DEF h
  <2>3. /\ IsPage(P, f) /\ f.mode = "practice" /\ f.feedback = None /\ IsPage(P, r) /\ Kept(f, r)
        /\ h.topic # None => PaneDrawn(P, f, r)
    BY <2>2, RestartedDraws
  <2>. HIDE DEF f, r
  <2>4. CASE ~task[th].flag \/ Raises(h)
    <3>1. k = h
      BY <2>4
    <3>2. SamePage(h, page') /\ db' = db /\ (h.topic # None /\ Raises(h) => torn')
      BY <1>1, <2>1, <2>2, <3>1
    <3>. QED  BY <2>2, <3>2 DEF ReplyShape, SamePage, Kept, Drawn
  <2>5. CASE task[th].flag /\ ~Raises(h)
    <3>1. k = r /\ h.topic # None
      BY <2>5 DEF Raises
    <3>2. SamePage(r, page') /\ db' = db
      BY <1>1, <2>1, <2>3, <3>1
    <3>3. Drawn(r) /\ r.pane = "practice" /\ r.mode = "practice"
      BY <2>3, <3>1, PaneShape
    <3>. QED  BY <2>3, <3>2, <3>3 DEF ReplyShape, SamePage, Kept, Drawn
  <2>. QED  BY <2>4, <2>5
<1>6. ASSUME AnswerChecked(th) PROVE Goal
  <2>. DEFINE g == [page EXCEPT !.topic = v, !.feedback = task[th].item]
              a == CourseCall("answered", page.course.id)
  <2>1. /\ Continue(th, g, a) /\ IsPage(P, g) /\ SameCard(page, g) /\ g.mode = page.mode
        /\ g.item = page.item /\ g.feedback = task[th].item
    BY <1>6, AnswerCheckedStores
  <2>. HIDE DEF g, a
  <2>2. SamePage(g, page') /\ db' = db
    BY <2>1, ShowPage DEF Continue, IsPage
  <2>. QED  BY <1>6, <2>1, <2>2 DEF ReplyShape, SamePage, SameCard, Kept
<1>7. ASSUME HintShown(th) PROVE Goal
  <2>. DEFINE g == [page EXCEPT !.hints = page.hints \cup {task[th].item}]
              h == RenderPractice(g)
  <2>1. /\ Answers(th, "hint") /\ Finish(th, h) /\ SameCard(page, g) /\ g.mode = page.mode
        /\ g.feedback = page.feedback /\ PracticeDrawn(P, g, h) /\ h.pane = g.pane
    BY <1>7, HintDraws
  <2>. HIDE DEF g, h
  <2>2. task["run"].pc \in Works
    BY <2>1, AwaitedInRun DEF Works
  <2>3. IsPage(P, h) /\ Drawn(h) /\ h.mode = page.mode /\ h.pane = page.pane /\ h.feedback = page.feedback
    BY <2>1, PracticeIsDrawn DEF PracticeDrawn, SameCard, Kept
  <2>4. SamePage(h, page') /\ db' = db
    BY <1>1, <2>1, <2>3
  <2>. QED  BY <2>2, <2>3, <2>4 DEF ReplyShape, SamePage, Kept, Drawn
<1>8. ASSUME NotesPeeked(th) PROVE Goal
  <2>. DEFINE g == [page EXCEPT !.peeked = page.peeked \cup {task[th].item}, !.confirm = FALSE]
              s == SetMode(g, "study")
              r == RenderPractice(g)
              h == IF task[th].flag THEN s ELSE r
  <2>1. /\ Answers(th, "peek") /\ Finish(th, h) /\ IsPage(P, g) /\ SameCard(page, g)
        /\ g.topic = page.topic /\ g.mode = page.mode /\ g.item = page.item
        /\ g.feedback = page.feedback /\ g.peeked = page.peeked \cup {task[th].item}
    BY <1>8, PeekDraws
  <2>2. task["run"].pc \in Works
    BY <2>1, AwaitedInRun DEF Works
  <2>. HIDE DEF g
  <2>3. /\ Kept(g, s) /\ IsPage(P, s)
        /\ \/ NotesGiven(g, s)
           \/ Drawn(s) /\ s.pane \in {"practice", g.pane} /\ s.mode = "practice"
           \/ /\ s.card = g.card /\ s.pane = g.pane /\ s.item = g.item
              /\ s.mode = g.mode \/ (g.topic = None /\ (g.mode = "study" \/ g.item = None))
    BY <2>1, SetModeShape
  <2>4. PracticeDrawn(P, g, r) /\ r.pane = g.pane
    BY <2>1, PracticeDrawing
  <2>. HIDE DEF s, r
  <2>5. CASE task[th].flag
    <3>1. h = s
      BY <2>5
    <3>2. SamePage(s, page') /\ db' = db
      BY <1>1, <2>1, <2>3, <3>1
    <3>3. page'.feedback = page.feedback
      BY <2>1, <2>3, <3>2 DEF SamePage, Kept
    <3>4. CASE NotesGiven(g, s)
      <4>1. NotesGiven(g, page')
        BY <3>2, <3>4 DEF NotesGiven, SamePage, Kept
      <4>2. ReplyShape(th)
        BY <1>8, <2>1, <4>1 DEF ReplyShape
      <4>. QED  BY <3>2, <3>3, <4>2
    <3>5. CASE Drawn(s) /\ s.pane \in {"practice", g.pane} /\ s.mode = "practice"
      BY <2>1, <3>2, <3>3, <3>5 DEF ReplyShape, SamePage, SameCard, Drawn
    <3>6. CASE /\ s.card = g.card /\ s.pane = g.pane /\ s.item = g.item
               /\ s.mode = g.mode \/ (g.topic = None /\ (g.mode = "study" \/ g.item = None))
      BY <1>8, <2>1, <2>3, <3>2, <3>3, <3>6 DEF ReplyShape, SamePage, SameCard, Kept
    <3>. QED  BY <2>3, <3>4, <3>5, <3>6
  <2>6. CASE ~task[th].flag
    <3>1. h = r
      BY <2>6
    <3>2. IsPage(P, r) /\ Drawn(r) /\ r.mode = page.mode /\ r.pane = page.pane /\ r.feedback = page.feedback
      BY <2>1, <2>4, PracticeIsDrawn DEF PracticeDrawn, SameCard, Kept
    <3>3. SamePage(r, page') /\ db' = db
      BY <1>1, <2>1, <3>1, <3>2
    <3>. QED  BY <2>2, <3>2, <3>3 DEF ReplyShape, SamePage, Kept, Drawn
  <2>. QED  BY <2>5, <2>6
<1>9. Goal
  <2>. HIDE DEF Goal
  <2>. QED  BY <1>2, <1>4, <1>5, <1>6, <1>7, <1>8
<1>. QED  BY <1>9

(* The end of a poll leaves the question on the screen or draws one anew.      *)
LEMMA PollEndShape ==
  ASSUME TypeInv, NEW s \in Threads, NEW course \in CourseViews,
         NEW fresh \in TopicViews(Known(db)) \cup {None}, PollEnd(s, course, fresh)
  PROVE  ReplyShape(s) /\ db' = db /\ page'.feedback = page.feedback
<1>. DEFINE P == Known(db)
            t == task[s].topic
            h == PollApplied(page, course, fresh, t)
            g == IF Discarded(task[s].course) THEN page ELSE h
            f == PollStored(page, course, fresh)
            e == [page EXCEPT !.course = course]
            Fits(x) == /\ IsPage(P, x) /\ x.feedback = page.feedback
                       /\ x.mode = page.mode /\ x.pane = page.pane
                       /\ \/ Drawn(x) /\ page.topic # None
                          \/ /\ x.card = page.card /\ x.item = page.item
                             /\ x.topic # None => page.topic # None
<1>0. page \in Pages(P) /\ IsPage(P, page)
  BY PageFacts
<1>1. Finish(s, g)
  BY DEF PollEnd
<1>2. PollDrawn(P, page, course, fresh, t, h)
  BY PollEndDraws
<1>. HIDE DEF h
<1>3. /\ e.card = page.card /\ e.item = page.item /\ e.topic = page.topic
      /\ f.card = page.card /\ f.item = page.item
  BY <1>0 DEF Pages, PollStored
<1>4. Fits(h)
  <2>1. /\ IsPage(P, h) /\ h.feedback = page.feedback /\ h.mode = page.mode /\ h.pane = page.pane
        /\ \/ h = e
           \/ page.topic # None /\ (StudyDrawn(P, f, h) \/ PracticeDrawn(P, f, h) \/ h = f)
    BY <1>2 DEF PollDrawn
  <2>. HIDE DEF e, f
  <2>2. PracticeDrawn(P, f, h) => Drawn(h)
    BY PracticeIsDrawn
  <2>. QED  BY <1>3, <2>1, <2>2 DEF StudyDrawn
<1>5. Fits(page)
  BY <1>0
<1>. HIDE DEF Fits
<1>6. Fits(g)
  BY <1>4, <1>5
<1>. HIDE DEF g
<1>7. SamePage(g, page') /\ db' = db
  BY <1>1, <1>6, FinishPage DEF Fits
<1>. QED  BY <1>6, <1>7 DEF Fits, SamePage, Kept, ReplyShape, Drawn

(* Whatever is answered.                                                    *)
LEMMA RepliesDraw ==
  ASSUME TypeInv, NEW th \in Threads, Replied(th)
  PROVE  /\ ReplyShape(th) /\ db' = db
         /\ \/ page'.feedback = page.feedback \/ page'.feedback = None
            \/ AnswerChecked(th) /\ page'.feedback = task[th].item
<1>. DEFINE Goal == /\ ReplyShape(th) /\ db' = db
                    /\ \/ page'.feedback = page.feedback \/ page'.feedback = None
                       \/ AnswerChecked(th) /\ page'.feedback = task[th].item
<1>1. ASSUME StoresOnly(th) PROVE Goal
  BY <1>1, StoresOnlyStores DEF ReplyShape, SameMind
<1>2. ASSUME PolledTopic(th) PROVE Goal
  <2>1. /\ PollEnd(th, task[th].fresh, task[th].reply) /\ task[th].fresh \in CourseViews
        /\ task[th].reply \in TopicViews(Known(db))
    BY <1>2, AnswerFacts DEF PolledTopic, TopicSteps, WellKept
  <2>. QED  BY <2>1, PollEndShape
<1>3. ASSUME PolledCourse(th) PROVE Goal
  <2>1. CASE task[th].topic = None
    <3>1. task[th].reply \in CourseViews /\ PollEnd(th, task[th].reply, None)
      BY <1>3, <2>1, AnswerFacts DEF PolledCourse, CourseSteps
    <3>. QED  BY <3>1, PollEndShape
  <2>2. CASE task[th].topic # None
    <3>1. \E call : Continue(th, page, call)
      BY <1>3, <2>2 DEF PolledCourse
    <3>2. SamePage(page, page') /\ db' = db
      BY <3>1, PageFacts, ShowPage DEF Continue
    <3>. QED  BY <3>2 DEF ReplyShape, SamePage, Kept
  <2>. QED  BY <2>1, <2>2
<1>4. ASSUME Refused(th) PROVE Goal
  BY <1>4 DEF Refused, GiveUp, ReplyShape
<1>5. Goal
  <2>. HIDE DEF Goal
  <2>. QED  BY <1>1, <1>2, <1>3, <1>4, DrawnRepliesDraw DEF Replied, StoresOnly, Goal
<1>. QED  BY <1>5

(* The answers keep the question on the screen held.                         *)
LEMMA RepliesKeepCard ==
  ASSUME TypeInv, CardInv, NEW th \in Threads, Replied(th)
  PROVE  CardInv'
<1>1. /\ ReplyShape(th) /\ db' = db
      /\ \/ page'.feedback = page.feedback \/ page'.feedback = None
         \/ AnswerChecked(th) /\ page'.feedback = task[th].item
  BY RepliesDraw
<1>2. /\ torn => torn'
      /\ \/ th # "run" /\ task'["run"] = task["run"]
         \/ /\ th = "run" /\ task'["run"].pc \notin {"act", "answer", "hint", "peek"}
            /\ task'["run"].pc \in Works => task["run"].pc \in Works
            /\ NotesPeeked(th) \/ ActedRefreshed(th) => task'["run"].pc = "idle"
  BY RunAfter
<1>3. /\ AnswerChecked(th) => th = "run" /\ task["run"].pc = "answer" /\ db.tried[task["run"].item] # "new"
      /\ Acted(th) => th = "run" /\ task["run"].pc = "act"
      /\ NotesPeeked(th) => th = "run" /\ task["run"].pc = "peek"
  BY AwaitedInRun, AnswerFacts DEF AnswerChecked, Acted, NotesPeeked, Works
<1>4. FeedbackIsTried'
  BY <1>1, <1>3 DEF CardInv, FeedbackIsTried
<1>5. CASE torn'
  BY <1>4, <1>5 DEF CardInv, PaneIsMode, CardIsHeld
<1>6. CASE page'.pane = "study"
  BY <1>4, <1>6 DEF CardInv, PaneIsMode, CardIsHeld, OnCard
<1>7. CASE Drawn(page') /\ page'.mode = "practice"
  BY <1>4, <1>7 DEF CardInv, PaneIsMode, CardIsHeld, OnCard, Drawn
<1>8. CASE /\ Drawn(page') /\ page'.mode = page.mode /\ page'.pane = page.pane
           /\ page.topic # None \/ task["run"].pc \in Works
  <2>1. CardIsHeld'
    BY <1>8 DEF CardIsHeld, OnCard, Drawn
  <2>2. PaneIsMode'
    BY <1>2, <1>8 DEF CardInv, PaneIsMode
  <2>. QED  BY <1>4, <2>1, <2>2 DEF CardInv
<1>9. CASE /\ page'.card = page.card /\ page'.pane = page.pane /\ page'.item = page.item
           /\ page'.mode = page.mode \/ (NotesPeeked(th) /\ page'.topic = None /\ (page.mode = "study" \/ page.item = None))
           /\ page'.topic # None => page.topic # None \/ Acted(th) \/ AnswerChecked(th)
  <2>1. CardIsHeld'
    BY <1>1, <1>2, <1>3, <1>9 DEF CardInv, CardIsHeld, OnCard
  <2>2. PaneIsMode'
    <3>1. CASE page'.mode = page.mode
      BY <1>2, <1>3, <1>9, <3>1 DEF CardInv, PaneIsMode, Works
    <3>2. CASE NotesPeeked(th) /\ page'.topic = None /\ (page.mode = "study" \/ page.item = None)
      BY <1>2, <1>3, <1>9, <3>2 DEF CardInv, PaneIsMode, CardIsHeld, OnCard, Works
    <3>. QED  BY <1>9, <3>1, <3>2
  <2>. QED  BY <1>4, <2>1, <2>2 DEF CardInv
<1>10. (\E g : NotesGiven(g, page')) => page'.pane = "study"
  BY DEF NotesGiven
<1>. QED  BY <1>1, <1>5, <1>6, <1>7, <1>8, <1>9, <1>10 DEF ReplyShape

(* The question on the screen is held in every state.                         *)
THEOREM CardInvariant == Spec => []CardInv
<1>1. Init => CardInv
  BY DEF Init, Blank, CardInv, PaneIsMode, CardIsHeld, FeedbackIsTried, OnCard
<1>2. TypeInv /\ CardInv /\ [Next]_vars => CardInv'
  <2>1. SUFFICES ASSUME TypeInv, CardInv, [Next]_vars PROVE CardInv'
    OBVIOUS
  <2>2. ASSUME page' = page, torn' = torn, task'["run"].pc = task["run"].pc \/ task'["run"].pc = "idle",
               task'["run"].item = task["run"].item \/ task'["run"].pc = "idle",
               \A i \in Items : db.tried[i] # "new" => db'.tried[i] # "new"
        PROVE  CardInv'
    <3>1. /\ page.feedback # None => page.feedback \in Items
          /\ page.card.kind = "question" => page.card.item \in Items
      BY <2>1, PageFacts DEF Pages, ItemsOn
    <3>2. PaneIsMode' /\ FeedbackIsTried'
      BY <2>1, <2>2, <3>1 DEF CardInv, PaneIsMode, FeedbackIsTried, Works
    <3>3. CardIsHeld'
      BY <2>1, <2>2, <3>1 DEF CardInv, CardIsHeld, OnCard
    <3>. QED  BY <3>2, <3>3 DEF CardInv
  <2>3. CASE UNCHANGED vars
    BY <2>1, <2>2, <2>3 DEF vars
  <2>4. CASE Student
    BY <2>1, <2>4, StudentKeepsCard
  <2>5. CASE Work
    BY <2>1, <2>2, <2>5, WorkFacts
  <2>6. CASE Poll
    <3>1. PICK s \in Slots : \E call : task' = [task EXCEPT ![s] = call]
      BY <2>6 DEF Poll
    <3>2. s # "run"
      BY ClientAssumption
    <3>3. task'["run"] = task["run"]
      BY <3>1, <3>2
    <3>. QED  BY <2>2, <2>6, <3>3 DEF Poll
  <2>7. ASSUME NEW th \in Threads, Serve(th) PROVE CardInv'
    <3>1. PICK out : /\ Served(db, task[th].req, out) /\ db' = out.db /\ page' = page /\ torn' = torn
                     /\ task' = [task EXCEPT ![th].req = None, ![th].reply = out.reply]
      BY <2>1, <2>7, ServeFacts
    <3>2. DOMAIN task = Threads /\ "run" \in Threads /\ task[th] \in Tasks(Known(db))
      BY <2>1 DEF TypeInv, Threads, GoodTask
    <3>3. task'["run"].pc = task["run"].pc /\ task'["run"].item = task["run"].item
      BY <3>1, <3>2 DEF Tasks
    <3>. QED  BY <2>2, <3>1, <3>3 DEF Served, Grows
  <2>8. ASSUME NEW th \in Threads, Lose(th) PROVE CardInv'
    <3>1. task' = [task EXCEPT ![th] = Idle] /\ UNCHANGED <<db, page, torn>> /\ Idle.pc = "idle"
      BY <2>8 DEF Lose, GiveUp, Idle
    <3>2. task'["run"] = task["run"] \/ task'["run"] = Idle
      BY <2>1, <3>1 DEF TypeInv, Threads
    <3>. QED  BY <2>2, <3>1, <3>2
  <2>9. ASSUME NEW th \in Threads, Replied(th) PROVE CardInv'
    BY <2>1, <2>9, RepliesKeepCard
  <2>. QED  BY <2>1, <2>3, <2>4, <2>5, <2>6, <2>7, <2>8, <2>9 DEF Next
<1>. QED  BY <1>1, <1>2, TypeInvCorrect, PTL DEF Spec

(* The notes take the place of an open question: an answer to it would count    *)
(* as one with help.                                                        *)
LEMMA NotesAreHelp ==
  ASSUME TypeInv, CardInv, Open, Current, ~torn,
         NEW g, NEW h, NotesGiven(g, h), h.study = "lesson",
         g.topic = page.topic, g.mode = page.mode, g.item = page.item, g.feedback = page.feedback,
         \A i \in g.peeked : "notes" \in db.helped[i]
  PROVE  Assisted(db, page.card.item)
<1>1. OnCard /\ ~page.card.answered /\ page.topic # None /\ page.card.item \in DOMAIN page.topic.items
  BY DEF Open, OnScreen, OnCard, Current
<1>2. page.mode = "practice" /\ page.item # None
  BY <1>1 DEF CardInv, PaneIsMode, CardIsHeld, OnCard
<1>3. page.item = page.card.item \/ db.tried[page.card.item] # "new"
  BY <1>1 DEF CardInv, CardIsHeld
<1>4. HasLesson(g.topic) /\ ~QuestionInProgress(g)
  BY DEF NotesGiven
<1>5. page.item = page.card.item => page.feedback = page.item \/ page.item \in g.peeked
  BY <1>1, <1>2, <1>4 DEF QuestionInProgress
<1>6. page.feedback = page.item => db.tried[page.item] # "new"
  BY <1>2 DEF CardInv, FeedbackIsTried
<1>7. page.item \in g.peeked => db.helped[page.item] # {}
  OBVIOUS
<1>. QED  BY <1>3, <1>5, <1>6, <1>7 DEF Assisted

(* An open question gives way to the notes only when an answer to it would     *)
(* count as one with help (setMode, questionInProgress, peekNotes), but for     *)
(* the opening of a topic and a page that was drawn half-way.                  *)
THEOREM AsksBeforeNotesCorrect == Spec => AsksBeforeNotes
<1>. DEFINE A == Open /\ Current /\ ~torn /\ NotesShown(page')
                   /\ (\A th \in Threads : task[th].pc = "open_topic" => task'[th] = task[th])
                 => Assisted(db, page.card.item)
<1>1. TypeInv /\ CardInv /\ HelpIsRecorded /\ [Next]_vars => [A]_vars
  <2>1. SUFFICES ASSUME TypeInv, CardInv, HelpIsRecorded, Next, Open, Current, ~torn, NotesShown(page'),
                        \A th \in Threads : task[th].pc = "open_topic" => task'[th] = task[th]
                 PROVE  Assisted(db, page.card.item)
    OBVIOUS
  <2>2. page'.pane = "study" /\ page'.study = "lesson" /\ page'.shown
    BY <2>1 DEF NotesShown
  <2>3. page.pane = "practice" /\ OnCard /\ page.topic # None
    BY <2>1 DEF Open, OnScreen, OnCard, Current
  <2>4. page.mode = "practice" /\ page.item # None
    BY <2>1, <2>3 DEF CardInv, PaneIsMode, CardIsHeld
  <2>5. \A i \in page.peeked : "notes" \in db.helped[i]
    BY <2>1 DEF HelpIsRecorded
  <2>6. CASE page' = page
    BY <2>2, <2>3, <2>6
  <2>7. CASE Student
    <3>1. ASSUME NEW call, Asked(call) PROVE FALSE
      BY <2>2, <2>3, <3>1 DEF Asked, Begin
    <3>2. ASSUME WriteNotes \/ Type PROVE FALSE
      <4>1. page'.pane = page.pane
        BY <2>1, <3>2, PageFacts DEF WriteNotes, Begin, Type, Pages
      <4>. QED  BY <2>2, <2>3, <4>1
    <3>3. ASSUME Reload PROVE FALSE
      BY <2>2, <3>3 DEF Reload, Blank
    <3>4. ASSUME ClickShape PROVE Assisted(db, page.card.item)
      <4>1. NotesGiven(page, page')
        BY <2>2, <2>3, <3>4 DEF ClickShape, CardKept
      <4>. QED  BY <2>1, <2>2, <2>5, <4>1, NotesAreHelp
    <3>. QED  BY <2>1, <2>7, <3>1, <3>2, <3>3, <3>4, StudentDraws, ClicksDraw
  <2>8. CASE Work \/ Poll
    BY <2>6, <2>8 DEF Work, Poll
  <2>9. ASSUME NEW th \in Threads, Serve(th) \/ Lose(th) PROVE Assisted(db, page.card.item)
    BY <2>6, <2>9 DEF Serve, Lose, GiveUp
  <2>10. ASSUME NEW th \in Threads, Replied(th) PROVE Assisted(db, page.card.item)
    <3>1. ~OpenedTopic(th)
      <4>1. SUFFICES ASSUME OpenedTopic(th) PROVE FALSE
        OBVIOUS
      <4>2. Answers(th, "open_topic") /\ \E g : Finish(th, g)
        BY <4>1 DEF OpenedTopic
      <4>3. task[th].pc = "open_topic" /\ "open_topic" \in Steps \ (BackSteps \cup {"idle"})
        BY <4>2 DEF Answers, Steps, BackSteps
      <4>. QED  BY <2>1, <4>2, <4>3, EndIsSeen
    <3>2. ReplyShape(th)
      BY <2>1, <2>10, RepliesDraw
    <3>3. PICK g : /\ NotesPeeked(th) /\ g.topic = page.topic /\ g.mode = page.mode
                   /\ g.item = page.item /\ g.feedback = page.feedback
                   /\ g.peeked = page.peeked \cup {task[th].item} /\ NotesGiven(g, page')
      BY <2>2, <2>3, <2>4, <3>1, <3>2 DEF ReplyShape
    <3>4. "notes" \in db.helped[task[th].item]
      BY <2>1, <3>3, AnswerFacts DEF NotesPeeked
    <3>. QED  BY <2>1, <2>2, <2>5, <3>3, <3>4, NotesAreHelp
  <2>. QED  BY <2>1, <2>7, <2>8, <2>9, <2>10 DEF Next
<1>. QED  BY <1>1, TypeInvCorrect, CardInvariant, HelpIsRecordedCorrect, PTL DEF Spec, AsksBeforeNotes

-----------------------------------------------------------------------------
(* Visits.                                                                  *)

(* A key of the path that is taught now; a visit of it that is being         *)
(* reported, or whose report has failed; and notes whose visit is recorded    *)
(* or is being reported.                                                    *)
Is(d, k) == k = KeyIn(d, CourseOf(k), Number(k))

Reporting(d, ts, k) ==
  \E s \in Slots :
    /\ ts[s].pc = "visit"
    /\ ts[s].reply = Failed
       \/ (ts[s].req # None /\ KeyIn(d, ts[s].req.course, ts[s].req.topic) = k)

Covered(d, ts, k) == Is(d, k) => Visited(d, k) \/ Reporting(d, ts, k)

(* What the script takes for recorded, and the notes on the screen, are.      *)
Told(d, ts, g) ==
  g.recorded /\ g.topic # None /\ g.mode = "study" => Covered(d, ts, g.topic.key)

Seen(d, ts, g) ==
  g.pane = "study" /\ g.study = "lesson" => g.notes \in Known(d) /\ Covered(d, ts, g.notes)

(* While the notes are being written they count as recorded before they are;   *)
(* the view that comes then is that of a visit.                              *)
WritingNotes == task["run"].pc = "act" /\ ~task["run"].flag

NotesTold ==
  ~missed /\ ~torn => (WritingNotes \/ Told(db, task, page)) /\ Seen(db, task, page)

NotesWritten ==
  WritingNotes =>
    /\ task["run"].req # None => task["run"].req.kind = "lesson"
    /\ task["run"].reply \notin {None, Failed} /\ Is(db, task["run"].reply.key)
         => Visited(db, task["run"].reply.key)

(* An answer makes the notes unread: it is given in practice.                 *)
AnswersInPractice ==
  ~missed /\ ~torn /\ task["run"].pc = "answer" => page.pane = "practice" /\ page.mode = "practice"

(* The loading of the page and an action of the student exclude each other.    *)
Alone == ~missed /\ Busy => task["load"].pc = "idle"

VisitInv == NotesTold /\ NotesWritten /\ AnswersInPractice /\ Alone

(* What is drawn: what it takes for recorded and shows is, or the report is    *)
(* about to be sent.                                                        *)
Fits(d, ts, g) ==
  \/ g.post = None /\ Told(d, ts, g) /\ Seen(d, ts, g)
  \/ g.post # None /\ g.topic # None /\ g.notes = g.topic.key

(* The topic of a page has a key.                                           *)
LEMMA TopicHasKey ==
  ASSUME NEW d, NEW g, IsPage(Known(d), g)
  PROVE  /\ g.topic # None => g.topic.key \in Known(d)
         /\ g.post # None => IsReport(Known(d), g.post)
BY DEF IsPage, Pages, TopicViews

(* The notes are drawn.                                                      *)
LEMMA StudyFits ==
  ASSUME NEW d, NEW ts, NEW g, IsPage(Known(d), g), g.topic # None, g.mode = "study",
         g.post = None, Told(d, ts, g), NEW h, StudyDrawn(Known(d), g, h)
  PROVE  Fits(d, ts, h)
<1>1. h.topic = g.topic /\ h.mode = g.mode /\ g.topic.key \in Known(d)
  BY TopicHasKey DEF StudyDrawn, Kept
<1>2. CASE HasLesson(g.topic)
  <2>1. h.study = "lesson" /\ h.notes = g.topic.key /\ h.recorded
        /\ (~g.recorded => h.post = LessonCall(g)) /\ (g.recorded => h.post = None)
    BY <1>2 DEF StudyDrawn
  <2>2. CASE g.recorded
    <3>1. Covered(d, ts, g.topic.key)
      BY <2>2 DEF Told
    <3>. QED  BY <1>1, <2>1, <2>2, <3>1 DEF Fits, Told, Seen
  <2>3. CASE ~g.recorded
    <3>1. LessonCall(g) # None
      BY LessonCallIsReport, NoneIsNoView DEF Known
    <3>. QED  BY <1>1, <2>1, <2>3, <3>1 DEF Fits
  <2>. QED  BY <2>2, <2>3
<1>3. CASE ~HasLesson(g.topic)
  <2>1. h.study # "lesson" /\ h.recorded = g.recorded /\ h.post = None
    BY <1>3 DEF StudyDrawn
  <2>. QED  BY <1>1, <2>1 DEF Fits, Told, Seen
<1>. QED  BY <1>2, <1>3

(* The practice pane is drawn, in its place or in that of the page.           *)
LEMMA PracticeFits ==
  ASSUME NEW d, NEW ts, NEW g, Fits(d, ts, g), NEW h, PracticeDrawn(Known(d), g, h),
         h.pane \in {"practice", g.pane}
  PROVE  Fits(d, ts, h)
<1>1. /\ h.topic = g.topic /\ h.mode = g.mode /\ h.recorded = g.recorded
      /\ h.study = g.study /\ h.notes = g.notes /\ h.post = g.post
  BY DEF PracticeDrawn, Kept
<1>. QED  BY <1>1 DEF Fits, Told, Seen

(* The pane of the mode is drawn.                                            *)
LEMMA PaneFits ==
  ASSUME NEW d, NEW ts, NEW g, IsPage(Known(d), g), g.topic # None, Fits(d, ts, g),
         g.mode = "study" => g.post = None, NEW h, PaneDrawn(Known(d), g, h)
  PROVE  Fits(d, ts, h)
<1>1. CASE g.mode = "study"
  <2>1. Told(d, ts, g) /\ StudyDrawn(Known(d), g, h)
    BY <1>1 DEF Fits, PaneDrawn
  <2>. QED  BY <1>1, <2>1, StudyFits
<1>2. CASE g.mode # "study"
  BY <1>2, PracticeFits DEF PaneDrawn
<1>. QED  BY <1>1, <1>2

(* The whole topic is drawn.                                                 *)
LEMMA TopicFits ==
  ASSUME NEW d, NEW ts, NEW g, IsPage(Known(d), g), g.post = None, Told(d, ts, g), Seen(d, ts, g),
         NEW h, TopicDrawn(Known(d), g, h)
  PROVE  Fits(d, ts, h)
<1>1. CASE Raises(g)
  <2>1. h = [g EXCEPT !.shown = TRUE]
    BY <1>1 DEF TopicDrawn
  <2>2. /\ h.topic = g.topic /\ h.mode = g.mode /\ h.recorded = g.recorded /\ h.pane = g.pane
        /\ h.study = g.study /\ h.notes = g.notes /\ h.post = g.post
    BY <2>1 DEF IsPage, Pages
  <2>. QED  BY <2>2 DEF Fits, Told, Seen
<1>2. CASE ~Raises(g)
  BY <1>2, PaneFits DEF TopicDrawn, Fits, Raises
<1>. QED  BY <1>1, <1>2

(* Another mode is chosen: the visit counts anew.                            *)
LEMMA ModeFits ==
  ASSUME NEW d, NEW ts, NEW g, IsPage(Known(d), g), g.post = None, Told(d, ts, g), Seen(d, ts, g),
         NEW m \in {"study", "practice"}, NEW h, ModeDrawn(Known(d), g, m, h)
  PROVE  Fits(d, ts, h)
<1>0. g \in Pages(Known(d))
  BY DEF IsPage
<1>1. CASE h = g
  BY <1>1 DEF Fits
<1>2. CASE PracticeDrawn(Known(d), [g EXCEPT !.confirm = TRUE], h) /\ h.pane = g.pane
  <2>. DEFINE f == [g EXCEPT !.confirm = TRUE]
  <2>1. /\ f.topic = g.topic /\ f.mode = g.mode /\ f.recorded = g.recorded /\ f.pane = g.pane
        /\ f.study = g.study /\ f.notes = g.notes /\ f.post = g.post
    BY <1>0 DEF Pages
  <2>2. PracticeDrawn(Known(d), f, h)
    BY <1>2
  <2>. HIDE DEF f
  <2>3. Fits(d, ts, f)
    BY <2>1 DEF Fits, Told, Seen
  <2>. QED  BY <1>2, <2>1, <2>2, <2>3, PracticeFits
<1>3. CASE LET f == [g EXCEPT !.recorded = (g.recorded /\ m = g.mode), !.mode = m, !.confirm = FALSE]
           IN IF g.topic = None THEN h = f ELSE PaneDrawn(Known(d), f, h)
  <2>. DEFINE r == g.recorded /\ m = g.mode
              f == [g EXCEPT !.recorded = r, !.mode = m, !.confirm = FALSE]
  <2>1. /\ f.topic = g.topic /\ f.mode = m /\ f.recorded = r /\ f.pane = g.pane
        /\ f.study = g.study /\ f.notes = g.notes /\ f.post = g.post
    BY <1>0 DEF Pages
  <2>2. IF g.topic = None THEN h = f ELSE PaneDrawn(Known(d), f, h)
    BY <1>3
  <2>3. IsPage(Known(d), f)
    <3>1. [g EXCEPT !.recorded = r] \in Pages(Known(d))
      <4>1. r \in BOOLEAN
        BY <1>0 DEF Pages
      <4>. HIDE DEF r
      <4>. QED  BY <1>0, <4>1, FieldsOfPages
    <3>2. [g EXCEPT !.recorded = r, !.mode = m] \in Pages(Known(d))
      BY <3>1, FieldsOfPages
    <3>3. f \in Pages(Known(d))
      BY <3>2, FieldsOfPages
    <3>4. f.course = g.course
      BY <1>0 DEF Pages
    <3>. HIDE DEF f
    <3>. QED  BY <2>1, <3>3, <3>4 DEF IsPage
  <2>. HIDE DEF f
  <2>4. Fits(d, ts, f)
    BY <2>1 DEF Fits, Told, Seen
  <2>. QED  BY <2>1, <2>2, <2>3, <2>4, PaneFits
<1>. QED  BY <1>1, <1>2, <1>3 DEF ModeDrawn

(* What is shown: a report that is due is sent.                               *)
LEMMA ShowFits ==
  ASSUME db \in Databases, NEW g, IsPage(Known(db), g), Fits(db, task, g),
         NEW tasks, DOMAIN tasks = Threads, Show(g, tasks), ~missed',
         \A k \in Known(db) : Covered(db, task, k) => Covered(db, task', k)
  PROVE  Told(db, task', page') /\ Seen(db, task', page')
<1>0. SamePage(g, page')
  BY ShowPage DEF IsPage
<1>1. /\ page'.topic = g.topic /\ page'.mode = g.mode /\ page'.recorded = g.recorded
      /\ page'.pane = g.pane /\ page'.study = g.study /\ page'.notes = g.notes
  BY <1>0 DEF SamePage, Kept
<1>2. CASE g.post = None
  BY <1>1, <1>2, TopicHasKey DEF Fits, Told, Seen
<1>3. CASE g.post # None
  <2>. DEFINE free == {s \in Slots : tasks[s].pc = "idle"}
              r == CHOOSE s \in free : TRUE
  <2>1. free # {} /\ task' = [tasks EXCEPT ![r] = g.post]
    BY <1>3 DEF Show
  <2>2. r \in Slots
    BY <2>1
  <2>. HIDE DEF r
  <2>3. task'[r] = g.post
    BY <2>1, <2>2 DEF Threads
  <2>4. g.post.pc = "visit" /\ g.post.req # None
    <3>1. IsReport(Known(db), g.post)
      BY <1>3, TopicHasKey
    <3>. QED  BY <3>1, ServiceAssumption DEF IsReport, Reports
  <2>5. KeyIn(db, g.post.req.course, g.post.req.topic) = g.notes
    BY <1>3 DEF Show, Misreported
  <2>6. Reporting(db, task', g.notes)
    BY <2>2, <2>3, <2>4, <2>5 DEF Reporting
  <2>7. g.notes = g.topic.key /\ g.notes \in Known(db)
    BY <1>3, TopicHasKey DEF Fits
  <2>. QED  BY <1>1, <2>6, <2>7 DEF Told, Seen, Covered
<1>. QED  BY <1>2, <1>3

(* Visits stay covered as long as no report is lost.                          *)
LEMMA CoverStays ==
  ASSUME NEW d, NEW ts, NEW us, NEW k, Covered(d, ts, k),
         \A s \in Slots : \/ us[s] = ts[s] \/ ts[s].pc # "visit"
                          \/ ts[s].req = None /\ ts[s].reply # Failed
  PROVE  Covered(d, us, k)
BY DEF Covered, Reporting

(* An answer that is taken is there, and was awaited.                         *)
LEMMA TakenAnswer ==
  ASSUME TypeInv, NEW th \in Threads, Replied(th), ~Refused(th)
  PROVE  task[th].reply \notin {None, Failed} /\ task[th].req = None /\ task[th].pc # "idle"
<1>. DEFINE Taken == task[th].reply \notin {None, Failed} /\ task[th].pc # "idle"
<1>1. \A pc : Answers(th, pc) /\ pc # "idle" => Taken
  BY DEF Answers
<1>. HIDE DEF Taken
<1>2. Created(th) \/ Listed(th) \/ OpenedCourse(th) \/ DocumentAdded(th) \/ Built(th)
        => Taken
  BY <1>1 DEF Created, Listed, OpenedCourse, DocumentAdded, Built
<1>3. OpenedTopic(th) \/ Acted(th) \/ ActedRefreshed(th) => Taken
  BY <1>1 DEF OpenedTopic, Acted, ActedRefreshed
<1>4. AnswerChecked(th) \/ AnswerShown(th) \/ HintShown(th) \/ NotesPeeked(th)
        => Taken
  BY <1>1 DEF AnswerChecked, AnswerShown, HintShown, NotesPeeked
<1>5. VisitRecorded(th) \/ VisitedCourse(th) \/ PolledCourse(th) \/ PolledTopic(th)
        => Taken
  BY <1>1 DEF VisitRecorded, VisitedCourse, PolledCourse, PolledTopic
<1>6. Taken
  BY <1>2, <1>3, <1>4, <1>5 DEF Replied
<1>7. task[th].req # None => task[th].reply = None
  BY DEF TypeInv, GoodTask, WellAsked
<1>. QED  BY <1>6, <1>7 DEF Taken

(* The taking of an answer leaves the visits covered.                         *)
LEMMA RepliesCover ==
  ASSUME TypeInv, NEW th \in Threads, Replied(th), ~missed', NEW k, Covered(db, task, k)
  PROVE  Covered(db, task', k)
<1>1. CASE Refused(th)
  <2>1. task[th].pc # "visit" /\ task' = [task EXCEPT ![th] = Idle]
    BY <1>1 DEF Refused, GiveUp
  <2>2. \A s \in Slots : task'[s] = task[s] \/ task[s].pc # "visit"
    BY <2>1 DEF TypeInv, Threads
  <2>. QED  BY <2>2, CoverStays
<1>2. CASE ~Refused(th)
  <2>1. \A s \in Slots : s # th => task'[s] = task[s] \/ task[s].pc # "visit"
    BY RepliesLeaveBusy DEF Threads
  <2>2. task[th].req = None /\ task[th].reply # Failed
    BY <1>2, TakenAnswer
  <2>. QED  BY <2>1, <2>2, CoverStays
<1>. QED  BY <1>1, <1>2

(* The page as it is, if no notes are being written.                          *)
LEMMA PageFits ==
  ASSUME TypeInv, NotesTold, ~missed, ~torn, ~WritingNotes
  PROVE  /\ Told(db, task, page) /\ Seen(db, task, page) /\ Fits(db, task, page)
         /\ page.post = None /\ IsPage(Known(db), page)
BY DEF TypeInv, NotesTold, Fits

(* What Show says of the history.                                             *)
LEMMA ShowHistory ==
  ASSUME NEW g, NEW tasks, Show(g, tasks)
  PROVE  (missed => missed') /\ (torn => torn') /\ (Mixed(g, tasks) => missed')
BY DEF Show

(* A task that opens no topic changes by itself.                              *)
LEMMA OthersOpenNothing ==
  ASSUME NEW s, task[s].pc # "open_topic", DOMAIN task = Threads, NEW x
  PROVE  ~Opens([task EXCEPT ![s] = x])
BY DEF Opens

(* The student.                                                             *)

(* A click.                                                                  *)
LEMMA ClickKeepsVisits ==
  ASSUME TypeInv, VisitInv, NEW g, IsPage(Known(db), g), Click(g),
         ~missed /\ ~torn => Fits(db, task, g)
  PROVE  VisitInv'
<1>1. Show(g, task) /\ db' = db /\ task["run"].pc = "idle"
  BY ClickPage DEF Click, Busy
<1>2. "run" \notin Slots /\ "load" \notin Slots
  BY ClientAssumption
<1>3. task'["run"] = task["run"] /\ task'["load"] = task["load"]
  BY <1>1, <1>2, ShowLeavesBusy
<1>4. \A s \in Slots : task[s].pc = "visit" => task'[s] = task[s]
  BY <1>1, ShowLeavesBusy
<1>5. \A k \in Known(db) : Covered(db, task, k) => Covered(db, task', k)
  BY <1>4, CoverStays
<1>6. (missed => missed') /\ (torn => torn')
  BY <1>1, ShowHistory
<1>7. ~missed' /\ ~torn' => Told(db, task', page') /\ Seen(db, task', page')
  BY <1>1, <1>5, <1>6, ShowFits DEF TypeInv
<1>. QED  BY <1>1, <1>3, <1>7 DEF VisitInv, NotesTold, NotesWritten, AnswersInPractice, Alone, Busy, WritingNotes

(* A request of the student, other than for notes to be written.              *)
LEMMA AskedKeepsVisits ==
  ASSUME TypeInv, CardInv, VisitInv, NEW call, Asked(call)
  PROVE  VisitInv'
<1>1. /\ page' = page /\ db' = db /\ torn' = torn /\ task["run"].pc = "idle"
      /\ task' = [task EXCEPT !["run"] = call] /\ missed' = (missed \/ task["load"].pc # "idle")
  BY DEF Asked, Begin, Busy
<1>2. "run" \notin Slots /\ DOMAIN task = Threads
  BY ClientAssumption DEF TypeInv
<1>3. /\ task'["run"] = call /\ task'["load"] = task["load"]
      /\ \A s \in Slots : task'[s] = task[s]
  BY <1>1, <1>2 DEF Threads
<1>4. \A k : Covered(db, task, k) => Covered(db, task', k)
  BY <1>3, CoverStays
<1>5. NotesTold'
  <2>1. ASSUME ~missed, ~torn PROVE Told(db, task, page) /\ Seen(db, task, page)
    BY <1>1, <2>1, PageFits DEF WritingNotes, VisitInv
  <2>. QED  BY <1>1, <1>4, <2>1 DEF NotesTold, Told, Seen
<1>6. NotesWritten'
  BY <1>3 DEF Asked, NotesWritten, WritingNotes
<1>7. AnswersInPractice'
  <2>1. ~torn /\ call.pc = "answer" => page.pane = "practice" /\ page.mode = "practice"
    BY DEF Asked, Open, OnScreen, CardInv, PaneIsMode
  <2>. QED  BY <1>1, <1>3, <2>1 DEF AnswersInPractice
<1>8. Alone'
  BY <1>1, <1>3 DEF Alone
<1>. QED  BY <1>5, <1>6, <1>7, <1>8 DEF VisitInv

(* The request for the notes of a topic.                                      *)
LEMMA WriteNotesKeepsVisits ==
  ASSUME TypeInv, VisitInv, WriteNotes
  PROVE  VisitInv'
<1>. DEFINE call == Call("act", TopicRequest("lesson", FALSE))
            g == [page EXCEPT !.recorded = TRUE]
<1>1. /\ page' = g /\ db' = db /\ torn' = torn /\ task["run"].pc = "idle"
      /\ task' = [task EXCEPT !["run"] = call] /\ missed' = (missed \/ task["load"].pc # "idle")
  BY DEF WriteNotes, Begin, Busy
<1>2. "run" \notin Slots /\ DOMAIN task = Threads
  BY ClientAssumption DEF TypeInv
<1>3. call.pc = "act" /\ ~call.flag /\ call.reply = None /\ call.req.kind = "lesson"
  BY CallFields DEF TopicRequest, Request
<1>4. g.pane = page.pane /\ g.study = page.study /\ g.notes = page.notes
  BY PageFacts DEF Pages
<1>. HIDE DEF call, g
<1>5. /\ task'["run"] = call /\ task'["load"] = task["load"]
      /\ \A s \in Slots : task'[s] = task[s]
  BY <1>1, <1>2 DEF Threads
<1>6. \A k : Covered(db, task, k) => Covered(db, task', k)
  BY <1>5, CoverStays
<1>7. NotesTold'
  <2>1. ~missed /\ ~torn => Seen(db, task, page)
    BY DEF VisitInv, NotesTold
  <2>2. WritingNotes'
    BY <1>3, <1>5 DEF WritingNotes
  <2>. QED  BY <1>1, <1>4, <1>6, <2>1, <2>2 DEF NotesTold, Seen
<1>. QED  BY <1>1, <1>3, <1>5, <1>7 DEF VisitInv, NotesWritten, AnswersInPractice, Alone

(* Whatever the student does.                                                 *)
LEMMA StudentKeepsVisits ==
  ASSUME TypeInv, CardInv, VisitInv, Student
  PROVE  VisitInv'
<1>. DEFINE P == Known(db)
            D(g) == ~missed /\ ~torn => Fits(db, task, g)
<1>0. IsPage(P, page) /\ page \in Pages(P) /\ page.post = None
  BY PageFacts
<1>1. ~Busy /\ ~missed /\ ~torn => Told(db, task, page) /\ Seen(db, task, page)
  BY PageFits DEF VisitInv, WritingNotes, Busy
<1>2. \A g : Click(g) => ~Busy
  BY DEF Click
<1>3. CASE KeepPracticing
  <2>. DEFINE g == [page EXCEPT !.confirm = FALSE]
              h == RenderPractice(g)
  <2>1. /\ Click(h) /\ SameCard(page, g) /\ Kept(page, g) /\ g.mode = page.mode
        /\ g.recorded = page.recorded /\ PracticeDrawn(P, g, h) /\ h.pane = g.pane
    BY <1>3, KeepDraws
  <2>. HIDE DEF h, g
  <2>2. D(g)
    BY <1>0, <1>1, <1>2, <2>1 DEF SameCard, Kept, Fits, Told, Seen
  <2>3. D(h)
    BY <2>1, <2>2, PracticeFits
  <2>. QED  BY <2>1, <2>3, ClickKeepsVisits DEF PracticeDrawn
<1>4. CASE NextQuestion
  <2>. DEFINE g == [page EXCEPT !.item = page.card.next, !.feedback = None]
              h == RenderPractice(g)
  <2>1. /\ Click(h) /\ SameCard(page, g) /\ g.topic = page.topic /\ g.mode = page.mode
        /\ g.recorded = page.recorded /\ PracticeDrawn(P, g, h) /\ h.pane = g.pane
    BY <1>4, NextDraws
  <2>. HIDE DEF h, g
  <2>2. D(g)
    BY <1>0, <1>1, <1>2, <2>1 DEF SameCard, Fits, Told, Seen
  <2>3. D(h)
    BY <2>1, <2>2, PracticeFits
  <2>. QED  BY <2>1, <2>3, ClickKeepsVisits DEF PracticeDrawn
<1>5. ASSUME NEW m \in {"study", "practice"}, Click(SetMode(page, m)) PROVE VisitInv'
  <2>. DEFINE h == SetMode(page, m)
  <2>1. ModeDrawn(P, page, m, h) /\ Click(h)
    BY <1>0, <1>5, SetModeDrawing
  <2>. HIDE DEF h
  <2>2. D(h)
    BY <1>0, <1>1, <1>2, <2>1, ModeFits
  <2>. QED  BY <2>1, <2>2, ClickKeepsVisits DEF ModeDrawn
<1>6. ASSUME page.step # None, page.step \in StepViews(P),
             LET q == AtQuestion(page) IN Click(IF q.topic = None THEN q ELSE RenderPractice(q))
      PROVE  VisitInv'
  <2>. DEFINE q == AtQuestion(page)
              f == [page EXCEPT !.item = page.step.item]
              h == IF q.topic = None THEN q ELSE RenderPractice(q)
  <2>1. /\ IsPage(P, f) /\ Kept(page, f) /\ f.mode = page.mode /\ f.pane = page.pane
        /\ f.study = page.study /\ f.notes = page.notes /\ f.recorded = page.recorded
        /\ f.post = page.post /\ ModeDrawn(P, f, "practice", q)
    BY <1>0, <1>6, AtQuestionDrawing
  <2>2. IsPage(P, h) /\ (q.topic # None => PracticeDrawn(P, q, h) /\ h.pane = q.pane)
    BY <1>6, AtQuestionClick
  <2>3. Click(h) /\ (q.topic = None => h = q)
    BY <1>6
  <2>. HIDE DEF h, q, f
  <2>4. ~missed /\ ~torn => f.post = None /\ Told(db, task, f) /\ Seen(db, task, f)
    BY <1>0, <1>1, <1>2, <2>1, <2>3 DEF Kept, Told, Seen
  <2>5. D(q)
    BY <2>1, <2>4, ModeFits
  <2>6. D(h)
    BY <2>2, <2>3, <2>5, PracticeFits
  <2>. QED  BY <2>2, <2>3, <2>6, ClickKeepsVisits
<1>7. CASE Type
  BY <1>0, <1>7 DEF Type, Pages, VisitInv, NotesTold, Told, Seen, NotesWritten, AnswersInPractice,
                    Alone, Busy, WritingNotes
<1>8. CASE Reload
  <2>1. /\ page' = Blank /\ task'["run"] = Idle
    BY <1>8 DEF Reload, Threads
  <2>2. ~page'.recorded /\ page'.pane = "none" /\ task'["run"].pc = "idle"
    BY <2>1, IdleIsTask DEF Blank
  <2>. QED  BY <2>2 DEF VisitInv, NotesTold, Told, Seen, NotesWritten, AnswersInPractice, Alone,
                        Busy, WritingNotes
<1>. QED  BY <1>3, <1>4, <1>5, <1>6, <1>7, <1>8, AskedKeepsVisits, WriteNotesKeepsVisits, StudentDraws

(* The answers.                                                             *)

(* What is drawn from an answer fits, and is shown.                           *)
LEMMA TakenFits ==
  ASSUME TypeInv, NEW th \in Threads, Replied(th), NEW g, IsPage(Known(db), g),
         (\E call : Continue(th, g, call)) \/ Finish(th, g),
         ~missed' /\ ~torn' => Fits(db, task, g)
  PROVE  NotesTold'
<1>1. PICK call : Show(g, [task EXCEPT ![th] = call]) /\ db' = db
  BY DEF Continue, Finish
<1>. DEFINE tasks == [task EXCEPT ![th] = call]
<1>2. DOMAIN tasks = Threads /\ Show(g, tasks) /\ db \in Databases
  BY <1>1 DEF TypeInv
<1>. HIDE DEF tasks
<1>3. ~missed' => \A k : Covered(db, task, k) => Covered(db, task', k)
  BY RepliesCover
<1>4. ~missed' /\ ~torn' => Told(db, task', page') /\ Seen(db, task', page')
  BY <1>2, <1>3, ShowFits
<1>. QED  BY <1>1, <1>4 DEF NotesTold

(* The history only grows.                                                   *)
LEMMA HistoryStays ==
  ASSUME TypeInv, NEW th \in Threads, Replied(th)
  PROVE  (missed => missed') /\ (torn => torn')
<1>1. \A g, call : Continue(th, g, call) => (missed => missed')
  BY ShowHistory DEF Continue
<1>2. \A g : Finish(th, g) => (missed => missed')
  BY ShowHistory DEF Finish
<1>3. \A g, tasks : Show(g, tasks) => (missed => missed')
  BY ShowHistory
<1>4. Created(th) \/ Listed(th) \/ OpenedCourse(th) \/ DocumentAdded(th) \/ Built(th)
        => (missed => missed')
  BY <1>1, <1>2 DEF Created, Listed, OpenedCourse, DocumentAdded, Built
<1>5. OpenedTopic(th) \/ Acted(th) \/ ActedRefreshed(th) => (missed => missed')
  BY <1>1, <1>2 DEF OpenedTopic, Acted, ActedRefreshed
<1>6. AnswerChecked(th) \/ AnswerShown(th) \/ HintShown(th) \/ NotesPeeked(th) => (missed => missed')
  BY <1>1, <1>2 DEF AnswerChecked, AnswerShown, HintShown, NotesPeeked
<1>7. VisitRecorded(th) \/ VisitedCourse(th) => (missed => missed')
  BY <1>3 DEF VisitRecorded, VisitedCourse
<1>8. PolledCourse(th) \/ PolledTopic(th) => (missed => missed')
  BY <1>1, <1>2 DEF PolledCourse, PolledTopic, PollEnd
<1>9. Refused(th) => (missed => missed')
  BY DEF Refused, GiveUp
<1>. QED  BY <1>4, <1>5, <1>6, <1>7, <1>8, <1>9, RunAfter DEF Replied

(* An answer that leaves the notes and the topic in place.                    *)
LEMMA KeepsTold ==
  ASSUME TypeInv, VisitInv, NEW th \in Threads, Replied(th), th = "run" => missed' \/ ~WritingNotes,
         page'.recorded = page.recorded, page'.mode = page.mode, page'.pane = page.pane,
         page'.study = page.study, page'.notes = page.notes,
         page'.topic # None => page.topic # None /\ page'.topic.key = page.topic.key
  PROVE  NotesTold'
<1>1. db' = db
  BY RepliesDraw
<1>2. (missed => missed') /\ (torn => torn')
  BY HistoryStays
<1>3. th # "run" => task'["run"] = task["run"]
  BY RunAfter
<1>4. ~missed' => \A k : Covered(db, task, k) => Covered(db, task', k)
  BY RepliesCover
<1>5. ~missed' /\ ~torn' => (WritingNotes \/ Told(db, task, page)) /\ Seen(db, task, page)
  BY <1>2 DEF VisitInv, NotesTold
<1>6. ~missed' /\ ~torn' => Seen(db, task', page')
  BY <1>4, <1>5 DEF Seen
<1>7. ~missed' /\ ~torn' /\ Told(db, task, page) => Told(db, task', page')
  BY <1>4 DEF Told
<1>8. ~missed' /\ WritingNotes => WritingNotes'
  BY <1>3 DEF WritingNotes
<1>. QED  BY <1>1, <1>5, <1>6, <1>7, <1>8 DEF NotesTold

(* The page of a state in which the answer to a question or of a topic action   *)
(* is taken, or a topic is opened.                                           *)
LEMMA AnswerFits ==
  ASSUME TypeInv, VisitInv, NEW th \in Threads, Replied(th),
         NEW pc \in {"open_topic", "acted", "answer", "answered", "hint", "peek"}, Answers(th, pc),
         ~missed', ~torn'
  PROVE  /\ Told(db, task, page) /\ Seen(db, task, page) /\ page.post = None /\ ~missed /\ ~torn
<1>1. ~missed /\ ~torn
  BY HistoryStays
<1>2. ~WritingNotes
  <2>1. th \in {"run", "load"} /\ task[th].pc = pc
    BY AnswerFacts DEF Home, BackSteps, Threads
  <2>2. th = "load" => ~Busy
    BY <1>1, <2>1 DEF VisitInv, Alone
  <2>. QED  BY <2>1, <2>2 DEF WritingNotes, Busy
<1>. QED  BY <1>1, <1>2, PageFits DEF VisitInv

(* A topic is opened.                                                       *)
LEMMA OpenedTold ==
  ASSUME TypeInv, VisitInv, NEW th \in Threads, Replied(th), OpenedTopic(th)
  PROVE  NotesTold'
<1>. DEFINE g == OpenedPage(task[th].reply, task[th].topic)
            h == RenderTopic(g)
<1>1. /\ Answers(th, "open_topic") /\ Finish(th, h) /\ IsPage(Known(db), g) /\ SameCard(page, g)
      /\ ~g.recorded /\ TopicDrawn(Known(db), g, h)
  BY OpenedTopicDraws
<1>. HIDE DEF g, h
<1>2. ASSUME ~missed', ~torn' PROVE Fits(db, task, h)
  <2>1. Seen(db, task, page) /\ page.post = None
    BY <1>1, <1>2, AnswerFits
  <2>2. g.post = None /\ Told(db, task, g) /\ Seen(db, task, g)
    BY <1>1, <2>1 DEF SameCard, Told, Seen
  <2>. QED  BY <1>1, <2>2, TopicFits
<1>. QED  BY <1>1, <1>2, TakenFits DEF TopicDrawn

(* The topic is drawn after its course was read again.                        *)
LEMMA RefreshedFits ==
  ASSUME TypeInv, VisitInv, NEW th \in Threads, Replied(th),
         NEW pc \in {"acted", "answered"}, Answers(th, pc)
  PROVE  LET h == RenderTopic([page EXCEPT !.course = task[th].reply])
         IN IsPage(Known(db), h) /\ (~missed' /\ ~torn' => Fits(db, task, h))
<1>. DEFINE g == [page EXCEPT !.course = task[th].reply]
            h == RenderTopic(g)
<1>1. task[th].reply \in CourseViews /\ IsPage(Known(db), g) /\ TopicDrawn(Known(db), g, h)
  BY CourseDraws
<1>2. SameCard(page, g) /\ g.topic = page.topic /\ g.mode = page.mode /\ g.recorded = page.recorded
  BY <1>1, CourseStored
<1>. HIDE DEF g, h
<1>3. ASSUME ~missed', ~torn' PROVE Fits(db, task, h)
  <2>1. Told(db, task, page) /\ Seen(db, task, page) /\ page.post = None
    BY <1>3, AnswerFits
  <2>2. g.post = None /\ Told(db, task, g) /\ Seen(db, task, g)
    BY <1>2, <2>1 DEF SameCard, Told, Seen
  <2>. QED  BY <1>1, <2>2, TopicFits
<1>4. IsPage(Known(db), h) /\ (~missed' /\ ~torn' => Fits(db, task, h))
  BY <1>1, <1>3 DEF TopicDrawn
<1>. QED  BY <1>4 DEF g, h

(* The answer is shown.                                                      *)
LEMMA ShownTold ==
  ASSUME TypeInv, VisitInv, NEW th \in Threads, Replied(th), AnswerShown(th)
  PROVE  NotesTold'
<1>. DEFINE h == RenderTopic([page EXCEPT !.course = task[th].reply])
<1>1. Answers(th, "answered") /\ Finish(th, h)
  BY DEF AnswerShown
<1>2. IsPage(Known(db), h) /\ (~missed' /\ ~torn' => Fits(db, task, h))
  BY <1>1, RefreshedFits
<1>. HIDE DEF h
<1>. QED  BY <1>1, <1>2, TakenFits

(* A topic action is over, with questions if they were asked for.            *)
LEMMA RefreshedTold ==
  ASSUME TypeInv, VisitInv, NEW th \in Threads, Replied(th), ActedRefreshed(th)
  PROVE  NotesTold'
<1>. DEFINE h == RenderTopic([page EXCEPT !.course = task[th].reply])
            f == Restarted(h)
            r == RenderMode(f)
            k == IF ~task[th].flag \/ Raises(h) THEN h ELSE r
<1>1. Answers(th, "acted") /\ Finish(th, k)
  BY DEF ActedRefreshed, Restarted
<1>2. IsPage(Known(db), h) /\ (~missed' /\ ~torn' => Fits(db, task, h))
  BY <1>1, RefreshedFits
<1>. HIDE DEF h
<1>3. /\ IsPage(Known(db), f) /\ SameCard(h, f) /\ f.topic = h.topic /\ f.mode = "practice"
      /\ f.recorded = h.recorded /\ IsPage(Known(db), r)
      /\ h.topic # None => PaneDrawn(Known(db), f, r)
  BY <1>2, RestartedDraws
<1>. HIDE DEF f, r
<1>4. CASE ~task[th].flag \/ Raises(h)
  BY <1>1, <1>2, <1>4, TakenFits
<1>5. CASE task[th].flag /\ ~Raises(h)
  <2>1. k = r /\ h.topic # None
    BY <1>5 DEF Raises
  <2>2. ASSUME ~missed', ~torn' PROVE Fits(db, task, r)
    <3>1. Fits(db, task, f)
      BY <1>2, <1>3, <2>2 DEF SameCard, Fits, Told, Seen
    <3>. QED  BY <1>3, <2>1, <3>1, PaneFits
  <2>. QED  BY <1>1, <1>3, <2>1, <2>2, TakenFits
<1>. QED  BY <1>4, <1>5

(* A topic action has been answered: notes that were written are visited.      *)
LEMMA ActedTold ==
  ASSUME TypeInv, VisitInv, NEW th \in Threads, Replied(th), Acted(th)
  PROVE  NotesTold'
<1>. DEFINE v == task[th].reply
            g == [page EXCEPT !.topic = v]
            call == [CourseCall("acted", page.course.id) EXCEPT !.flag = task[th].flag]
<1>1. Answers(th, "act") /\ Continue(th, g, call) /\ th = "run"
  BY AwaitedInRun DEF Acted, Works
<1>2. v \in TopicViews(Known(db)) /\ page.course # None
  BY <1>1, AnswerFacts DEF TopicSteps
<1>3. /\ v # None /\ IsPage(Known(db), g) /\ SameCard(page, g) /\ g.topic = v /\ g.mode = page.mode
      /\ g.recorded = page.recorded
  BY <1>2, TopicStored
<1>. HIDE DEF g, call
<1>4. ASSUME ~missed', ~torn' PROVE Fits(db, task, g)
  <2>1. ~missed /\ ~torn
    BY <1>4, HistoryStays
  <2>2. Seen(db, task, page) /\ page.post = None /\ (WritingNotes \/ Told(db, task, page))
    BY <2>1, PageFacts DEF VisitInv, NotesTold
  <2>3. Told(db, task, g)
    <3>1. CASE WritingNotes
      <4>1. Covered(db, task, v.key)
        BY <1>1, <3>1 DEF Answers, VisitInv, NotesWritten, Covered
      <4>. QED  BY <1>3, <4>1 DEF Told
    <3>2. CASE Told(db, task, page)
      <4>. DEFINE tasks == [task EXCEPT ![th] = call]
      <4>1. ~Mixed(g, tasks)
        BY <1>1, <1>4, ShowHistory DEF Continue
      <4>2. ~Opens(tasks)
        BY <1>1, OthersOpenNothing DEF Answers, TypeInv
      <4>. HIDE DEF tasks
      <4>3. g.recorded => page.topic # None /\ v.key = page.topic.key
        BY <1>3, <4>1, <4>2 DEF Mixed
      <4>. QED  BY <1>3, <3>2, <4>3 DEF Told
    <3>. QED  BY <2>2, <3>1, <3>2
  <2>. QED  BY <1>3, <2>2, <2>3 DEF Fits, Seen, SameCard
<1>. QED  BY <1>1, <1>3, <1>4, TakenFits

(* An answer was checked, in practice.                                       *)
LEMMA CheckedTold ==
  ASSUME TypeInv, VisitInv, NEW th \in Threads, Replied(th), AnswerChecked(th)
  PROVE  NotesTold'
<1>. DEFINE g == [page EXCEPT !.topic = task[th].reply, !.feedback = task[th].item]
            call == CourseCall("answered", page.course.id)
<1>1. /\ Answers(th, "answer") /\ Continue(th, g, call) /\ IsPage(Known(db), g) /\ SameCard(page, g)
      /\ g.mode = page.mode
  BY AnswerCheckedStores
<1>. HIDE DEF g, call
<1>2. ASSUME ~missed', ~torn' PROVE Fits(db, task, g)
  <2>1. page.post = None /\ ~missed /\ ~torn
    BY <1>1, <1>2, AnswerFits
  <2>2. task["run"].pc = "answer"
    BY <1>1, AwaitedInRun DEF Works
  <2>3. page.pane = "practice" /\ page.mode = "practice"
    BY <2>1, <2>2 DEF VisitInv, AnswersInPractice
  <2>. QED  BY <1>1, <2>1, <2>3 DEF Fits, Told, Seen, SameCard
<1>. QED  BY <1>1, <1>2, TakenFits

(* Help came.                                                               *)
LEMMA HintTold ==
  ASSUME TypeInv, VisitInv, NEW th \in Threads, Replied(th), HintShown(th)
  PROVE  NotesTold'
<1>. DEFINE g == [page EXCEPT !.hints = page.hints \cup {task[th].item}]
            h == RenderPractice(g)
<1>1. /\ Answers(th, "hint") /\ Finish(th, h) /\ SameCard(page, g) /\ g.topic = page.topic
      /\ g.mode = page.mode /\ g.recorded = page.recorded
      /\ PracticeDrawn(Known(db), g, h) /\ h.pane = g.pane
  BY HintDraws
<1>. HIDE DEF g, h
<1>2. ASSUME ~missed', ~torn' PROVE Fits(db, task, h)
  <2>1. Told(db, task, page) /\ Seen(db, task, page) /\ page.post = None
    BY <1>1, <1>2, AnswerFits
  <2>2. Fits(db, task, g)
    BY <1>1, <2>1 DEF SameCard, Fits, Told, Seen
  <2>. QED  BY <1>1, <2>2, PracticeFits
<1>. QED  BY <1>1, <1>2, TakenFits DEF PracticeDrawn

(* The notes were asked for in a question.                                   *)
LEMMA PeekTold ==
  ASSUME TypeInv, VisitInv, NEW th \in Threads, Replied(th), NotesPeeked(th)
  PROVE  NotesTold'
<1>. DEFINE g == [page EXCEPT !.peeked = page.peeked \cup {task[th].item}, !.confirm = FALSE]
            h == IF task[th].flag THEN SetMode(g, "study") ELSE RenderPractice(g)
<1>1. /\ Answers(th, "peek") /\ Finish(th, h)
      /\ IsPage(Known(db), g) /\ SameCard(page, g) /\ g.topic = page.topic
      /\ g.mode = page.mode /\ g.recorded = page.recorded
      /\ task[th].flag => ModeDrawn(Known(db), g, "study", h)
      /\ ~task[th].flag => PracticeDrawn(Known(db), g, h) /\ h.pane = g.pane
  BY PeekDraws
<1>. HIDE DEF g, h
<1>2. ASSUME ~missed', ~torn' PROVE Fits(db, task, h)
  <2>1. Told(db, task, page) /\ Seen(db, task, page) /\ page.post = None
    BY <1>1, <1>2, AnswerFits
  <2>2. Fits(db, task, g) /\ g.post = None /\ Told(db, task, g) /\ Seen(db, task, g)
    BY <1>1, <2>1 DEF SameCard, Fits, Told, Seen
  <2>3. CASE task[th].flag
    BY <1>1, <2>2, <2>3, ModeFits
  <2>4. CASE ~task[th].flag
    BY <1>1, <2>2, <2>4, PracticeFits
  <2>. QED  BY <2>3, <2>4
<1>3. IsPage(Known(db), h)
  BY <1>1 DEF ModeDrawn, PracticeDrawn
<1>. QED  BY <1>1, <1>2, <1>3, TakenFits

(* A poll ends: it brings the topic that is there or another, whose visit is     *)
(* not taken for recorded.                                                  *)
LEMMA PollEndTold ==
  ASSUME TypeInv, VisitInv, NEW s \in Threads, Replied(s), s # "run", task[s].pc # "open_topic",
         NEW course \in CourseViews,
         NEW fresh \in TopicViews(Known(db)) \cup {None}, PollEnd(s, course, fresh)
  PROVE  /\ NotesTold' /\ (Busy => page'.pane = page.pane /\ page'.mode = page.mode)
<1>. DEFINE P == Known(db)
            t == task[s].topic
            h == PollApplied(page, course, fresh, t)
            f == PollStored(page, course, fresh)
            e == [page EXCEPT !.course = course]
            came == fresh # None /\ page.topic # None /\ page.topic.id = t
<1>0. page \in Pages(P) /\ IsPage(P, page) /\ page.post = None
  BY PageFacts
<1>1. Finish(s, IF Discarded(task[s].course) THEN page ELSE h)
  BY DEF PollEnd
<1>2. PollDrawn(P, page, course, fresh, t, h)
  BY PollEndDraws
<1>3. CASE Discarded(task[s].course)
  <2>1. SamePage(page, page')
    BY <1>0, <1>1, <1>3, FinishPage
  <2>2. /\ page'.topic = page.topic /\ page'.recorded = page.recorded /\ page'.mode = page.mode
        /\ page'.pane = page.pane /\ page'.study = page.study /\ page'.notes = page.notes
    BY <2>1 DEF SamePage, Kept
  <2>. QED  BY <2>2, KeepsTold
<1>4. CASE ~Discarded(task[s].course)
  <2>1. Finish(s, h) /\ ~Busy
    BY <1>1, <1>4 DEF Discarded
  <2>2. /\ e.topic = page.topic /\ e.mode = page.mode /\ e.recorded = page.recorded
        /\ e.pane = page.pane /\ e.study = page.study /\ e.notes = page.notes /\ e.post = None
        /\ f.topic = fresh /\ f.mode = page.mode /\ f.recorded = page.recorded
        /\ f.pane = page.pane /\ f.study = page.study /\ f.notes = page.notes /\ f.post = None
    BY <1>0 DEF Pages, PollStored
  <2>3. /\ IsPage(P, h) /\ h.pane = page.pane
        /\ ~came => h = e
        /\ came => /\ h.topic = fresh /\ IsPage(P, f) /\ fresh # None
                   /\ \/ StudyDrawn(P, f, h) /\ page.mode = "study"
                      \/ PracticeDrawn(P, f, h)
                      \/ h = f
    BY <1>2 DEF PollDrawn
  <2>. HIDE DEF h, f, e, came
  <2>4. ASSUME ~missed', ~torn' PROVE Fits(db, task, h)
    <3>. DEFINE tasks == [task EXCEPT ![s] = Idle]
    <3>0. ~Opens(tasks)
      BY OthersOpenNothing DEF TypeInv
    <3>1. ~missed /\ ~torn /\ ~Mixed(h, tasks)
      BY <2>1, <2>4, HistoryStays, ShowHistory DEF Finish
    <3>. HIDE DEF tasks
    <3>2. Told(db, task, page) /\ Seen(db, task, page)
      BY <2>1, <3>1, PageFits DEF VisitInv, WritingNotes, Busy
    <3>3. CASE ~came
      BY <2>2, <2>3, <3>2, <3>3 DEF Fits, Told, Seen
    <3>4. CASE came
      <4>1. page.recorded => h.recorded
        BY <2>2, <2>3, <3>4 DEF StudyDrawn, PracticeDrawn
      <4>2. page.recorded => page.topic # None /\ fresh.key = page.topic.key
        BY <2>3, <3>0, <3>1, <3>4, <4>1 DEF Mixed, came
      <4>3. Told(db, task, f) /\ Seen(db, task, f) /\ Fits(db, task, f)
        BY <2>2, <3>2, <4>2 DEF Told, Seen, Fits
      <4>4. CASE StudyDrawn(P, f, h) /\ page.mode = "study"
        BY <2>2, <2>3, <3>4, <4>3, <4>4, StudyFits
      <4>5. CASE PracticeDrawn(P, f, h)
        BY <2>2, <2>3, <4>3, <4>5, PracticeFits
      <4>6. CASE h = f
        BY <4>3, <4>6
      <4>. QED  BY <2>3, <3>4, <4>4, <4>5, <4>6
    <3>. QED  BY <3>3, <3>4
  <2>. QED  BY <2>1, <2>3, <2>4, TakenFits
<1>. QED  BY <1>3, <1>4

(* What is answered in the background keeps the notes told, and during an        *)
(* action of the student the pane and the mode.                              *)
LEMMA BackgroundTold ==
  ASSUME TypeInv, VisitInv, NEW s \in Threads, Replied(s), PolledCourse(s) \/ PolledTopic(s)
  PROVE  NotesTold' /\ (Busy => page'.pane = page.pane /\ page'.mode = page.mode)
<1>. DEFINE Goal == NotesTold' /\ (Busy => page'.pane = page.pane /\ page'.mode = page.mode)
<1>1. s # "run" /\ task[s].pc # "open_topic"
  BY AnswerFacts DEF PolledCourse, PolledTopic, Home, BackSteps
<1>2. ASSUME PolledTopic(s) PROVE Goal
  <2>1. /\ PollEnd(s, task[s].fresh, task[s].reply) /\ task[s].fresh \in CourseViews
        /\ task[s].reply \in TopicViews(Known(db))
    BY <1>2, AnswerFacts DEF PolledTopic, TopicSteps, WellKept
  <2>. QED  BY <1>1, <2>1, PollEndTold
<1>3. ASSUME PolledCourse(s) PROVE Goal
  <2>1. CASE task[s].topic = None
    <3>1. task[s].reply \in CourseViews /\ PollEnd(s, task[s].reply, None)
      BY <1>3, <2>1, AnswerFacts DEF PolledCourse, CourseSteps
    <3>. QED  BY <1>1, <3>1, PollEndTold
  <2>2. CASE task[s].topic # None
    <3>1. \E call : Continue(s, page, call)
      BY <1>3, <2>2 DEF PolledCourse
    <3>2. SamePage(page, page')
      BY <3>1, PageFacts, ShowPage DEF Continue
    <3>3. /\ page'.topic = page.topic /\ page'.recorded = page.recorded /\ page'.mode = page.mode
          /\ page'.pane = page.pane /\ page'.study = page.study /\ page'.notes = page.notes
      BY <3>2 DEF SamePage, Kept
    <3>. QED  BY <1>1, <3>3, KeepsTold
  <2>. QED  BY <2>1, <2>2
<1>4. Goal
  <2>. HIDE DEF Goal
  <2>. QED  BY <1>2, <1>3
<1>. QED  BY <1>4

(* So do the handlers that store an answer, and a refusal.                     *)
LEMMA StoredTold ==
  ASSUME TypeInv, VisitInv, NEW th \in Threads, Replied(th), StoresOnly(th) \/ Refused(th), ~Acted(th)
  PROVE  NotesTold' /\ page'.pane = page.pane /\ page'.mode = page.mode
<1>1. CASE StoresOnly(th)
  <2>1. th = "run" => ~WritingNotes
    <3>1. task[th].pc # "act"
      BY <1>1 DEF StoresOnly, Created, Listed, OpenedCourse, DocumentAdded, Built, VisitRecorded,
                  VisitedCourse, Answers
    <3>. QED  BY <3>1 DEF WritingNotes
  <2>2. /\ page'.recorded = page.recorded /\ page'.mode = page.mode /\ page'.pane = page.pane
        /\ page'.study = page.study /\ page'.notes = page.notes
        /\ page'.topic # None => page.topic # None /\ page'.topic.key = page.topic.key
    BY <1>1, StoresOnlyStores DEF SameMind
  <2>. QED  BY <2>1, <2>2, KeepsTold
<1>2. CASE Refused(th)
  <2>1. page' = page /\ (th = "run" => missed' \/ ~WritingNotes)
    BY <1>2 DEF Refused, GiveUp, WritingNotes
  <2>. QED  BY <2>1, KeepsTold
<1>. QED  BY <1>1, <1>2

(* Whatever is answered.                                                    *)
LEMMA RepliesKeepVisits ==
  ASSUME TypeInv, VisitInv, NEW th \in Threads, Replied(th)
  PROVE  VisitInv'
<1>1. NotesTold'
  BY OpenedTold, ActedTold, RefreshedTold, CheckedTold, ShownTold, HintTold, PeekTold,
     BackgroundTold, StoredTold DEF Replied, StoresOnly
<1>2. db' = db /\ (missed => missed') /\ (torn => torn')
  BY RepliesDraw, HistoryStays
<1>3. \/ th # "run" /\ task'["run"] = task["run"]
      \/ th = "run" /\ task'["run"].pc \notin {"act", "answer"}
  BY RunAfter
<1>4. NotesWritten'
  BY <1>2, <1>3 DEF VisitInv, NotesWritten, WritingNotes
<1>5. "load" \in Threads /\ "load" \notin Slots /\ "run" \in Threads
  BY ClientAssumption DEF Threads
<1>6. th # "load" => task'["load"] = task["load"]
  BY <1>5, RepliesLeaveBusy
<1>7. Refused(th) => task'[th].pc = "idle" /\ page' = page
  <2>1. Refused(th) => task' = [task EXCEPT ![th] = Idle] /\ page' = page
    BY DEF Refused, GiveUp
  <2>. QED  BY <2>1, IdleIsTask DEF TypeInv
<1>8. ~Refused(th) => task[th].pc # "idle"
  BY TakenAnswer
<1>9. Alone'
  BY <1>2, <1>3, <1>6, <1>7, <1>8 DEF VisitInv, Alone, Busy
<1>10. AnswersInPractice'
  <2>1. SUFFICES ASSUME ~missed', ~torn', task'["run"].pc = "answer"
                 PROVE  page'.pane = page.pane /\ page'.mode = page.mode
    BY <1>2, <1>3 DEF VisitInv, AnswersInPractice
  <2>2. th # "run" /\ Busy
    BY <1>3, <2>1 DEF Busy
  <2>3. CASE Refused(th)
    BY <1>7, <2>3
  <2>4. CASE ~Refused(th)
    <3>1. th \in Slots
      BY <1>2, <1>8, <2>1, <2>2, <2>4 DEF Threads, VisitInv, Alone
    <3>2. task[th].pc \in BackSteps
      BY <1>8, <2>4, <3>1 DEF TypeInv, GoodTask, Home
    <3>3. (StoresOnly(th) /\ ~Acted(th)) \/ PolledCourse(th) \/ PolledTopic(th)
      BY <2>4, <3>2 DEF Replied, StoresOnly, BackSteps, Answers, OpenedTopic, Acted, ActedRefreshed,
                        AnswerChecked, AnswerShown, HintShown, NotesPeeked
    <3>. QED  BY <2>2, <3>3, BackgroundTold, StoredTold
  <2>. QED  BY <2>3, <2>4
<1>. QED  BY <1>1, <1>4, <1>9, <1>10 DEF VisitInv

(* The service, and what is given up.                                        *)

(* A key that is taught now was taught before, if it was known.                *)
LEMMA IsStays ==
  ASSUME NEW d \in Databases, NEW e \in Databases, Grows(d, e), NEW k \in Known(d), Is(e, k)
  PROVE  Is(d, k)
<1>. DEFINE c == CourseOf(k)
<1>1. c \in Courses /\ d.revision[c] \in Nat /\ e.revision[c] \in Nat
  BY ServiceAssumption DEF Known, Keys, CourseOf, Databases
<1>2. k = <<c, k[2], Number(k)>> /\ k[2] \in Nat
  BY ServiceAssumption DEF Known, Keys, CourseOf, Number
<1>3. k[2] = e.revision[c]
  BY <1>2 DEF Is, KeyIn
<1>4. k[2] <= d.revision[c] /\ d.revision[c] <= e.revision[c]
  BY <1>1 DEF Known, Grows
<1>. QED  BY <1>1, <1>2, <1>3, <1>4 DEF Is, KeyIn

(* A request for a key asks for it until the path is built again.              *)
LEMMA KeyStays ==
  ASSUME NEW d, NEW e, NEW k, Is(d, k), Is(e, k), NEW c, NEW t, KeyIn(d, c, t) = k
  PROVE  KeyIn(e, c, t) = k
<1>1. c = CourseOf(k) /\ t = Number(k)
  BY DEF KeyIn, CourseOf, Number
<1>. QED  BY <1>1 DEF Is

(* A request that is no answer leaves what is covered covered.                 *)
LEMMA ServeCovers ==
  ASSUME TypeInv, NEW th \in Threads, NEW out, Served(db, task[th].req, out), db' = out.db,
         task[th].req # None, task[th].pc # "answer",
         task' = [task EXCEPT ![th].req = None, ![th].reply = out.reply],
         NEW k \in Known(db), Covered(db, task, k)
  PROVE  Covered(db', task', k)
<1>. DEFINE q == task[th].req
<1>1. /\ db \in Databases /\ db' \in Databases /\ Grows(db, db') /\ k \in Keys
      /\ task[th] \in Tasks(Known(db)) /\ DOMAIN task = Threads
      /\ task[th].reply = None /\ Asks(task[th].pc, q.kind)
  BY DEF TypeInv, Served, GoodTask, WellAsked, Known
<1>2. SUFFICES ASSUME Is(db', k) PROVE Visited(db', k) \/ Reporting(db', task', k)
  BY DEF Covered
<1>3. Is(db, k)
  BY <1>1, <1>2, IsStays
<1>4. CASE Visited(db, k)
  <2>1. q.kind # "answer"
    BY <1>1 DEF Asks, CourseSteps
  <2>. QED  BY <1>1, <1>4, <2>1 DEF Served
<1>5. CASE Reporting(db, task, k)
  <2>1. PICK s \in Slots :
          /\ task[s].pc = "visit"
          /\ task[s].reply = Failed
             \/ (task[s].req # None /\ KeyIn(db, task[s].req.course, task[s].req.topic) = k)
    BY <1>5 DEF Reporting
  <2>2. s \in Threads
    BY DEF Threads
  <2>3. CASE s # th
    <3>1. task'[s] = task[s]
      BY <1>1, <2>2, <2>3
    <3>2. task[s].req # None /\ KeyIn(db, task[s].req.course, task[s].req.topic) = k
            => KeyIn(db', task[s].req.course, task[s].req.topic) = k
      BY <1>2, <1>3, KeyStays
    <3>. QED  BY <2>1, <3>1, <3>2 DEF Reporting
  <2>4. CASE s = th
    <3>1. KeyIn(db, q.course, q.topic) = k
      BY <1>1, <2>1, <2>4, ServiceAssumption
    <3>2. KeyIn(db', q.course, q.topic) = k
      BY <1>2, <1>3, <3>1, KeyStays
    <3>3. task'[s].pc = "visit" /\ task'[s].reply = out.reply
      BY <1>1, <2>1, <2>2, <2>4 DEF Tasks
    <3>4. CASE out.reply = Failed
      BY <3>3, <3>4 DEF Reporting
    <3>5. CASE out.reply # Failed
      <4>1. HasServed(q, db', out.reply)
        BY <3>5 DEF Served
      <4>2. q.kind = "lesson"
        BY <1>1, <2>1, <2>4 DEF Asks, CourseSteps
      <4>. QED  BY <3>2, <4>1, <4>2 DEF HasServed
    <3>. QED  BY <3>4, <3>5
  <2>. QED  BY <2>3, <2>4
<1>. QED  BY <1>3, <1>4, <1>5, Covered(db, task, k) DEF Covered

(* The service answers.                                                     *)
LEMMA ServeKeepsVisits ==
  ASSUME TypeInv, VisitInv, NEW th \in Threads, Serve(th)
  PROVE  VisitInv'
<1>1. PICK out : /\ Served(db, task[th].req, out) /\ db' = out.db /\ task[th].req # None
                 /\ task' = [task EXCEPT ![th].req = None, ![th].reply = out.reply]
                 /\ UNCHANGED <<page, missed, torn>>
  BY ServeFacts
<1>. DEFINE q == task[th].req
<1>2. /\ db \in Databases /\ db' \in Databases /\ Grows(db, db') /\ Known(db) \subseteq Known(db')
      /\ DOMAIN task = Threads /\ GoodTask(db, page.course, th, task[th])
      /\ GoodTask(db, page.course, "run", task["run"]) /\ "run" \in Threads /\ "load" \in Threads
  BY <1>1, KnownStays DEF TypeInv, Served, Threads
<1>3. /\ \A r \in Threads : task'[r].pc = task[r].pc /\ task'[r].flag = task[r].flag
      /\ \A r \in Threads : r # th => task'[r] = task[r]
      /\ task'[th].req = None /\ task'[th].reply = out.reply
  BY <1>1, <1>2 DEF GoodTask, Tasks
<1>4. task[th].pc = "answer" => th = "run"
  BY <1>2 DEF GoodTask, Home, BackSteps, Threads
<1>5. NotesTold'
  <2>1. SUFFICES ASSUME ~missed, ~torn
                 PROVE  (WritingNotes' \/ Told(db', task', page)) /\ Seen(db', task', page)
    BY <1>1 DEF NotesTold
  <2>2. (WritingNotes \/ Told(db, task, page)) /\ Seen(db, task, page)
    BY <2>1 DEF VisitInv, NotesTold
  <2>3. CASE task[th].pc = "answer"
    <3>1. page.pane = "practice" /\ page.mode = "practice"
      BY <1>4, <2>1, <2>3 DEF VisitInv, AnswersInPractice
    <3>. QED  BY <3>1 DEF Told, Seen
  <2>4. CASE task[th].pc # "answer"
    <3>1. \A k \in Known(db) : Covered(db, task, k) => Covered(db', task', k)
      BY <1>1, <2>4, ServeCovers
    <3>2. page.topic # None => page.topic.key \in Known(db)
      BY PageFacts, TopicHasKey
    <3>3. Seen(db', task', page)
      BY <1>2, <2>2, <3>1 DEF Seen
    <3>4. Told(db, task, page) => Told(db', task', page)
      BY <3>1, <3>2 DEF Told
    <3>5. WritingNotes => WritingNotes'
      BY <1>2, <1>3 DEF WritingNotes
    <3>. QED  BY <2>2, <3>3, <3>4, <3>5
  <2>. QED  BY <2>3, <2>4
<1>6. NotesWritten'
  <2>1. SUFFICES ASSUME WritingNotes' PROVE NotesWritten'
    BY DEF NotesWritten
  <2>2. WritingNotes
    BY <1>2, <1>3, <2>1 DEF WritingNotes
  <2>3. CASE th = "run"
    <3>1. q.kind = "lesson"
      BY <1>1, <2>2, <2>3 DEF VisitInv, NotesWritten
    <3>2. out.reply # Failed => Visited(db', out.reply.key)
      BY <1>1, <3>1 DEF Served, HasServed
    <3>. QED  BY <1>3, <2>3, <3>2 DEF NotesWritten
  <2>4. CASE th # "run"
    <3>1. task'["run"] = task["run"] /\ task[th].pc # "answer"
      BY <1>2, <1>3, <1>4, <2>4
    <3>2. q.kind # "answer"
      BY <1>1, <1>2, <3>1 DEF GoodTask, WellAsked, Asks, CourseSteps
    <3>3. \A k \in Known(db) : Is(db', k) /\ (Is(db, k) => Visited(db, k)) => Visited(db', k)
      BY <1>1, <1>2, <3>2, IsStays DEF Served, Known
    <3>4. task["run"].reply \notin {None, Failed} => task["run"].reply.key \in Known(db)
      <4>1. task["run"].reply \notin {None, Failed} => task["run"].reply \in TopicViews(Known(db))
        BY <1>2, <2>2 DEF GoodTask, WellAnswered, WritingNotes, TopicSteps
      <4>. QED  BY <4>1 DEF TopicViews
    <3>. QED  BY <2>2, <3>1, <3>3, <3>4 DEF VisitInv, NotesWritten
  <2>. QED  BY <2>3, <2>4
<1>. QED  BY <1>1, <1>2, <1>3, <1>5, <1>6 DEF VisitInv, AnswersInPractice, Alone, Busy

(* A task is given up: a report that was lost is remembered.                   *)
LEMMA GiveUpKeepsVisits ==
  ASSUME TypeInv, VisitInv, NEW th \in Threads, GiveUp(th)
  PROVE  VisitInv'
<1>1. /\ task' = [task EXCEPT ![th] = Idle] /\ db' = db /\ page' = page /\ torn' = torn
      /\ missed' = (missed \/ task[th].pc \in {"visit", "act"})
  BY DEF GiveUp
<1>2. /\ DOMAIN task = Threads /\ "run" \in Threads /\ "load" \in Threads /\ Idle.pc = "idle"
      /\ \A s \in Slots : s \in Threads
  BY IdleIsTask DEF TypeInv, Threads
<1>3. \A r \in Threads : task'[r] = task[r] \/ (r = th /\ task'[r] = Idle)
  BY <1>1, <1>2
<1>4. ~missed' => \A k : Covered(db, task, k) => Covered(db, task', k)
  BY <1>1, <1>2, <1>3, CoverStays
<1>5. NotesTold'
  <2>1. ~missed' => (WritingNotes => WritingNotes')
    BY <1>1, <1>2, <1>3 DEF WritingNotes
  <2>. QED  BY <1>1, <1>4, <2>1 DEF VisitInv, NotesTold, Told, Seen
<1>6. NotesWritten' /\ AnswersInPractice' /\ Alone'
  BY <1>1, <1>2, <1>3 DEF VisitInv, NotesWritten, WritingNotes, AnswersInPractice, Alone, Busy
<1>. QED  BY <1>5, <1>6 DEF VisitInv

(* A job, and the timer.                                                     *)
LEMMA OthersKeepVisits ==
  ASSUME TypeInv, VisitInv, Work \/ Poll
  PROVE  VisitInv'
<1>1. CASE Work
  <2>1. /\ db'.revision = db.revision /\ db'.summary = db.summary
        /\ UNCHANGED <<page, task, missed, torn>>
    BY <1>1, WorkFacts
  <2>2. /\ \A k : Is(db', k) <=> Is(db, k)
        /\ \A k : Visited(db', k) <=> Visited(db, k)
        /\ \A c, t : KeyIn(db', c, t) = KeyIn(db, c, t)
        /\ Known(db') = Known(db)
    BY <2>1 DEF Is, KeyIn, Visited, Known
  <2>3. \A k : Covered(db', task', k) <=> Covered(db, task, k)
    BY <2>1, <2>2 DEF Covered, Reporting
  <2>. QED  BY <2>1, <2>2, <2>3 DEF VisitInv, NotesTold, Told, Seen, NotesWritten, WritingNotes,
                                    AnswersInPractice, Alone, Busy
<1>2. CASE Poll
  <2>1. PICK s \in Slots : task[s].pc = "idle" /\ \E call : task' = [task EXCEPT ![s] = call]
    BY <1>2 DEF Poll
  <2>2. /\ DOMAIN task = Threads /\ s # "run" /\ s # "load"
        /\ "run" \in Threads /\ "load" \in Threads /\ \A r \in Slots : r \in Threads
    BY ClientAssumption DEF TypeInv, Threads
  <2>3. \A r \in Threads : r # s => task'[r] = task[r]
    BY <2>1, <2>2
  <2>4. \A k : Covered(db, task, k) => Covered(db, task', k)
    BY <2>1, <2>2, <2>3, CoverStays
  <2>5. db' = db /\ UNCHANGED <<page, missed, torn>>
    BY <1>2 DEF Poll
  <2>. QED  BY <2>2, <2>3, <2>4, <2>5 DEF VisitInv, NotesTold, Told, Seen, NotesWritten,
                                          WritingNotes, AnswersInPractice, Alone, Busy
<1>. QED  BY <1>1, <1>2

(* In every state the visits the page takes for recorded are, or are being      *)
(* reported (recordStudy, studyRecorded).                                    *)
THEOREM VisitInvariant == Spec => []VisitInv
<1>1. Init => VisitInv
  <2>1. SUFFICES ASSUME Init PROVE VisitInv
    OBVIOUS
  <2>2. page = Blank /\ task["run"] = Idle
    BY <2>1 DEF Init, Threads
  <2>3. ~page.recorded /\ page.pane = "none" /\ task["run"].pc = "idle"
    BY <2>2, IdleIsTask DEF Blank
  <2>. QED  BY <2>3 DEF VisitInv, NotesTold, Told, Seen, NotesWritten, WritingNotes,
                        AnswersInPractice, Alone, Busy
<1>2. TypeInv /\ CardInv /\ VisitInv /\ [Next]_vars => VisitInv'
  <2>1. SUFFICES ASSUME TypeInv, CardInv, VisitInv, [Next]_vars PROVE VisitInv'
    OBVIOUS
  <2>2. CASE UNCHANGED vars
    BY <2>1, <2>2 DEF vars, VisitInv, NotesTold, Told, Seen, NotesWritten, WritingNotes,
                      AnswersInPractice, Alone, Busy
  <2>3. CASE Student
    BY <2>1, <2>3, StudentKeepsVisits
  <2>4. CASE Work \/ Poll
    BY <2>1, <2>4, OthersKeepVisits
  <2>5. ASSUME NEW th \in Threads, Serve(th) PROVE VisitInv'
    BY <2>1, <2>5, ServeKeepsVisits
  <2>6. ASSUME NEW th \in Threads, Lose(th) PROVE VisitInv'
    BY <2>1, <2>6, GiveUpKeepsVisits DEF Lose
  <2>7. ASSUME NEW th \in Threads, Replied(th) PROVE VisitInv'
    BY <2>1, <2>7, RepliesKeepVisits
  <2>. QED  BY <2>1, <2>2, <2>3, <2>4, <2>5, <2>6, <2>7 DEF Next
<1>. QED  BY <1>1, <1>2, TypeInvCorrect, CardInvariant, PTL DEF Spec

(* Once nothing is awaited, notes on the screen are a visit the policy knows    *)
(* of, and a re-reading if the topic had answers before, but for what missed    *)
(* and torn name.                                                           *)
THEOREM VisitIsRecordedCorrect == Spec => []VisitIsRecorded
<1>1. VisitInv => VisitIsRecorded
  <2>1. SUFFICES ASSUME VisitInv, Quiet, NotesShown(page), ~missed, ~torn, Is(db, page.notes)
                 PROVE  Visited(db, page.notes)
    BY DEF VisitIsRecorded, Visited, Is
  <2>2. Covered(db, task, page.notes)
    BY <2>1 DEF VisitInv, NotesTold, Seen, NotesShown
  <2>3. ~Reporting(db, task, page.notes)
    BY <2>1 DEF Reporting, Quiet, Threads
  <2>. QED  BY <2>1, <2>2, <2>3 DEF Covered
<1>. QED  BY <1>1, VisitInvariant, PTL
=============================================================================
