----------------------------- MODULE MCCourseClient -----------------------------
(***************************************************************************)
(* Instance of CourseClient for TLC: two courses, one with a path of two    *)
(* topics, the second of which builds on the first.                         *)
(***************************************************************************)
EXTENDS CourseClient

CONSTANTS c1, c2

TwoTopics == << <<>>, <<1>> >>

\* A database in which these topics of the courses have notes, and n questions.
Written(courses, lessons, questions, n) ==
  Stored(Courses, courses, [c \in Courses |-> IF c \in courses THEN 1 ELSE 0],
         {k \in Keys : CourseOf(k) \in courses /\ Number(k) \in lessons},
         [k \in Keys |-> IF CourseOf(k) \in courses /\ Number(k) \in questions THEN n ELSE 0])

\* Nothing yet.
Empty == Stored({}, {}, [c \in Courses |-> 0], {}, [k \in Keys |-> 0])

From(database, acts, losses) == [db |-> database, moves |-> acts, failures |-> losses]

\* From nothing; with the first topic to be prepared, or the second's notes, or
\* these and the first's questions; everything written.
Various ==
  {From(Empty, 3, 0), From(Written({c1}, {2}, {2}, 1), 3, 1),
   From(Written({c1}, {1}, {1, 2}, 1), 3, 1), From(Written({c1}, {1}, {2}, 1), 3, 0),
   From(Written(Courses, Topics, Topics, MaxItems), 4, 0)}
=================================================================================
