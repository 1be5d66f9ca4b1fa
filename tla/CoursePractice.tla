---------------------------- MODULE CoursePractice ----------------------------
(***************************************************************************)
(* The check questions of one topic: requests that reveal help and         *)
(* requests that submit answers run on several threads and share the       *)
(* append-only tables of attempts and events                               *)
(* (services/course_workspace/service_v01.py); the summary of the topic    *)
(* and its next step are computed from them (progress_policy_v01.py).      *)
(*                                                                         *)
(* Each store call is one step, and so is the reading of the clock for a    *)
(* row, which is done before the store is locked.  A time is the number of  *)
(* attempts that were stamped up to it, which orders attempts and lesson    *)
(* openings; of the events of one kind for one question only the latest is *)
(* kept.  Nothing the code computes depends on more.                        *)
(***************************************************************************)
EXTENDS ProgressPolicy, FiniteSets

CONSTANTS
  Clients,     \* request threads
  Items,       \* the saved questions
  NoItem,      \* item_id is NULL
  Original,    \* the first saved question with the same fingerprint
  Reveals,     \* bound: the kinds of help asked for
  MaxAttempts  \* bound: answers

ASSUME PracticeAssumption ==
  /\ NoItem \notin Items /\ MaxAttempts \in Nat
  /\ Original \in [Items -> Items]
  /\ \A i \in Items : Original[Original[i]] = Original[i]

Help == {"hint", "solution", "notes"}

ASSUME RevealsAssumption == Reveals \subseteq Help

VARIABLES
  attempts,   \* cw_attempts_v01
  events,     \* cw_events_v01
  stamped,    \* how many attempts have read the clock
  pc, loc,    \* the threads
  displayed,  \* history: the help the student has on screen, of which question and kind
  since       \* history: whether the lesson openings are all older than the last
              \* attempt (quiet), whether one was begun after it (reopened)

rows == <<attempts, events>>
vars == <<rows, stamped, pc, loc, displayed, since>>

\* apart: nothing of the other kind (attempt, lesson opening) has been stored
\* since the call began; a history variable.
NoLocals == [item |-> NoItem, help |-> {}, at |-> 0, informed |-> {}, apart |-> TRUE]

SubmitPcs == {"submit_shown", "submit_stamp", "submit_attempt"}
Pcs == SubmitPcs \cup {"idle", "event", "reveal_answer", "submit_event", "submit_answer"}

Become(p, to, l) == pc' = [pc EXCEPT ![p] = to] /\ loc' = [loc EXCEPT ![p] = l]

\* The same, when p stores a row the calls in S are not apart from.
BecomeStored(p, to, l, S) ==
  /\ pc' = [pc EXCEPT ![p] = to]
  /\ loc' = [q \in Clients |-> IF q = p THEN l
                             ELSE [loc[q] EXCEPT !.apart = @ /\ q \notin S]]

\* The kinds of help the student has seen for this question, or for a copy of it.
Informed(i) == {d.kind : d \in {e \in displayed : Original[e.item] = Original[i]}}

Init ==
  /\ attempts = <<>> /\ events = {} /\ stamped = 0 /\ displayed = {}
  /\ since = [quiet |-> TRUE, reopened |-> FALSE]
  /\ pc = [p \in Clients |-> "idle"] /\ loc = [p \in Clients |-> NoLocals]

\* add_event.
AddEvent(i, kind, at) ==
  LET older == {e \in events : e.item = i /\ e.kind = kind}
  IN events' = (events \ older) \cup
       {[item |-> i, kind |-> kind,
         at |-> IF \E e \in older : e.at > at THEN (CHOOSE e \in older : TRUE).at ELSE at]}

-----------------------------------------------------------------------------
(* open_lesson, whose event carries no question, and reveal: the clock is   *)
(* read, the event is stored, then the text is returned.  A peek at the     *)
(* notes is a "lesson_opened" event with the question's identifier.         *)
Ask(p, i, help) ==
  /\ pc[p] = "idle"
  /\ Become(p, "event", [NoLocals EXCEPT !.item = i, !.help = {help},
                                        !.at = IF help = "notes" THEN stamped ELSE 0])
  /\ UNCHANGED <<rows, stamped, displayed, since>>

OpenLesson(p)      == Ask(p, NoItem, "notes")
Reveal(p, i, help) == Ask(p, i, help)

Event(p) ==
  LET kind  == CHOOSE k \in loc[p].help : TRUE
      asked == [NoLocals EXCEPT !.item = loc[p].item, !.help = {kind}]
  IN /\ pc[p] = "event" /\ AddEvent(loc[p].item, kind, loc[p].at)
     /\ IF kind = "notes"
        THEN /\ BecomeStored(p, "reveal_answer", asked,
                             {q \in Clients : pc[q] \in SubmitPcs})
             /\ since' = [quiet |-> FALSE, reopened |-> since.reopened \/ loc[p].apart]
        ELSE Become(p, "reveal_answer", asked)
             /\ UNCHANGED since
     /\ UNCHANGED <<attempts, stamped, displayed>>

RevealAnswer(p) ==
  /\ pc[p] = "reveal_answer"
  /\ displayed' = displayed \cup [item : {loc[p].item} \ {NoItem}, kind : loc[p].help]
  /\ Become(p, "idle", NoLocals) /\ UNCHANGED <<rows, stamped, since>>

\* Answers stamped or about to be.
Answers == stamped + Cardinality({p \in Clients : pc[p] \in {"submit_shown", "submit_stamp"}})

(* submit: the answer is scored, the help shown for this item is read, the  *)
(* attempt and then the "solution_shown" event are stored, and the solution *)
(* is returned.  An answer that cannot be scored changes nothing.           *)
Submit(p, i) ==
  /\ pc[p] = "idle" /\ Answers < MaxAttempts
  /\ Become(p, "submit_shown", [NoLocals EXCEPT !.item = i, !.informed = Informed(i)])
  /\ UNCHANGED <<rows, stamped, displayed, since>>

\* Mutant of SubmitShown: only the help of other questions is looked at.
SubmitShown_NotesIgnored(p) ==
  /\ pc[p] = "submit_shown"
  /\ LET shown == {e \in events : e.item = loc[p].item}
     IN Become(p, "submit_stamp",
               [loc[p] EXCEPT !.help = {e.kind : e \in shown} \ {"notes"}])
  /\ UNCHANGED <<rows, stamped, displayed, since>>

SubmitShown(p) ==
  /\ pc[p] = "submit_shown"
  /\ LET shown == {e \in events : e.item = loc[p].item}
     IN Become(p, "submit_stamp", [loc[p] EXCEPT !.help = {e.kind : e \in shown}])
  /\ UNCHANGED <<rows, stamped, displayed, since>>

\* The clock is read for submitted_at, before the store is locked.
SubmitStamp(p) ==
  /\ pc[p] = "submit_stamp" /\ stamped' = stamped + 1
  /\ Become(p, "submit_attempt", [loc[p] EXCEPT !.at = stamped + 1])
  /\ UNCHANGED <<rows, displayed, since>>

SubmitAttempt(p) ==
  /\ pc[p] = "submit_attempt"
  /\ \E correct \in BOOLEAN :
       attempts' = Append(attempts, [item |-> loc[p].item, correct |-> correct,
                                     help |-> loc[p].help, at |-> loc[p].at,
                                     informed |-> loc[p].informed])
  /\ since' = [quiet |-> loc[p].apart, reopened |-> FALSE]
  /\ BecomeStored(p, "submit_event", [NoLocals EXCEPT !.item = loc[p].item],
                  {q \in Clients : pc[q] = "event"})
  /\ UNCHANGED <<events, stamped, displayed>>

SubmitEvent(p) ==
  /\ pc[p] = "submit_event" /\ AddEvent(loc[p].item, "solution", 0)
  /\ Become(p, "submit_answer", loc[p]) /\ UNCHANGED <<attempts, stamped, displayed, since>>

SubmitAnswer(p) ==
  /\ pc[p] = "submit_answer"
  /\ displayed' = displayed \cup [item : {loc[p].item}, kind : {"solution"}]
  /\ Become(p, "idle", NoLocals) /\ UNCHANGED <<rows, stamped, since>>

\* The process stops: requests in flight are lost, rows are not.
Restart ==
  /\ \E p \in Clients : pc[p] # "idle"
  /\ pc' = [p \in Clients |-> "idle"] /\ loc' = [p \in Clients |-> NoLocals]
  /\ UNCHANGED <<rows, stamped, displayed, since>>

Serve(p) == Event(p) \/ RevealAnswer(p) \/ SubmitShown(p) \/ SubmitStamp(p)
            \/ SubmitAttempt(p) \/ SubmitEvent(p) \/ SubmitAnswer(p)

Next ==
  \/ \E p \in Clients :
       \/ OpenLesson(p)
       \/ \E i \in Items, h \in Reveals : Reveal(p, i, h)
       \/ \E i \in Items : Submit(p, i)
       \/ Serve(p)
  \/ Restart

Spec == Init /\ [][Next]_vars

-----------------------------------------------------------------------------
(* What the policy reads from the tables.                                   *)

\* _observations: an attempt on a question already answered had help, for the
\* solution is shown after every answer.  Copies count as their original.
Repeated(k) == \E j \in 1..(k - 1) : Original[attempts[j].item] = Original[attempts[k].item]

Assisted(k) == attempts[k].help # {} \/ Repeated(k)

LessonOpenings == {e \in events : e.kind = "notes"}

UnassistedItems ==
  {Original[attempts[k].item] : k \in {j \in DOMAIN attempts : attempts[j].correct /\ ~Assisted(j)}}

TrailingErrors == {k \in DOMAIN attempts : \A j \in k..Len(attempts) : ~attempts[j].correct}

\* Mutant of Restudied: any opening of the lesson counts, however early.
Restudied_Ever == LessonOpenings # {}

\* The lesson was opened after the latest attempt.
Restudied == attempts # <<>> /\ \E e \in LessonOpenings : e.at >= attempts[Len(attempts)].at

\* summarize_topic_v01.
TopicSummary ==
  [clean     |-> Cardinality(UnassistedItems),
   opened    |-> LessonOpenings # {},
   last      |-> IF attempts = <<>> THEN "none"
                 ELSE IF ~attempts[Len(attempts)].correct THEN "wrong"
                 ELSE IF Assisted(Len(attempts)) THEN "assisted" ELSE "clean",
   errors    |-> Cardinality(TrailingErrors),
   restudied |-> Restudied]

TopicStep == NextStep(1, <<<<>>>>, <<TopicSummary>>)

-----------------------------------------------------------------------------
(* No answer counts as correct without help when help for that question was *)
(* already on the student's screen when the answer was sent, however        *)
(* reveals and answers overlap and whatever a restart cut off.              *)
EvidenceIsUnassisted ==
  \A k \in DOMAIN attempts :
    attempts[k].correct /\ ~Assisted(k) => attempts[k].informed = {}

(* A saved copy of a question, answered when the solution of that question  *)
(* is on the student's screen: "answering one after the original's solution *)
(* counts as help".                                                         *)
CopyAnswerIsAssisted ==
  \A k \in DOMAIN attempts :
    attempts[k].correct /\ ~Assisted(k) /\ Original[attempts[k].item] # attempts[k].item
      => "solution" \notin attempts[k].informed

(* A student who missed twice in a row and has opened the lesson is sent    *)
(* back to it when the last answer was sent after every opening of the      *)
(* lesson, and is not sent back any more once the lesson was opened after   *)
(* the last answer, in whatever order the rows were stamped and stored.     *)
StrugglingRereads ==
  (Len(attempts) >= 2 /\ ~Practiced(TopicSummary) /\ LessonOpenings # {}
     /\ ~attempts[Len(attempts)].correct /\ ~attempts[Len(attempts) - 1].correct)
  => /\ since.quiet => TopicStep.code = "repeated_errors"
     /\ since.reopened => TopicStep.code # "repeated_errors"
=============================================================================
