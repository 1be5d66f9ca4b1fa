---------------------------- MODULE DurableTeaching ----------------------------
(***************************************************************************)
(* The durable teaching record of one student and objective: a Professor   *)
(* turn is reserved, generated and stored as a trace; the trace is reported *)
(* as presented; a response to it is recorded; feedback on the response is *)
(* reserved, generated and stored                                          *)
(* (services/course_knowledge/durable_teaching_turn_v01.py,                *)
(* durable_learning_feedback_v01.py and the repositories course_teaching_  *)
(* trace_v01, course_teaching_presentation_v01, course_learning_response_  *)
(* v01).                                                                   *)
(*                                                                         *)
(* A transaction that starts with its write (INSERT OR IGNORE, ON CONFLICT  *)
(* DO NOTHING, UPDATE) is one step.  So are save_generated and              *)
(* _finish_reservation, which read first: the unique keys refuse what the   *)
(* read would have refused, and completing twice changes nothing.  A row    *)
(* read in an earlier transaction of the same call never changes once it is *)
(* there.                                                                   *)
(***************************************************************************)
EXTENDS Naturals, TLC

CONSTANTS
  Clients,                                  \* callers: processes, retries
  Traces, Decisions, Inputs, Contents,      \* turns: keys, inputs, texts of the Professor
  Events, Responses, Activities, Texts,     \* presentation and response
  FeedbackIds, Versions, Remarks,           \* feedback: keys, texts of the agent
  None,
  MaxTime                                   \* bound: instants

Times == 0..MaxTime

VARIABLES
  intents, traces,      \* course_teaching_turn_intents_v01, course_teaching_traces_v01
  presented,            \* course_teaching_presentations_v01, by trace
  responses, feedback,  \* course_learning_responses_v01, ..._feedback_v01, by response
  professor, agent,     \* history: the calls of the two agents, by trace and response
  pc, loc,              \* the clients
  reply                 \* history: what the last call of each client acknowledged

tables == <<intents, traces, presented, responses, feedback>>
vars   == <<tables, professor, agent, pc, loc, reply>>

Intents   == [decision : Decisions, input : Inputs, status : {"reserved", "completed"}]
TraceRows == [decision : Decisions, content : Contents, at : Times]
Reports   == [event : Events, at : Times, content : Contents]
Answers   == [trace : Traces, event : Events, activity : Activities, text : Texts, at : Times]
Feedbacks == [id : FeedbackIds, version : Versions, input : Answers,
              status : {"reserved", "completed"}, at : Times,
              text : Remarks \cup {None}, done : Times]

ASSUME TeachingAssumption ==
  /\ MaxTime \in Nat
  /\ None \notin Traces \cup Responses \cup Intents \cup TraceRows \cup Reports
                \cup Answers \cup Feedbacks

Locals == [key : Traces \cup Responses \cup {None}, decision : Decisions \cup {None},
           input : Inputs \cup {None}, at : Times, text : Contents \cup Remarks \cup {None}]
NoLocals == [key |-> None, decision |-> None, input |-> None, at |-> 0, text |-> None]
NoReply  == [table |-> "none", key |-> None, row |-> None]
Pcs == {"idle", "recover", "call", "save", "finish", "feedback_call", "feedback_save"}

Become(c, to, l) == pc' = [pc EXCEPT ![c] = to] /\ loc' = [loc EXCEPT ![c] = l]

\* A call returns with what it acknowledges, or raises.
Return(c, table, key, row) ==
  /\ Become(c, "idle", NoLocals)
  /\ reply' = [reply EXCEPT ![c] = [table |-> table, key |-> key, row |-> row]]
Raise(c) == Become(c, "idle", NoLocals) /\ reply' = [reply EXCEPT ![c] = NoReply]

Init ==
  /\ intents = [t \in Traces |-> None] /\ traces = [t \in Traces |-> None]
  /\ presented = [t \in Traces |-> None]
  /\ responses = [r \in Responses |-> None] /\ feedback = [r \in Responses |-> None]
  /\ professor = [t \in Traces |-> 0] /\ agent = [r \in Responses |-> 0]
  /\ pc = [c \in Clients |-> "idle"] /\ loc = [c \in Clients |-> NoLocals]
  /\ reply = [c \in Clients |-> NoReply]

\* Mutant of Inserted: on a conflict the row is replaced.
Inserted_Replace(old, new) == new

\* INSERT ... ON CONFLICT DO NOTHING on one row.
Inserted(old, new) == IF old = None THEN new ELSE old

\* Mutant of SameRow: the stored row is not compared with the request.
SameRow_Unchecked(row, expected) == TRUE

\* The comparison of the stored row with the request after the INSERT.
SameRow(row, expected) == row = expected

-----------------------------------------------------------------------------
(* DurableCourseTeachingTurnV01.run_or_resume.                              *)

\* Mutant of NewIntent: a reservation is born completed.
NewIntent_Completed(d, x) == [decision |-> d, input |-> x, status |-> "completed"]

NewIntent(d, x) == [decision |-> d, input |-> x, status |-> "reserved"]

\* Mutant of TurnClaimed: a reservation without a trace is generated again.
TurnClaimed_NoTrace(t) == traces[t] = None

\* This call inserted the row.
TurnClaimed(t) == intents[t] = None

\* The reservation: the primary key and the unique decision arbitrate.
Reserve(c, t, d, x, at) ==
  LET taken == \E u \in Traces \ {t} : intents[u] # None /\ intents[u].decision = d
      row   == IF taken THEN intents[t] ELSE Inserted(intents[t], NewIntent(d, x))
  IN /\ pc[c] = "idle"
     /\ IF row = None \/ ~SameRow([decision |-> row.decision, input |-> row.input],
                                  [decision |-> d, input |-> x])
        THEN Raise(c) /\ UNCHANGED intents
        ELSE /\ intents' = [intents EXCEPT ![t] = row]
             /\ Become(c, IF TurnClaimed(t) THEN "call" ELSE "recover",
                       [NoLocals EXCEPT !.key = t, !.decision = d, !.input = x, !.at = at])
             /\ UNCHANGED reply
     /\ UNCHANGED <<traces, presented, responses, feedback, professor, agent>>

\* Only the caller that inserted the reservation calls the Professor; the turn
\* may fail, or decide for an assessment, which the harness refuses.
CallProfessor(c) ==
  /\ pc[c] = "call"
  /\ professor' = [professor EXCEPT ![loc[c].key] = @ + 1]
  /\ \/ \E p \in Contents : Become(c, "save", [loc[c] EXCEPT !.text = p]) /\ UNCHANGED reply
     \/ Raise(c)
  /\ UNCHANGED <<tables, agent>>

\* save_generated inserts the trace unless the identifier or the decision is
\* there, and reads it back.
SaveTrace(c) ==
  LET t == loc[c].key  d == loc[c].decision
  IN /\ pc[c] = "save"
     /\ IF traces[t] # None \/ \E u \in Traces : traces[u] # None /\ traces[u].decision = d
        THEN Raise(c) /\ UNCHANGED traces
        ELSE /\ traces' = [traces EXCEPT ![t] =
                             [decision |-> d, content |-> loc[c].text, at |-> loc[c].at]]
             /\ Become(c, "finish", loc[c]) /\ UNCHANGED reply
     /\ UNCHANGED <<intents, presented, responses, feedback, professor, agent>>

\* A reservation that is not ours: recover its trace, or stop, for its outcome
\* is unknown.
Recover(c) ==
  /\ pc[c] = "recover"
  /\ IF traces[loc[c].key] = None
     THEN Raise(c)
     ELSE Become(c, "finish", loc[c]) /\ UNCHANGED reply
  /\ UNCHANGED <<tables, professor, agent>>

\* _finish_reservation, idempotent; then the stored trace is returned.
Finish(c) ==
  LET t == loc[c].key
  IN /\ pc[c] = "finish"
     /\ intents' = [intents EXCEPT ![t].status = "completed"]
     /\ Return(c, "turn", t, [decision |-> loc[c].decision, input |-> loc[c].input,
                              content |-> traces[t].content])
     /\ UNCHANGED <<traces, presented, responses, feedback, professor, agent>>

-----------------------------------------------------------------------------
\* record_presentation.
Present(c, t, e, at) ==
  LET expected == [event |-> e, at |-> at, content |-> traces[t].content]
      taken    == \E u \in Traces \ {t} : presented[u] # None /\ presented[u].event = e
      row      == IF taken THEN presented[t] ELSE Inserted(presented[t], expected)
  IN /\ pc[c] = "idle" /\ traces[t] # None /\ at >= traces[t].at
     /\ IF row = None \/ ~SameRow(row, expected)
        THEN Raise(c) /\ UNCHANGED presented
        ELSE presented' = [presented EXCEPT ![t] = row] /\ Return(c, "presented", t, expected)
     /\ UNCHANGED <<intents, traces, responses, feedback, professor, agent>>

\* record_response.
Respond(c, r, t, a, text, at) ==
  LET expected == [trace |-> t, event |-> presented[t].event, activity |-> a,
                   text |-> text, at |-> at]
      taken    == \E q \in Responses \ {r} :
                    responses[q] # None /\ responses[q].trace = t /\ responses[q].activity = a
      row      == IF taken THEN responses[r] ELSE Inserted(responses[r], expected)
  IN /\ pc[c] = "idle" /\ presented[t] # None /\ at >= presented[t].at
     /\ IF row = None \/ ~SameRow(row, expected)
        THEN Raise(c) /\ UNCHANGED responses
        ELSE responses' = [responses EXCEPT ![r] = row] /\ Return(c, "responses", r, expected)
     /\ UNCHANGED <<intents, traces, presented, feedback, professor, agent>>

-----------------------------------------------------------------------------
(* DurableLearningFeedbackV01.run_or_resume.                                *)
NewFeedback(f, v, answer, at) ==
  [id |-> f, version |-> v, input |-> answer, status |-> "reserved",
   at |-> at, text |-> None, done |-> 0]

\* What of a row a retry must repeat; not the time of its reservation.
Request(row) == [id |-> row.id, version |-> row.version, input |-> row.input]

\* Mutant of FeedbackClaimed: an incomplete reservation is generated again.
FeedbackClaimed_Incomplete(r) == feedback[r] = None \/ feedback[r].status = "reserved"

FeedbackClaimed(r) == feedback[r] = None

\* load: the stored feedback is returned, an incomplete reservation raises.
LoadFeedback(c, r, row) ==
  IF row.status = "completed" THEN Return(c, "feedback", r, Request(row) @@ [text |-> row.text])
  ELSE Raise(c)

ReserveFeedback(c, r, f, v, at) ==
  LET expected == NewFeedback(f, v, responses[r], at)
      taken    == \E q \in Responses \ {r} : feedback[q] # None /\ feedback[q].id = f
      row      == IF taken THEN feedback[r] ELSE Inserted(feedback[r], expected)
  IN /\ pc[c] = "idle" /\ responses[r] # None /\ at >= responses[r].at
     /\ IF row = None \/ ~SameRow(Request(row), Request(expected))
        THEN Raise(c) /\ UNCHANGED feedback
        ELSE /\ feedback' = [feedback EXCEPT ![r] = row]
             /\ IF FeedbackClaimed(r)
                THEN Become(c, "feedback_call", [NoLocals EXCEPT !.key = r, !.at = at])
                     /\ UNCHANGED reply
                ELSE LoadFeedback(c, r, row)
     /\ UNCHANGED <<intents, traces, presented, responses, professor, agent>>

CallAgent(c) ==
  /\ pc[c] = "feedback_call"
  /\ agent' = [agent EXCEPT ![loc[c].key] = @ + 1]
  /\ \/ \E m \in Remarks : Become(c, "feedback_save", [loc[c] EXCEPT !.text = m])
                           /\ UNCHANGED reply
     \/ Raise(c)
  /\ UNCHANGED <<tables, professor>>

\* The clock is read after the call; a reservation dated later is refused.
\* _complete is an UPDATE of the row that is still reserved for this input.
SaveFeedback(c, clock) ==
  LET r == loc[c].key
      row == [feedback[r] EXCEPT !.status = "completed", !.text = loc[c].text, !.done = clock]
  IN /\ pc[c] = "feedback_save"
     /\ IF clock < loc[c].at \/ feedback[r].status # "reserved"
        THEN Raise(c) /\ UNCHANGED feedback
        ELSE feedback' = [feedback EXCEPT ![r] = row] /\ LoadFeedback(c, r, row)
     /\ UNCHANGED <<intents, traces, presented, responses, professor, agent>>

\* A client dies, or a transaction of its call fails.
Crash(c) == pc[c] # "idle" /\ Raise(c) /\ UNCHANGED <<tables, professor, agent>>

Next == \E c \in Clients :
  \/ \E t \in Traces, d \in Decisions, x \in Inputs, at \in Times : Reserve(c, t, d, x, at)
  \/ CallProfessor(c) \/ SaveTrace(c) \/ Recover(c) \/ Finish(c)
  \/ \E t \in Traces, e \in Events, at \in Times : Present(c, t, e, at)
  \/ \E r \in Responses, t \in Traces, a \in Activities, x \in Texts, at \in Times :
       Respond(c, r, t, a, x, at)
  \/ \E r \in Responses, f \in FeedbackIds, v \in Versions, at \in Times :
       ReserveFeedback(c, r, f, v, at)
  \/ CallAgent(c) \/ (\E clock \in Times : SaveFeedback(c, clock))
  \/ Crash(c)

Spec == Init /\ [][Next]_vars

-----------------------------------------------------------------------------
(* However often a decision is retried, under whatever trace identifier and *)
(* after whatever crash, the Professor is called for it at most once.       *)
ProfessorOncePerDecision ==
  \A t, u \in Traces :
    /\ professor[t] <= 1
    /\ t # u /\ professor[t] + professor[u] = 2 => intents[t].decision # intents[u].decision

(* A turn is marked completed only when its trace is stored, with the       *)
(* decision that was reserved.                                              *)
CompletedHasTrace ==
  \A t \in Traces :
    /\ intents[t] # None /\ intents[t].status = "completed" => traces[t] # None
    /\ traces[t] # None => intents[t] # None /\ intents[t].decision = traces[t].decision

(* The record hangs together: a report shows the content of its trace, a    *)
(* response answers a reported trace, feedback is about the stored response *)
(* and every step is dated no earlier than the one before.                  *)
RecordHangsTogether ==
  /\ \A t \in Traces : presented[t] # None =>
       traces[t] # None /\ presented[t].content = traces[t].content
       /\ presented[t].at >= traces[t].at
  /\ \A r \in Responses :
       /\ responses[r] # None =>
            LET p == presented[responses[r].trace]
            IN p # None /\ p.event = responses[r].event /\ responses[r].at >= p.at
       /\ feedback[r] # None =>
            /\ responses[r] = feedback[r].input /\ feedback[r].at >= responses[r].at
            /\ feedback[r].status = "completed" => feedback[r].done >= feedback[r].at

(* What a call acknowledged is what it asked for, and is stored: a second   *)
(* caller with another answer is never told that its answer was recorded.   *)
AcknowledgedIsStored ==
  \A c \in Clients :
    LET k == reply[c].key  row == reply[c].row
    IN CASE reply[c].table = "turn" ->
              /\ row.content = traces[k].content
              /\ row.decision = intents[k].decision /\ row.input = intents[k].input
         [] reply[c].table = "presented" -> row = presented[k]
         [] reply[c].table = "responses" -> row = responses[k]
         [] reply[c].table = "feedback" ->
              row = Request(feedback[k]) @@ [text |-> feedback[k].text]
         [] OTHER -> TRUE

\* The turn and the feedback implement OnceOnly.
Turn == INSTANCE OnceOnly WITH
  Keys <- Traces, Results <- TraceRows, None <- None,
  reserved <- {t \in Traces : intents[t] # None},
  calls <- professor, result <- traces

Completed(row) == row # None /\ row.status = "completed"
Feedback == INSTANCE OnceOnly WITH
  Keys <- Responses, Results <- Remarks, None <- None,
  reserved <- {r \in Responses : feedback[r] # None},
  calls <- agent,
  result <- [r \in Responses |-> IF Completed(feedback[r]) THEN feedback[r].text ELSE None]

(* The Professor turn implements OnceOnly: reserved before it is called,    *)
(* called at most once, one trace kept.                                     *)
TurnOnce == Turn!Spec

(* The feedback implements OnceOnly.                                        *)
FeedbackOnce == Feedback!Spec
=============================================================================
