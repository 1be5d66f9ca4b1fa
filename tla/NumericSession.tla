---------------------------- MODULE NumericSession ----------------------------
(***************************************************************************)
(* Durable numeric practice of one teaching session: several service       *)
(* instances (tabs, retries, processes) deliver questions, submit answers, *)
(* resume, and report help over one SQLite database                        *)
(* (services/decision/recoverable_numeric_session_v01.py over              *)
(* repositories/numeric_assignment_v01.py, numeric_session_records_v01.py  *)
(* and assessment_assistance_log_v01.py).                                  *)
(*                                                                         *)
(* A SELECT runs outside a transaction of the database (the driver begins   *)
(* one at the first INSERT or UPDATE), so it is a step of its own; from the *)
(* first write to the commit nobody else writes and nobody sees the writes, *)
(* so they are one step.  Calls carry the scope of the session: calls with  *)
(* another scope are refused and change nothing.                            *)
(***************************************************************************)
EXTENDS Integers, Sequences, FiniteSets

CONSTANTS
  Clients,         \* service instances
  Decisions,       \* decision identifiers callers use
  None,            \* no value
  MaxTime,         \* bound: instants
  MaxAssignments,  \* bound: questions
  MaxHelp          \* bound: reports of help

ASSUME SessionAssumption ==
  /\ None \notin Decisions /\ None \notin Nat
  /\ MaxTime \in Nat /\ MaxAssignments \in Nat /\ MaxHelp \in Nat

Times == 0..MaxTime

VARIABLES
  registered,   \* numeric_teaching_sessions_v01: started_at, or None
  assignments,  \* numeric_assignments_v01, in the order of insertion
  attempts,     \* student_attempts_v02, in the order of insertion
  help,         \* assessment_assistance_events_v01, in the order of insertion
  now,          \* the clock of the repositories
  pc, loc,      \* the service instances
  seen          \* history: what was stored at some instant of a client's resume

db   == <<registered, assignments, attempts, help>>
vars == <<db, now, pc, loc, seen>>

Ids == 1..MaxAssignments
NoLocals == [op |-> "resume", asOf |-> 0, decision |-> None, want |-> 0,
             todo |-> {}, done |-> {}, open |-> {}, at |-> 0]
Ops == {"resume", "deliver", "submit", "help"}
Pcs == {"idle", "start_insert", "list", "load", "decide", "issue", "submit_read", "submit_write",
        "help_write"}

Become(c, to, l) == pc' = [pc EXCEPT ![c] = to] /\ loc' = [loc EXCEPT ![c] = l]
Raise(c) == Become(c, "idle", NoLocals)

\* The rows of the session as resume classifies them.
Done(as) == {a \in DOMAIN as : as[a].status = "completed"}
Pending(as) == {a \in DOMAIN as : as[a].status = "pending"}
View(as) == [done |-> Done(as), open |-> Pending(as)]

\* A change of the assignments is a new instant for every resume under way.
Witness == seen' = [c \in Clients |-> IF pc[c] = "load" THEN seen[c] \cup {View(assignments')}
                                      ELSE seen[c]]

Init ==
  /\ registered = None /\ assignments = <<>> /\ attempts = <<>> /\ help = <<>>
  /\ now = 0
  /\ pc = [c \in Clients |-> "idle"] /\ loc = [c \in Clients |-> NoLocals]
  /\ seen = [c \in Clients |-> {}]

Tick == now < MaxTime /\ now' = now + 1 /\ UNCHANGED <<db, pc, loc, seen>>

-----------------------------------------------------------------------------
(* start: register the session unless it is registered, then resume.        *)
Start(c, t) ==
  /\ pc[c] = "idle"
  /\ Become(c, IF registered = None THEN "start_insert" ELSE "list",
            [NoLocals EXCEPT !.asOf = t])
  /\ UNCHANGED <<db, now, seen>>

\* The primary key refuses a second row.
StartInsert(c) ==
  /\ pc[c] = "start_insert"
  /\ \/ registered = None /\ registered' = loc[c].asOf /\ Become(c, "list", loc[c])
     \/ registered # None /\ Raise(c) /\ UNCHANGED registered
  /\ UNCHANGED <<assignments, attempts, help, now, seen>>

(* resume, also the first and the last part of a delivery and a submission. *)
Call(c, l) == pc[c] = "idle" /\ Become(c, "list", l) /\ UNCHANGED <<db, now, seen>>

Resume(c, t)     == Call(c, [NoLocals EXCEPT !.asOf = t])
Deliver(c, d, t) == Call(c, [NoLocals EXCEPT !.op = "deliver", !.decision = d, !.asOf = t])
Submit(c, a, t)  == Call(c, [NoLocals EXCEPT !.op = "submit", !.want = a, !.asOf = t])

\* The session and the identifiers of its assignments are read.
List(c) ==
  /\ pc[c] = "list"
  /\ IF registered = None \/ loc[c].asOf < registered
     THEN Raise(c) /\ UNCHANGED seen
     ELSE /\ Become(c, "load", [loc[c] EXCEPT !.todo = DOMAIN assignments])
          /\ seen' = [seen EXCEPT ![c] = {View(assignments)}]
  /\ UNCHANGED <<db, now>>

\* One load_assignment, in the order of assigned_at.
Load(c) ==
  /\ pc[c] = "load"
  /\ \E a \in loc[c].todo :
       /\ \A b \in loc[c].todo : assignments[a].at <= assignments[b].at
       /\ IF assignments[a].at > loc[c].asOf
          THEN Raise(c) /\ seen' = [seen EXCEPT ![c] = {}]
          ELSE LET rest == [loc[c] EXCEPT !.todo = @ \ {a}] IN
               /\ Become(c, "load", IF assignments[a].status = "pending"
                                    THEN [rest EXCEPT !.open = @ \cup {a}]
                                    ELSE [rest EXCEPT !.done = @ \cup {a}])
               /\ UNCHANGED seen
  /\ UNCHANGED <<db, now>>

\* Everything is loaded; the completed assignments and their attempts, which
\* never change, are validated and give the state estimate.
Estimable(c) ==
  /\ pc[c] = "load" /\ loc[c].todo = {}
  /\ Cardinality(loc[c].open) <= 1
  /\ \A a \in loc[c].done : /\ attempts[assignments[a].attempt].assignment = a
                            /\ attempts[assignments[a].attempt].at \in assignments[a].at..loc[c].asOf

Recovered(c) ==
  /\ pc[c] = "load" /\ loc[c].todo = {}
  /\ IF ~Estimable(c) THEN Raise(c)
     ELSE \/ loc[c].op = "resume" /\ Raise(c)
          \/ /\ loc[c].op = "deliver"
             /\ IF loc[c].open = {} THEN Become(c, "decide", loc[c]) ELSE Raise(c)
          \/ /\ loc[c].op = "submit"
             /\ IF loc[c].open = {loc[c].want} THEN Become(c, "submit_read", loc[c])
                ELSE Raise(c)
  /\ seen' = [seen EXCEPT ![c] = {}]
  /\ UNCHANGED <<db, now>>

-----------------------------------------------------------------------------
(* The rest of deliver_numeric_assessment.  The assignments are read again *)
(* for the identifier of the decision; the teaching turn may then choose no *)
(* assessment, or one this item or the transfer gate does not admit.        *)
Decide(c) ==
  /\ pc[c] = "decide"
  /\ \/ /\ \A a \in DOMAIN assignments : assignments[a].decision # loc[c].decision
        /\ Become(c, "issue", loc[c])
     \/ Raise(c)
  /\ UNCHANGED <<db, now, seen>>

\* Mutant of Insertable: pending_session_key is not unique, so that the check
\* of resume alone keeps two questions from being pending.
Insertable_NoPendingKey(d) == \A a \in DOMAIN assignments : assignments[a].decision # d

\* The unique constraints of numeric_assignments_v01.
Insertable(d) ==
  /\ Pending(assignments) = {}                                 \* pending_session_key
  /\ \A a \in DOMAIN assignments : assignments[a].decision # d  \* session and decision

\* issue_assignment; the unique constraints refuse what another instance has
\* inserted since this one looked.
Issue(c) ==
  /\ pc[c] = "issue" /\ Len(assignments) < MaxAssignments
  /\ \/ /\ Insertable(loc[c].decision) /\ registered <= loc[c].asOf
        /\ assignments' = Append(assignments, [decision |-> loc[c].decision,
             at |-> loc[c].asOf, status |-> "pending", attempt |-> 0])
     \/ ~Insertable(loc[c].decision) /\ UNCHANGED assignments
  /\ Raise(c) /\ Witness /\ UNCHANGED <<registered, attempts, help, now>>

(* submit_numeric_response: the assignment is read and the clock after it;  *)
(* the attempt is inserted and the assignment claimed in one transaction.   *)
SubmitRead(c) ==
  /\ pc[c] = "submit_read"
  /\ LET a == assignments[loc[c].want] IN
       IF a.status # "pending" \/ now < a.at THEN Raise(c)
       ELSE Become(c, "submit_write", [loc[c] EXCEPT !.at = now])
  /\ UNCHANGED <<db, now, seen>>

\* Mutant of Claimable: the UPDATE is not conditional.
Claimable_Always(a) == TRUE

\* The conditional UPDATE: rowcount 1 only while the assignment is pending.
Claimable(a) == assignments[a].status = "pending"

Completed(row, k) == [row EXCEPT !.status = "completed", !.attempt = k]

SubmitWrite(c) ==
  /\ pc[c] = "submit_write"
  /\ \/ /\ Claimable(loc[c].want)
        /\ attempts' = Append(attempts, [assignment |-> loc[c].want, at |-> loc[c].at])
        /\ assignments' = [assignments EXCEPT ![loc[c].want] =
                           Completed(@, Len(attempts'))]
        /\ IF loc[c].asOf < loc[c].at THEN Raise(c)
           ELSE Become(c, "list", [NoLocals EXCEPT !.asOf = loc[c].asOf])
     \/ ~Claimable(loc[c].want) /\ Raise(c) /\ UNCHANGED <<attempts, assignments>>
  /\ Witness /\ UNCHANGED <<registered, help, now>>

-----------------------------------------------------------------------------
(* record_application_assistance: the clock is read for occurred_at, then   *)
(* the assignment, some instants later; a refused call changes nothing.     *)
ReportHelp(c, a) ==
  /\ pc[c] = "idle" /\ Len(help) < MaxHelp
  /\ assignments[a].status = "pending"
  /\ \E occurredAt \in 0..now : occurredAt >= assignments[a].at
  /\ Become(c, "help_write", [NoLocals EXCEPT !.op = "help", !.want = a])
  /\ UNCHANGED <<db, now, seen>>

HelpWrite(c) ==
  /\ pc[c] = "help_write"
  /\ help' = Append(help, [assignment |-> loc[c].want,
                           late |-> assignments[loc[c].want].status = "completed"])
  /\ Raise(c) /\ UNCHANGED <<registered, assignments, attempts, now, seen>>

\* The process of a service instance dies; open transactions are rolled back.
Crash(c) ==
  /\ pc[c] # "idle"
  /\ Raise(c) /\ seen' = [seen EXCEPT ![c] = {}] /\ UNCHANGED <<db, now>>

Next ==
  \/ Tick
  \/ \E c \in Clients :
       \/ \E t \in Times : Start(c, t) \/ Resume(c, t)
       \/ \E t \in Times, d \in Decisions : Deliver(c, d, t)
       \/ \E t \in Times, a \in DOMAIN assignments : Submit(c, a, t)
       \/ \E a \in DOMAIN assignments : ReportHelp(c, a)
       \/ StartInsert(c) \/ List(c) \/ Load(c) \/ Recovered(c)
       \/ Decide(c) \/ Issue(c) \/ SubmitRead(c) \/ SubmitWrite(c) \/ HelpWrite(c) \/ Crash(c)

Spec == Init /\ [][Next]_vars

-----------------------------------------------------------------------------
(* The attempts and the completed assignments are in one-to-one             *)
(* correspondence: no answer is stored twice, none without its assignment   *)
(* being completed by it, none is lost.                                     *)
AttemptsMatch ==
  /\ \A a \in DOMAIN assignments : assignments[a].status = "completed" =>
       /\ assignments[a].attempt \in DOMAIN attempts
       /\ attempts[assignments[a].attempt].assignment = a
  /\ \A k \in DOMAIN attempts :
       /\ attempts[k].assignment \in DOMAIN assignments
       /\ assignments[attempts[k].assignment].attempt = k

(* A recovered view is what was stored at some instant of the recovery,     *)
(* although its rows are read one by one while others write.                *)
ViewWasTrue ==
  \A c \in Clients : pc[c] = "load" /\ loc[c].todo = {}
    => [done |-> loc[c].done, open |-> loc[c].open] \in seen[c]

(* Reading row by row never shows two pending assignments, so recovery      *)
(* never asks for a manual reconciliation.                                  *)
NeverTwoPending == \A c \in Clients : Cardinality(loc[c].open) <= 1

(* No help is recorded for an assignment that is completed: "An event       *)
(* cannot be added through this method after the Assignment has been        *)
(* completed" (record_application_assistance).                              *)
NoLateHelp == \A h \in DOMAIN help : ~help[h].late

(* The stored rows implement AnsweredOnce.                                  *)
Promise == INSTANCE AnsweredOnce WITH
  asked   <- [a \in DOMAIN assignments |->
                IF assignments[a].status = "completed" THEN "answered" ELSE "pending"],
  answers <- [a \in DOMAIN assignments |->
                Cardinality({k \in DOMAIN attempts : attempts[k].assignment = a})]

AnswersOnce == Promise!Spec
=============================================================================
