----------------------------- MODULE NumericProofs -----------------------------
(***************************************************************************)
(* Proofs about NumericSession, for any service instances, decisions,       *)
(* instants and numbers of questions and reports: answers and completed     *)
(* questions correspond, and the rows implement AnsweredOnce.               *)
(***************************************************************************)
EXTENDS NumericSession, SequenceTheorems, FiniteSetTheorems, TLAPS

-----------------------------------------------------------------------------
Assignments == [decision : Decisions, at : Times, status : {"pending", "completed"}, attempt : Nat]
Attempts    == [assignment : Nat, at : Nat]

RowTypes ==
  /\ assignments \in Seq(Assignments) /\ attempts \in Seq(Attempts)
  /\ now \in Nat

(* An instance that issues has a decision, and one that submits an assignment  *)
(* that is there.                                                              *)
Locals == [op : Ops, asOf : Times, decision : Decisions \cup {None}, want : Nat,
           todo : SUBSET Nat, done : SUBSET Nat, open : SUBSET Nat, at : Nat]

Ready(to, l, rows) ==
  /\ l.op = "deliver" => l.decision \in Decisions
  /\ l.op = "submit" => l.want \in rows
  /\ to \in {"decide", "issue"} => l.op = "deliver"
  /\ to \in {"submit_read", "submit_write"} => l.op = "submit"

ClientTypes ==
  /\ pc \in [Clients -> Pcs] /\ loc \in [Clients -> Locals]
  /\ \A c \in Clients : Ready(pc[c], loc[c], DOMAIN assignments)

(* An assignment that is pending names no attempt.                             *)
PendingIsOpen ==
  \A a \in DOMAIN assignments : assignments[a].status = "pending" => assignments[a].attempt = 0

RowInv == PendingIsOpen /\ AttemptsMatch

IInv == RowTypes /\ ClientTypes /\ RowInv

-----------------------------------------------------------------------------
(* What an instance does to its variables.                                     *)
LEMMA Moves ==
  ASSUME ClientTypes, NEW c \in Clients, NEW to \in Pcs, NEW l \in Locals, Become(c, to, l),
         DOMAIN assignments \subseteq DOMAIN assignments', Ready(to, l, DOMAIN assignments)
  PROVE  ClientTypes'
BY DEF ClientTypes, Become, Ready

(* A call that ends or begins is in order.                                     *)
LEMMA NoLocalsReady ==
  /\ NoLocals \in Locals
  /\ \A to \in {"idle", "list", "start_insert", "help_write"} : \A rows : Ready(to, NoLocals, rows)
BY SessionAssumption DEF NoLocals, Locals, Ops, Times, Ready

(* A call that ends keeps every instance in order.                             *)
LEMMA Raises ==
  ASSUME ClientTypes, NEW c \in Clients, Raise(c), DOMAIN assignments \subseteq DOMAIN assignments'
  PROVE  ClientTypes'
BY Moves, NoLocalsReady DEF Raise, Pcs

(* The rows of a sequence after another one was inserted.                      *)
LEMMA Inserted ==
  ASSUME NEW S, NEW t \in Seq(S), NEW x \in S
  PROVE  /\ Append(t, x) \in Seq(S)
         /\ Len(t) \in Nat /\ Len(Append(t, x)) = Len(t) + 1
         /\ DOMAIN t = 1..Len(t)
         /\ DOMAIN Append(t, x) = DOMAIN t \cup {Len(t) + 1}
         /\ Len(t) + 1 \notin DOMAIN t
         /\ \A i \in DOMAIN t : Append(t, x)[i] = t[i]
         /\ Append(t, x)[Len(t) + 1] = x
<1>1. /\ Append(t, x) \in Seq(S) /\ Len(Append(t, x)) = Len(t) + 1
      /\ \A i \in 1..Len(t) : Append(t, x)[i] = t[i]
      /\ Append(t, x)[Len(t) + 1] = x
  BY AppendProperties
<1>2. DOMAIN t = 1..Len(t) /\ DOMAIN Append(t, x) = 1..(Len(t) + 1) /\ Len(t) \in Nat
  BY <1>1, LenProperties
<1>. QED  BY <1>1, <1>2

-----------------------------------------------------------------------------
(* The rows change in two ways only: a question is issued when none is         *)
(* pending, or a pending one is completed with a new attempt.                  *)
Issued ==
  /\ Pending(assignments) = {} /\ UNCHANGED attempts
  /\ \E row \in Assignments : /\ row.status = "pending" /\ row.attempt = 0
                              /\ assignments' = Append(assignments, row)

AnsweredBy(a) ==
  /\ a \in DOMAIN assignments /\ assignments[a].status = "pending"
  /\ \E k \in Attempts : k.assignment = a /\ attempts' = Append(attempts, k)
  /\ assignments' = [assignments EXCEPT ![a] = Completed(@, Len(attempts'))]

RowsStep == \/ UNCHANGED <<assignments, attempts>> \/ Issued
            \/ \E a \in DOMAIN assignments : AnsweredBy(a)

(* issue_assignment inserts a question, or nothing.                            *)
LEMMA IssueRows ==
  ASSUME IInv, NEW c \in Clients, Issue(c)
  PROVE  RowsStep /\ ClientTypes'
<1>. USE DEF IInv
<1>1. CASE UNCHANGED assignments
  BY <1>1, Raises DEF Issue, RowsStep
<1>2. CASE Insertable(loc[c].decision) /\ assignments' # assignments
  <2>. DEFINE row == [decision |-> loc[c].decision, at |-> loc[c].asOf, status |-> "pending", attempt |-> 0]
  <2>1. loc[c].decision \in Decisions /\ loc[c].asOf \in Times
    BY DEF Issue, ClientTypes, Ready, Locals
  <2>2. row \in Assignments /\ row.status = "pending" /\ row.attempt = 0
    BY <2>1 DEF Assignments
  <2>3. assignments' = Append(assignments, row) /\ Raise(c) /\ UNCHANGED attempts
    BY <1>2 DEF Issue
  <2>. HIDE DEF row
  <2>4. Issued
    BY <1>2, <2>2, <2>3 DEF Issued, Insertable
  <2>5. DOMAIN assignments \subseteq DOMAIN assignments'
    BY <2>2, <2>3, Inserted DEF RowTypes
  <2>. QED  BY <2>3, <2>4, <2>5, Raises DEF RowsStep
<1>. QED  BY <1>1, <1>2 DEF Issue

(* The conditional UPDATE completes a pending question, or nothing.            *)
LEMMA SubmitWriteRows ==
  ASSUME IInv, NEW c \in Clients, SubmitWrite(c)
  PROVE  RowsStep /\ ClientTypes'
<1>. USE DEF IInv
<1>1. CASE Raise(c) /\ UNCHANGED <<attempts, assignments>>
  BY <1>1, Raises DEF RowsStep
<1>2. CASE /\ Claimable(loc[c].want)
           /\ attempts' = Append(attempts, [assignment |-> loc[c].want, at |-> loc[c].at])
           /\ assignments' = [assignments EXCEPT ![loc[c].want] = Completed(@, Len(attempts'))]
           /\ IF loc[c].asOf < loc[c].at THEN Raise(c)
              ELSE Become(c, "list", [NoLocals EXCEPT !.asOf = loc[c].asOf])
  <2>. DEFINE a == loc[c].want
              k == [assignment |-> a, at |-> loc[c].at]
              l == [NoLocals EXCEPT !.asOf = loc[c].asOf]
  <2>1. /\ loc[c] \in Locals /\ a \in DOMAIN assignments
    BY DEF SubmitWrite, ClientTypes, Ready
  <2>2. k \in Attempts /\ k.assignment = a
    BY <2>1 DEF Locals, Attempts
  <2>3. AnsweredBy(a)
    BY <1>2, <2>1, <2>2 DEF AnsweredBy, Claimable
  <2>4. DOMAIN assignments' = DOMAIN assignments
    BY <1>2
  <2>5. l \in Locals /\ Ready("list", l, DOMAIN assignments)
    BY <2>1, NoLocalsReady DEF Locals, Ready, NoLocals
  <2>6. CASE Raise(c)
    BY <2>1, <2>3, <2>4, <2>6, Raises DEF RowsStep
  <2>7. CASE Become(c, "list", l)
    <3>. HIDE DEF l
    <3>. QED  BY <2>1, <2>3, <2>4, <2>5, <2>7, Moves DEF RowsStep, Pcs
  <2>. QED  BY <1>2, <2>6, <2>7
<1>. QED  BY <1>1, <1>2 DEF SubmitWrite

(* Every step changes the rows in one of these ways, and keeps the instances   *)
(* in order.                                                                   *)
LEMMA StepOfRows ==
  ASSUME IInv, [Next]_vars
  PROVE  RowsStep /\ ClientTypes' /\ now' \in Nat
<1>. USE DEF IInv
<1>1. CASE Tick
  BY <1>1 DEF Tick, db, RowsStep, RowTypes, ClientTypes, Ready
<1>2. CASE UNCHANGED vars
  BY <1>2 DEF vars, db, RowsStep, RowTypes, ClientTypes, Ready
<1>3. ASSUME NEW c \in Clients, NEW t \in Times, Start(c, t) \/ Resume(c, t)
      PROVE  RowsStep /\ ClientTypes' /\ now' \in Nat
  <2>. DEFINE l == [NoLocals EXCEPT !.asOf = t]
  <2>1. l \in Locals /\ \A to \in Pcs : to \in {"list", "start_insert"} => Ready(to, l, DOMAIN assignments)
    BY NoLocalsReady DEF Locals, Ready, NoLocals
  <2>. HIDE DEF l
  <2>2. PICK to \in {"list", "start_insert"} : Become(c, to, l) /\ UNCHANGED <<db, now>>
    BY <1>3, Zenon DEF Start, Resume, Call, l
  <2>. QED  BY <2>1, <2>2, Moves DEF RowsStep, RowTypes, db, Pcs
<1>4. ASSUME NEW c \in Clients, NEW d \in Decisions, NEW t \in Times, Deliver(c, d, t)
      PROVE  RowsStep /\ ClientTypes' /\ now' \in Nat
  <2>. DEFINE l == [NoLocals EXCEPT !.op = "deliver", !.decision = d, !.asOf = t]
  <2>1. l \in Locals /\ Ready("list", l, DOMAIN assignments)
    BY NoLocalsReady DEF Locals, Ready, NoLocals, Ops
  <2>2. Become(c, "list", l) /\ UNCHANGED <<db, now>>
    BY <1>4 DEF Deliver, Call
  <2>. HIDE DEF l
  <2>. QED  BY <2>1, <2>2, Moves DEF RowsStep, RowTypes, db, Pcs
<1>5. ASSUME NEW c \in Clients, NEW a \in DOMAIN assignments, NEW t \in Times, Submit(c, a, t)
      PROVE  RowsStep /\ ClientTypes' /\ now' \in Nat
  <2>. DEFINE l == [NoLocals EXCEPT !.op = "submit", !.want = a, !.asOf = t]
  <2>1. a \in Nat
    BY LenProperties DEF RowTypes
  <2>2. l \in Locals /\ Ready("list", l, DOMAIN assignments)
    BY <2>1, NoLocalsReady DEF Locals, Ready, NoLocals, Ops
  <2>3. Become(c, "list", l) /\ UNCHANGED <<db, now>>
    BY <1>5 DEF Submit, Call
  <2>. HIDE DEF l
  <2>. QED  BY <2>2, <2>3, Moves DEF RowsStep, RowTypes, db, Pcs
<1>6. ASSUME NEW c \in Clients, NEW a \in DOMAIN assignments, ReportHelp(c, a)
      PROVE  RowsStep /\ ClientTypes' /\ now' \in Nat
  <2>. DEFINE l == [NoLocals EXCEPT !.op = "help", !.want = a]
  <2>1. a \in Nat
    BY LenProperties DEF RowTypes
  <2>2. l \in Locals /\ Ready("help_write", l, DOMAIN assignments)
    BY <2>1, NoLocalsReady DEF Locals, Ready, NoLocals, Ops
  <2>3. Become(c, "help_write", l) /\ UNCHANGED <<db, now>>
    BY <1>6 DEF ReportHelp
  <2>. HIDE DEF l
  <2>. QED  BY <2>2, <2>3, Moves DEF RowsStep, RowTypes, db, Pcs
<1>7. ASSUME NEW c \in Clients, UNCHANGED <<assignments, attempts, now>>,
             \/ Raise(c)
             \/ \E to \in Pcs, l \in Locals :
                  Become(c, to, l) /\ Ready(to, l, DOMAIN assignments)
      PROVE  RowsStep /\ ClientTypes' /\ now' \in Nat
  BY <1>7, Moves, Raises DEF RowsStep, RowTypes
<1>8. ASSUME NEW c \in Clients,
             StartInsert(c) \/ List(c) \/ Load(c) \/ Recovered(c)
             \/ Decide(c) \/ SubmitRead(c) \/ HelpWrite(c) \/ Crash(c)
      PROVE  RowsStep /\ ClientTypes' /\ now' \in Nat
  <2>1. loc[c] \in Locals /\ Ready(pc[c], loc[c], DOMAIN assignments)
    BY DEF ClientTypes
  <2>2. UNCHANGED <<assignments, attempts, now>>
    BY <1>8, Zenon DEF StartInsert, List, Load, Recovered, Decide, SubmitRead, HelpWrite, Crash, db
  <2>3. CASE Raise(c)
    BY <1>7, <2>2, <2>3
  <2>4. CASE pc[c] = "start_insert" /\ Become(c, "list", loc[c])
    <3>1. Ready("list", loc[c], DOMAIN assignments)
      BY <2>1 DEF Ready
    <3>. QED  BY <1>7, <2>1, <2>2, <2>4, <3>1 DEF Pcs
  <2>5. CASE List(c) /\ ~Raise(c)
    <3>. DEFINE l == [loc[c] EXCEPT !.todo = DOMAIN assignments]
    <3>1. DOMAIN assignments \subseteq Nat
      BY LenProperties DEF RowTypes
    <3>2. l \in Locals /\ Ready("load", l, DOMAIN assignments)
      BY <2>1, <3>1 DEF Locals, Ready
    <3>3. Become(c, "load", l)
      BY <2>5 DEF List
    <3>. HIDE DEF l
    <3>. QED  BY <1>7, <2>2, <3>2, <3>3 DEF Pcs
  <2>6. CASE Load(c) /\ ~Raise(c)
    <3>1. PICK a \in loc[c].todo :
            LET rest == [loc[c] EXCEPT !.todo = @ \ {a}]
            IN Become(c, "load", IF assignments[a].status = "pending"
                                 THEN [rest EXCEPT !.open = @ \cup {a}]
                                 ELSE [rest EXCEPT !.done = @ \cup {a}])
      BY <2>6, Zenon DEF Load
    <3>2. a \in Nat
      BY <2>1 DEF Locals
    <3>. DEFINE rest == [loc[c] EXCEPT !.todo = @ \ {a}]
                l1 == [rest EXCEPT !.open = @ \cup {a}]
                l2 == [rest EXCEPT !.done = @ \cup {a}]
    <3>3. /\ rest \in Locals /\ rest.op = loc[c].op /\ rest.decision = loc[c].decision
          /\ rest.want = loc[c].want
      BY <2>1 DEF Locals
    <3>. HIDE DEF rest
    <3>4. /\ l1 \in Locals /\ l1.op = loc[c].op /\ l1.decision = loc[c].decision /\ l1.want = loc[c].want
          /\ l2 \in Locals /\ l2.op = loc[c].op /\ l2.decision = loc[c].decision /\ l2.want = loc[c].want
      BY <3>2, <3>3 DEF Locals
    <3>5. Become(c, "load", l1) \/ Become(c, "load", l2)
      BY <3>1, Zenon DEF rest
    <3>. HIDE DEF l1, l2
    <3>6. Ready("load", l1, DOMAIN assignments) /\ Ready("load", l2, DOMAIN assignments)
      BY <2>1, <3>4 DEF Ready
    <3>. QED  BY <1>7, <2>2, <3>4, <3>5, <3>6 DEF Pcs
  <2>7. CASE Recovered(c) /\ ~Raise(c)
    <3>1. \/ loc[c].op = "deliver" /\ Become(c, "decide", loc[c])
          \/ loc[c].op = "submit" /\ Become(c, "submit_read", loc[c])
      BY <2>7, Zenon DEF Recovered
    <3>2. loc[c].op = "deliver" => Ready("decide", loc[c], DOMAIN assignments)
      BY <2>1 DEF Ready
    <3>3. loc[c].op = "submit" => Ready("submit_read", loc[c], DOMAIN assignments)
      BY <2>1 DEF Ready
    <3>. QED  BY <1>7, <2>1, <2>2, <3>1, <3>2, <3>3 DEF Pcs
  <2>8. CASE Decide(c) /\ ~Raise(c)
    <3>1. pc[c] = "decide" /\ Become(c, "issue", loc[c])
      BY <2>8 DEF Decide
    <3>2. Ready("issue", loc[c], DOMAIN assignments)
      BY <2>1, <3>1 DEF Ready
    <3>. QED  BY <1>7, <2>1, <2>2, <3>1, <3>2 DEF Pcs
  <2>9. CASE SubmitRead(c) /\ ~Raise(c)
    <3>. DEFINE l == [loc[c] EXCEPT !.at = now]
    <3>1. pc[c] = "submit_read" /\ Become(c, "submit_write", l)
      BY <2>9, Zenon DEF SubmitRead
    <3>2. l \in Locals /\ l.op = loc[c].op /\ l.want = loc[c].want
      BY <2>1 DEF Locals, RowTypes
    <3>. HIDE DEF l
    <3>3. Ready("submit_write", l, DOMAIN assignments)
      BY <2>1, <3>1, <3>2 DEF Ready
    <3>. QED  BY <1>7, <2>2, <3>1, <3>2, <3>3 DEF Pcs
  <2>10. StartInsert(c) => Raise(c) \/ (pc[c] = "start_insert" /\ Become(c, "list", loc[c]))
    BY DEF StartInsert
  <2>11. HelpWrite(c) \/ Crash(c) => Raise(c)
    BY Zenon DEF HelpWrite, Crash
  <2>. QED  BY <1>8, <2>3, <2>4, <2>5, <2>6, <2>7, <2>8, <2>9, <2>10, <2>11
<1>9. ASSUME NEW c \in Clients, Issue(c) \/ SubmitWrite(c)
      PROVE  RowsStep /\ ClientTypes' /\ now' \in Nat
  BY <1>9, IssueRows, SubmitWriteRows DEF Issue, SubmitWrite, RowTypes
<1>. QED  BY <1>1, <1>2, <1>3, <1>4, <1>5, <1>6, <1>8, <1>9 DEF Next

-----------------------------------------------------------------------------
(* A completed row names the attempt that completed it.                         *)
LEMMA CompletedRow ==
  ASSUME NEW r \in Assignments, NEW k \in Nat
  PROVE  /\ Completed(r, k) \in Assignments
         /\ Completed(r, k).status = "completed" /\ Completed(r, k).attempt = k
BY DEF Completed, Assignments

(* The rows after a question was answered.                                     *)
LEMMA AnswerRows ==
  ASSUME RowTypes, NEW a \in DOMAIN assignments, AnsweredBy(a)
  PROVE  /\ assignments' \in Seq(Assignments) /\ attempts' \in Seq(Attempts)
         /\ DOMAIN assignments' = DOMAIN assignments
         /\ DOMAIN attempts' = DOMAIN attempts \cup {Len(attempts) + 1}
         /\ Len(attempts) + 1 \notin DOMAIN attempts /\ Len(attempts) \in Nat
         /\ \A k \in DOMAIN attempts : attempts'[k] = attempts[k]
         /\ attempts'[Len(attempts) + 1].assignment = a
         /\ assignments'[a].status = "completed" /\ assignments'[a].attempt = Len(attempts) + 1
         /\ \A b \in DOMAIN assignments \ {a} : assignments'[b] = assignments[b]
<1>1. PICK k \in Attempts : k.assignment = a /\ attempts' = Append(attempts, k)
  BY DEF AnsweredBy
<1>2. /\ attempts' \in Seq(Attempts) /\ Len(attempts) \in Nat /\ Len(attempts') = Len(attempts) + 1
      /\ DOMAIN attempts' = DOMAIN attempts \cup {Len(attempts) + 1}
      /\ Len(attempts) + 1 \notin DOMAIN attempts
      /\ \A i \in DOMAIN attempts : attempts'[i] = attempts[i]
      /\ attempts'[Len(attempts) + 1] = k
  BY <1>1, Inserted DEF RowTypes
<1>3. a \in 1..Len(assignments) /\ assignments[a] \in Assignments
  BY ElementOfSeq, LenProperties DEF RowTypes
<1>. DEFINE row == Completed(assignments[a], Len(attempts) + 1)
<1>4. row \in Assignments /\ row.status = "completed" /\ row.attempt = Len(attempts) + 1
  <2>1. Len(attempts) + 1 \in Nat
    BY <1>2
  <2>. QED  BY <1>3, <2>1, CompletedRow
<1>. HIDE DEF row
<1>5. assignments' = [assignments EXCEPT ![a] = row]
  BY <1>2 DEF AnsweredBy, row
<1>6. assignments' \in Seq(Assignments)
  BY <1>3, <1>4, <1>5, ExceptSeq DEF RowTypes
<1>. QED  BY <1>1, <1>2, <1>4, <1>5, <1>6

(* The rows after a question was issued.                                       *)
LEMMA IssuedRows ==
  ASSUME RowTypes, Issued
  PROVE  /\ assignments' \in Seq(Assignments) /\ UNCHANGED attempts
         /\ Len(assignments) \in Nat /\ DOMAIN assignments = 1..Len(assignments)
         /\ DOMAIN assignments' = DOMAIN assignments \cup {Len(assignments) + 1}
         /\ Len(assignments) + 1 \notin DOMAIN assignments
         /\ \A b \in DOMAIN assignments : assignments'[b] = assignments[b]
         /\ assignments'[Len(assignments) + 1].status = "pending"
         /\ assignments'[Len(assignments) + 1].attempt = 0
<1>1. PICK row \in Assignments : /\ row.status = "pending" /\ row.attempt = 0
                                 /\ assignments' = Append(assignments, row)
  BY DEF Issued
<1>. QED  BY <1>1, Inserted DEF RowTypes, Issued

(* No attempt is on record for a pending assignment.                           *)
LEMMA PendingUnanswered ==
  ASSUME RowTypes, RowInv, NEW a \in DOMAIN assignments, assignments[a].status = "pending"
  PROVE  \A k \in DOMAIN attempts : attempts[k].assignment # a
<1>1. \A k \in DOMAIN attempts : k # 0
  BY LenProperties DEF RowTypes
<1>. QED  BY <1>1 DEF RowInv, PendingIsOpen, AttemptsMatch

(* A change of the rows keeps completed questions and attempts in step.        *)
LEMMA RowInvStep ==
  ASSUME RowTypes, RowInv, RowsStep
  PROVE  /\ RowInv' /\ assignments' \in Seq(Assignments) /\ attempts' \in Seq(Attempts)
<1>1. CASE UNCHANGED <<assignments, attempts>>
  BY <1>1 DEF RowTypes, RowInv, PendingIsOpen, AttemptsMatch
<1>2. CASE Issued
  BY <1>2, IssuedRows DEF RowTypes, RowInv, PendingIsOpen, AttemptsMatch
<1>3. ASSUME NEW a \in DOMAIN assignments, AnsweredBy(a)
      PROVE  /\ RowInv' /\ assignments' \in Seq(Assignments) /\ attempts' \in Seq(Attempts)
  <2>1. assignments[a].status = "pending"
    BY <1>3 DEF AnsweredBy
  <2>2. \A k \in DOMAIN attempts : attempts[k].assignment # a
    BY <2>1, PendingUnanswered
  <2>3. \A b \in DOMAIN assignments \ {a} : assignments[b].status = "completed" =>
          /\ assignments[b].attempt \in DOMAIN attempts
          /\ attempts[assignments[b].attempt].assignment = b
    BY DEF RowInv, AttemptsMatch
  <2>4. \A b \in DOMAIN assignments' : assignments'[b].status = "completed" =>
          /\ assignments'[b].attempt \in DOMAIN attempts'
          /\ attempts'[assignments'[b].attempt].assignment = b
    BY <1>3, <2>3, AnswerRows
  <2>5. \A k \in DOMAIN attempts' :
          /\ attempts'[k].assignment \in DOMAIN assignments'
          /\ assignments'[attempts'[k].assignment].attempt = k
    BY <1>3, <2>2, AnswerRows DEF RowInv, AttemptsMatch
  <2>6. PendingIsOpen'
    <3>1. "completed" # "pending"
      OBVIOUS
    <3>. QED  BY <1>3, <3>1, AnswerRows DEF RowInv, PendingIsOpen
  <2>. QED  BY <1>3, <2>4, <2>5, <2>6, AnswerRows DEF RowInv, AttemptsMatch
<1>. QED  BY <1>1, <1>2, <1>3 DEF RowsStep

(* The invariant holds of every execution.                                     *)
THEOREM NumericInvariant == Spec => []IInv
<1>1. Init => IInv
  <2>. SUFFICES ASSUME Init PROVE IInv
    OBVIOUS
  <2>1. assignments = <<>> /\ attempts = <<>> /\ now = 0
    BY DEF Init
  <2>2. ClientTypes
    BY NoLocalsReady DEF Init, ClientTypes, Pcs
  <2>. QED  BY <2>1, <2>2 DEF IInv, RowTypes, RowInv, PendingIsOpen, AttemptsMatch
<1>2. IInv /\ [Next]_vars => IInv'
  BY StepOfRows, RowInvStep DEF IInv, RowTypes
<1>. QED  BY <1>1, <1>2, PTL DEF Spec

(* Completed assignments and attempts correspond one to one, whatever         *)
(* instances submit at the same time, retry, or die.                           *)
THEOREM AttemptsMatchCorrect == Spec => []AttemptsMatch
<1>1. IInv => AttemptsMatch
  BY DEF IInv, RowInv
<1>. QED  BY <1>1, NumericInvariant, PTL

-----------------------------------------------------------------------------
(* The rows as AnsweredOnce sees them, and what it may do.                     *)
AskedRows == [a \in DOMAIN assignments |->
                IF assignments[a].status = "completed" THEN "answered" ELSE "pending"]
AnswersTo(a) == {k \in DOMAIN attempts : attempts[k].assignment = a}
AnswerRow == [a \in DOMAIN assignments |-> Cardinality(AnswersTo(a))]

PromiseStep == Promise!Next \/ UNCHANGED <<AskedRows, AnswerRow>>

(* A step of the promise as a disjunction is one in the shape of its Spec.    *)
LEMMA PromiseIs ==
  ASSUME PromiseStep
  PROVE  [Promise!Next]_(Promise!vars)
BY DEF PromiseStep, Promise!vars, AskedRows, AnswerRow, AnswersTo

(* A sequence that differs from another one by one more element.               *)
LEMMA AppendIs ==
  ASSUME NEW S, NEW n \in Nat, NEW t \in [1..n -> S], NEW x \in S, NEW u \in [1..(n + 1) -> S],
         \A i \in 1..n : u[i] = t[i], u[n + 1] = x
  PROVE  u = Append(t, x)
<1>1. t \in Seq(S) /\ Len(t) = n /\ u \in Seq(S) /\ Len(u) = n + 1
  OBVIOUS
<1>2. Append(t, x) \in Seq(S) /\ Len(Append(t, x)) = n + 1
  BY <1>1, AppendProperties
<1>3. \A i \in 1..Len(u) : u[i] = Append(t, x)[i]
  BY <1>1, AppendProperties
<1>. QED  BY <1>1, <1>2, <1>3, SeqEqual

(* Issuing a question asks it.                                                 *)
LEMMA IssuedAsks ==
  ASSUME RowTypes, RowInv, Issued
  PROVE  Promise!Ask
<1>. DEFINE n == Len(assignments)
<1>1. /\ n \in Nat /\ DOMAIN assignments = 1..n /\ DOMAIN assignments' = 1..(n + 1)
      /\ UNCHANGED attempts /\ \A b \in 1..n : assignments'[b] = assignments[b]
      /\ assignments'[n + 1].status = "pending"
  BY IssuedRows
<1>2. \A k \in DOMAIN attempts : attempts[k].assignment # n + 1
  BY <1>1 DEF RowInv, AttemptsMatch
<1>3. \A q \in DOMAIN AskedRows : AskedRows[q] = "answered"
  <2>1. \A q \in DOMAIN assignments : assignments[q].status = "completed"
    <3>1. \A q \in DOMAIN assignments : assignments[q] \in Assignments
      BY ElementOfSeq, <1>1 DEF RowTypes
    <3>2. \A q \in DOMAIN assignments : assignments[q].status # "pending"
      BY DEF Issued, Pending
    <3>. QED  BY <3>1, <3>2 DEF Assignments
  <2>. QED  BY <2>1 DEF AskedRows
<1>4. AskedRows' = Append(AskedRows, "pending")
  <2>. DEFINE S == {"answered", "pending"}
  <2>1. AskedRows \in [1..n -> S] /\ AskedRows' \in [1..(n + 1) -> S]
    BY <1>1 DEF AskedRows
  <2>2. (\A i \in 1..n : AskedRows'[i] = AskedRows[i]) /\ AskedRows'[n + 1] = "pending"
    BY <1>1 DEF AskedRows
  <2>. HIDE DEF n
  <2>. QED  BY <1>1, <2>1, <2>2, AppendIs
<1>5. AnswerRow' = Append(AnswerRow, 0)
  <2>1. \A b : AnswersTo(b)' = AnswersTo(b)
    BY <1>1 DEF AnswersTo
  <2>2. AnswersTo(n + 1) = {} /\ Cardinality(AnswersTo(n + 1)) = 0
    BY <1>2, FS_EmptySet DEF AnswersTo
  <2>. DEFINE S == {Cardinality(AnswersTo(b)) : b \in 1..(n + 1)}
  <2>3. AnswerRow' = [a \in 1..(n + 1) |-> Cardinality(AnswersTo(a))]
    BY <1>1, <2>1 DEF AnswerRow
  <2>4. AnswerRow = [a \in 1..n |-> Cardinality(AnswersTo(a))]
    BY <1>1 DEF AnswerRow
  <2>5. AnswerRow \in [1..n -> S] /\ AnswerRow' \in [1..(n + 1) -> S] /\ 0 \in S
    BY <1>1, <2>2, <2>3, <2>4
  <2>6. (\A i \in 1..n : AnswerRow'[i] = AnswerRow[i]) /\ AnswerRow'[n + 1] = 0
    BY <1>1, <2>2, <2>3, <2>4
  <2>. HIDE DEF n, S
  <2>. QED  BY <1>1, <2>5, <2>6, AppendIs
<1>. QED  BY <1>3, <1>4, <1>5 DEF Promise!Ask, AskedRows, AnswerRow, AnswersTo

(* Completing a question answers it, and no other.                             *)
LEMMA AnsweredAnswers ==
  ASSUME RowTypes, RowInv, NEW a \in DOMAIN assignments, AnsweredBy(a)
  PROVE  Promise!Answer(a)
<1>. DEFINE n == Len(attempts)
<1>1. /\ DOMAIN assignments' = DOMAIN assignments
      /\ DOMAIN attempts' = DOMAIN attempts \cup {n + 1} /\ n + 1 \notin DOMAIN attempts
      /\ \A k \in DOMAIN attempts : attempts'[k] = attempts[k]
      /\ attempts'[n + 1].assignment = a
      /\ assignments'[a].status = "completed"
      /\ \A b \in DOMAIN assignments \ {a} : assignments'[b] = assignments[b]
  BY AnswerRows
<1>2. assignments[a].status = "pending"
  BY DEF AnsweredBy
<1>3. \A k \in DOMAIN attempts : attempts[k].assignment # a
  BY <1>2, PendingUnanswered
<1>4. AskedRows' = [AskedRows EXCEPT ![a] = "answered"]
  BY <1>1 DEF AskedRows
<1>5. AskedRows[a] = "pending"
  BY <1>2 DEF AskedRows
<1>. HIDE DEF n
<1>6. AnswersTo(a) = {} /\ AnswersTo(a)' = {n + 1}
  BY <1>1, <1>3 DEF AnswersTo
<1>7. \A b \in DOMAIN assignments \ {a} : AnswersTo(b)' = AnswersTo(b)
  BY <1>1 DEF AnswersTo
<1>8. Cardinality(AnswersTo(a)) = 0 /\ Cardinality(AnswersTo(a)') = 1
  BY <1>6, FS_EmptySet, FS_Singleton
<1>9. AnswerRow' = [AnswerRow EXCEPT ![a] = @ + 1]
  <2>1. AnswerRow' = [b \in DOMAIN assignments |-> Cardinality(AnswersTo(b)')]
    BY <1>1 DEF AnswerRow
  <2>2. \A b \in DOMAIN assignments :
          Cardinality(AnswersTo(b)') = IF b = a THEN Cardinality(AnswersTo(a)) + 1
                                       ELSE Cardinality(AnswersTo(b))
    BY <1>7, <1>8
  <2>. QED  BY <2>1, <2>2 DEF AnswerRow
<1>. QED  BY <1>4, <1>5, <1>9 DEF Promise!Answer, AskedRows, AnswerRow, AnswersTo

(* Instances that answer the same questions, retry and die still ask one      *)
(* question at a time and take one answer to each: the rows implement         *)
(* AnsweredOnce.                                                               *)
THEOREM AnswersOnceCorrect == Spec => AnswersOnce
<1>1. Init => Promise!Init
  BY DEF Init, Promise!Init
<1>2. IInv /\ [Next]_vars => [Promise!Next]_(Promise!vars)
  <2>. SUFFICES ASSUME IInv, [Next]_vars PROVE PromiseStep
    BY PromiseIs
  <2>1. RowsStep
    BY StepOfRows
  <2>2. CASE UNCHANGED <<assignments, attempts>>
    BY <2>2 DEF PromiseStep, AskedRows, AnswerRow, AnswersTo
  <2>3. CASE Issued
    BY <2>3, IssuedAsks DEF IInv, PromiseStep, Promise!Next
  <2>4. ASSUME NEW a \in DOMAIN assignments, AnsweredBy(a) PROVE PromiseStep
    BY <2>4, AnsweredAnswers DEF IInv, PromiseStep, Promise!Next
  <2>. QED  BY <2>1, <2>2, <2>3, <2>4 DEF RowsStep
<1>. QED  BY <1>1, <1>2, NumericInvariant, PTL DEF Spec, AnswersOnce, Promise!Spec

-----------------------------------------------------------------------------
(* Recovery reads the rows one by one while others write.                      *)
OnePending ==
  \A a, b \in DOMAIN assignments :
    assignments[a].status = "pending" /\ assignments[b].status = "pending" => a = b

(* The assignments an instance has listed, and the pending one among them as   *)
(* it has read it or would read it now.                                        *)
Listed(c) == loc[c].todo \cup loc[c].done \cup loc[c].open
AwaitedTodo(c) == {a \in loc[c].todo : assignments[a].status = "pending"}
Awaited(c) == loc[c].open \cup AwaitedTodo(c)

(* The view an instance is on the way to was stored at some instant.  Until    *)
(* it has read the pending row, nothing was issued since it listed them.       *)
Reading(c) ==
  /\ Listed(c) \subseteq DOMAIN assignments
  /\ loc[c].todo \cap loc[c].done = {} /\ loc[c].todo \cap loc[c].open = {}
  /\ loc[c].done \cap loc[c].open = {}
  /\ \A a, b \in Awaited(c) : a = b
  /\ AwaitedTodo(c) # {} => Listed(c) = DOMAIN assignments
  /\ [done |-> Listed(c) \ Awaited(c), open |-> Awaited(c)] \in seen[c]

ReadInv(c) ==
  /\ \A a, b \in loc[c].open : a = b
  /\ pc[c] \in {"start_insert", "list"} => loc[c].done = {} /\ loc[c].open = {}
  /\ pc[c] = "load" => Reading(c)

ViewInv ==
  /\ OnePending /\ seen \in [Clients -> SUBSET [done : SUBSET Nat, open : SUBSET Nat]]
  /\ \A c \in Clients : ReadInv(c)

-----------------------------------------------------------------------------
(* A step keeps at most one assignment pending.                                *)
LEMMA OnePendingStep ==
  ASSUME IInv, OnePending, RowsStep
  PROVE  OnePending'
<1>. USE DEF IInv
<1>1. CASE UNCHANGED <<assignments, attempts>>
  BY <1>1 DEF OnePending
<1>2. CASE Issued
  <2>1. \A a \in DOMAIN assignments : assignments[a].status # "pending"
    BY <1>2 DEF Issued, Pending
  <2>2. \A a \in DOMAIN assignments' : assignments'[a].status = "pending" => a = Len(assignments) + 1
    BY <1>2, <2>1, IssuedRows
  <2>. QED  BY <2>2 DEF OnePending
<1>3. ASSUME NEW a \in DOMAIN assignments, AnsweredBy(a) PROVE OnePending'
  BY <1>3, AnswerRows DEF OnePending
<1>. QED  BY <1>1, <1>2, <1>3 DEF RowsStep

(* What others write leaves an instance on the way to a view that was stored.  *)
LEMMA ReadingStays ==
  ASSUME IInv, OnePending, RowsStep, NEW q \in Clients, Reading(q), loc'[q] = loc[q],
         \/ UNCHANGED assignments /\ seen'[q] = seen[q]
         \/ seen'[q] = seen[q] \cup {View(assignments')}
  PROVE  Reading(q)'
<1>. USE DEF IInv
<1>1. CASE UNCHANGED <<assignments, attempts>>
  <2>1. seen[q] \subseteq seen'[q]
    OBVIOUS
  <2>. QED  BY <1>1, <2>1 DEF Reading, Listed, Awaited, AwaitedTodo
<1>2. CASE Issued
  <2>1. \A a \in DOMAIN assignments : assignments[a].status # "pending"
    BY <1>2 DEF Issued, Pending
  <2>2. /\ DOMAIN assignments \subseteq DOMAIN assignments'
        /\ \A a \in DOMAIN assignments : assignments'[a] = assignments[a]
    BY <1>2, IssuedRows
  <2>3. loc[q].todo \subseteq DOMAIN assignments
    BY DEF Reading, Listed
  <2>4. Listed(q)' = Listed(q) /\ AwaitedTodo(q) = {} /\ AwaitedTodo(q)' = {} /\ Awaited(q)' = Awaited(q)
    BY <2>1, <2>2, <2>3 DEF Listed, Awaited, AwaitedTodo
  <2>5. seen[q] \subseteq seen'[q]
    OBVIOUS
  <2>. QED  BY <2>2, <2>4, <2>5 DEF Reading
<1>3. ASSUME NEW a \in DOMAIN assignments, AnsweredBy(a) PROVE Reading(q)'
  <2>1. assignments[a].status = "pending"
    BY <1>3 DEF AnsweredBy
  <2>2. /\ DOMAIN assignments' = DOMAIN assignments
        /\ assignments'[a].status = "completed"
        /\ \A b \in DOMAIN assignments \ {a} : assignments'[b] = assignments[b]
    BY <1>3, AnswerRows
  <2>3. loc[q].todo \subseteq DOMAIN assignments /\ Listed(q)' = Listed(q)
    BY DEF Reading, Listed
  <2>4. CASE a \notin loc[q].todo
    <3>1. AwaitedTodo(q)' = AwaitedTodo(q)
      BY <2>2, <2>3, <2>4 DEF AwaitedTodo
    <3>2. Awaited(q)' = Awaited(q) /\ seen[q] \subseteq seen'[q]
      BY <3>1 DEF Awaited
    <3>. QED  BY <2>2, <2>3, <3>1, <3>2 DEF Reading
  <2>5. CASE a \in loc[q].todo
    <3>1. AwaitedTodo(q) = {a} /\ loc[q].open = {} /\ Listed(q) = DOMAIN assignments
      <4>1. a \in AwaitedTodo(q)
        BY <2>1, <2>5 DEF AwaitedTodo
      <4>. QED  BY <2>5, <4>1 DEF Reading, Awaited
    <3>2. \A b \in DOMAIN assignments' : assignments'[b].status = "completed"
      <4>1. \A b \in DOMAIN assignments : assignments[b] \in Assignments
        BY ElementOfSeq, LenProperties DEF RowTypes
      <4>2. \A b \in DOMAIN assignments \ {a} : assignments[b].status # "pending"
        BY <2>1 DEF OnePending
      <4>3. \A b \in DOMAIN assignments \ {a} : assignments[b].status = "completed"
        BY <4>1, <4>2 DEF Assignments
      <4>. QED  BY <2>2, <4>3
    <3>3. AwaitedTodo(q)' = {} /\ Awaited(q)' = {}
      BY <2>2, <2>3, <3>1, <3>2 DEF AwaitedTodo, Awaited
    <3>4. View(assignments') = [done |-> DOMAIN assignments', open |-> {}]
      BY <3>2 DEF View, Done, Pending
    <3>5. assignments' # assignments
      BY <2>1, <2>2
    <3>6. [done |-> Listed(q)' \ Awaited(q)', open |-> Awaited(q)'] \in seen'[q]
      BY <2>2, <2>3, <3>1, <3>3, <3>4, <3>5
    <3>. QED  BY <2>2, <2>3, <3>3, <3>6 DEF Reading
  <2>. QED  BY <2>4, <2>5
<1>. QED  BY <1>1, <1>2, <1>3 DEF RowsStep

(* The same for everything that is kept about an instance at rest.             *)
LEMMA OthersStay ==
  ASSUME IInv, OnePending, RowsStep, NEW q \in Clients, ReadInv(q),
         pc'[q] = pc[q], loc'[q] = loc[q],
         \/ UNCHANGED assignments /\ seen'[q] = seen[q]
         \/ pc[q] = "load" => seen'[q] = seen[q] \cup {View(assignments')}
  PROVE  ReadInv(q)'
<1>1. CASE pc[q] = "load"
  <2>1. Reading(q)'
    BY <1>1, ReadingStays DEF ReadInv
  <2>. QED  BY <1>1, <2>1 DEF ReadInv
<1>2. CASE pc[q] # "load"
  BY <1>2 DEF ReadInv
<1>. QED  BY <1>1, <1>2

(* An instance that is not reading afterwards.                                 *)
LEMMA NotReading ==
  ASSUME IInv, ViewInv, RowsStep, NEW c \in Clients, NEW to \in Pcs, NEW l \in Locals,
         Become(c, to, l), to # "load",
         \A a, b \in l.open : a = b,
         to \in {"start_insert", "list"} => l.done = {} /\ l.open = {},
         seen' \in [Clients -> SUBSET [done : SUBSET Nat, open : SUBSET Nat]],
         \A q \in Clients \ {c} :
           \/ UNCHANGED assignments /\ seen'[q] = seen[q]
           \/ pc[q] = "load" => seen'[q] = seen[q] \cup {View(assignments')}
  PROVE  ViewInv'
<1>1. OnePending'
  BY OnePendingStep DEF ViewInv
<1>2. pc'[c] = to /\ loc'[c] = l
  BY DEF Become, IInv, ClientTypes
<1>3. ReadInv(c)'
  BY <1>2 DEF ReadInv
<1>4. ASSUME NEW q \in Clients \ {c} PROVE ReadInv(q)'
  <2>1. pc'[q] = pc[q] /\ loc'[q] = loc[q]
    BY DEF Become, IInv, ClientTypes
  <2>. QED  BY <2>1, OthersStay DEF ViewInv
<1>. QED  BY <1>1, <1>3, <1>4 DEF ViewInv

(* A view of the rows names assignments.                                       *)
LEMMA ViewType ==
  ASSUME RowTypes
  PROVE  /\ View(assignments) \in [done : SUBSET Nat, open : SUBSET Nat]
         /\ Pending(assignments) \subseteq DOMAIN assignments
         /\ Done(assignments) = DOMAIN assignments \ Pending(assignments)
<1>1. DOMAIN assignments \subseteq Nat /\ \A a \in DOMAIN assignments : assignments[a] \in Assignments
  BY ElementOfSeq, LenProperties DEF RowTypes
<1>2. \A a \in DOMAIN assignments : assignments[a].status \in {"pending", "completed"}
  BY <1>1 DEF Assignments
<1>. QED  BY <1>1, <1>2 DEF View, Done, Pending

(* The rows are listed: the view to come is that of this instant.              *)
LEMMA ListReads ==
  ASSUME IInv, ViewInv, RowsStep, NEW c \in Clients, List(c)
  PROVE  ViewInv'
<1>. USE DEF IInv
<1>1. CASE Raise(c) /\ UNCHANGED seen
  BY <1>1, NotReading, NoLocalsReady DEF Raise, List, db, Pcs, ViewInv, NoLocals
<1>2. CASE /\ Become(c, "load", [loc[c] EXCEPT !.todo = DOMAIN assignments])
           /\ seen' = [seen EXCEPT ![c] = {View(assignments)}]
  <2>1. OnePending'
    BY OnePendingStep DEF ViewInv
  <2>2. ASSUME NEW q \in Clients \ {c} PROVE ReadInv(q)'
    <3>1. pc'[q] = pc[q] /\ loc'[q] = loc[q] /\ seen'[q] = seen[q] /\ UNCHANGED assignments
      BY <1>2 DEF Become, ClientTypes, ViewInv, List, db
    <3>. QED  BY <3>1, OthersStay DEF ViewInv
  <2>3. /\ pc'[c] = "load" /\ loc'[c] = [loc[c] EXCEPT !.todo = DOMAIN assignments]
        /\ seen'[c] = {View(assignments)} /\ UNCHANGED assignments
    BY <1>2 DEF Become, ClientTypes, ViewInv, List, db
  <2>4. /\ loc'[c].todo = DOMAIN assignments /\ loc'[c].done = {} /\ loc'[c].open = {}
    <3>1. loc[c] \in Locals /\ loc[c].done = {} /\ loc[c].open = {}
      BY DEF ClientTypes, List, ViewInv, ReadInv
    <3>. QED  BY <2>3, <3>1 DEF Locals
  <2>5. /\ Listed(c)' = DOMAIN assignments /\ AwaitedTodo(c)' = Pending(assignments)
        /\ Awaited(c)' = Pending(assignments)
    BY <2>3, <2>4 DEF Listed, Awaited, AwaitedTodo, Pending
  <2>6. [done |-> Listed(c)' \ Awaited(c)', open |-> Awaited(c)'] = View(assignments)
    BY <2>5, ViewType DEF View
  <2>7. \A a, b \in Awaited(c)' : a = b
    BY <2>5 DEF ViewInv, OnePending, Pending
  <2>8. Reading(c)'
    BY <2>3, <2>4, <2>5, <2>6, <2>7 DEF Reading
  <2>9. ReadInv(c)'
    BY <2>3, <2>4, <2>8 DEF ReadInv
  <2>10. seen' \in [Clients -> SUBSET [done : SUBSET Nat, open : SUBSET Nat]]
    BY <1>2, ViewType DEF ViewInv
  <2>. QED  BY <2>1, <2>2, <2>9, <2>10 DEF ViewInv
<1>. QED  BY <1>1, <1>2 DEF List

(* A row is read: the view to come stays the same.                             *)
LEMMA LoadReads ==
  ASSUME IInv, ViewInv, RowsStep, NEW c \in Clients, Load(c)
  PROVE  ViewInv'
<1>. USE DEF IInv
<1>1. PICK a \in loc[c].todo :
        \/ Raise(c) /\ seen' = [seen EXCEPT ![c] = {}]
        \/ LET rest == [loc[c] EXCEPT !.todo = @ \ {a}] IN
           /\ Become(c, "load", IF assignments[a].status = "pending"
                                THEN [rest EXCEPT !.open = @ \cup {a}]
                                ELSE [rest EXCEPT !.done = @ \cup {a}])
           /\ UNCHANGED seen
  BY Zenon DEF Load
<1>2. UNCHANGED assignments /\ pc[c] = "load" /\ loc[c] \in Locals
  BY DEF Load, db, ClientTypes
<1>3. CASE Raise(c) /\ seen' = [seen EXCEPT ![c] = {}]
  <2>1. /\ seen' \in [Clients -> SUBSET [done : SUBSET Nat, open : SUBSET Nat]]
        /\ \A q \in Clients \ {c} : seen'[q] = seen[q]
    BY <1>3 DEF ViewInv
  <2>. QED  BY <1>2, <1>3, <2>1, NotReading, NoLocalsReady DEF Raise, Pcs, NoLocals
<1>4. CASE LET rest == [loc[c] EXCEPT !.todo = @ \ {a}] IN
           /\ Become(c, "load", IF assignments[a].status = "pending"
                                THEN [rest EXCEPT !.open = @ \cup {a}]
                                ELSE [rest EXCEPT !.done = @ \cup {a}])
           /\ UNCHANGED seen
  <2>. DEFINE rest == [loc[c] EXCEPT !.todo = @ \ {a}]
              l == IF assignments[a].status = "pending" THEN [rest EXCEPT !.open = @ \cup {a}]
                                                        ELSE [rest EXCEPT !.done = @ \cup {a}]
  <2>1. Become(c, "load", l) /\ UNCHANGED seen
    BY <1>4, Zenon
  <2>2. /\ l.todo = loc[c].todo \ {a}
        /\ assignments[a].status = "pending" => l.open = loc[c].open \cup {a} /\ l.done = loc[c].done
        /\ assignments[a].status # "pending" => l.open = loc[c].open /\ l.done = loc[c].done \cup {a}
    BY <1>2 DEF Locals
  <2>. HIDE DEF l
  <2>3. OnePending'
    BY OnePendingStep DEF ViewInv
  <2>4. ASSUME NEW q \in Clients \ {c} PROVE ReadInv(q)'
    <3>1. pc'[q] = pc[q] /\ loc'[q] = loc[q] /\ seen'[q] = seen[q]
      BY <2>1 DEF Become, ClientTypes
    <3>. QED  BY <1>2, <3>1, OthersStay DEF ViewInv
  <2>5. pc'[c] = "load" /\ loc'[c] = l /\ seen'[c] = seen[c]
    BY <2>1 DEF Become, ClientTypes
  <2>6. Reading(c)
    BY <1>2 DEF ViewInv, ReadInv
  <2>7. a \notin loc[c].done /\ a \notin loc[c].open
    BY <2>6 DEF Reading
  <2>8. Listed(c)' = Listed(c)
    BY <2>2, <2>5 DEF Listed
  <2>9. Awaited(c)' = Awaited(c) /\ AwaitedTodo(c)' \subseteq AwaitedTodo(c)
    BY <1>2, <2>2, <2>5 DEF Awaited, AwaitedTodo
  <2>10. /\ loc'[c].todo \cap loc'[c].done = {} /\ loc'[c].todo \cap loc'[c].open = {}
         /\ loc'[c].done \cap loc'[c].open = {}
    BY <2>2, <2>5, <2>6, <2>7 DEF Reading
  <2>11. Reading(c)'
    BY <1>2, <2>5, <2>6, <2>8, <2>9, <2>10 DEF Reading
  <2>12. \A x, y \in loc'[c].open : x = y
    BY <2>6, <2>9 DEF Awaited, Reading
  <2>13. ReadInv(c)'
    BY <2>5, <2>11, <2>12 DEF ReadInv
  <2>. QED  BY <2>1, <2>3, <2>4, <2>13 DEF ViewInv
<1>. QED  BY <1>1, <1>3, <1>4, Zenon

(* The other steps of an instance.                                             *)
LEMMA OthersRead ==
  ASSUME IInv, ViewInv, RowsStep, NEW c \in Clients,
         \/ StartInsert(c) \/ Recovered(c) \/ Decide(c) \/ SubmitRead(c) \/ HelpWrite(c) \/ Crash(c)
  PROVE  ViewInv'
<1>. USE DEF IInv
<1>1. /\ UNCHANGED assignments /\ loc[c] \in Locals
      /\ \A x, y \in loc[c].open : x = y
      /\ pc[c] = "start_insert" => loc[c].done = {} /\ loc[c].open = {}
  BY DEF StartInsert, Recovered, Decide, SubmitRead, HelpWrite, Crash, db, ClientTypes, ViewInv, ReadInv
<1>2. UNCHANGED seen \/ seen' = [seen EXCEPT ![c] = {}]
  BY Zenon DEF StartInsert, Recovered, Decide, SubmitRead, HelpWrite, Crash
<1>3. /\ seen' \in [Clients -> SUBSET [done : SUBSET Nat, open : SUBSET Nat]]
      /\ \A q \in Clients \ {c} : seen'[q] = seen[q]
  BY <1>2 DEF ViewInv
<1>4. PICK to \in {"idle", "list", "decide", "issue", "submit_read", "submit_write"}, l \in Locals :
        /\ Become(c, to, l)
        /\ l.open \in {{}, loc[c].open}
        /\ to = "list" => l.done = {} /\ l.open = {}
  <2>1. /\ NoLocals \in Locals /\ NoLocals.open = {}
        /\ [loc[c] EXCEPT !.at = now] \in Locals /\ [loc[c] EXCEPT !.at = now].open = loc[c].open
    BY <1>1, NoLocalsReady DEF NoLocals, Locals, RowTypes
  <2>2. CASE StartInsert(c)
    BY <1>1, <2>1, <2>2 DEF StartInsert, Raise
  <2>3. CASE Recovered(c)
    BY <1>1, <2>1, <2>3 DEF Recovered, Raise
  <2>4. CASE Decide(c)
    BY <1>1, <2>1, <2>4 DEF Decide, Raise
  <2>5. CASE SubmitRead(c)
    BY <1>1, <2>1, <2>5 DEF SubmitRead, Raise
  <2>6. CASE HelpWrite(c) \/ Crash(c)
    BY <1>1, <2>1, <2>6 DEF HelpWrite, Crash, Raise
  <2>. QED  BY <2>2, <2>3, <2>4, <2>5, <2>6
<1>. QED  BY <1>1, <1>3, <1>4, NotReading DEF Pcs

(* A call begins, or a transaction is committed.                               *)
LEMMA CallReads ==
  ASSUME IInv, ViewInv, RowsStep, RowTypes', NEW c \in Clients, NEW to \in {"idle", "start_insert", "list", "help_write"},
         NEW l \in Locals, Become(c, to, l), l.done = {}, l.open = {},
         UNCHANGED <<assignments, seen>> \/ Witness
  PROVE  ViewInv'
<1>1. View(assignments') \in [done : SUBSET Nat, open : SUBSET Nat]
  <2>1. /\ DOMAIN assignments' \subseteq Nat
    BY LenProperties DEF RowTypes
  <2>. QED  BY <2>1 DEF View, Done, Pending
<1>2. seen' \in [Clients -> SUBSET [done : SUBSET Nat, open : SUBSET Nat]]
  BY <1>1 DEF Witness, ViewInv
<1>3. ASSUME NEW q \in Clients \ {c}
      PROVE  \/ UNCHANGED assignments /\ seen'[q] = seen[q]
             \/ pc[q] = "load" => seen'[q] = seen[q] \cup {View(assignments')}
  BY DEF Witness
<1>. QED  BY <1>2, <1>3, NotReading DEF Pcs

(* What an instance keeps at the beginning of a call.                          *)
Fresh(l) == l \in Locals /\ l.done = {} /\ l.open = {}

(* Every call begins with these.                                               *)
LEMMA CallsAreFresh ==
  ASSUME NEW t \in Times, NEW d \in Decisions, NEW w \in Nat
  PROVE  /\ Fresh(NoLocals) /\ Fresh([NoLocals EXCEPT !.asOf = t])
         /\ Fresh([NoLocals EXCEPT !.op = "deliver", !.decision = d, !.asOf = t])
         /\ Fresh([NoLocals EXCEPT !.op = "submit", !.want = w, !.asOf = t])
         /\ Fresh([NoLocals EXCEPT !.op = "help", !.want = w])
BY NoLocalsReady DEF Fresh, Locals, NoLocals, Ops

(* Every step keeps every recovery on the way to a view that was stored.       *)
LEMMA ViewStep ==
  ASSUME IInv, IInv', ViewInv, [Next]_vars
  PROVE  ViewInv'
<1>1. RowsStep /\ RowTypes' /\ ClientTypes /\ RowTypes
  BY StepOfRows DEF IInv
<1>2. CASE UNCHANGED <<assignments, pc, loc, seen>>
  <2>1. OnePending'
    BY <1>2 DEF ViewInv, OnePending
  <2>2. ASSUME NEW c \in Clients PROVE ReadInv(c)'
    <3>1. pc'[c] = pc[c] /\ loc'[c] = loc[c] /\ seen'[c] = seen[c]
      BY <1>2
    <3>. QED  BY <1>1, <1>2, <3>1, OthersStay DEF ViewInv
  <2>. QED  BY <1>2, <2>1, <2>2 DEF ViewInv
<1>3. ASSUME NEW c \in Clients, NEW to \in {"idle", "start_insert", "list", "help_write"},
             NEW l, Fresh(l), Become(c, to, l), UNCHANGED <<assignments, seen>> \/ Witness
      PROVE  ViewInv'
  BY <1>1, <1>3, CallReads DEF Fresh
<1>4. DOMAIN assignments \subseteq Nat
  BY <1>1, LenProperties DEF RowTypes
<1>5. ASSUME NEW c \in Clients, NEW t \in Times, Start(c, t) \/ Resume(c, t)
      PROVE  ViewInv'
  <2>1. PICK to \in {"list", "start_insert"} : Become(c, to, [NoLocals EXCEPT !.asOf = t])
    BY <1>5, Zenon DEF Start, Resume, Call
  <2>2. UNCHANGED <<assignments, seen>>
    BY <1>5 DEF Start, Resume, Call, db
  <2>3. Fresh([NoLocals EXCEPT !.asOf = t])
    BY NoLocalsReady DEF Fresh, Locals, NoLocals
  <2>. QED  BY <1>3, <2>1, <2>2, <2>3
<1>6. ASSUME NEW c \in Clients, NEW t \in Times, NEW d \in Decisions, Deliver(c, d, t)
      PROVE  ViewInv'
  <2>1. Become(c, "list", [NoLocals EXCEPT !.op = "deliver", !.decision = d, !.asOf = t])
    BY <1>6, Zenon DEF Deliver, Call
  <2>2. UNCHANGED <<assignments, seen>>
    BY <1>6 DEF Deliver, Call, db
  <2>. QED  BY <1>3, <2>1, <2>2, CallsAreFresh
<1>7. ASSUME NEW c \in Clients, NEW t \in Times, NEW a \in DOMAIN assignments, Submit(c, a, t)
      PROVE  ViewInv'
  <2>1. Become(c, "list", [NoLocals EXCEPT !.op = "submit", !.want = a, !.asOf = t])
    BY <1>7, Zenon DEF Submit, Call
  <2>2. UNCHANGED <<assignments, seen>>
    BY <1>7 DEF Submit, Call, db
  <2>3. Fresh([NoLocals EXCEPT !.op = "submit", !.want = a, !.asOf = t])
    BY <1>4, NoLocalsReady DEF Fresh, Locals, NoLocals, Ops
  <2>. QED  BY <1>3, <2>1, <2>2, <2>3
<1>8. ASSUME NEW c \in Clients, NEW a \in DOMAIN assignments, ReportHelp(c, a)
      PROVE  ViewInv'
  <2>1. Become(c, "help_write", [NoLocals EXCEPT !.op = "help", !.want = a])
    BY <1>8, Zenon DEF ReportHelp
  <2>2. UNCHANGED <<assignments, seen>>
    BY <1>8 DEF ReportHelp, db
  <2>3. Fresh([NoLocals EXCEPT !.op = "help", !.want = a])
    BY <1>4, NoLocalsReady DEF Fresh, Locals, NoLocals, Ops
  <2>. QED  BY <1>3, <2>1, <2>2, <2>3
<1>9. ASSUME NEW c \in Clients, Issue(c) \/ SubmitWrite(c)
      PROVE  ViewInv'
  <2>1. Witness
    BY <1>9 DEF Issue, SubmitWrite
  <2>2. CASE Raise(c)
    <3>1. Fresh(NoLocals)
      BY NoLocalsReady DEF Fresh, NoLocals
    <3>. QED  BY <1>3, <2>1, <2>2, <3>1 DEF Raise
  <2>3. CASE Become(c, "list", [NoLocals EXCEPT !.asOf = loc[c].asOf])
    <3>1. loc[c].asOf \in Times
      BY <1>1 DEF ClientTypes, Locals
    <3>2. Fresh([NoLocals EXCEPT !.asOf = loc[c].asOf])
      BY <3>1, NoLocalsReady DEF Fresh, Locals, NoLocals
    <3>. QED  BY <1>3, <2>1, <2>3, <3>2
  <2>. QED  BY <1>9, <2>2, <2>3, Zenon DEF Issue, SubmitWrite
<1>10. Tick \/ UNCHANGED vars => UNCHANGED <<assignments, pc, loc, seen>>
  BY DEF Tick, vars, db
<1>. QED  BY <1>1, <1>2, <1>5, <1>6, <1>7, <1>8, <1>9, <1>10, ListReads, LoadReads, OthersRead DEF Next

(* The recoveries stay on the way to stored views in every execution.          *)
THEOREM ViewInvariant == Spec => []ViewInv
<1>1. Init => ViewInv
  BY DEF Init, ViewInv, OnePending, ReadInv, NoLocals
<1>2. IInv /\ IInv' /\ ViewInv /\ [Next]_vars => ViewInv'
  BY ViewStep
<1>. QED  BY <1>1, <1>2, NumericInvariant, PTL DEF Spec

(* A recovery that has read its last row shows what was stored at some instant *)
(* since it began, whatever was issued and answered in between.                *)
THEOREM ViewWasTrueCorrect == Spec => []ViewWasTrue
<1>1. IInv /\ ViewInv => ViewWasTrue
  <2>. SUFFICES ASSUME ViewInv, NEW c \in Clients, pc[c] = "load", loc[c].todo = {}
       PROVE  [done |-> loc[c].done, open |-> loc[c].open] \in seen[c]
    BY DEF ViewWasTrue
  <2>1. Reading(c)
    BY DEF ViewInv, ReadInv
  <2>2. Awaited(c) = loc[c].open /\ Listed(c) \ Awaited(c) = loc[c].done
    BY <2>1 DEF Reading, Awaited, AwaitedTodo, Listed
  <2>. QED  BY <2>1, <2>2 DEF Reading
<1>. QED  BY <1>1, NumericInvariant, ViewInvariant, PTL

(* No recovery finds two pending assignments.                                  *)
THEOREM NeverTwoPendingCorrect == Spec => []NeverTwoPending
<1>1. ViewInv => NeverTwoPending
  <2>. SUFFICES ASSUME ViewInv, NEW c \in Clients PROVE Cardinality(loc[c].open) <= 1
    BY DEF NeverTwoPending
  <2>1. loc[c].open = {} \/ \E a : loc[c].open = {a}
    <3>1. \A a, b \in loc[c].open : a = b
      BY DEF ViewInv, ReadInv
    <3>2. ASSUME NEW a \in loc[c].open PROVE loc[c].open = {a}
      BY <3>1
    <3>. QED  BY <3>2
  <2>2. CASE loc[c].open = {}
    BY <2>2, FS_EmptySet
  <2>3. ASSUME NEW a, loc[c].open = {a} PROVE Cardinality(loc[c].open) <= 1
    <3>1. Cardinality({a}) = 1
      BY FS_Singleton
    <3>. QED  BY <2>3, <3>1
  <2>. QED  BY <2>1, <2>2, <2>3
<1>. QED  BY <1>1, ViewInvariant, PTL
=============================================================================
