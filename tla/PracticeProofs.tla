---------------------------- MODULE PracticeProofs ----------------------------
(***************************************************************************)
(* Proofs about CoursePractice, for any request threads and any saved       *)
(* questions: help that is on the student's screen has its event in the     *)
(* table, and so an answer given with it is never counted as unassisted.    *)
(* Copies of a question are excepted: see CopyAnswerIsAssisted.  A second   *)
(* invariant, on the times of the rows, gives that re-reading is asked for  *)
(* exactly when it is due.                                                  *)
(***************************************************************************)
EXTENDS CoursePractice, SequenceTheorems, FiniteSetTheorems, TLAPS

-----------------------------------------------------------------------------
(* The table shows help for a question.                                        *)
Recorded(i) == \E e \in events : e.item = i

(* The table shows it after the step.                                          *)
StillRecorded(i) == \E e \in events' : e.item = i

Locals  == [item : Items \cup {NoItem}, help : SUBSET Help, at : Nat, informed : SUBSET Help,
            apart : BOOLEAN]
Rows    == [item : Items, correct : BOOLEAN, help : SUBSET Help, at : Nat, informed : SUBSET Help]

TypeInv ==
  /\ pc \in [Clients -> Pcs] /\ loc \in [Clients -> Locals] /\ stamped \in Nat
  /\ displayed \subseteq [item : Items, kind : Help]
  /\ \A p \in Clients : /\ pc[p] = "event" => loc[p].help # {}
                        /\ pc[p] \in SubmitPcs \cup {"submit_event", "submit_answer"} => loc[p].item \in Items
  /\ attempts \in Seq(Rows) /\ \A e \in events : e.kind \in Help

(* The question was not saved twice, and its help was on the screen when the   *)
(* answer was sent.                                                            *)
Uncopied(i) == \A j \in Items : Original[j] = Original[i] => j = i
Knows(r)    == r.informed # {} /\ Uncopied(r.item)

(* An answer that was given with the help on the screen finds its event when   *)
(* it looks for it, and keeps what it found.                                   *)
ClientInv(p) ==
  /\ pc[p] = "reveal_answer" /\ loc[p].item \in Items => Recorded(loc[p].item)
  /\ pc[p] = "submit_answer" => Recorded(loc[p].item)
  /\ pc[p] = "submit_shown" /\ Knows(loc[p]) => Recorded(loc[p].item)
  /\ pc[p] \in {"submit_stamp", "submit_attempt"} /\ Knows(loc[p]) => loc[p].help # {}

ShownIsRecorded ==
  /\ \A d \in displayed : Recorded(d.item)
  /\ \A p \in Clients : ClientInv(p)

HelpIsKept == \A k \in DOMAIN attempts : Knows(attempts[k]) => attempts[k].help # {}

IInv == TypeInv /\ ShownIsRecorded /\ HelpIsKept

-----------------------------------------------------------------------------
(* Recording help never takes the last event of a question away.               *)
LEMMA RecordedStays ==
  ASSUME NEW i, NEW kind, NEW at, AddEvent(i, kind, at)
  PROVE  /\ \A j : Recorded(j) => StillRecorded(j)
         /\ StillRecorded(i)
<1>. DEFINE older == {e \in events : e.item = i /\ e.kind = kind}
            new == [item |-> i, kind |-> kind,
                    at |-> IF \E e \in older : e.at > at THEN (CHOOSE e \in older : TRUE).at ELSE at]
<1>1. events' = (events \ older) \cup {new}
  BY DEF AddEvent
<1>2. new.item = i
  OBVIOUS
<1>3. \A e \in older : e.item = i
  OBVIOUS
<1>. HIDE DEF older, new
<1>. QED  BY <1>1, <1>2, <1>3 DEF Recorded, StillRecorded

(* What is added has the kind it is added with.                                *)
LEMMA AddedKinds ==
  ASSUME NEW i, NEW kind \in Help, NEW at, AddEvent(i, kind, at), \A e \in events : e.kind \in Help
  PROVE  \A e \in events' : e.kind \in Help
BY DEF AddEvent

(* A thread moves on; the others stay where they are.                          *)
LEMMA Moves ==
  ASSUME TypeInv, ShownIsRecorded, NEW p \in Clients, NEW to \in Pcs, NEW l \in Locals,
         Become(p, to, l) \/ \E S \in SUBSET Clients : BecomeStored(p, to, l, S),
         to = "event" => l.help # {},
         to \in SubmitPcs \cup {"submit_event", "submit_answer"} => l.item \in Items,
         \A j : Recorded(j) => StillRecorded(j)
  PROVE  /\ pc' \in [Clients -> Pcs] /\ loc' \in [Clients -> Locals]
         /\ pc'[p] = to /\ loc'[p] = l
         /\ \A q \in Clients : /\ pc'[q] = "event" => loc'[q].help # {}
                               /\ pc'[q] \in SubmitPcs \cup {"submit_event", "submit_answer"}
                                    => loc'[q].item \in Items
         /\ \A q \in Clients \ {p} : ClientInv(q)'
<1>1. /\ pc' = [pc EXCEPT ![p] = to] /\ loc' \in [Clients -> Locals] /\ loc'[p] = l
      /\ \A q \in Clients \ {p} : /\ loc'[q].item = loc[q].item /\ loc'[q].help = loc[q].help
                                  /\ loc'[q].informed = loc[q].informed
  <2>1. CASE Become(p, to, l)
    BY <2>1 DEF Become, TypeInv
  <2>2. ASSUME NEW S \in SUBSET Clients, BecomeStored(p, to, l, S)
        PROVE  /\ pc' = [pc EXCEPT ![p] = to] /\ loc' \in [Clients -> Locals] /\ loc'[p] = l
               /\ \A q \in Clients \ {p} : /\ loc'[q].item = loc[q].item /\ loc'[q].help = loc[q].help
                                           /\ loc'[q].informed = loc[q].informed
    <3>1. \A q \in Clients : loc[q] \in Locals
      BY DEF TypeInv
    <3>2. \A q \in Clients : /\ [loc[q] EXCEPT !.apart = @ /\ q \notin S] \in Locals
                             /\ [loc[q] EXCEPT !.apart = @ /\ q \notin S].item = loc[q].item
                             /\ [loc[q] EXCEPT !.apart = @ /\ q \notin S].help = loc[q].help
                             /\ [loc[q] EXCEPT !.apart = @ /\ q \notin S].informed = loc[q].informed
      BY <3>1 DEF Locals
    <3>. QED  BY <2>2, <3>2 DEF BecomeStored
  <2>. QED  BY <2>1, <2>2
<1>2. pc' \in [Clients -> Pcs] /\ pc'[p] = to /\ \A q \in Clients \ {p} : pc'[q] = pc[q]
  BY <1>1 DEF TypeInv
<1>3. \A q \in Clients : /\ pc'[q] = "event" => loc'[q].help # {}
                         /\ pc'[q] \in SubmitPcs \cup {"submit_event", "submit_answer"}
                              => loc'[q].item \in Items
  BY <1>1, <1>2 DEF TypeInv
<1>4. ASSUME NEW q \in Clients \ {p} PROVE ClientInv(q)'
  <2>1. /\ pc'[q] = pc[q] /\ loc'[q].item = loc[q].item /\ loc'[q].help = loc[q].help
        /\ loc'[q].informed = loc[q].informed
    BY <1>1, <1>2
  <2>2. ClientInv(q)
    BY DEF ShownIsRecorded
  <2>. QED  BY <2>1, <2>2 DEF ClientInv, Recorded, StillRecorded, Knows
<1>. QED  BY <1>1, <1>2, <1>3, <1>4

(* The initial values of a thread.                                             *)
LEMMA NoLocalsType == NoLocals \in Locals
BY DEF NoLocals, Locals, Help

-----------------------------------------------------------------------------
(* A step of a thread that leaves the screen and the answers alone.            *)
LEMMA Goes ==
  ASSUME IInv, NEW p \in Clients, NEW to \in Pcs, NEW l \in Locals,
         Become(p, to, l) \/ \E S \in SUBSET Clients : BecomeStored(p, to, l, S),
         to = "event" => l.help # {},
         to \in SubmitPcs \cup {"submit_event", "submit_answer"} => l.item \in Items,
         \A j : Recorded(j) => StillRecorded(j),
         \A e \in events' : e.kind \in Help,
         UNCHANGED <<attempts, displayed>>, stamped' \in Nat,
         to = "reveal_answer" /\ l.item \in Items => StillRecorded(l.item),
         to = "submit_answer" => StillRecorded(l.item),
         to = "submit_shown" /\ Knows(l) => StillRecorded(l.item),
         to \in {"submit_stamp", "submit_attempt"} /\ Knows(l) => l.help # {}
  PROVE  IInv'
<1>. USE DEF IInv
<1>1. /\ pc' \in [Clients -> Pcs] /\ loc' \in [Clients -> Locals]
      /\ pc'[p] = to /\ loc'[p] = l
      /\ \A q \in Clients : /\ pc'[q] = "event" => loc'[q].help # {}
                            /\ pc'[q] \in SubmitPcs \cup {"submit_event", "submit_answer"}
                                 => loc'[q].item \in Items
      /\ \A q \in Clients \ {p} : ClientInv(q)'
  BY Moves
<1>2. TypeInv'
  BY <1>1 DEF TypeInv
<1>3. ClientInv(p)'
  BY <1>1 DEF ClientInv, Recorded, StillRecorded
<1>4. ShownIsRecorded'
  BY <1>1, <1>3 DEF ShownIsRecorded, Recorded, StillRecorded
<1>5. HelpIsKept'
  BY DEF HelpIsKept
<1>. QED  BY <1>2, <1>4, <1>5

(* Help is asked for: the first step of open_lesson and of reveal.             *)
LEMMA AskStep ==
  ASSUME IInv, NEW p \in Clients, NEW i \in Items \cup {NoItem}, NEW h \in Help, Ask(p, i, h)
  PROVE  IInv'
<1>. DEFINE l == [NoLocals EXCEPT !.item = i, !.help = {h},
                                  !.at = IF h = "notes" THEN stamped ELSE 0]
<1>1. l \in Locals /\ l.help # {}
  BY DEF NoLocals, Locals, IInv, TypeInv
<1>2. Become(p, "event", l) /\ UNCHANGED <<events, attempts, displayed, stamped>>
  BY DEF Ask, rows
<1>. HIDE DEF l
<1>3. /\ \A j : Recorded(j) => StillRecorded(j)
      /\ \A e \in events' : e.kind \in Help
      /\ stamped' \in Nat
  BY <1>2 DEF Recorded, StillRecorded, IInv, TypeInv
<1>. QED  BY <1>1, <1>2, <1>3, Goes DEF Pcs, SubmitPcs

(* The event of help is stored before the help is returned.                    *)
LEMMA EventStep ==
  ASSUME IInv, NEW p \in Clients, Event(p)
  PROVE  IInv'
<1>. DEFINE kind == CHOOSE k \in loc[p].help : TRUE
            l == [NoLocals EXCEPT !.item = loc[p].item, !.help = {kind}]
            T == {q \in Clients : pc[q] \in SubmitPcs}
<1>1. loc[p] \in Locals /\ loc[p].help # {}
  BY DEF Event, IInv, TypeInv
<1>2. kind \in Help
  BY <1>1 DEF Locals
<1>3. l \in Locals /\ l.item = loc[p].item
  BY <1>1, <1>2, NoLocalsType DEF Locals
<1>4. /\ AddEvent(loc[p].item, kind, loc[p].at)
      /\ Become(p, "reveal_answer", l) \/ BecomeStored(p, "reveal_answer", l, T)
      /\ UNCHANGED <<attempts, stamped, displayed>>
  BY DEF Event
<1>5. \A e \in events' : e.kind \in Help
  BY <1>4, <1>2, AddedKinds DEF IInv, TypeInv
<1>6. T \in SUBSET Clients
  OBVIOUS
<1>. HIDE DEF l, kind, T
<1>7. (\A j : Recorded(j) => StillRecorded(j)) /\ StillRecorded(l.item)
  BY <1>3, <1>4, RecordedStays
<1>. QED  BY <1>3, <1>4, <1>5, <1>6, <1>7, Goes DEF Pcs, SubmitPcs, IInv, TypeInv

(* What a student has seen is help.                                            *)
LEMMA InformedType ==
  ASSUME TypeInv, NEW i
  PROVE  Informed(i) \subseteq Help
BY DEF TypeInv, Informed

(* An answer is sent: what the student has on the screen is on record.         *)
LEMMA SubmitStep ==
  ASSUME IInv, NEW p \in Clients, NEW i \in Items, Submit(p, i)
  PROVE  IInv'
<1>. DEFINE l == [NoLocals EXCEPT !.item = i, !.informed = Informed(i)]
<1>1. l \in Locals /\ l.item = i /\ l.informed = Informed(i)
  <2>1. Informed(i) \subseteq Help
    BY InformedType DEF IInv
  <2>. QED  BY <2>1 DEF Locals, NoLocals
<1>2. Become(p, "submit_shown", l) /\ UNCHANGED <<events, attempts, displayed, stamped>>
  BY DEF Submit, rows
<1>3. Informed(i) # {} /\ Uncopied(i) => Recorded(i)
  <2>. SUFFICES ASSUME Informed(i) # {}, Uncopied(i) PROVE Recorded(i)
    OBVIOUS
  <2>1. PICK d \in displayed : Original[d.item] = Original[i]
    BY DEF Informed
  <2>2. d.item \in Items /\ Recorded(d.item)
    BY DEF IInv, TypeInv, ShownIsRecorded
  <2>. QED  BY <2>1, <2>2 DEF Uncopied
<1>. HIDE DEF l
<1>4. /\ \A j : Recorded(j) => StillRecorded(j)
      /\ \A e \in events' : e.kind \in Help
      /\ stamped' \in Nat
  BY <1>2 DEF Recorded, StillRecorded, IInv, TypeInv
<1>. QED  BY <1>1, <1>2, <1>3, <1>4, Goes DEF Pcs, SubmitPcs, Knows

(* The help shown for the question is read, then the clock.                    *)
LEMMA SubmitShownStep ==
  ASSUME IInv, NEW p \in Clients, SubmitShown(p)
  PROVE  IInv'
<1>. DEFINE shown == {e \in events : e.item = loc[p].item}
            l == [loc[p] EXCEPT !.help = {e.kind : e \in shown}]
<1>1. loc[p] \in Locals /\ loc[p].item \in Items /\ ClientInv(p) /\ pc[p] = "submit_shown"
  BY DEF SubmitShown, IInv, TypeInv, SubmitPcs, ShownIsRecorded
<1>2. {e.kind : e \in shown} \subseteq Help
  BY DEF IInv, TypeInv
<1>3. /\ l \in Locals /\ l.item = loc[p].item /\ l.informed = loc[p].informed
      /\ l.help = {e.kind : e \in shown}
  BY <1>1, <1>2 DEF Locals
<1>4. Knows(loc[p]) => {e.kind : e \in shown} # {}
  BY <1>1 DEF ClientInv, Recorded, StillRecorded
<1>5. Become(p, "submit_stamp", l) /\ UNCHANGED <<events, attempts, displayed, stamped>>
  BY DEF SubmitShown, rows
<1>. HIDE DEF l, shown
<1>6. /\ \A j : Recorded(j) => StillRecorded(j)
      /\ \A e \in events' : e.kind \in Help
      /\ stamped' \in Nat
  BY <1>5 DEF Recorded, StillRecorded, IInv, TypeInv
<1>. QED  BY <1>1, <1>3, <1>4, <1>5, <1>6, Goes DEF Pcs, SubmitPcs, Knows

(* The clock is read.                                                          *)
LEMMA SubmitStampStep ==
  ASSUME IInv, NEW p \in Clients, SubmitStamp(p)
  PROVE  IInv'
<1>. DEFINE l == [loc[p] EXCEPT !.at = stamped + 1]
<1>1. loc[p] \in Locals /\ loc[p].item \in Items /\ ClientInv(p) /\ pc[p] = "submit_stamp"
  BY DEF SubmitStamp, IInv, TypeInv, SubmitPcs, ShownIsRecorded
<1>2. /\ l \in Locals /\ l.item = loc[p].item /\ l.informed = loc[p].informed
      /\ l.help = loc[p].help
  BY <1>1 DEF Locals, IInv, TypeInv
<1>3. /\ Become(p, "submit_attempt", l) /\ UNCHANGED <<events, attempts, displayed>>
      /\ stamped' \in Nat
  BY DEF SubmitStamp, rows, IInv, TypeInv
<1>4. Knows(l) => l.help # {}
  BY <1>1, <1>2 DEF ClientInv, Recorded, StillRecorded, Knows
<1>. HIDE DEF l
<1>5. /\ \A j : Recorded(j) => StillRecorded(j)
      /\ \A e \in events' : e.kind \in Help
  BY <1>3 DEF Recorded, StillRecorded, IInv, TypeInv
<1>. QED  BY <1>1, <1>2, <1>3, <1>4, <1>5, Goes DEF Pcs, SubmitPcs

(* The answer is stored with the help that was found.                          *)
LEMMA SubmitAttemptStep ==
  ASSUME IInv, NEW p \in Clients, SubmitAttempt(p)
  PROVE  IInv'
<1>. DEFINE l == [NoLocals EXCEPT !.item = loc[p].item]
            T == {q \in Clients : pc[q] = "event"}
<1>1. loc[p] \in Locals /\ loc[p].item \in Items /\ ClientInv(p) /\ pc[p] = "submit_attempt"
  BY DEF SubmitAttempt, IInv, TypeInv, SubmitPcs, ShownIsRecorded
<1>2. l \in Locals /\ l.item = loc[p].item
  BY <1>1, NoLocalsType DEF Locals
<1>3. PICK correct \in BOOLEAN :
        attempts' = Append(attempts, [item |-> loc[p].item, correct |-> correct,
                                      help |-> loc[p].help, at |-> loc[p].at,
                                      informed |-> loc[p].informed])
  BY DEF SubmitAttempt
<1>. DEFINE row == [item |-> loc[p].item, correct |-> correct, help |-> loc[p].help,
                    at |-> loc[p].at, informed |-> loc[p].informed]
<1>4. row \in Rows /\ (Knows(row) => row.help # {})
  BY <1>1 DEF Locals, Rows, ClientInv, Recorded, StillRecorded, Knows
<1>5. attempts' = Append(attempts, row)
  BY <1>3
<1>6. T \in SUBSET Clients /\ BecomeStored(p, "submit_event", l, T) /\ UNCHANGED <<events, displayed, stamped>>
  BY DEF SubmitAttempt
<1>. HIDE DEF row, l, T
<1>7. attempts' \in Seq(Rows) /\ HelpIsKept'
  <2>1. /\ attempts \in Seq(Rows) /\ attempts' \in Seq(Rows) /\ Len(attempts) \in Nat
        /\ Len(attempts') = Len(attempts) + 1
        /\ \A i \in 1..Len(attempts) : attempts'[i] = attempts[i]
        /\ attempts'[Len(attempts) + 1] = row
    BY <1>4, <1>5, AppendProperties, LenProperties DEF IInv, TypeInv
  <2>2. DOMAIN attempts = 1..Len(attempts) /\ DOMAIN attempts' = 1..(Len(attempts) + 1)
    BY <2>1, LenProperties
  <2>3. \A i \in 1..Len(attempts) : Knows(attempts'[i]) => attempts'[i].help # {}
    BY <2>1, <2>2 DEF IInv, HelpIsKept
  <2>4. \A i \in DOMAIN attempts' : i \in 1..Len(attempts) \/ i = Len(attempts) + 1
    BY <2>1, <2>2
  <2>. QED  BY <1>4, <2>1, <2>3, <2>4 DEF HelpIsKept
<1>8. \A j : Recorded(j) => StillRecorded(j)
  BY <1>6 DEF Recorded, StillRecorded
<1>9. /\ pc' \in [Clients -> Pcs] /\ loc' \in [Clients -> Locals]
      /\ pc'[p] = "submit_event" /\ loc'[p] = l
      /\ \A q \in Clients : /\ pc'[q] = "event" => loc'[q].help # {}
                            /\ pc'[q] \in SubmitPcs \cup {"submit_event", "submit_answer"}
                                 => loc'[q].item \in Items
      /\ \A q \in Clients \ {p} : ClientInv(q)'
  BY <1>1, <1>2, <1>6, <1>8, Moves DEF Pcs, SubmitPcs, IInv
<1>10. TypeInv'
  BY <1>6, <1>7, <1>9 DEF TypeInv, IInv
<1>11. ClientInv(p)'
  BY <1>9 DEF ClientInv, Recorded, StillRecorded
<1>12. ShownIsRecorded'
  BY <1>6, <1>8, <1>9, <1>11 DEF ShownIsRecorded, IInv, Recorded, StillRecorded
<1>. QED  BY <1>7, <1>10, <1>12 DEF IInv

(* The solution is recorded as shown, then shown.                              *)
LEMMA SubmitEventStep ==
  ASSUME IInv, NEW p \in Clients, SubmitEvent(p)
  PROVE  IInv'
<1>1. loc[p] \in Locals /\ loc[p].item \in Items
  BY DEF SubmitEvent, IInv, TypeInv
<1>2. /\ AddEvent(loc[p].item, "solution", 0) /\ Become(p, "submit_answer", loc[p])
      /\ UNCHANGED <<attempts, stamped, displayed>>
  BY DEF SubmitEvent
<1>3. \A e \in events' : e.kind \in Help
  BY <1>2 DEF AddEvent, IInv, TypeInv, Help
<1>4. (\A j : Recorded(j) => StillRecorded(j)) /\ StillRecorded(loc[p].item)
  BY <1>2, RecordedStays
<1>. QED  BY <1>1, <1>2, <1>3, <1>4, Goes DEF Pcs, SubmitPcs, IInv, TypeInv

(* A text reaches the student.                                                 *)
LEMMA ShowStep ==
  ASSUME IInv, NEW p \in Clients, NEW i \in Items \cup {NoItem},
         NEW K \in SUBSET Help, i \in Items => Recorded(i),
         displayed' = displayed \cup [item : {i} \ {NoItem}, kind : K],
         Become(p, "idle", NoLocals), UNCHANGED <<attempts, events, stamped>>
  PROVE  IInv'
<1>1. \A j : Recorded(j) => StillRecorded(j)
  BY DEF Recorded, StillRecorded
<1>2. /\ pc' \in [Clients -> Pcs] /\ loc' \in [Clients -> Locals]
      /\ pc'[p] = "idle" /\ loc'[p] = NoLocals
      /\ \A q \in Clients : /\ pc'[q] = "event" => loc'[q].help # {}
                            /\ pc'[q] \in SubmitPcs \cup {"submit_event", "submit_answer"}
                                 => loc'[q].item \in Items
      /\ \A q \in Clients \ {p} : ClientInv(q)'
  BY <1>1, Moves, NoLocalsType DEF Pcs, SubmitPcs, IInv
<1>3. ClientInv(p)'
  BY <1>2 DEF ClientInv, Recorded, StillRecorded
<1>4. TypeInv'
  BY <1>2 DEF IInv, TypeInv
<1>5. \A d \in displayed' : StillRecorded(d.item)
  BY <1>1, PracticeAssumption DEF IInv, ShownIsRecorded
<1>6. ShownIsRecorded'
  BY <1>2, <1>3, <1>5 DEF ShownIsRecorded, Recorded, StillRecorded
<1>7. HelpIsKept'
  BY DEF IInv, HelpIsKept
<1>. QED  BY <1>4, <1>6, <1>7 DEF IInv

-----------------------------------------------------------------------------
(* The invariant holds of every execution, restarts included.                  *)
THEOREM PracticeInvariant == Spec => []IInv
<1>1. Init => IInv
  BY NoLocalsType, EmptySeq DEF Init, IInv, TypeInv, ShownIsRecorded, ClientInv, HelpIsKept, Pcs, SubmitPcs, Recorded, StillRecorded
<1>2. IInv /\ [Next]_vars => IInv'
  <2>. SUFFICES ASSUME IInv, [Next]_vars PROVE IInv'
    OBVIOUS
  <2>1. ASSUME NEW p \in Clients, OpenLesson(p) PROVE IInv'
    BY <2>1, AskStep DEF OpenLesson, Help
  <2>2. ASSUME NEW p \in Clients, NEW i \in Items, NEW h \in Reveals, Reveal(p, i, h) PROVE IInv'
    BY <2>2, AskStep, RevealsAssumption DEF Reveal
  <2>3. ASSUME NEW p \in Clients, NEW i \in Items, Submit(p, i) PROVE IInv'
    BY <2>3, SubmitStep
  <2>4. ASSUME NEW p \in Clients, Serve(p) PROVE IInv'
    <3>1. CASE RevealAnswer(p)
      <4>1. /\ loc[p].item \in Items \cup {NoItem} /\ loc[p].help \in SUBSET Help
            /\ loc[p].item \in Items => Recorded(loc[p].item)
        BY <3>1 DEF RevealAnswer, IInv, TypeInv, Locals, ShownIsRecorded, ClientInv, Recorded, StillRecorded
      <4>. QED  BY <3>1, <4>1, ShowStep DEF RevealAnswer, rows
    <3>2. CASE SubmitAnswer(p)
      <4>1. loc[p].item \in Items /\ Recorded(loc[p].item)
        BY <3>2 DEF SubmitAnswer, IInv, TypeInv, ShownIsRecorded, ClientInv, Recorded, StillRecorded
      <4>2. {loc[p].item} \ {NoItem} = {loc[p].item}
        BY <4>1, PracticeAssumption
      <4>3. {"solution"} \in SUBSET Help
        BY DEF Help
      <4>4. /\ displayed' = displayed \cup [item : {loc[p].item} \ {NoItem}, kind : {"solution"}]
            /\ Become(p, "idle", NoLocals) /\ UNCHANGED <<attempts, events, stamped>>
        BY <3>2, <4>2 DEF SubmitAnswer, rows
      <4>. QED  BY <4>1, <4>3, <4>4, ShowStep
    <3>. QED  BY <2>4, <3>1, <3>2, EventStep, SubmitShownStep, SubmitStampStep,
                 SubmitAttemptStep, SubmitEventStep DEF Serve
  <2>5. CASE Restart
    BY <2>5, NoLocalsType DEF Restart, rows, IInv, TypeInv, ShownIsRecorded, ClientInv, HelpIsKept,
                              Recorded, Pcs, SubmitPcs
  <2>6. CASE UNCHANGED vars
    BY <2>6 DEF vars, rows, IInv, TypeInv, ShownIsRecorded, ClientInv, HelpIsKept, Recorded, StillRecorded
  <2>. QED  BY <2>1, <2>2, <2>3, <2>4, <2>5, <2>6 DEF Next
<1>. QED  BY <1>1, <1>2, PTL DEF Spec

(* However reveals and answers overlap and whatever a restart cuts off, an     *)
(* answer given with the help on the screen is not counted as unassisted,      *)
(* unless its question was saved twice.                                        *)
THEOREM EvidenceOfUncopied ==
  Spec => [](\A k \in DOMAIN attempts :
               attempts[k].correct /\ ~Assisted(k) /\ Uncopied(attempts[k].item)
                 => attempts[k].informed = {})
<1>1. IInv => \A k \in DOMAIN attempts :
                attempts[k].correct /\ ~Assisted(k) /\ Uncopied(attempts[k].item)
                  => attempts[k].informed = {}
  BY DEF IInv, HelpIsKept, Knows, Assisted
<1>. QED  BY <1>1, PracticeInvariant, PTL

(* In a topic where no question was saved twice, no answer is.                 *)
THEOREM EvidenceIsUnassistedCorrect ==
  ASSUME \A i \in Items : Uncopied(i)
  PROVE  Spec => []EvidenceIsUnassisted
<1>1. IInv => EvidenceIsUnassisted
  <2>1. IInv => \A k \in DOMAIN attempts : attempts[k].item \in Items
    <3>1. IInv => DOMAIN attempts = 1..Len(attempts) /\ attempts \in Seq(Rows)
      BY LenProperties DEF IInv, TypeInv
    <3>2. IInv => \A k \in 1..Len(attempts) : attempts[k] \in Rows
      BY <3>1, ElementOfSeq
    <3>. QED  BY <3>1, <3>2 DEF Rows
  <2>. QED  BY <2>1 DEF IInv, HelpIsKept, Knows, EvidenceIsUnassisted, Assisted
<1>. QED  BY <1>1, PracticeInvariant, PTL

-----------------------------------------------------------------------------
(* The second invariant: times.  Every row is stamped with a time that has    *)
(* passed, a call that is apart from the rows of the other kind is stamped    *)
(* after those stored before it began, and what the history variable since    *)
(* says of the last attempt can be read off the stamps.                       *)
Latest == attempts[Len(attempts)].at

OneOfEach == \A e, f \in events : e.item = f.item /\ e.kind = f.kind => e = f

Timely(p) ==
  /\ pc[p] = "event" => loc[p].at <= stamped /\ \E h \in Help : loc[p].help = {h}
  /\ pc[p] = "event" /\ "notes" \in loc[p].help /\ loc[p].apart /\ attempts # <<>>
       => loc[p].at >= Latest
  /\ pc[p] = "submit_attempt" =>
       loc[p].at <= stamped /\ (loc[p].apart => \A e \in LessonOpenings : e.at < loc[p].at)

SinceIsSeen ==
  attempts # <<>> => /\ since.quiet => \A e \in LessonOpenings : e.at < Latest
                     /\ since.reopened => \E e \in LessonOpenings : e.at >= Latest

StudyInv ==
  /\ OneOfEach /\ \A e \in events : e.at \in Nat
  /\ \A e \in LessonOpenings : e.at <= stamped
  /\ \A k \in DOMAIN attempts : attempts[k].at <= stamped
  /\ \A p \in Clients : Timely(p)
  /\ SinceIsSeen

(* What a step of another thread does to a thread at most.                    *)
Still(q) ==
  /\ pc'[q] = pc[q] /\ loc'[q].at = loc[q].at /\ loc'[q].help = loc[q].help
  /\ loc'[q].apart => loc[q].apart

(* A thread that moves on leaves the others alone.                            *)
LEMMA Alone ==
  ASSUME TypeInv, NEW p \in Clients, NEW to \in Pcs, NEW l \in Locals, Become(p, to, l)
  PROVE  pc'[p] = to /\ loc'[p] = l /\ \A q \in Clients \ {p} : Still(q)
BY DEF Become, TypeInv, Still

(* A thread that stores a row marks the calls that are not apart from it.     *)
LEMMA Apart ==
  ASSUME TypeInv, NEW p \in Clients, NEW to \in Pcs, NEW l \in Locals, NEW S,
         BecomeStored(p, to, l, S)
  PROVE  /\ pc'[p] = to /\ loc'[p] = l
         /\ \A q \in Clients \ {p} : Still(q) /\ (q \in S => ~loc'[q].apart)
<1>1. pc'[p] = to /\ loc'[p] = l /\ \A q \in Clients \ {p} : pc'[q] = pc[q]
  BY DEF BecomeStored, TypeInv
<1>2. ASSUME NEW q \in Clients \ {p}
      PROVE  /\ loc'[q].at = loc[q].at /\ loc'[q].help = loc[q].help
             /\ loc'[q].apart = (loc[q].apart /\ q \notin S)
  <2>1. loc'[q] = [loc[q] EXCEPT !.apart = @ /\ q \notin S] /\ loc[q] \in Locals
    BY DEF BecomeStored, TypeInv
  <2>. QED  BY <2>1 DEF Locals
<1>. QED  BY <1>1, <1>2 DEF Still

(* What recording an event does to the events, and to the openings of the     *)
(* lesson.                                                                    *)
LEMMA EventsAdded ==
  ASSUME OneOfEach, \A e \in events : e.at \in Nat,
         NEW i, NEW kind, NEW at \in Nat, AddEvent(i, kind, at)
  PROVE  /\ OneOfEach' /\ \A e \in events' : e.at \in Nat
         /\ kind # "notes" => LessonOpenings' = LessonOpenings
         /\ kind = "notes" =>
              /\ \A e \in LessonOpenings' : e.at = at \/ \E f \in LessonOpenings : e.at = f.at
              /\ \A f \in LessonOpenings : \E e \in LessonOpenings' : e.at >= f.at
              /\ \E e \in LessonOpenings' : e.at >= at
<1>. DEFINE older == {e \in events : e.item = i /\ e.kind = kind}
            time == IF \E e \in older : e.at > at THEN (CHOOSE e \in older : TRUE).at ELSE at
            new == [item |-> i, kind |-> kind, at |-> time]
<1>1. events' = (events \ older) \cup {new}
  BY DEF AddEvent
<1>2. time \in Nat /\ time >= at /\ (\A e \in older : time >= e.at)
      /\ (time = at \/ \E e \in older : time = e.at)
  <2>1. \A e, f \in older : e = f
    BY DEF OneOfEach
  <2>2. CASE \E e \in older : e.at > at
    <3>1. PICK e \in older : e.at > at
      BY <2>2
    <3>2. (CHOOSE f \in older : TRUE) \in older
      BY <3>1
    <3>3. (CHOOSE f \in older : TRUE) = e
      BY <2>1, <3>1, <3>2, Zenon
    <3>4. time = e.at /\ e.at \in Nat
      BY <3>1, <3>3
    <3>. QED  BY <2>1, <3>1, <3>4
  <2>3. CASE ~\E e \in older : e.at > at
    <3>1. time = at /\ \A e \in older : ~(e.at > at) /\ e.at \in Nat
      BY <2>3
    <3>. HIDE DEF time, older
    <3>. QED  BY <3>1
  <2>. QED  BY <2>2, <2>3
<1>. HIDE DEF time
<1>3. new.item = i /\ new.kind = kind /\ new.at = time
  OBVIOUS
<1>. HIDE DEF new
<1>4. OneOfEach'
  <2>1. ASSUME NEW e \in events', NEW f \in events', e.item = f.item, e.kind = f.kind
        PROVE  e = f
    <3>1. CASE e = new /\ f = new
      BY <3>1
    <3>2. CASE e # new /\ f # new
      BY <1>1, <2>1, <3>2 DEF OneOfEach
    <3>3. CASE e = new /\ f # new
      BY <1>1, <1>3, <2>1, <3>3
    <3>4. CASE e # new /\ f = new
      BY <1>1, <1>3, <2>1, <3>4
    <3>. QED  BY <3>1, <3>2, <3>3, <3>4
  <2>. QED  BY <2>1, Zenon DEF OneOfEach
<1>5. \A e \in events' : e.at \in Nat
  BY <1>1, <1>2, <1>3
<1>6. ASSUME kind # "notes" PROVE LessonOpenings' = LessonOpenings
  BY <1>1, <1>3, <1>6 DEF LessonOpenings
<1>7. ASSUME kind = "notes"
      PROVE  /\ \A e \in LessonOpenings' : e.at = at \/ \E f \in LessonOpenings : e.at = f.at
             /\ \A f \in LessonOpenings : \E e \in LessonOpenings' : e.at >= f.at
             /\ \E e \in LessonOpenings' : e.at >= at
  <2>1. new \in LessonOpenings' /\ older \subseteq LessonOpenings
    BY <1>1, <1>3, <1>7 DEF LessonOpenings
  <2>2. \A e \in LessonOpenings' : e = new \/ e \in LessonOpenings
    BY <1>1 DEF LessonOpenings
  <2>3. \A f \in LessonOpenings : f \in older \/ f \in LessonOpenings'
    BY <1>1 DEF LessonOpenings
  <2>4. \A f \in LessonOpenings : f.at \in Nat
    BY DEF LessonOpenings
  <2>. HIDE DEF older
  <2>5. \A e \in LessonOpenings' : e.at = at \/ \E f \in LessonOpenings : e.at = f.at
    BY <1>2, <1>3, <2>1, <2>2, Zenon
  <2>6. \A f \in LessonOpenings : \E e \in LessonOpenings' : e.at >= f.at
    <3>1. TAKE f \in LessonOpenings
    <3>2. CASE f \in older
      BY <1>2, <1>3, <2>1, <3>2, Zenon
    <3>3. CASE f \in LessonOpenings'
      BY <2>4, <3>3
    <3>. QED  BY <2>3, <3>2, <3>3, Zenon
  <2>7. \E e \in LessonOpenings' : e.at >= at
    BY <1>2, <1>3, <2>1, Zenon
  <2>. QED  BY <2>5, <2>6, <2>7
<1>. QED  BY <1>4, <1>5, <1>6, <1>7

(* A step of p that leaves the rows alone keeps the other threads on time.    *)
LEMMA RowsStay ==
  ASSUME StudyInv, TypeInv, NEW p \in Clients, UNCHANGED <<rows, since>>,
         stamped' \in Nat, stamped <= stamped',
         \A q \in Clients \ {p} : Still(q), Timely(p)', TypeInv'
  PROVE  StudyInv'
<1>1. \A e \in LessonOpenings : e.at <= stamped'
  BY DEF StudyInv, TypeInv, LessonOpenings
<1>2. \A k \in DOMAIN attempts : attempts[k].at <= stamped'
  <2>1. \A k \in DOMAIN attempts : attempts[k].at \in Nat
    <3>1. DOMAIN attempts = 1..Len(attempts) /\ attempts \in Seq(Rows)
      BY LenProperties DEF TypeInv
    <3>2. \A k \in 1..Len(attempts) : attempts[k] \in Rows
      BY <3>1, ElementOfSeq
    <3>. QED  BY <3>1, <3>2 DEF Rows
  <2>. QED  BY <2>1 DEF StudyInv, TypeInv
<1>3. ASSUME NEW q \in Clients \ {p} PROVE Timely(q)'
  <2>1. loc[q].at \in Nat /\ stamped \in Nat
    BY DEF TypeInv, Locals
  <2>2. Still(q) /\ Timely(q)
    BY DEF StudyInv
  <2>3. LessonOpenings' = LessonOpenings /\ Latest' = Latest /\ attempts' = attempts
    BY DEF rows, LessonOpenings, Latest
  <2>4. (loc[q].at <= stamped) => (loc'[q].at <= stamped')
    BY <2>1, <2>2 DEF Still
  <2>. QED  BY <2>2, <2>3, <2>4 DEF Timely, Still
<1>. QED  BY <1>1, <1>2, <1>3 DEF StudyInv, rows, OneOfEach, LessonOpenings, SinceIsSeen, Latest

(* A lesson opening is stamped when it begins.                                *)
LEMMA StudyAsk ==
  ASSUME StudyInv, TypeInv, TypeInv', NEW p \in Clients, NEW i \in Items \cup {NoItem},
         NEW h \in Help, Ask(p, i, h)
  PROVE  StudyInv'
<1>. DEFINE l == [NoLocals EXCEPT !.item = i, !.help = {h},
                                  !.at = IF h = "notes" THEN stamped ELSE 0]
<1>1. /\ l \in Locals /\ l.help = {h} /\ l.at <= stamped
      /\ h = "notes" => l.at = stamped
  <2>1. stamped \in Nat /\ NoLocals \in Locals
    BY NoLocalsType DEF TypeInv
  <2>2. /\ l \in Locals /\ l.help = {h}
        /\ l.at = IF h = "notes" THEN stamped ELSE 0
    BY <2>1 DEF NoLocals, Locals
  <2>. QED  BY <2>1, <2>2
<1>2. Become(p, "event", l) /\ UNCHANGED <<rows, stamped, since>>
  BY DEF Ask
<1>. HIDE DEF l
<1>3. pc'[p] = "event" /\ loc'[p] = l /\ \A q \in Clients \ {p} : Still(q)
  BY <1>1, <1>2, Alone DEF Pcs, SubmitPcs
<1>4. attempts # <<>> => stamped >= Latest
  <2>1. DOMAIN attempts = 1..Len(attempts) /\ Len(attempts) \in Nat /\ attempts \in Seq(Rows)
    BY LenProperties DEF TypeInv
  <2>2. attempts # <<>> => Len(attempts) \in DOMAIN attempts
    BY <2>1
  <2>3. attempts # <<>> => attempts[Len(attempts)] \in Rows
    BY <2>1, <2>2, ElementOfSeq
  <2>. QED  BY <2>2, <2>3 DEF StudyInv, Latest, TypeInv, Rows
<1>5. Timely(p)'
  <2>1. attempts' = attempts /\ Latest' = Latest
    BY <1>2 DEF rows, Latest
  <2>. QED  BY <1>1, <1>2, <1>3, <1>4, <2>1 DEF Timely
<1>. QED  BY <1>2, <1>3, <1>5, RowsStay DEF TypeInv

(* An answer is stamped after every opening of the lesson that was recorded   *)
(* before.                                                                    *)
LEMMA StudyStamp ==
  ASSUME StudyInv, TypeInv, TypeInv', NEW p \in Clients, SubmitStamp(p)
  PROVE  StudyInv'
<1>. DEFINE l == [loc[p] EXCEPT !.at = stamped + 1]
<1>1. l \in Locals /\ l.at = stamped + 1
  <2>1. loc[p] \in Locals /\ stamped \in Nat
    BY DEF TypeInv
  <2>. QED  BY <2>1 DEF Locals
<1>2. Become(p, "submit_attempt", l) /\ UNCHANGED <<rows, since>> /\ stamped' = stamped + 1
  BY DEF SubmitStamp
<1>. HIDE DEF l
<1>3. pc'[p] = "submit_attempt" /\ loc'[p] = l /\ \A q \in Clients \ {p} : Still(q)
  BY <1>1, <1>2, Alone DEF Pcs, SubmitPcs
<1>4. \A e \in LessonOpenings' : e.at < stamped + 1
  BY <1>2 DEF StudyInv, LessonOpenings, rows, TypeInv
<1>5. Timely(p)'
  BY <1>1, <1>2, <1>3, <1>4 DEF Timely, TypeInv
<1>. QED  BY <1>2, <1>3, <1>5, RowsStay DEF TypeInv

(* A step that leaves the rows and the clock alone and goes neither to an      *)
(* event nor to an attempt.                                                   *)
LEMMA StudyElsewhere ==
  ASSUME StudyInv, TypeInv, TypeInv', NEW p \in Clients, NEW to \in Pcs \ {"event", "submit_attempt"},
         NEW l \in Locals, Become(p, to, l), UNCHANGED <<rows, stamped, since>>
  PROVE  StudyInv'
<1>1. pc'[p] = to /\ \A q \in Clients \ {p} : Still(q)
  BY Alone
<1>2. Timely(p)'
  BY <1>1 DEF Timely
<1>3. stamped' = stamped /\ stamped \in Nat /\ UNCHANGED <<rows, since>>
  BY DEF TypeInv
<1>. QED  BY <1>1, <1>2, <1>3, RowsStay

(* The stamp of the last attempt is a number.                                 *)
LEMMA LatestStamp ==
  ASSUME TypeInv, StudyInv, attempts # <<>>
  PROVE  Latest \in Nat /\ Latest <= stamped
<1>1. DOMAIN attempts = 1..Len(attempts) /\ Len(attempts) \in Nat /\ attempts \in Seq(Rows)
  BY LenProperties DEF TypeInv
<1>2. Len(attempts) \in DOMAIN attempts
  BY <1>1
<1>3. attempts[Len(attempts)] \in Rows
  BY <1>1, <1>2, ElementOfSeq
<1>. QED  BY <1>2, <1>3 DEF StudyInv, Latest, Rows

(* An opening of the lesson is recorded: no answer under way is apart from it  *)
(* any more, and it is later than the last one if none came between.          *)
LEMMA StudyEvent ==
  ASSUME StudyInv, TypeInv, TypeInv', NEW p \in Clients, Event(p)
  PROVE  StudyInv'
<1>. DEFINE kind == CHOOSE k \in loc[p].help : TRUE
            l == [NoLocals EXCEPT !.item = loc[p].item, !.help = {kind}]
            T == {q \in Clients : pc[q] \in SubmitPcs}
            at == loc[p].at
<1>1. PICK h \in Help : loc[p].help = {h} /\ at <= stamped /\ at \in Nat
  BY DEF Event, StudyInv, Timely, TypeInv, Locals
<1>2. kind = h
  BY <1>1
<1>3. l \in Locals
  <2>1. loc[p].item \in Items \cup {NoItem} /\ {kind} \subseteq Help
    BY <1>2 DEF TypeInv, Locals
  <2>. HIDE DEF kind
  <2>. QED  BY <2>1, NoLocalsType DEF Locals
<1>4. AddEvent(loc[p].item, h, at) /\ UNCHANGED <<attempts, stamped>> /\ pc[p] = "event"
  BY <1>2, Zenon DEF Event
<1>5. /\ h = "notes" => /\ BecomeStored(p, "reveal_answer", l, T)
                        /\ since' = [quiet |-> FALSE, reopened |-> since.reopened \/ loc[p].apart]
      /\ h # "notes" => Become(p, "reveal_answer", l) /\ UNCHANGED since
  BY <1>2, Zenon DEF Event
<1>. HIDE DEF l, kind
<1>6. /\ OneOfEach' /\ \A e \in events' : e.at \in Nat
      /\ h # "notes" => LessonOpenings' = LessonOpenings
      /\ h = "notes" =>
           /\ \A e \in LessonOpenings' : e.at = at \/ \E f \in LessonOpenings : e.at = f.at
           /\ \A f \in LessonOpenings : \E e \in LessonOpenings' : e.at >= f.at
           /\ \E e \in LessonOpenings' : e.at >= at
  <2>1. OneOfEach /\ \A e \in events : e.at \in Nat
    BY DEF StudyInv
  <2>. QED  BY <1>1, <1>4, <2>1, EventsAdded
<1>7. \A k \in DOMAIN attempts' : attempts'[k].at <= stamped'
  BY <1>4 DEF StudyInv
<1>8. CASE h # "notes"
  <2>1. pc'[p] = "reveal_answer" /\ \A q \in Clients \ {p} : Still(q)
    BY <1>3, <1>5, <1>8, Alone DEF Pcs, SubmitPcs
  <2>2. LessonOpenings' = LessonOpenings /\ Latest' = Latest /\ since' = since
    BY <1>4, <1>5, <1>6, <1>8 DEF Latest
  <2>3. ASSUME NEW q \in Clients PROVE Timely(q)'
    <3>1. CASE q = p
      BY <2>1, <3>1 DEF Timely
    <3>2. CASE q # p
      BY <1>4, <2>1, <2>2, <3>2 DEF StudyInv, Timely, Still
    <3>. QED  BY <3>1, <3>2
  <2>4. (\A e \in LessonOpenings' : e.at <= stamped') /\ SinceIsSeen'
    BY <1>4, <2>2 DEF StudyInv, SinceIsSeen
  <2>. QED  BY <1>6, <1>7, <2>3, <2>4 DEF StudyInv
<1>9. CASE h = "notes"
  <2>1. /\ pc'[p] = "reveal_answer"
        /\ \A q \in Clients \ {p} : Still(q) /\ (q \in T => ~loc'[q].apart)
    BY <1>3, <1>5, <1>9, Apart DEF Pcs, SubmitPcs
  <2>2. Latest' = Latest /\ attempts' = attempts
    BY <1>4 DEF Latest
  <2>3. ASSUME NEW q \in Clients PROVE Timely(q)'
    <3>1. CASE q = p
      BY <2>1, <3>1 DEF Timely
    <3>2. CASE q # p /\ pc[q] = "submit_attempt"
      <4>1. q \in T /\ pc'[q] = "submit_attempt" /\ ~loc'[q].apart /\ loc'[q].at = loc[q].at
        BY <2>1, <3>2 DEF Still, SubmitPcs
      <4>. QED  BY <1>4, <3>2, <4>1 DEF StudyInv, Timely
    <3>3. CASE q # p /\ pc[q] # "submit_attempt"
      BY <1>4, <2>1, <2>2, <3>3 DEF StudyInv, Timely, Still
    <3>. QED  BY <3>1, <3>2, <3>3
  <2>4. \A e \in LessonOpenings' : e.at <= stamped'
    BY <1>1, <1>4, <1>6, <1>9 DEF StudyInv
  <2>5. SinceIsSeen'
    <3>1. SUFFICES ASSUME attempts # <<>>, since.reopened \/ loc[p].apart
                   PROVE  \E e \in LessonOpenings' : e.at >= Latest
      <4>1. ~since'.quiet /\ since'.reopened = (since.reopened \/ loc[p].apart)
        BY <1>5, <1>9
      <4>. QED  BY <2>2, <4>1 DEF SinceIsSeen
    <3>2. Latest \in Nat /\ \A e \in LessonOpenings' : e.at \in Nat
      BY <1>6, <3>1, LatestStamp DEF LessonOpenings
    <3>3. \A f \in LessonOpenings : f.at \in Nat
      BY DEF StudyInv, LessonOpenings
    <3>4. CASE since.reopened
      <4>1. PICK f \in LessonOpenings : f.at >= Latest
        BY <3>1, <3>4 DEF StudyInv, SinceIsSeen
      <4>2. PICK e \in LessonOpenings' : e.at >= f.at
        BY <1>6, <1>9
      <4>3. e.at >= Latest
        BY <3>2, <3>3, <4>1, <4>2
      <4>. QED  BY <4>3
    <3>5. CASE loc[p].apart
      <4>1. at >= Latest
        BY <1>1, <1>4, <1>9, <3>1, <3>5 DEF StudyInv, Timely
      <4>2. PICK e \in LessonOpenings' : e.at >= at
        BY <1>6, <1>9
      <4>3. e.at >= Latest
        BY <1>1, <3>2, <4>1, <4>2
      <4>. QED  BY <4>3
    <3>. QED  BY <3>1, <3>4, <3>5
  <2>. QED  BY <1>6, <1>7, <2>3, <2>4, <2>5 DEF StudyInv
<1>. QED  BY <1>8, <1>9

(* The solution of an answered question opens no lesson.                      *)
LEMMA StudySolution ==
  ASSUME StudyInv, TypeInv, TypeInv', NEW p \in Clients, SubmitEvent(p)
  PROVE  StudyInv'
<1>1. /\ AddEvent(loc[p].item, "solution", 0) /\ Become(p, "submit_answer", loc[p])
      /\ UNCHANGED <<attempts, stamped, since>>
  BY DEF SubmitEvent
<1>2. OneOfEach' /\ (\A e \in events' : e.at \in Nat) /\ LessonOpenings' = LessonOpenings
  BY <1>1, EventsAdded DEF StudyInv
<1>3. pc'[p] = "submit_answer" /\ \A q \in Clients \ {p} : Still(q)
  BY <1>1, Alone DEF Pcs, SubmitPcs, TypeInv
<1>4. Latest' = Latest
  BY <1>1 DEF Latest
<1>5. ASSUME NEW q \in Clients PROVE Timely(q)'
  <2>1. CASE q = p
    BY <1>3, <2>1 DEF Timely
  <2>2. CASE q # p
    BY <1>1, <1>2, <1>3, <1>4, <2>2 DEF StudyInv, Timely, Still
  <2>. QED  BY <2>1, <2>2
<1>6. SinceIsSeen' /\ \A e \in LessonOpenings' : e.at <= stamped'
  BY <1>1, <1>2, <1>4 DEF StudyInv, SinceIsSeen
<1>7. \A k \in DOMAIN attempts' : attempts'[k].at <= stamped'
  BY <1>1 DEF StudyInv
<1>. QED  BY <1>2, <1>5, <1>6, <1>7 DEF StudyInv

(* An answer is stored: no opening under way is apart from it any more, and it *)
(* is later than all of them if none was stored since it was sent.            *)
LEMMA StudyAttempt ==
  ASSUME StudyInv, TypeInv, TypeInv', NEW p \in Clients, SubmitAttempt(p)
  PROVE  StudyInv'
<1>. DEFINE l == [NoLocals EXCEPT !.item = loc[p].item]
            T == {q \in Clients : pc[q] = "event"}
<1>1. l \in Locals
  BY NoLocalsType DEF Locals, TypeInv
<1>2. /\ BecomeStored(p, "submit_event", l, T) /\ UNCHANGED <<events, stamped>>
      /\ since' = [quiet |-> loc[p].apart, reopened |-> FALSE] /\ pc[p] = "submit_attempt"
  BY DEF SubmitAttempt
<1>3. PICK row : attempts' = Append(attempts, row) /\ row.at = loc[p].at /\ row \in Rows
  <2>1. PICK correct \in BOOLEAN :
          attempts' = Append(attempts, [item |-> loc[p].item, correct |-> correct,
                                        help |-> loc[p].help, at |-> loc[p].at,
                                        informed |-> loc[p].informed])
    BY DEF SubmitAttempt
  <2>2. loc[p] \in Locals /\ loc[p].item \in Items
    BY <1>2 DEF TypeInv, SubmitPcs
  <2>. QED  BY <2>1, <2>2 DEF Locals, Rows
<1>. HIDE DEF l
<1>4. /\ pc'[p] = "submit_event"
      /\ \A q \in Clients \ {p} : Still(q) /\ (q \in T => ~loc'[q].apart)
  BY <1>1, <1>2, Apart DEF Pcs, SubmitPcs
<1>5. /\ attempts \in Seq(Rows) /\ Len(attempts) \in Nat /\ DOMAIN attempts = 1..Len(attempts)
      /\ Len(attempts') = Len(attempts) + 1 /\ DOMAIN attempts' = 1..(Len(attempts) + 1)
      /\ \A k \in 1..Len(attempts) : attempts'[k] = attempts[k]
      /\ attempts'[Len(attempts) + 1] = row
  BY <1>3, AppendProperties, LenProperties DEF TypeInv
<1>6. Latest' = loc[p].at
  BY <1>3, <1>5 DEF Latest
<1>7. loc[p].at <= stamped /\ (loc[p].apart => \A e \in LessonOpenings : e.at < loc[p].at)
  BY <1>2 DEF StudyInv, Timely
<1>8. LessonOpenings' = LessonOpenings
  BY <1>2 DEF LessonOpenings
<1>9. \A k \in DOMAIN attempts' : attempts'[k].at <= stamped'
  <2>1. TAKE k \in DOMAIN attempts'
  <2>2. CASE k \in 1..Len(attempts)
    BY <1>2, <1>5, <2>2 DEF StudyInv
  <2>3. CASE k = Len(attempts) + 1
    BY <1>2, <1>3, <1>5, <1>7, <2>3
  <2>. QED  BY <1>5, <2>2, <2>3
<1>10. ASSUME NEW q \in Clients PROVE Timely(q)'
  <2>1. CASE q = p
    BY <1>4, <2>1 DEF Timely
  <2>2. CASE q # p /\ pc[q] = "event"
    <3>1. pc'[q] = "event" /\ ~loc'[q].apart
      BY <1>4, <2>2 DEF Still
    <3>. QED  BY <1>2, <1>4, <2>2, <3>1 DEF StudyInv, Timely, Still
  <2>3. CASE q # p /\ pc[q] # "event"
    BY <1>2, <1>4, <1>8, <2>3 DEF StudyInv, Timely, Still
  <2>. QED  BY <2>1, <2>2, <2>3
<1>11. SinceIsSeen'
  BY <1>2, <1>6, <1>7, <1>8 DEF SinceIsSeen
<1>12. /\ OneOfEach' /\ \A e \in events' : e.at \in Nat
       /\ \A e \in LessonOpenings' : e.at <= stamped'
  BY <1>2, <1>8 DEF StudyInv, OneOfEach
<1>. QED  BY <1>9, <1>10, <1>11, <1>12 DEF StudyInv

(* Both invariants hold of every execution.                                   *)
THEOREM StudyInvariant == Spec => [](IInv /\ StudyInv)
<1>1. Init => StudyInv
  BY DEF Init, StudyInv, OneOfEach, LessonOpenings, Timely, SinceIsSeen
<1>2. IInv /\ IInv' /\ StudyInv /\ [Next]_vars => StudyInv'
  <2>. SUFFICES ASSUME TypeInv, TypeInv', StudyInv, [Next]_vars PROVE StudyInv'
    BY DEF IInv
  <2>1. ASSUME NEW p \in Clients, OpenLesson(p) PROVE StudyInv'
    BY <2>1, StudyAsk DEF OpenLesson, Help
  <2>2. ASSUME NEW p \in Clients, NEW i \in Items, NEW h \in Reveals, Reveal(p, i, h) PROVE StudyInv'
    BY <2>2, StudyAsk, RevealsAssumption DEF Reveal
  <2>3. ASSUME NEW p \in Clients, NEW i \in Items, Submit(p, i) PROVE StudyInv'
    <3>1. [NoLocals EXCEPT !.item = i, !.informed = Informed(i)] \in Locals
      BY InformedType, NoLocalsType DEF Locals, NoLocals
    <3>. QED  BY <2>3, <3>1, StudyElsewhere DEF Submit, Pcs, SubmitPcs
  <2>4. ASSUME NEW p \in Clients, Serve(p) PROVE StudyInv'
    <3>1. CASE RevealAnswer(p)
      BY <3>1, NoLocalsType, StudyElsewhere DEF RevealAnswer, Pcs, SubmitPcs
    <3>2. CASE SubmitAnswer(p)
      BY <3>2, NoLocalsType, StudyElsewhere DEF SubmitAnswer, Pcs, SubmitPcs
    <3>3. CASE SubmitShown(p)
      <4>. DEFINE shown == {e \in events : e.item = loc[p].item}
                  l == [loc[p] EXCEPT !.help = {e.kind : e \in shown}]
      <4>1. {e.kind : e \in shown} \subseteq Help
        BY DEF TypeInv
      <4>2. l \in Locals
        BY <4>1 DEF TypeInv, Locals
      <4>3. Become(p, "submit_stamp", l) /\ UNCHANGED <<rows, stamped, since>>
        BY <3>3 DEF SubmitShown
      <4>. HIDE DEF l
      <4>. QED  BY <4>2, <4>3, StudyElsewhere DEF Pcs, SubmitPcs
    <3>. QED  BY <2>4, <3>1, <3>2, <3>3, StudyEvent, StudyStamp, StudyAttempt, StudySolution DEF Serve
  <2>5. CASE Restart
    BY <2>5 DEF Restart, rows, StudyInv, Timely, OneOfEach, LessonOpenings, SinceIsSeen, Latest
  <2>6. CASE UNCHANGED vars
    BY <2>6 DEF vars, rows, StudyInv, Timely, OneOfEach, LessonOpenings, SinceIsSeen, Latest
  <2>. QED  BY <2>1, <2>2, <2>3, <2>4, <2>5, <2>6 DEF Next
<1>. QED  BY <1>1, <1>2, PracticeInvariant, PTL DEF Spec

-----------------------------------------------------------------------------
(* Two wrong answers at the end are at least two trailing errors.             *)
LEMMA TwoErrors ==
  ASSUME TypeInv, Len(attempts) >= 2,
         ~attempts[Len(attempts)].correct, ~attempts[Len(attempts) - 1].correct
  PROVE  Cardinality(TrailingErrors) \in Nat /\ Cardinality(TrailingErrors) >= 2
<1>. DEFINE n == Len(attempts)
            two == {n - 1, n}
<1>1. n \in Nat /\ DOMAIN attempts = 1..n
  BY LenProperties DEF TypeInv
<1>2. IsFiniteSet(TrailingErrors)
  <2>1. IsFiniteSet(1..n)
    BY <1>1, FS_Interval
  <2>2. TrailingErrors \subseteq 1..n
    BY <1>1 DEF TrailingErrors
  <2>. QED  BY <2>1, <2>2, FS_Subset, Zenon
<1>3. two \subseteq TrailingErrors
  BY <1>1 DEF TrailingErrors
<1>4. Cardinality(two) = 2
  <2>1. IsFiniteSet({n - 1}) /\ Cardinality({n - 1}) = 1
    BY FS_Singleton
  <2>. HIDE DEF n
  <2>2. two = {n - 1} \cup {n} /\ n \notin {n - 1}
    BY <1>1
  <2>3. Cardinality(two) = Cardinality({n - 1}) + 1
    BY <2>1, <2>2, FS_AddElement
  <2>. QED  BY <2>1, <2>3
<1>5. Cardinality(two) <= Cardinality(TrailingErrors)
  BY <1>2, <1>3, FS_Subset, Zenon
<1>6. Cardinality(TrailingErrors) \in Nat
  BY <1>2, FS_CardinalityType, Zenon
<1>. QED  BY <1>4, <1>5, <1>6

(* A topic that was opened and missed twice in a row is to be re-read, unless  *)
(* it has been since.                                                         *)
LEMMA StepOfStruggling ==
  ASSUME TypeInv, Len(attempts) >= 2, ~Practiced(TopicSummary), LessonOpenings # {},
         ~attempts[Len(attempts)].correct, ~attempts[Len(attempts) - 1].correct
  PROVE  TopicStep.code = "repeated_errors" <=> ~Restudied
<1>. DEFINE s == TopicSummary
            step == StepWithin(1, s)
<1>1. /\ s.opened = TRUE /\ s.errors = Cardinality(TrailingErrors)
      /\ s.restudied = Restudied /\ s.last = "wrong"
  <2>1. attempts # <<>>
    OBVIOUS
  <2>. QED  BY <2>1 DEF TopicSummary
<1>2. ~Practiced(s)
  OBVIOUS
<1>3. s.errors >= StrugglingErrors
  BY <1>1, TwoErrors DEF StrugglingErrors
<1>. HIDE DEF s
<1>4. TopicStep = step
  <2>1. Missing(<<<<>>>>[1], <<s>>) = {}
    BY DEF Missing
  <2>2. Status(s) # "practiced" /\ <<s>>[1] = s
    BY <1>2 DEF Status
  <2>. QED  BY <2>1, <2>2, Zenon DEF TopicStep, NextStep, s
<1>5. step = IF ~Restudied THEN StepTo("repeated_errors", 1) ELSE StepTo("recent_error", 1)
  BY <1>1, <1>3 DEF StepWithin
<1>. HIDE DEF step
<1>. QED  BY <1>4, <1>5 DEF StepTo

(* A student who missed twice in a row is sent back to the lesson when it was  *)
(* not opened since, and not any more when it was, in whatever order the rows  *)
(* were stamped and stored, saved copies of questions included.               *)
THEOREM StrugglingRereadsCorrect == Spec => []StrugglingRereads
<1>1. IInv /\ StudyInv => StrugglingRereads
  <2>. SUFFICES ASSUME TypeInv, StudyInv, Len(attempts) >= 2, ~Practiced(TopicSummary),
                       LessonOpenings # {}, ~attempts[Len(attempts)].correct,
                       ~attempts[Len(attempts) - 1].correct
                PROVE  /\ since.quiet => TopicStep.code = "repeated_errors"
                       /\ since.reopened => TopicStep.code # "repeated_errors"
    BY Zenon DEF StrugglingRereads, IInv
  <2>1. attempts # <<>>
    OBVIOUS
  <2>2. Latest \in Nat /\ \A e \in LessonOpenings : e.at \in Nat
    BY <2>1, LatestStamp DEF StudyInv, LessonOpenings
  <2>3. since.quiet => ~Restudied
    BY <2>1, <2>2 DEF StudyInv, SinceIsSeen, Restudied, Latest
  <2>4. since.reopened => Restudied
    BY <2>1 DEF StudyInv, SinceIsSeen, Restudied, Latest
  <2>. QED  BY <2>3, <2>4, StepOfStruggling
<1>. QED  BY <1>1, StudyInvariant, PTL
=============================================================================
