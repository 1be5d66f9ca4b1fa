---------------------------- MODULE TeachingProofs ----------------------------
(***************************************************************************)
(* Proofs about DurableTeaching, for any callers, keys, texts and instants. *)
(* The invariant has four layers: the types; what a caller knows of the     *)
(* turn it has reserved; what it knows of the feedback it has reserved; how  *)
(* the rows refer to one another.                                           *)
(***************************************************************************)
EXTENDS DurableTeaching, TLAPS

-----------------------------------------------------------------------------
TablesOK ==
  /\ intents \in [Traces -> Intents \cup {None}]
  /\ traces \in [Traces -> TraceRows \cup {None}]
  /\ presented \in [Traces -> Reports \cup {None}]
  /\ responses \in [Responses -> Answers \cup {None}]
  /\ feedback \in [Responses -> Feedbacks \cup {None}]
  /\ professor \in [Traces -> Nat] /\ agent \in [Responses -> Nat]

InTurn(c) == pc[c] \in {"recover", "call", "save", "finish"}
InFeedback(c) == pc[c] \in {"feedback_call", "feedback_save"}

ClientsOK ==
  /\ pc \in [Clients -> Pcs] /\ loc \in [Clients -> Locals]
  /\ reply = [c \in Clients |-> reply[c]]
  /\ \A c \in Clients :
       /\ InTurn(c) => loc[c].key \in Traces /\ loc[c].decision \in Decisions
                       /\ loc[c].input \in Inputs
       /\ InFeedback(c) => loc[c].key \in Responses
       /\ pc[c] = "save" => loc[c].text \in Contents
       /\ pc[c] = "feedback_save" => loc[c].text \in Remarks

TypeInv == TablesOK /\ ClientsOK

(* A call of the Professor that is to be made, or was made and not stored,    *)
(* belongs to one caller only.                                                *)
TurnInv ==
  /\ \A t \in Traces :
       /\ professor[t] <= 1
       /\ professor[t] = 1 => intents[t] # None
       /\ traces[t] # None =>
            /\ intents[t] # None /\ intents[t].decision = traces[t].decision
            /\ professor[t] = 1
       /\ intents[t] # None /\ intents[t].status = "completed" => traces[t] # None
  /\ \A t, u \in Traces :
       t # u /\ intents[t] # None /\ intents[u] # None => intents[t].decision # intents[u].decision
  /\ \A c \in Clients :
       LET t == loc[c].key
       IN /\ InTurn(c) => /\ intents[t] # None
                          /\ intents[t].decision = loc[c].decision /\ intents[t].input = loc[c].input
          /\ pc[c] = "call" => professor[t] = 0
          /\ pc[c] = "save" => professor[t] = 1 /\ traces[t] = None
          /\ pc[c] = "finish" => traces[t] # None
  /\ \A b, c \in Clients :
       b # c /\ {pc[b], pc[c]} \subseteq {"call", "save"} => loc[b].key # loc[c].key

(* The same of the agent, with the instant at which its call was reserved.     *)
FeedbackInv ==
  /\ \A r \in Responses :
       /\ agent[r] <= 1
       /\ agent[r] = 1 => feedback[r] # None
       /\ Completed(feedback[r]) => agent[r] = 1
  /\ \A c \in Clients :
       LET r == loc[c].key
       IN /\ InFeedback(c) => feedback[r] # None /\ feedback[r].at = loc[c].at
          /\ pc[c] = "feedback_call" => agent[r] = 0
          /\ pc[c] = "feedback_save" => agent[r] = 1 /\ feedback[r].status = "reserved"
  /\ \A b, c \in Clients :
       b # c /\ InFeedback(b) /\ InFeedback(c) => loc[b].key # loc[c].key

(* What was acknowledged is a stored row.                                      *)
Acknowledges(x) ==
  /\ x.table \in {"none", "turn", "presented", "responses", "feedback"}
  /\ x.table = "turn" =>
       /\ x.key \in Traces /\ traces[x.key] # None /\ intents[x.key] # None
       /\ x.row.content = traces[x.key].content
       /\ x.row.decision = intents[x.key].decision /\ x.row.input = intents[x.key].input
  /\ x.table = "presented" =>
       x.key \in Traces /\ presented[x.key] # None /\ x.row = presented[x.key]
  /\ x.table = "responses" =>
       x.key \in Responses /\ responses[x.key] # None /\ x.row = responses[x.key]
  /\ x.table = "feedback" =>
       /\ x.key \in Responses /\ Completed(feedback[x.key])
       /\ x.row = Request(feedback[x.key]) @@ [text |-> feedback[x.key].text]

AckInv == \A c \in Clients : Acknowledges(reply[c])

IInv == TypeInv /\ TurnInv /\ FeedbackInv /\ RecordHangsTogether /\ AckInv

-----------------------------------------------------------------------------
(* A caller that goes on, and one that returns or raises.                      *)
LEMMA Moves ==
  ASSUME ClientsOK, NEW c \in Clients, NEW to \in Pcs, NEW l \in Locals, Become(c, to, l),
         to \in {"recover", "call", "save", "finish"} =>
           l.key \in Traces /\ l.decision \in Decisions /\ l.input \in Inputs,
         to \in {"feedback_call", "feedback_save"} => l.key \in Responses,
         to = "save" => l.text \in Contents, to = "feedback_save" => l.text \in Remarks,
         UNCHANGED reply
  PROVE  /\ ClientsOK' /\ pc'[c] = to /\ loc'[c] = l
         /\ \A b \in Clients \ {c} : pc'[b] = pc[b] /\ loc'[b] = loc[b]
<1>1. /\ pc' \in [Clients -> Pcs] /\ loc' \in [Clients -> Locals]
      /\ pc'[c] = to /\ loc'[c] = l
      /\ \A b \in Clients \ {c} : pc'[b] = pc[b] /\ loc'[b] = loc[b]
  BY DEF Become, ClientsOK
<1>2. reply' = [b \in Clients |-> reply'[b]]
  BY DEF ClientsOK
<1>. QED  BY <1>1, <1>2 DEF ClientsOK, InTurn, InFeedback

(* A call that returns: the caller is idle with its reply, the others stay.    *)
LEMMA Leaves ==
  ASSUME ClientsOK, NEW c \in Clients, NEW x, Become(c, "idle", NoLocals),
         reply' = [reply EXCEPT ![c] = x]
  PROVE  /\ ClientsOK' /\ pc'[c] = "idle" /\ reply'[c] = x
         /\ \A b \in Clients \ {c} : pc'[b] = pc[b] /\ loc'[b] = loc[b] /\ reply'[b] = reply[b]
<1>1. NoLocals \in Locals
  BY TeachingAssumption DEF NoLocals, Locals, Times
<1>2. /\ pc' \in [Clients -> Pcs] /\ loc' \in [Clients -> Locals]
      /\ pc'[c] = "idle"
      /\ \A b \in Clients \ {c} : pc'[b] = pc[b] /\ loc'[b] = loc[b]
  BY <1>1 DEF Become, ClientsOK, Pcs
<1>3. /\ reply' = [b \in Clients |-> reply'[b]] /\ reply'[c] = x
      /\ \A b \in Clients \ {c} : reply'[b] = reply[b]
  BY Zenon DEF ClientsOK
<1>. QED  BY <1>2, <1>3 DEF ClientsOK, InTurn, InFeedback

(* Rows are never taken back: a trace, a report, a response and a completed    *)
(* feedback stay as they are, a reservation keeps its decision and its input.  *)
RowsStay ==
  /\ \A t \in Traces : traces[t] # None => traces'[t] = traces[t]
  /\ \A t \in Traces : intents[t] # None =>
       /\ intents'[t] # None
       /\ intents'[t].decision = intents[t].decision /\ intents'[t].input = intents[t].input
  /\ \A t \in Traces : presented[t] # None => presented'[t] = presented[t]
  /\ \A r \in Responses : responses[r] # None => responses'[r] = responses[r]
  /\ \A r \in Responses : Completed(feedback[r]) => feedback'[r] = feedback[r]

(* Acknowledgements stay true when no acknowledged row is touched and every    *)
(* new reply is one that its row acknowledges.                                *)
LEMMA AckStays ==
  ASSUME AckInv, RowsStay,
         \A b \in Clients : reply'[b] = reply[b] \/ Acknowledges(reply[b])'
  PROVE  AckInv'
<1>. SUFFICES ASSUME NEW b \in Clients, reply'[b] = reply[b] PROVE Acknowledges(reply[b])'
  BY DEF AckInv
<1>1. Acknowledges(reply[b])
  BY DEF AckInv
<1>. QED  BY <1>1 DEF Acknowledges, RowsStay, Completed

(* The other half of the record does not see a step of one half.               *)
LEMMA TurnStays ==
  ASSUME TurnInv, UNCHANGED <<intents, traces, professor>>,
         \A b \in Clients : pc'[b] \in {"recover", "call", "save", "finish"} =>
                              pc'[b] = pc[b] /\ loc'[b] = loc[b]
  PROVE  TurnInv'
BY DEF TurnInv, InTurn

(* Steps away from the feedback do not disturb what its callers rely on.       *)
LEMMA FeedbackStays ==
  ASSUME FeedbackInv, UNCHANGED <<feedback, agent>>,
         \A b \in Clients : pc'[b] \in {"feedback_call", "feedback_save"} =>
                              pc'[b] = pc[b] /\ loc'[b] = loc[b]
  PROVE  FeedbackInv'
BY DEF FeedbackInv, InFeedback, Completed

(* A call that raises, or is cut off, changes nothing.                         *)
LEMMA RaiseStep ==
  ASSUME IInv, NEW c \in Clients, Raise(c), UNCHANGED <<tables, professor, agent>>
  PROVE  IInv'
<1>1. /\ ClientsOK' /\ pc'[c] = "idle" /\ reply'[c] = NoReply
      /\ \A b \in Clients \ {c} : pc'[b] = pc[b] /\ loc'[b] = loc[b] /\ reply'[b] = reply[b]
  BY Leaves DEF IInv, TypeInv, Raise
<1>2. TypeInv' /\ RecordHangsTogether'
  BY <1>1 DEF IInv, TypeInv, TablesOK, tables, RecordHangsTogether
<1>3. TurnInv' /\ FeedbackInv'
  BY <1>1, TurnStays, FeedbackStays DEF IInv, tables
<1>4. AckInv'
  <2>1. RowsStay
    BY DEF RowsStay, tables
  <2>2. Acknowledges(reply[c])'
    BY <1>1 DEF Acknowledges, NoReply
  <2>. QED  BY <1>1, <2>1, <2>2, AckStays DEF IInv
<1>. QED  BY <1>2, <1>3, <1>4 DEF IInv

-----------------------------------------------------------------------------
(* The turn of the Professor.  A key is claimed by the caller that inserted    *)
(* its reservation, and by no other.                                           *)
LEMMA ReserveStep ==
  ASSUME IInv, NEW c \in Clients, NEW t \in Traces, NEW d \in Decisions, NEW x \in Inputs,
         NEW at \in Times, Reserve(c, t, d, x, at)
  PROVE  IInv'
<1>. DEFINE taken == \E u \in Traces \ {t} : intents[u] # None /\ intents[u].decision = d
            row == IF taken THEN intents[t] ELSE Inserted(intents[t], NewIntent(d, x))
            l == [NoLocals EXCEPT !.key = t, !.decision = d, !.input = x, !.at = at]
<1>. USE DEF IInv, TypeInv
<1>1. CASE Raise(c) /\ UNCHANGED intents
  BY <1>1, RaiseStep DEF Reserve, tables
<1>2. CASE /\ row # None /\ row.decision = d /\ row.input = x
           /\ intents' = [intents EXCEPT ![t] = row]
           /\ Become(c, IF TurnClaimed(t) THEN "call" ELSE "recover", l)
           /\ UNCHANGED <<reply, traces, presented, responses, feedback, professor, agent>>
  <2>1. NewIntent(d, x) \in Intents /\ NewIntent(d, x).decision = d /\ NewIntent(d, x).input = x
        /\ NewIntent(d, x).status = "reserved"
    BY DEF NewIntent, Intents
  <2>2. /\ intents[t] # None => row = intents[t]
        /\ intents[t] = None => row = NewIntent(d, x) /\ ~taken
    BY <1>2 DEF Inserted
  <2>. HIDE DEF row, taken
  <2>3. /\ intents'[t] = row /\ row \in Intents
        /\ \A u \in Traces \ {t} : intents'[u] = intents[u]
    BY <1>2, <2>1, <2>2 DEF TablesOK
  <2>4. TablesOK'
    BY <1>2, <2>3 DEF TablesOK
  <2>5. l \in Locals /\ l.key = t /\ l.decision = d /\ l.input = x
    BY DEF NoLocals, Locals
  <2>. HIDE DEF l
  <2>6. PICK to \in {"call", "recover"} :
          /\ to = (IF TurnClaimed(t) THEN "call" ELSE "recover") /\ Become(c, to, l)
    BY <1>2
  <2>7. /\ ClientsOK' /\ pc'[c] = to /\ loc'[c] = l
        /\ \A b \in Clients \ {c} : pc'[b] = pc[b] /\ loc'[b] = loc[b]
    BY <1>2, <2>5, <2>6, Moves DEF Pcs
  <2>8. /\ to = "call" => intents[t] = None
        /\ to = "recover" => intents[t] # None
    BY <2>6 DEF TurnClaimed
  <2>9. TurnInv'
    <3>1. \A u \in Traces :
            /\ professor[u] <= 1
            /\ professor[u] = 1 => intents'[u] # None
            /\ traces[u] # None =>
                 /\ intents'[u] # None /\ intents'[u].decision = traces[u].decision
                 /\ professor[u] = 1
            /\ intents'[u] # None /\ intents'[u].status = "completed" => traces[u] # None
      BY <1>2, <2>1, <2>2, <2>3 DEF TurnInv
    <3>2. \A u, v \in Traces :
            u # v /\ intents'[u] # None /\ intents'[v] # None => intents'[u].decision # intents'[v].decision
      <4>1. CASE intents[t] # None
        BY <2>2, <2>3, <4>1 DEF TurnInv
      <4>2. CASE intents[t] = None
        <5>1. \A u \in Traces \ {t} : intents[u] # None => intents[u].decision # d
          BY <2>2, <4>2 DEF taken
        <5>. QED  BY <1>2, <2>3, <5>1 DEF TurnInv
      <4>. QED  BY <4>1, <4>2
    <3>3. \A b \in Clients \ {c} : InTurn(b) => loc[b].key \in Traces /\ intents[loc[b].key] # None
      BY DEF TurnInv, ClientsOK
    <3>4. \A b \in Clients \ {c} : InTurn(b) =>
            /\ intents'[loc[b].key] # None
            /\ intents'[loc[b].key].decision = loc[b].decision /\ intents'[loc[b].key].input = loc[b].input
      BY <2>2, <2>3, <3>3 DEF TurnInv
    <3>5. \A b \in Clients \ {c} : to = "call" /\ InTurn(b) => loc[b].key # t
      BY <2>8, <3>3
    <3>6. \A b \in Clients : /\ InTurn(b)' => (b = c \/ InTurn(b))
                             /\ pc[b] \in {"call", "save"} => InTurn(b)
      BY <2>7 DEF InTurn
    <3>7. to = "call" => professor[t] = 0
      BY <2>8 DEF TurnInv, TablesOK
    <3>8. \A b \in Clients :
            LET k == loc'[b].key
            IN /\ InTurn(b)' => /\ intents'[k] # None
                                /\ intents'[k].decision = loc'[b].decision /\ intents'[k].input = loc'[b].input
               /\ pc'[b] = "call" => professor[k] = 0
               /\ pc'[b] = "save" => professor[k] = 1 /\ traces[k] = None
               /\ pc'[b] = "finish" => traces[k] # None
      <4>. TAKE b \in Clients
      <4>1. CASE b = c
        BY <1>2, <2>3, <2>5, <2>6, <2>7, <3>7, <4>1
      <4>2. CASE b # c
        BY <2>7, <3>4, <3>6, <4>2 DEF TurnInv
      <4>. QED  BY <4>1, <4>2
    <3>9. \A a, b \in Clients :
            a # b /\ {pc'[a], pc'[b]} \subseteq {"call", "save"} => loc'[a].key # loc'[b].key
      BY <2>5, <2>6, <2>7, <3>5, <3>6 DEF TurnInv
    <3>. QED  BY <1>2, <3>1, <3>2, <3>8, <3>9 DEF TurnInv
  <2>10. FeedbackInv'
    BY <1>2, <2>6, <2>7, FeedbackStays
  <2>11. RecordHangsTogether'
    BY <1>2 DEF RecordHangsTogether
  <2>12. AckInv'
    <3>1. RowsStay
      BY <1>2, <2>2, <2>3 DEF RowsStay
    <3>. QED  BY <1>2, <3>1, AckStays
  <2>. QED  BY <2>4, <2>7, <2>9, <2>10, <2>11, <2>12
<1>. QED  BY <1>1, <1>2 DEF Reserve, SameRow

(* The caller that is to call the Professor is the only one, and calls once.   *)
LEMMA CallProfessorStep ==
  ASSUME IInv, NEW c \in Clients, CallProfessor(c)
  PROVE  IInv'
<1>. USE DEF IInv, TypeInv
<1>1. PICK t \in Traces : t = loc[c].key
  BY DEF CallProfessor, ClientsOK, InTurn
<1>2. /\ pc[c] = "call" /\ professor' = [professor EXCEPT ![t] = @ + 1]
      /\ UNCHANGED <<intents, traces, presented, responses, feedback, agent>>
  BY <1>1 DEF CallProfessor, tables
<1>3. professor[t] = 0 /\ intents[t] # None
  BY <1>1, <1>2 DEF TurnInv, InTurn
<1>4. professor'[t] = 1 /\ \A u \in Traces \ {t} : professor'[u] = professor[u]
  BY <1>2, <1>3 DEF TablesOK
<1>5. TablesOK' /\ RecordHangsTogether' /\ RowsStay
  BY <1>2 DEF TablesOK, RecordHangsTogether, RowsStay
<1>6. /\ ClientsOK' /\ pc'[c] \in {"save", "idle"} /\ (pc'[c] = "save" => loc'[c].key = t)
      /\ pc'[c] = "save" => loc'[c].decision = loc[c].decision /\ loc'[c].input = loc[c].input
      /\ \A b \in Clients \ {c} : pc'[b] = pc[b] /\ loc'[b] = loc[b]
      /\ \A b \in Clients : reply'[b] \in {reply[b], NoReply}
  <2>1. CASE \E p \in Contents : Become(c, "save", [loc[c] EXCEPT !.text = p]) /\ UNCHANGED reply
    <3>1. PICK p \in Contents : Become(c, "save", [loc[c] EXCEPT !.text = p]) /\ UNCHANGED reply
      BY <2>1
    <3>. DEFINE l == [loc[c] EXCEPT !.text = p]
    <3>2. /\ l \in Locals /\ l.text = p /\ l.key = t
          /\ l.decision = loc[c].decision /\ l.input = loc[c].input
      BY <1>1 DEF ClientsOK, Locals
    <3>3. loc[c].decision \in Decisions /\ loc[c].input \in Inputs
      BY <1>2 DEF ClientsOK, InTurn
    <3>. HIDE DEF l
    <3>4. Become(c, "save", l)
      BY <3>1 DEF l
    <3>. QED  BY <3>1, <3>2, <3>3, <3>4, Moves DEF Pcs
  <2>2. CASE Raise(c)
    BY <2>2, Leaves DEF Raise
  <2>. QED  BY <2>1, <2>2 DEF CallProfessor
<1>7. TurnInv'
  <2>1. \A u \in Traces :
          /\ professor'[u] <= 1
          /\ professor'[u] = 1 => intents[u] # None
          /\ traces[u] # None => professor'[u] = 1
    BY <1>3, <1>4 DEF TurnInv
  <2>2. \A b \in Clients \ {c} : pc[b] \in {"call", "save"} => loc[b].key # t
    BY <1>1, <1>2 DEF TurnInv
  <2>3. \A b \in Clients \ {c} : pc[b] \in {"call", "save"} => loc[b].key \in Traces \ {t}
    BY <2>2 DEF ClientsOK, InTurn
  <2>4. traces[t] = None
    BY <1>3 DEF TurnInv
  <2>5. \A b \in Clients :
          LET k == loc'[b].key
          IN /\ InTurn(b)' => /\ intents[k] # None
                              /\ intents[k].decision = loc'[b].decision /\ intents[k].input = loc'[b].input
             /\ pc'[b] = "call" => professor'[k] = 0
             /\ pc'[b] = "save" => professor'[k] = 1 /\ traces[k] = None
             /\ pc'[b] = "finish" => traces[k] # None
    <3>. TAKE b \in Clients
    <3>1. CASE b = c
      BY <1>1, <1>2, <1>4, <1>6, <2>4, <3>1 DEF TurnInv, InTurn
    <3>2. CASE b # c
      BY <1>4, <1>6, <2>3, <3>2 DEF TurnInv, InTurn
    <3>. QED  BY <3>1, <3>2
  <2>6. \A a, b \in Clients :
          a # b /\ {pc'[a], pc'[b]} \subseteq {"call", "save"} => loc'[a].key # loc'[b].key
    BY <1>6, <2>2 DEF TurnInv
  <2>. QED  BY <1>2, <2>1, <2>5, <2>6 DEF TurnInv
<1>8. FeedbackInv'
  BY <1>2, <1>6, FeedbackStays
<1>9. AckInv'
  <2>1. \A b \in Clients : reply'[b] = NoReply => Acknowledges(reply[b])'
    BY DEF Acknowledges, NoReply
  <2>. QED  BY <1>5, <1>6, <2>1, AckStays
<1>. QED  BY <1>5, <1>6, <1>7, <1>8, <1>9

(* The trace is stored once, under the decision that was reserved.             *)
LEMMA SaveTraceStep ==
  ASSUME IInv, NEW c \in Clients, SaveTrace(c)
  PROVE  IInv'
<1>. USE DEF IInv, TypeInv
<1>1. CASE Raise(c) /\ UNCHANGED traces
  BY <1>1, RaiseStep DEF SaveTrace, tables
<1>. DEFINE t == loc[c].key
            row == [decision |-> loc[c].decision, content |-> loc[c].text, at |-> loc[c].at]
<1>2. CASE /\ traces[t] = None /\ traces' = [traces EXCEPT ![t] = row]
           /\ Become(c, "finish", loc[c]) /\ UNCHANGED reply
  <2>1. /\ pc[c] = "save" /\ UNCHANGED <<intents, presented, responses, feedback, professor, agent>>
    BY DEF SaveTrace
  <2>2. /\ t \in Traces /\ loc[c].decision \in Decisions /\ loc[c].text \in Contents
        /\ loc[c].at \in Times /\ loc[c].input \in Inputs /\ loc[c] \in Locals
    BY <2>1 DEF ClientsOK, InTurn, Locals
  <2>3. row \in TraceRows /\ row.decision = loc[c].decision
    BY <2>2 DEF TraceRows
  <2>4. row # None
    BY <2>3, TeachingAssumption
  <2>. HIDE DEF row
  <2>5. traces'[t] = row /\ \A u \in Traces \ {t} : traces'[u] = traces[u]
    BY <1>2, <2>2 DEF TablesOK
  <2>6. TablesOK'
    BY <1>2, <2>1, <2>2, <2>3 DEF TablesOK
  <2>7. /\ ClientsOK' /\ pc'[c] = "finish" /\ loc'[c] = loc[c]
        /\ \A b \in Clients \ {c} : pc'[b] = pc[b] /\ loc'[b] = loc[b]
    BY <1>2, <2>2, Moves DEF Pcs
  <2>8. TurnInv'
    <3>1. /\ intents[t] # None /\ intents[t].decision = loc[c].decision /\ professor[t] = 1
          /\ intents[t].input = loc[c].input
      BY <2>1 DEF TurnInv, InTurn
    <3>2. \A u \in Traces :
            /\ traces'[u] # None =>
                 /\ intents[u] # None /\ intents[u].decision = traces'[u].decision
                 /\ professor[u] = 1
            /\ intents[u] # None /\ intents[u].status = "completed" => traces'[u] # None
      BY <2>3, <2>4, <2>5, <3>1 DEF TurnInv
    <3>3. \A b \in Clients \ {c} : pc[b] \in {"call", "save"} => loc[b].key # t
      BY <2>1 DEF TurnInv
    <3>4. \A b \in Clients \ {c} : pc[b] = "save" => traces'[loc[b].key] = None
      <4>1. \A b \in Clients \ {c} : pc[b] = "save" => loc[b].key \in Traces \ {t}
        BY <3>3 DEF ClientsOK, InTurn
      <4>. QED  BY <2>5, <4>1 DEF TurnInv
    <3>5. \A b \in Clients \ {c} : pc[b] = "finish" => traces'[loc[b].key] # None
      <4>1. \A b \in Clients : pc[b] = "finish" => loc[b].key \in Traces
        BY DEF ClientsOK, InTurn
      <4>. QED  BY <2>4, <2>5, <4>1 DEF TurnInv
    <3>6. \A b \in Clients :
            LET k == loc'[b].key
            IN /\ InTurn(b)' => /\ intents[k] # None
                                /\ intents[k].decision = loc'[b].decision /\ intents[k].input = loc'[b].input
               /\ pc'[b] = "call" => professor[k] = 0
               /\ pc'[b] = "save" => professor[k] = 1 /\ traces'[k] = None
               /\ pc'[b] = "finish" => traces'[k] # None
      <4>. TAKE b \in Clients
      <4>1. CASE b = c
        BY <2>4, <2>5, <2>7, <3>1, <4>1 DEF InTurn
      <4>2. CASE b # c
        BY <2>7, <3>4, <3>5, <4>2 DEF TurnInv, InTurn
      <4>. QED  BY <4>1, <4>2
    <3>7. \A a, b \in Clients :
            a # b /\ {pc'[a], pc'[b]} \subseteq {"call", "save"} => loc'[a].key # loc'[b].key
      BY <2>7 DEF TurnInv
    <3>. QED  BY <2>1, <3>2, <3>6, <3>7 DEF TurnInv
  <2>9. FeedbackInv'
    BY <2>1, <2>7, FeedbackStays
  <2>10. RowsStay
    BY <1>2, <2>1, <2>5 DEF RowsStay
  <2>11. AckInv'
    BY <1>2, <2>10, AckStays
  <2>12. RecordHangsTogether'
    <3>1. \A u \in Traces : presented[u] # None => traces'[u] = traces[u]
      BY <2>10 DEF RecordHangsTogether, RowsStay
    <3>. QED  BY <2>1, <3>1 DEF RecordHangsTogether
  <2>. QED  BY <2>6, <2>7, <2>8, <2>9, <2>11, <2>12
<1>. QED  BY <1>1, <1>2 DEF SaveTrace

(* Another caller's reservation: its trace is there, or the call stops.         *)
LEMMA RecoverStep ==
  ASSUME IInv, NEW c \in Clients, Recover(c)
  PROVE  IInv'
<1>. USE DEF IInv, TypeInv
<1>1. CASE Raise(c)
  BY <1>1, RaiseStep DEF Recover
<1>2. CASE traces[loc[c].key] # None /\ Become(c, "finish", loc[c]) /\ UNCHANGED reply
  <2>1. pc[c] = "recover" /\ UNCHANGED <<tables, professor, agent>>
    BY DEF Recover
  <2>2. /\ loc[c].key \in Traces /\ loc[c].decision \in Decisions /\ loc[c].input \in Inputs
        /\ loc[c] \in Locals
    BY <2>1 DEF ClientsOK, InTurn
  <2>3. /\ ClientsOK' /\ pc'[c] = "finish" /\ loc'[c] = loc[c]
        /\ \A b \in Clients \ {c} : pc'[b] = pc[b] /\ loc'[b] = loc[b]
    BY <1>2, <2>2, Moves DEF Pcs
  <2>4. TablesOK' /\ RecordHangsTogether' /\ RowsStay
    BY <2>1 DEF TablesOK, RecordHangsTogether, RowsStay, tables
  <2>5. TurnInv'
    BY <1>2, <2>1, <2>3 DEF TurnInv, InTurn, tables
  <2>6. FeedbackInv'
    BY <2>1, <2>3, FeedbackStays DEF tables
  <2>7. AckInv'
    BY <1>2, <2>4, AckStays
  <2>. QED  BY <2>3, <2>4, <2>5, <2>6, <2>7
<1>. QED  BY <1>1, <1>2 DEF Recover

(* The reservation is completed, and what is returned is stored.                *)
LEMMA FinishStep ==
  ASSUME IInv, NEW c \in Clients, Finish(c)
  PROVE  IInv'
<1>. USE DEF IInv, TypeInv
<1>. DEFINE t == loc[c].key
            x == [table |-> "turn", key |-> t,
                  row |-> [decision |-> loc[c].decision, input |-> loc[c].input,
                           content |-> traces[t].content]]
<1>1. /\ pc[c] = "finish" /\ t \in Traces /\ intents[t] # None /\ traces[t] # None
      /\ intents[t].decision = loc[c].decision /\ intents[t].input = loc[c].input
  BY DEF Finish, ClientsOK, TurnInv, InTurn
<1>2. /\ intents' = [intents EXCEPT ![t].status = "completed"]
      /\ Become(c, "idle", NoLocals) /\ reply' = [reply EXCEPT ![c] = x]
      /\ UNCHANGED <<traces, presented, responses, feedback, professor, agent>>
  BY DEF Finish, Return
<1>3. /\ intents'[t] \in Intents /\ intents'[t].decision = intents[t].decision
      /\ intents'[t].input = intents[t].input
      /\ intents' \in [Traces -> Intents \cup {None}]
      /\ \A u \in Traces \ {t} : intents'[u] = intents[u]
  BY <1>1, <1>2 DEF TablesOK, Intents
<1>4. intents'[t] # None
  BY <1>3, TeachingAssumption
<1>. HIDE DEF x
<1>5. /\ ClientsOK' /\ pc'[c] = "idle" /\ reply'[c] = x
      /\ \A b \in Clients \ {c} : pc'[b] = pc[b] /\ loc'[b] = loc[b] /\ reply'[b] = reply[b]
  BY <1>2, Leaves
<1>6. TablesOK' /\ RecordHangsTogether' /\ RowsStay
  BY <1>2, <1>3, <1>4 DEF TablesOK, RecordHangsTogether, RowsStay
<1>7. TurnInv'
  <2>1. \A u \in Traces : intents'[u] # None <=> intents[u] # None
    BY <1>1, <1>3, <1>4
  <2>2. \A u \in Traces : intents[u] # None =>
          intents'[u].decision = intents[u].decision /\ intents'[u].input = intents[u].input
    BY <1>3
  <2>3. \A b \in Clients : InTurn(b) => loc[b].key \in Traces /\ intents[loc[b].key] # None
    BY DEF TurnInv, ClientsOK
  <2>4. \A u \in Traces : intents'[u] # None /\ intents'[u].status = "completed" => traces[u] # None
    BY <1>1, <1>3 DEF TurnInv
  <2>5. \A b \in Clients : pc'[b] \in {"recover", "call", "save", "finish"} =>
          b # c /\ pc'[b] = pc[b] /\ loc'[b] = loc[b]
    BY <1>5
  <2>. QED  BY <1>2, <2>1, <2>2, <2>3, <2>4, <2>5 DEF TurnInv, InTurn
<1>8. FeedbackInv'
  BY <1>2, <1>5, FeedbackStays
<1>9. AckInv'
  <2>1. Acknowledges(reply[c])'
    BY <1>1, <1>2, <1>3, <1>4, <1>5 DEF Acknowledges, x
  <2>. QED  BY <1>5, <1>6, <2>1, AckStays
<1>. QED  BY <1>5, <1>6, <1>7, <1>8, <1>9

-----------------------------------------------------------------------------
(* A report and a response are inserted once; the stored row is acknowledged.  *)
LEMMA PresentStep ==
  ASSUME IInv, NEW c \in Clients, NEW t \in Traces, NEW e \in Events, NEW at \in Times,
         Present(c, t, e, at)
  PROVE  IInv'
<1>. USE DEF IInv, TypeInv
<1>. DEFINE expected == [event |-> e, at |-> at, content |-> traces[t].content]
            x == [table |-> "presented", key |-> t, row |-> expected]
<1>1. CASE Raise(c) /\ UNCHANGED presented
  BY <1>1, RaiseStep DEF Present, tables
<1>2. CASE /\ presented' = [presented EXCEPT ![t] = expected]
           /\ presented[t] # None => presented[t] = expected
           /\ Return(c, "presented", t, expected)
  <2>1. /\ traces[t] # None /\ traces[t] \in TraceRows /\ at >= traces[t].at
        /\ UNCHANGED <<intents, traces, responses, feedback, professor, agent>>
    BY DEF Present, TablesOK
  <2>2. /\ expected \in Reports /\ expected.content = traces[t].content /\ expected.at = at
    BY <2>1 DEF Reports, TraceRows
  <2>3. expected # None
    BY <2>2, TeachingAssumption
  <2>4. Become(c, "idle", NoLocals) /\ reply' = [reply EXCEPT ![c] = x]
    BY <1>2 DEF Return
  <2>. HIDE DEF expected
  <2>5. presented'[t] = expected /\ \A u \in Traces \ {t} : presented'[u] = presented[u]
    BY <1>2 DEF TablesOK
  <2>6. TablesOK'
    BY <1>2, <2>1, <2>2 DEF TablesOK
  <2>7. x.table = "presented" /\ x.key = t /\ x.row = expected
    OBVIOUS
  <2>. HIDE DEF x
  <2>8. /\ ClientsOK' /\ pc'[c] = "idle" /\ reply'[c] = x
        /\ \A b \in Clients \ {c} : pc'[b] = pc[b] /\ loc'[b] = loc[b] /\ reply'[b] = reply[b]
    BY <2>4, Leaves
  <2>9. TurnInv' /\ FeedbackInv'
    BY <2>1, <2>8, TurnStays, FeedbackStays
  <2>10. RowsStay
    BY <1>2, <2>1, <2>5 DEF RowsStay
  <2>11. RecordHangsTogether'
    <3>1. \A u \in Traces : presented'[u] # None =>
            traces[u] # None /\ presented'[u].content = traces[u].content
            /\ presented'[u].at >= traces[u].at
      BY <2>1, <2>2, <2>5 DEF RecordHangsTogether
    <3>2. \A r \in Responses : responses[r] # None =>
            /\ responses[r].trace \in Traces
            /\ presented'[responses[r].trace] = presented[responses[r].trace]
      BY <2>10 DEF RecordHangsTogether, RowsStay, TablesOK, Answers
    <3>. QED  BY <2>1, <3>1, <3>2 DEF RecordHangsTogether
  <2>12. AckInv'
    <3>1. Acknowledges(reply[c])'
      BY <2>3, <2>5, <2>7, <2>8 DEF Acknowledges
    <3>. QED  BY <2>8, <2>10, <3>1, AckStays
  <2>. QED  BY <2>6, <2>8, <2>9, <2>11, <2>12
<1>. QED  BY <1>1, <1>2 DEF Present, SameRow, Inserted

(* Recording a student's response: Respond keeps the invariant.               *)
LEMMA RespondStep ==
  ASSUME IInv, NEW c \in Clients, NEW r \in Responses, NEW t \in Traces, NEW a \in Activities,
         NEW text \in Texts, NEW at \in Times, Respond(c, r, t, a, text, at)
  PROVE  IInv'
<1>. USE DEF IInv, TypeInv
<1>. DEFINE expected == [trace |-> t, event |-> presented[t].event, activity |-> a,
                         text |-> text, at |-> at]
            x == [table |-> "responses", key |-> r, row |-> expected]
<1>1. CASE Raise(c) /\ UNCHANGED responses
  BY <1>1, RaiseStep DEF Respond, tables
<1>2. CASE /\ responses' = [responses EXCEPT ![r] = expected]
           /\ responses[r] # None => responses[r] = expected
           /\ Return(c, "responses", r, expected)
  <2>1. /\ presented[t] # None /\ presented[t] \in Reports /\ at >= presented[t].at
        /\ UNCHANGED <<intents, traces, presented, feedback, professor, agent>>
    BY DEF Respond, TablesOK
  <2>2. /\ expected \in Answers /\ expected.trace = t /\ expected.at = at
        /\ expected.event = presented[t].event
    BY <2>1 DEF Reports, Answers
  <2>3. expected # None
    BY <2>2, TeachingAssumption
  <2>4. Become(c, "idle", NoLocals) /\ reply' = [reply EXCEPT ![c] = x]
    BY <1>2 DEF Return
  <2>. HIDE DEF expected
  <2>5. responses'[r] = expected /\ \A q \in Responses \ {r} : responses'[q] = responses[q]
    BY <1>2 DEF TablesOK
  <2>6. TablesOK'
    BY <1>2, <2>1, <2>2 DEF TablesOK
  <2>7. x.table = "responses" /\ x.key = r /\ x.row = expected
    OBVIOUS
  <2>. HIDE DEF x
  <2>8. /\ ClientsOK' /\ pc'[c] = "idle" /\ reply'[c] = x
        /\ \A b \in Clients \ {c} : pc'[b] = pc[b] /\ loc'[b] = loc[b] /\ reply'[b] = reply[b]
    BY <2>4, Leaves
  <2>9. TurnInv' /\ FeedbackInv'
    BY <2>1, <2>8, TurnStays, FeedbackStays
  <2>10. RowsStay
    BY <1>2, <2>1, <2>5 DEF RowsStay
  <2>11. RecordHangsTogether'
    <3>1. \A q \in Responses : responses'[q] # None =>
            /\ presented[responses'[q].trace] # None
            /\ presented[responses'[q].trace].event = responses'[q].event
            /\ responses'[q].at >= presented[responses'[q].trace].at
      BY <2>1, <2>2, <2>5 DEF RecordHangsTogether
    <3>2. \A q \in Responses : feedback[q] # None => responses[q] # None
      BY TeachingAssumption DEF RecordHangsTogether, TablesOK, Feedbacks
    <3>3. \A q \in Responses : feedback[q] # None => responses'[q] = responses[q]
      BY <2>10, <3>2 DEF RowsStay
    <3>. QED  BY <2>1, <3>1, <3>3 DEF RecordHangsTogether
  <2>12. AckInv'
    <3>1. Acknowledges(reply[c])'
      BY <2>3, <2>5, <2>7, <2>8 DEF Acknowledges
    <3>. QED  BY <2>8, <2>10, <3>1, AckStays
  <2>. QED  BY <2>6, <2>8, <2>9, <2>11, <2>12
<1>. QED  BY <1>1, <1>2 DEF Respond, SameRow, Inserted

-----------------------------------------------------------------------------
(* Feedback on a response.                                                      *)
LEMMA ReserveFeedbackStep ==
  ASSUME IInv, NEW c \in Clients, NEW r \in Responses, NEW f \in FeedbackIds, NEW v \in Versions,
         NEW at \in Times, ReserveFeedback(c, r, f, v, at)
  PROVE  IInv'
<1>. USE DEF IInv, TypeInv
<1>. DEFINE expected == NewFeedback(f, v, responses[r], at)
            l == [NoLocals EXCEPT !.key = r, !.at = at]
            x == [table |-> "feedback", key |-> r,
                  row |-> Request(feedback[r]) @@ [text |-> feedback[r].text]]
<1>1. /\ responses[r] # None /\ responses[r] \in Answers /\ at >= responses[r].at
      /\ UNCHANGED <<intents, traces, presented, responses, professor, agent>>
  BY DEF ReserveFeedback, TablesOK
<1>2. CASE Raise(c) /\ UNCHANGED feedback
  BY <1>1, <1>2, RaiseStep DEF tables
<1>3. CASE /\ feedback[r] # None /\ feedback[r].status = "completed"
           /\ feedback' = [feedback EXCEPT ![r] = feedback[r]]
           /\ Return(c, "feedback", r, Request(feedback[r]) @@ [text |-> feedback[r].text])
  <2>1. UNCHANGED feedback
    BY <1>3 DEF TablesOK
  <2>2. Become(c, "idle", NoLocals) /\ reply' = [reply EXCEPT ![c] = x]
    BY <1>3 DEF Return
  <2>3. x.table = "feedback" /\ x.key = r /\ x.row = Request(feedback[r]) @@ [text |-> feedback[r].text]
    BY Zenon
  <2>. HIDE DEF x
  <2>4. /\ ClientsOK' /\ pc'[c] = "idle" /\ reply'[c] = x
        /\ \A b \in Clients \ {c} : pc'[b] = pc[b] /\ loc'[b] = loc[b] /\ reply'[b] = reply[b]
    BY <2>2, Leaves
  <2>5. TablesOK' /\ RecordHangsTogether' /\ RowsStay
    BY <1>1, <2>1 DEF TablesOK, RecordHangsTogether, RowsStay
  <2>6. TurnInv' /\ FeedbackInv'
    BY <1>1, <2>1, <2>4, TurnStays, FeedbackStays
  <2>7. Acknowledges(reply[c])'
    <3>1. Completed(feedback[r])'
      BY <1>3, <2>1 DEF Completed
    <3>2. x.row = (Request(feedback[r]) @@ [text |-> feedback[r].text])'
      BY <2>1, <2>3 DEF Request
    <3>. QED  BY <2>3, <2>4, <3>1, <3>2 DEF Acknowledges
  <2>8. AckInv'
    BY <2>4, <2>5, <2>7, AckStays
  <2>. QED  BY <2>4, <2>5, <2>6, <2>8
<1>4. CASE /\ feedback[r] = None /\ feedback' = [feedback EXCEPT ![r] = expected]
           /\ Become(c, "feedback_call", l) /\ UNCHANGED reply
  <2>1. /\ expected \in Feedbacks /\ expected.input = responses[r] /\ expected.at = at
        /\ expected.status = "reserved"
    BY <1>1, TeachingAssumption DEF NewFeedback, Feedbacks, Times
  <2>2. expected # None
    BY <2>1, TeachingAssumption
  <2>. HIDE DEF expected
  <2>3. feedback'[r] = expected /\ \A q \in Responses \ {r} : feedback'[q] = feedback[q]
    BY <1>4 DEF TablesOK
  <2>4. TablesOK'
    BY <1>1, <1>4, <2>1 DEF TablesOK
  <2>5. l \in Locals /\ l.key = r /\ l.at = at
    BY DEF NoLocals, Locals
  <2>. HIDE DEF l
  <2>6. /\ ClientsOK' /\ pc'[c] = "feedback_call" /\ loc'[c] = l
        /\ \A b \in Clients \ {c} : pc'[b] = pc[b] /\ loc'[b] = loc[b]
    BY <1>4, <2>5, Moves DEF Pcs
  <2>7. TurnInv'
    BY <1>1, <2>6, TurnStays
  <2>8. \A q \in Responses : feedback[q] # None => q # r /\ feedback'[q] = feedback[q]
    BY <1>4, <2>3
  <2>9. FeedbackInv'
    <3>1. \A q \in Responses :
            /\ agent[q] <= 1
            /\ agent[q] = 1 => feedback'[q] # None
            /\ Completed(feedback'[q]) => agent[q] = 1
      BY <1>4, <2>1, <2>2, <2>3 DEF FeedbackInv, Completed
    <3>2. \A b \in Clients : InFeedback(b) => loc[b].key \in Responses \ {r}
      BY <1>4 DEF FeedbackInv, ClientsOK
    <3>3. agent[r] = 0
      BY <1>4 DEF FeedbackInv, TablesOK
    <3>4. \A b \in Clients :
            LET q == loc'[b].key
            IN /\ InFeedback(b)' => feedback'[q] # None /\ feedback'[q].at = loc'[b].at
               /\ pc'[b] = "feedback_call" => agent[q] = 0
               /\ pc'[b] = "feedback_save" => agent[q] = 1 /\ feedback'[q].status = "reserved"
      <4>. TAKE b \in Clients
      <4>1. CASE b = c
        BY <2>1, <2>2, <2>3, <2>5, <2>6, <3>3, <4>1
      <4>2. CASE b # c
        BY <2>3, <2>6, <3>2, <4>2 DEF FeedbackInv, InFeedback
      <4>. QED  BY <4>1, <4>2
    <3>5. \A a, b \in Clients :
            a # b /\ InFeedback(a)' /\ InFeedback(b)' => loc'[a].key # loc'[b].key
      BY <2>5, <2>6, <3>2 DEF FeedbackInv, InFeedback
    <3>. QED  BY <1>1, <3>1, <3>4, <3>5 DEF FeedbackInv
  <2>10. RowsStay
    BY <1>1, <2>8 DEF RowsStay, Completed
  <2>11. AckInv'
    BY <1>4, <2>10, AckStays
  <2>12. RecordHangsTogether'
    BY <1>1, <2>1, <2>3 DEF RecordHangsTogether
  <2>. QED  BY <2>4, <2>6, <2>7, <2>9, <2>11, <2>12
<1>. HIDE DEF expected, l
<1>5. \/ Raise(c) /\ UNCHANGED feedback
      \/ /\ feedback[r] # None /\ feedback' = [feedback EXCEPT ![r] = feedback[r]]
         /\ LoadFeedback(c, r, feedback[r])
      \/ /\ feedback[r] = None /\ feedback' = [feedback EXCEPT ![r] = expected]
         /\ Become(c, "feedback_call", l) /\ UNCHANGED reply
  BY Zenon DEF ReserveFeedback, Inserted, FeedbackClaimed, expected, l
<1>6. feedback' = [feedback EXCEPT ![r] = feedback[r]] => UNCHANGED feedback
  BY DEF TablesOK
<1>. QED  BY <1>2, <1>3, <1>4, <1>5, <1>6, Zenon DEF LoadFeedback

(* The caller that is to call the agent is the only one, and calls once.       *)
LEMMA CallAgentStep ==
  ASSUME IInv, NEW c \in Clients, CallAgent(c)
  PROVE  IInv'
<1>. USE DEF IInv, TypeInv
<1>1. PICK r \in Responses : r = loc[c].key
  BY DEF CallAgent, ClientsOK, InFeedback
<1>2. /\ pc[c] = "feedback_call" /\ agent' = [agent EXCEPT ![r] = @ + 1]
      /\ UNCHANGED <<intents, traces, presented, responses, feedback, professor>>
  BY <1>1 DEF CallAgent, tables
<1>3. agent[r] = 0 /\ feedback[r] # None /\ feedback[r].at = loc[c].at
  BY <1>1, <1>2 DEF FeedbackInv, InFeedback
<1>4. agent'[r] = 1 /\ \A q \in Responses \ {r} : agent'[q] = agent[q]
  BY <1>2, <1>3 DEF TablesOK
<1>5. feedback[r].status = "reserved"
  BY <1>3 DEF FeedbackInv, Completed, TablesOK, Feedbacks
<1>6. TablesOK' /\ RecordHangsTogether' /\ RowsStay
  BY <1>2 DEF TablesOK, RecordHangsTogether, RowsStay
<1>7. /\ ClientsOK' /\ pc'[c] \in {"feedback_save", "idle"}
      /\ pc'[c] = "feedback_save" => loc'[c].key = r /\ loc'[c].at = loc[c].at
      /\ \A b \in Clients \ {c} : pc'[b] = pc[b] /\ loc'[b] = loc[b]
      /\ \A b \in Clients : reply'[b] \in {reply[b], NoReply}
  <2>1. CASE \E m \in Remarks : Become(c, "feedback_save", [loc[c] EXCEPT !.text = m]) /\ UNCHANGED reply
    <3>1. PICK m \in Remarks : Become(c, "feedback_save", [loc[c] EXCEPT !.text = m]) /\ UNCHANGED reply
      BY <2>1
    <3>. DEFINE l == [loc[c] EXCEPT !.text = m]
    <3>2. l \in Locals /\ l.text = m /\ l.key = r /\ l.at = loc[c].at
      BY <1>1 DEF ClientsOK, Locals
    <3>. HIDE DEF l
    <3>3. Become(c, "feedback_save", l)
      BY <3>1 DEF l
    <3>. QED  BY <3>1, <3>2, <3>3, Moves DEF Pcs
  <2>2. CASE Raise(c)
    BY <2>2, Leaves DEF Raise
  <2>. QED  BY <2>1, <2>2 DEF CallAgent
<1>8. TurnInv'
  BY <1>2, <1>7, TurnStays
<1>9. FeedbackInv'
  <2>1. \A q \in Responses :
          /\ agent'[q] <= 1
          /\ agent'[q] = 1 => feedback[q] # None
          /\ Completed(feedback[q]) => agent'[q] = 1
    BY <1>3, <1>4 DEF FeedbackInv
  <2>2. \A b \in Clients \ {c} : InFeedback(b) => loc[b].key \in Responses \ {r}
    BY <1>1, <1>2 DEF FeedbackInv, ClientsOK, InFeedback
  <2>3. \A b \in Clients :
          LET q == loc'[b].key
          IN /\ InFeedback(b)' => feedback[q] # None /\ feedback[q].at = loc'[b].at
             /\ pc'[b] = "feedback_call" => agent'[q] = 0
             /\ pc'[b] = "feedback_save" => agent'[q] = 1 /\ feedback[q].status = "reserved"
    <3>. TAKE b \in Clients
    <3>1. CASE b = c
      BY <1>3, <1>4, <1>5, <1>7, <3>1 DEF InFeedback
    <3>2. CASE b # c
      BY <1>4, <1>7, <2>2, <3>2 DEF FeedbackInv, InFeedback
    <3>. QED  BY <3>1, <3>2
  <2>4. \A a, b \in Clients :
          a # b /\ InFeedback(a)' /\ InFeedback(b)' => loc'[a].key # loc'[b].key
    BY <1>7, <2>2 DEF FeedbackInv, InFeedback
  <2>. QED  BY <1>2, <2>1, <2>3, <2>4 DEF FeedbackInv
<1>10. AckInv'
  <2>1. \A b \in Clients : reply'[b] = NoReply => Acknowledges(reply[b])'
    BY DEF Acknowledges, NoReply
  <2>. QED  BY <1>6, <1>7, <2>1, AckStays
<1>. QED  BY <1>6, <1>7, <1>8, <1>9, <1>10

(* What a feedback that is saved becomes, and that the call ends.               *)
LEMMA SavedFeedback ==
  ASSUME IInv, NEW c \in Clients, NEW clock \in Times, SaveFeedback(c, clock),
         ~(clock < loc[c].at \/ feedback[loc[c].key].status # "reserved")
  PROVE  /\ loc[c].key \in Responses /\ pc[c] = "feedback_save" /\ loc[c].text \in Remarks
         /\ feedback'[loc[c].key] \in Feedbacks
         /\ LET r == loc[c].key  row == feedback'[r]
            IN /\ feedback' = [feedback EXCEPT ![r] = row]
               /\ feedback[r] # None /\ feedback[r].status = "reserved"
               /\ row.id = feedback[r].id /\ row.version = feedback[r].version
               /\ row.input = feedback[r].input /\ row.at = feedback[r].at
               /\ row.status = "completed" /\ row.text = loc[c].text
               /\ row.done = clock /\ clock >= row.at
               /\ Return(c, "feedback", r, Request(row) @@ [text |-> row.text])
<1>. USE DEF IInv, TypeInv
<1>1. pc[c] = "feedback_save" /\ loc[c].text \in Remarks
  BY DEF SaveFeedback, ClientsOK
<1>2. PICK r \in Responses : r = loc[c].key
  BY <1>1 DEF ClientsOK, InFeedback
<1>3. feedback[r] # None /\ feedback[r].at = loc[c].at /\ feedback[r].status = "reserved"
  BY <1>1, <1>2 DEF FeedbackInv, InFeedback
<1>4. PICK row : row = [feedback[r] EXCEPT !.status = "completed", !.text = loc[c].text, !.done = clock]
  OBVIOUS
<1>5. feedback[r] \in Feedbacks
  BY <1>3 DEF TablesOK
<1>6. /\ row \in Feedbacks /\ row.id = feedback[r].id /\ row.version = feedback[r].version
      /\ row.input = feedback[r].input /\ row.at = feedback[r].at
      /\ row.status = "completed" /\ row.text = loc[c].text /\ row.done = clock
  BY <1>1, <1>4, <1>5 DEF Feedbacks
<1>7. ~(clock < loc[c].at) /\ feedback' = [feedback EXCEPT ![r] = row] /\ LoadFeedback(c, r, row)
  BY <1>2, <1>4, Zenon DEF SaveFeedback
<1>8. feedback'[r] = row
  BY <1>7 DEF TablesOK
<1>9. Return(c, "feedback", r, Request(row) @@ [text |-> row.text])
  BY <1>6, <1>7, Zenon DEF LoadFeedback
<1>10. clock >= row.at
  BY <1>3, <1>5, <1>6, <1>7, TeachingAssumption DEF Feedbacks, Times
<1>. QED  BY <1>1, <1>2, <1>3, <1>6, <1>7, <1>8, <1>9, <1>10, Zenon

(* The result of the one call completes the row that was reserved for it.      *)
LEMMA SaveFeedbackStep ==
  ASSUME IInv, NEW c \in Clients, NEW clock \in Times, SaveFeedback(c, clock)
  PROVE  IInv'
<1>. USE DEF IInv, TypeInv
<1>1. UNCHANGED <<intents, traces, presented, responses, professor, agent>>
  BY DEF SaveFeedback
<1>2. CASE clock < loc[c].at \/ feedback[loc[c].key].status # "reserved"
  <2>1. Raise(c) /\ UNCHANGED feedback
    BY <1>2, Zenon DEF SaveFeedback
  <2>. QED  BY <1>1, <2>1, RaiseStep DEF tables
<1>3. CASE ~(clock < loc[c].at \/ feedback[loc[c].key].status # "reserved")
  <2>1. PICK r \in Responses : r = loc[c].key
    BY <1>3, SavedFeedback
  <2>2. PICK row \in Feedbacks : row = feedback'[r]
    BY <1>3, <2>1, SavedFeedback
  <2>3. /\ pc[c] = "feedback_save" /\ feedback[r] # None /\ feedback[r].status = "reserved"
        /\ feedback' = [feedback EXCEPT ![r] = row]
        /\ row.id = feedback[r].id /\ row.version = feedback[r].version
        /\ row.input = feedback[r].input /\ row.at = feedback[r].at
        /\ row.status = "completed" /\ row.done >= row.at
        /\ Return(c, "feedback", r, Request(row) @@ [text |-> row.text])
    BY <1>3, <2>1, <2>2, SavedFeedback, Zenon
  <2>4. row # None /\ \A q \in Responses \ {r} : feedback'[q] = feedback[q]
    BY <2>3, TeachingAssumption DEF TablesOK
  <2>5. TablesOK'
    BY <1>1, <2>3 DEF TablesOK
  <2>6. PICK x : x = [table |-> "feedback", key |-> r, row |-> Request(row) @@ [text |-> row.text]]
    OBVIOUS
  <2>7. x.table = "feedback" /\ x.key = r /\ x.row = Request(row) @@ [text |-> row.text]
    BY <2>6, Zenon
  <2>8. Become(c, "idle", NoLocals) /\ reply' = [reply EXCEPT ![c] = x]
    BY <2>3, <2>6, Zenon DEF Return
  <2>9. /\ ClientsOK' /\ pc'[c] = "idle" /\ reply'[c] = x
        /\ \A b \in Clients \ {c} : pc'[b] = pc[b] /\ loc'[b] = loc[b] /\ reply'[b] = reply[b]
    BY <2>8, Leaves
  <2>10. TurnInv'
    BY <1>1, <2>9, TurnStays
  <2>11. FeedbackInv'
    <3>1. agent[r] = 1
      BY <2>1, <2>3 DEF FeedbackInv
    <3>2. \A b \in Clients \ {c} : InFeedback(b) => loc[b].key \in Responses \ {r}
      BY <2>1, <2>3 DEF FeedbackInv, ClientsOK, InFeedback
    <3>3. \A q \in Responses :
            /\ agent[q] <= 1
            /\ agent[q] = 1 => feedback'[q] # None
            /\ Completed(feedback'[q]) => agent[q] = 1
      BY <2>2, <2>4, <3>1 DEF FeedbackInv
    <3>4. \A b \in Clients : InFeedback(b)' => b # c /\ InFeedback(b)
      BY <2>9 DEF InFeedback
    <3>5. \A b \in Clients :
            LET q == loc'[b].key
            IN /\ InFeedback(b)' => feedback'[q] # None /\ feedback'[q].at = loc'[b].at
               /\ pc'[b] = "feedback_call" => agent[q] = 0
               /\ pc'[b] = "feedback_save" => agent[q] = 1 /\ feedback'[q].status = "reserved"
      BY <2>4, <2>9, <3>2, <3>4 DEF FeedbackInv, InFeedback
    <3>. QED  BY <1>1, <2>9, <3>3, <3>4, <3>5 DEF FeedbackInv
  <2>12. RowsStay
    <3>1. \A q \in Responses : Completed(feedback[q]) => q # r
      BY <2>3 DEF Completed
    <3>. QED  BY <1>1, <2>4, <3>1 DEF RowsStay
  <2>13. RecordHangsTogether'
    BY <1>1, <2>2, <2>3, <2>4 DEF RecordHangsTogether
  <2>14. AckInv'
    <3>1. Completed(feedback[r])'
      BY <2>2, <2>3, <2>4 DEF Completed
    <3>2. x.row = (Request(feedback[r]) @@ [text |-> feedback[r].text])'
      BY <2>2, <2>7, Zenon DEF Request
    <3>3. Acknowledges(reply[c])'
      BY <2>7, <2>9, <3>1, <3>2 DEF Acknowledges
    <3>. QED  BY <2>9, <2>12, <3>3, AckStays
  <2>. QED  BY <2>5, <2>9, <2>10, <2>11, <2>13, <2>14
<1>. QED  BY <1>2, <1>3

-----------------------------------------------------------------------------
(* An empty record satisfies the invariant.                                    *)
LEMMA InitIInv == Init => IInv
<1>. SUFFICES ASSUME Init PROVE IInv
  OBVIOUS
<1>1. NoLocals \in Locals
  BY TeachingAssumption DEF NoLocals, Locals, Times
<1>2. TablesOK /\ ClientsOK
  BY <1>1 DEF Init, TablesOK, ClientsOK, Pcs, InTurn, InFeedback
<1>3. TurnInv /\ FeedbackInv /\ RecordHangsTogether
  BY DEF Init, TurnInv, FeedbackInv, RecordHangsTogether, InTurn, InFeedback, Completed
<1>4. AckInv
  BY DEF Init, AckInv, Acknowledges, NoReply
<1>. QED  BY <1>2, <1>3, <1>4 DEF IInv, TypeInv

(* The invariant holds of every execution.                                     *)
THEOREM TeachingInvariant == Spec => []IInv
<1>1. IInv /\ [Next]_vars => IInv'
  <2>. SUFFICES ASSUME IInv, [Next]_vars PROVE IInv'
    OBVIOUS
  <2>1. CASE UNCHANGED vars
    <3>1. TypeInv' /\ TurnInv' /\ FeedbackInv' /\ RecordHangsTogether'
      BY <2>1 DEF vars, tables, IInv, TypeInv, TablesOK, ClientsOK, TurnInv, FeedbackInv,
                  RecordHangsTogether, InTurn, InFeedback, Completed
    <3>2. RowsStay
      BY <2>1 DEF RowsStay, vars, tables
    <3>3. AckInv'
      BY <2>1, <3>2, AckStays DEF vars, IInv
    <3>. QED  BY <3>1, <3>3 DEF IInv
  <2>2. ASSUME NEW c \in Clients, Crash(c) PROVE IInv'
    BY <2>2, RaiseStep DEF Crash
  <2>. QED
    BY <2>1, <2>2, ReserveStep, CallProfessorStep, SaveTraceStep, RecoverStep, FinishStep,
       PresentStep, RespondStep, ReserveFeedbackStep, CallAgentStep, SaveFeedbackStep DEF Next
<1>. QED  BY InitIInv, <1>1, PTL DEF Spec

-----------------------------------------------------------------------------
(* However a decision is retried, the Professor is called for it at most once. *)
THEOREM ProfessorOncePerDecisionCorrect == Spec => []ProfessorOncePerDecision
<1>1. IInv => ProfessorOncePerDecision
  BY DEF IInv, TypeInv, TablesOK, TurnInv, ProfessorOncePerDecision
<1>. QED  BY <1>1, TeachingInvariant, PTL

(* A completed turn has its trace, stored under the decision it reserved.      *)
THEOREM CompletedHasTraceCorrect == Spec => []CompletedHasTrace
<1>1. IInv => CompletedHasTrace
  BY DEF IInv, TurnInv, CompletedHasTrace
<1>. QED  BY <1>1, TeachingInvariant, PTL

(* Reports, responses and feedback refer to rows that are there, and none is   *)
(* dated before what it is about.                                              *)
THEOREM RecordHangsTogetherCorrect == Spec => []RecordHangsTogether
<1>1. IInv => RecordHangsTogether
  BY DEF IInv
<1>. QED  BY <1>1, TeachingInvariant, PTL

(* What a call acknowledged is stored.                                         *)
THEOREM AcknowledgedIsStoredCorrect == Spec => []AcknowledgedIsStored
<1>1. IInv => AcknowledgedIsStored
  <2>. SUFFICES ASSUME IInv, NEW c \in Clients
                PROVE  LET k == reply[c].key  row == reply[c].row
                       IN CASE reply[c].table = "turn" ->
                                 /\ row.content = traces[k].content
                                 /\ row.decision = intents[k].decision /\ row.input = intents[k].input
                            [] reply[c].table = "presented" -> row = presented[k]
                            [] reply[c].table = "responses" -> row = responses[k]
                            [] reply[c].table = "feedback" ->
                                 row = Request(feedback[k]) @@ [text |-> feedback[k].text]
                            [] OTHER -> TRUE
    BY DEF AcknowledgedIsStored
  <2>1. Acknowledges(reply[c])
    BY DEF IInv, AckInv
  <2>. QED  BY <2>1 DEF Acknowledges
<1>. QED  BY <1>1, TeachingInvariant, PTL

-----------------------------------------------------------------------------
(* Every step of the record is a step of OnceOnly, or none, for the turns.     *)
LEMMA TurnRefines ==
  ASSUME IInv, [Next]_vars
  PROVE  [Turn!Next]_(Turn!vars)
<1>. DEFINE reserved == {t \in Traces : intents[t] # None}
<1>. SUFFICES \/ UNCHANGED <<reserved, professor, traces>>
              \/ \E t \in Traces :
                   \/ /\ t \notin reserved /\ reserved' = reserved \cup {t}
                      /\ UNCHANGED <<professor, traces>>
                   \/ /\ t \in reserved /\ professor[t] = 0
                      /\ professor' = [professor EXCEPT ![t] = 1]
                      /\ UNCHANGED <<reserved, traces>>
                   \/ /\ professor[t] = 1 /\ traces[t] = None
                      /\ \E r \in TraceRows : traces' = [traces EXCEPT ![t] = r]
                      /\ UNCHANGED <<reserved, professor>>
  BY DEF Turn!Next, Turn!vars, Turn!Reserve, Turn!Call, Turn!Keep
<1>. USE DEF IInv, TypeInv
<1>1. CASE UNCHANGED <<intents, professor, traces>>
  BY <1>1
<1>2. ASSUME NEW c \in Clients, NEW t \in Traces, NEW d \in Decisions, NEW x \in Inputs,
             NEW at \in Times, Reserve(c, t, d, x, at), intents' # intents
      PROVE  t \notin reserved /\ reserved' = reserved \cup {t} /\ UNCHANGED <<professor, traces>>
  <2>1. PICK row : /\ row # None /\ intents' = [intents EXCEPT ![t] = row]
                   /\ intents[t] # None => row = intents[t]
    BY <1>2, Zenon DEF Reserve, Inserted
  <2>2. intents[t] = None
    BY <1>2, <2>1 DEF TablesOK
  <2>. QED  BY <1>2, <2>1, <2>2 DEF Reserve, TablesOK
<1>3. ASSUME NEW c \in Clients, CallProfessor(c)
      PROVE  /\ loc[c].key \in Traces /\ loc[c].key \in reserved /\ professor[loc[c].key] = 0
             /\ professor' = [professor EXCEPT ![loc[c].key] = 1]
             /\ UNCHANGED <<reserved, traces>>
  <2>1. /\ loc[c].key \in Traces /\ intents[loc[c].key] # None /\ professor[loc[c].key] = 0
    BY <1>3 DEF CallProfessor, TurnInv, InTurn, ClientsOK
  <2>. QED  BY <1>3, <2>1 DEF CallProfessor, tables, TablesOK
<1>4. ASSUME NEW c \in Clients, SaveTrace(c), traces' # traces
      PROVE  /\ loc[c].key \in Traces
             /\ professor[loc[c].key] = 1 /\ traces[loc[c].key] = None
             /\ \E r \in TraceRows : traces' = [traces EXCEPT ![loc[c].key] = r]
             /\ UNCHANGED <<reserved, professor>>
  <2>1. /\ loc[c].key \in Traces /\ professor[loc[c].key] = 1 /\ traces[loc[c].key] = None
        /\ loc[c].decision \in Decisions /\ loc[c].text \in Contents /\ loc[c].at \in Times
    BY <1>4 DEF SaveTrace, TurnInv, InTurn, ClientsOK, Locals
  <2>2. [decision |-> loc[c].decision, content |-> loc[c].text, at |-> loc[c].at] \in TraceRows
    BY <2>1 DEF TraceRows
  <2>. QED  BY <1>4, <2>1, <2>2 DEF SaveTrace
<1>5. ASSUME NEW c \in Clients, Finish(c)
      PROVE  UNCHANGED <<reserved, professor, traces>>
  <2>1. loc[c].key \in Traces /\ intents[loc[c].key] \in Intents
    BY <1>5 DEF Finish, TurnInv, InTurn, ClientsOK, TablesOK
  <2>2. /\ intents'[loc[c].key] \in Intents
        /\ \A t \in Traces \ {loc[c].key} : intents'[t] = intents[t]
    BY <1>5, <2>1 DEF Finish, TablesOK, Intents
  <2>3. intents'[loc[c].key] # None /\ intents[loc[c].key] # None
    BY <2>1, <2>2, TeachingAssumption
  <2>. QED  BY <1>5, <2>2, <2>3 DEF Finish
<1>6. CASE UNCHANGED vars
  BY <1>1, <1>6 DEF vars, tables
<1>7. ASSUME NEW c \in Clients,
             \/ Recover(c) \/ Crash(c) \/ CallAgent(c)
             \/ \E clock \in Times : SaveFeedback(c, clock)
             \/ \E t \in Traces, e \in Events, at \in Times : Present(c, t, e, at)
             \/ \E r \in Responses, t \in Traces, a \in Activities, x \in Texts, at \in Times :
                  Respond(c, r, t, a, x, at)
             \/ \E r \in Responses, f \in FeedbackIds, v \in Versions, at \in Times :
                  ReserveFeedback(c, r, f, v, at)
      PROVE  UNCHANGED <<intents, professor, traces>>
  <2>1. CASE Recover(c) \/ Crash(c) \/ CallAgent(c)
    BY <2>1, Zenon DEF Recover, Crash, CallAgent, tables
  <2>2. ASSUME NEW clock \in Times, SaveFeedback(c, clock)
        PROVE  UNCHANGED <<intents, professor, traces>>
    BY <2>2, Zenon DEF SaveFeedback
  <2>3. ASSUME NEW t \in Traces, NEW e \in Events, NEW at \in Times, Present(c, t, e, at)
        PROVE  UNCHANGED <<intents, professor, traces>>
    BY <2>3, Zenon DEF Present
  <2>4. ASSUME NEW r \in Responses, NEW t \in Traces, NEW a \in Activities, NEW x \in Texts,
               NEW at \in Times, Respond(c, r, t, a, x, at)
        PROVE  UNCHANGED <<intents, professor, traces>>
    BY <2>4, Zenon DEF Respond
  <2>5. ASSUME NEW r \in Responses, NEW f \in FeedbackIds, NEW v \in Versions, NEW at \in Times,
               ReserveFeedback(c, r, f, v, at)
        PROVE  UNCHANGED <<intents, professor, traces>>
    BY <2>5, Zenon DEF ReserveFeedback
  <2>. QED  BY <1>7, <2>1, <2>2, <2>3, <2>4, <2>5
<1>8. ASSUME NEW c \in Clients, SaveTrace(c), traces' = traces
      PROVE  UNCHANGED <<intents, professor, traces>>
  BY <1>8 DEF SaveTrace
<1>9. ASSUME NEW c \in Clients, NEW t \in Traces, NEW d \in Decisions, NEW x \in Inputs,
             NEW at \in Times, Reserve(c, t, d, x, at), intents' = intents
      PROVE  UNCHANGED <<intents, professor, traces>>
  BY <1>9 DEF Reserve
<1>. HIDE DEF reserved
<1>. QED  BY <1>1, <1>2, <1>3, <1>4, <1>5, <1>6, <1>7, <1>8, <1>9 DEF Next

(* The Professor turn implements OnceOnly.                                     *)
THEOREM TurnOnceCorrect == Spec => TurnOnce
<1>1. Init => Turn!Init
  BY DEF Init, Turn!Init
<1>2. IInv /\ [Next]_vars => [Turn!Next]_(Turn!vars)
  BY TurnRefines
<1>. QED  BY <1>1, <1>2, TeachingInvariant, PTL DEF Spec, TurnOnce, Turn!Spec

-----------------------------------------------------------------------------
(* What the feedback of a response came to, as in the refinement mapping.      *)
Outcome == [r \in Responses |-> IF Completed(feedback[r]) THEN feedback[r].text ELSE None]

(* Every step of the record is a step of OnceOnly, or none, for the feedback.  *)
LEMMA FeedbackRefines ==
  ASSUME IInv, [Next]_vars
  PROVE  [Feedback!Next]_(Feedback!vars)
<1>. DEFINE reserved == {r \in Responses : feedback[r] # None}
<1>. SUFFICES \/ UNCHANGED <<reserved, agent, Outcome>>
              \/ \E r \in Responses :
                   \/ /\ r \notin reserved /\ reserved' = reserved \cup {r}
                      /\ UNCHANGED <<agent, Outcome>>
                   \/ /\ r \in reserved /\ agent[r] = 0
                      /\ agent' = [agent EXCEPT ![r] = 1]
                      /\ UNCHANGED <<reserved, Outcome>>
                   \/ /\ agent[r] = 1 /\ Outcome[r] = None
                      /\ \E m \in Remarks : Outcome' = [Outcome EXCEPT ![r] = m]
                      /\ UNCHANGED <<reserved, agent>>
  BY DEF Feedback!Next, Feedback!vars, Feedback!Reserve, Feedback!Call, Feedback!Keep, Outcome
<1>. USE DEF IInv, TypeInv
<1>1. CASE UNCHANGED <<feedback, agent>>
  BY <1>1 DEF Outcome
<1>2. ASSUME NEW c \in Clients, NEW r \in Responses, NEW f \in FeedbackIds, NEW v \in Versions,
             NEW at \in Times, ReserveFeedback(c, r, f, v, at), feedback' # feedback
      PROVE  r \notin reserved /\ reserved' = reserved \cup {r} /\ UNCHANGED <<agent, Outcome>>
  <2>1. PICK row : /\ row # None /\ feedback' = [feedback EXCEPT ![r] = row]
                   /\ feedback[r] # None => row = feedback[r]
                   /\ feedback[r] = None => row = NewFeedback(f, v, responses[r], at)
    BY <1>2, Zenon DEF ReserveFeedback, Inserted
  <2>2. feedback[r] = None
    BY <1>2, <2>1 DEF TablesOK
  <2>3. row.status = "reserved"
    BY <2>1, <2>2 DEF NewFeedback
  <2>4. feedback'[r] = row /\ \A q \in Responses \ {r} : feedback'[q] = feedback[q]
    BY <2>1 DEF TablesOK
  <2>5. UNCHANGED Outcome
    BY <2>2, <2>3, <2>4 DEF Outcome, Completed
  <2>. QED  BY <1>2, <2>1, <2>2, <2>4, <2>5 DEF ReserveFeedback
<1>3. ASSUME NEW c \in Clients, CallAgent(c)
      PROVE  /\ loc[c].key \in Responses /\ loc[c].key \in reserved /\ agent[loc[c].key] = 0
             /\ agent' = [agent EXCEPT ![loc[c].key] = 1]
             /\ UNCHANGED <<reserved, Outcome>>
  <2>1. loc[c].key \in Responses /\ feedback[loc[c].key] # None /\ agent[loc[c].key] = 0
    BY <1>3 DEF CallAgent, FeedbackInv, InFeedback, ClientsOK
  <2>. QED  BY <1>3, <2>1 DEF CallAgent, tables, TablesOK, Outcome
<1>4. ASSUME NEW c \in Clients, NEW clock \in Times, SaveFeedback(c, clock),
             ~(clock < loc[c].at \/ feedback[loc[c].key].status # "reserved")
      PROVE  /\ loc[c].key \in Responses
             /\ agent[loc[c].key] = 1 /\ Outcome[loc[c].key] = None
             /\ \E m \in Remarks : Outcome' = [Outcome EXCEPT ![loc[c].key] = m]
             /\ UNCHANGED <<reserved, agent>>
  <2>1. PICK r \in Responses : r = loc[c].key
    BY <1>4, SavedFeedback
  <2>2. /\ pc[c] = "feedback_save" /\ loc[c].text \in Remarks
        /\ feedback'[r] \in Feedbacks /\ feedback' = [feedback EXCEPT ![r] = feedback'[r]]
        /\ feedback[r] # None /\ feedback[r].status = "reserved"
        /\ feedback'[r].status = "completed" /\ feedback'[r].text = loc[c].text
    BY <1>4, <2>1, SavedFeedback, Zenon
  <2>3. feedback'[r] # None /\ \A q \in Responses \ {r} : feedback'[q] = feedback[q]
    BY <2>2, TeachingAssumption DEF TablesOK
  <2>4. agent[r] = 1 /\ UNCHANGED agent
    BY <1>4, <2>1, <2>2 DEF FeedbackInv, SaveFeedback
  <2>5. Outcome[r] = None
    BY <2>2 DEF Outcome, Completed
  <2>6. Outcome' = [Outcome EXCEPT ![r] = loc[c].text]
    BY <2>2, <2>3 DEF Outcome, Completed
  <2>. QED  BY <2>1, <2>2, <2>3, <2>4, <2>5, <2>6
<1>5. ASSUME NEW c \in Clients, NEW clock \in Times, SaveFeedback(c, clock),
             clock < loc[c].at \/ feedback[loc[c].key].status # "reserved"
      PROVE  UNCHANGED <<feedback, agent>>
  BY <1>5, Zenon DEF SaveFeedback
<1>6. ASSUME NEW c \in Clients, NEW r \in Responses, NEW f \in FeedbackIds, NEW v \in Versions,
             NEW at \in Times, ReserveFeedback(c, r, f, v, at), feedback' = feedback
      PROVE  UNCHANGED <<feedback, agent>>
  BY <1>6, Zenon DEF ReserveFeedback
<1>7. CASE UNCHANGED vars
  BY <1>1, <1>7 DEF vars, tables
<1>8. ASSUME NEW c \in Clients, Recover(c) \/ Crash(c) \/ CallProfessor(c) \/ SaveTrace(c) \/ Finish(c)
      PROVE  UNCHANGED <<feedback, agent>>
  <2>1. CASE Recover(c) \/ Crash(c) \/ CallProfessor(c)
    BY <2>1, Zenon DEF Recover, Crash, CallProfessor, tables
  <2>2. CASE SaveTrace(c)
    BY <2>2, Zenon DEF SaveTrace
  <2>3. CASE Finish(c)
    BY <2>3, Zenon DEF Finish
  <2>. QED  BY <1>8, <2>1, <2>2, <2>3
<1>9. ASSUME NEW c \in Clients, NEW t \in Traces, NEW d \in Decisions, NEW x \in Inputs,
             NEW at \in Times, Reserve(c, t, d, x, at)
      PROVE  UNCHANGED <<feedback, agent>>
  BY <1>9, Zenon DEF Reserve
<1>10. ASSUME NEW c \in Clients, NEW t \in Traces, NEW e \in Events, NEW at \in Times, Present(c, t, e, at)
       PROVE  UNCHANGED <<feedback, agent>>
  BY <1>10, Zenon DEF Present
<1>11. ASSUME NEW c \in Clients, NEW r \in Responses, NEW t \in Traces, NEW a \in Activities,
              NEW x \in Texts, NEW at \in Times, Respond(c, r, t, a, x, at)
       PROVE  UNCHANGED <<feedback, agent>>
  BY <1>11, Zenon DEF Respond
<1>. HIDE DEF reserved
<1>. QED  BY <1>1, <1>2, <1>3, <1>4, <1>5, <1>6, <1>7, <1>8, <1>9, <1>10, <1>11 DEF Next

(* The feedback implements OnceOnly.                                           *)
THEOREM FeedbackOnceCorrect == Spec => FeedbackOnce
<1>1. Init => Feedback!Init
  BY DEF Init, Feedback!Init, Completed
<1>2. IInv /\ [Next]_vars => [Feedback!Next]_(Feedback!vars)
  BY FeedbackRefines
<1>. QED  BY <1>1, <1>2, TeachingInvariant, PTL DEF Spec, FeedbackOnce, Feedback!Spec
=============================================================================
