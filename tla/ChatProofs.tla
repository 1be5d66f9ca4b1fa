------------------------------ MODULE ChatProofs ------------------------------
(***************************************************************************)
(* Proofs about ChatClient: a window of the local Professor chat, other    *)
(* windows, and the processes that answer them, for any number of          *)
(* processes, sessions, packs, requests and exchanges.  The invariant has   *)
(* three layers: the types, what is stored for a request, and what the      *)
(* window has drawn of the conversation it asks in.                         *)
(***************************************************************************)
EXTENDS ChatClient, SequenceTheorems, WellFoundedInduction, TLAPS

-----------------------------------------------------------------------------
(* Appending anything at all to a sequence.                                 *)
LEMMA AppendAny ==
  ASSUME NEW S, NEW t \in Seq(S), NEW x
  PROVE  /\ Append(t, x) \in Seq(S \cup {x})
         /\ Len(Append(t, x)) = Len(t) + 1
<1>. t \in Seq(S \cup {x})
  BY SeqMonotonic
<1>. QED  BY AppendProperties

(* What an element of a sequence is after another one was appended.         *)
LEMMA AppendOne ==
  ASSUME NEW S, NEW t \in Seq(S), NEW x \in S
  PROVE  /\ Append(t, x) \in Seq(S)
         /\ Len(Append(t, x)) = Len(t) + 1
         /\ DOMAIN Append(t, x) = DOMAIN t \cup {Len(t) + 1}
         /\ Len(t) + 1 \notin DOMAIN t
         /\ \A i \in DOMAIN t : Append(t, x)[i] = t[i]
         /\ Append(t, x)[Len(t) + 1] = x
<1>1. /\ Append(t, x) \in Seq(S) /\ Len(Append(t, x)) = Len(t) + 1
      /\ \A i \in 1..Len(t) : Append(t, x)[i] = t[i] /\ Append(t, x)[Len(t) + 1] = x
  BY AppendProperties
<1>2. DOMAIN t = 1..Len(t) /\ DOMAIN Append(t, x) = 1..(Len(t) + 1) /\ Len(t) \in Nat
  BY <1>1, LenProperties
<1>3. Append(t, x)[Len(t) + 1] = x
  BY AppendProperties
<1>. QED  BY <1>1, <1>2, <1>3

(* What the messages of a session are after an exchange was appended.       *)
LEMMA AppendTwo ==
  ASSUME NEW S, NEW t \in Seq(S), NEW x \in S, NEW y \in S
  PROVE  /\ t \o <<x, y>> \in Seq(S)
         /\ Len(t \o <<x, y>>) = Len(t) + 2
         /\ DOMAIN (t \o <<x, y>>) = DOMAIN t \cup {Len(t) + 1, Len(t) + 2}
         /\ \A i \in DOMAIN t : (t \o <<x, y>>)[i] = t[i]
         /\ (t \o <<x, y>>)[Len(t) + 1] = x
         /\ (t \o <<x, y>>)[Len(t) + 2] = y
<1>. DEFINE u == <<x, y>>
<1>1. u \in Seq(S) /\ Len(u) = 2 /\ u[1] = x /\ u[2] = y
  OBVIOUS
<1>2. Len(t) \in Nat /\ DOMAIN t = 1..Len(t)
  BY LenProperties
<1>3. /\ t \o u \in Seq(S) /\ Len(t \o u) = Len(t) + 2
      /\ \A i \in 1..(Len(t) + 2) : (t \o u)[i] = IF i <= Len(t) THEN t[i] ELSE u[i - Len(t)]
  BY <1>1, ConcatProperties
<1>4. DOMAIN (t \o u) = 1..(Len(t) + 2)
  BY <1>3, LenProperties
<1>. HIDE DEF u
<1>5. (t \o u)[Len(t) + 1] = x /\ (t \o u)[Len(t) + 2] = y
  BY <1>1, <1>2, <1>3
<1>6. \A i \in DOMAIN t : (t \o u)[i] = t[i]
  BY <1>2, <1>3
<1>. QED  BY <1>2, <1>3, <1>4, <1>5, <1>6 DEF u

-----------------------------------------------------------------------------
(* The types.  The history a process holds may be any value.                *)
Requests == [session : Sessions, pack : Packs, seen : Nat, size : Nat, mode : Modes]
Messages == [request : Nat, role : {"student", "professor"}, size : Nat]
Window   == [active : Sessions \cup {None}, view : Sessions \cup {None}, messageCount : Nat,
             question : Nat, waits : Processes \cup {"nothing", "process", "nobody"},
             unloaded : BOOLEAN]

StoreTypes ==
  /\ sessions \in [Sessions -> Packs \cup {None}]
  /\ messages \in [Sessions -> Seq(Messages)]
  /\ shown = [s \in Sessions |-> shown[s]]
  /\ \A s \in Sessions : \E H : shown[s] \in Seq(H)

ProcessTypes ==
  /\ asked \in Seq(Requests)
  /\ pc \in [Processes -> {"idle", "generate", "reply"}]
  /\ loc = [p \in Processes |-> loc[p]]
  /\ \A p \in Processes : pc[p] # "idle" => loc[p].request \in DOMAIN asked
  /\ answered \subseteq DOMAIN asked

WindowTypes ==
  /\ win \in Window /\ last \in Sessions
  /\ saw \in Seq(Sessions \cup {None, "unloaded", "other"}) /\ Len(saw) = Len(asked)

(* The messages of a session come in pairs, at the positions their request   *)
(* expected, and under the pack it named.                                    *)
InPlace(m, s, i) ==
  /\ m.request \in DOMAIN asked
  /\ asked[m.request].session = s /\ asked[m.request].pack = sessions[s]
  /\ asked[m.request].seen = IF m.role = "student" THEN i - 1 ELSE i - 2

IsStored(q) == \E i \in DOMAIN messages[asked[q].session] :
                 messages[asked[q].session][i].request = q

StoreInv ==
  /\ \A s \in Sessions :
       /\ Len(messages[s]) = 2 * Len(shown[s])
       /\ \A e \in DOMAIN shown[s] : messages[s][2 * e].role = "professor"
       /\ \A i \in DOMAIN messages[s] : InPlace(messages[s][i], s, i)
  /\ \A p \in Processes : pc[p] = "reply" => IsStored(loc[p].request)
  /\ \A q \in answered : IsStored(q)

(* The conversation the window asks in is the one it has drawn, unless        *)
(* resuming failed; the process it waits for has the question of its box.     *)
WindowInv ==
  /\ sessions[last] # None
  /\ win.active # None =>
       /\ sessions[win.active] # None
       /\ ~win.unloaded => win.view = win.active
  /\ win.question # 0 => win.question \in DOMAIN asked /\ Mine(win.question)
  /\ ~Idle =>
       /\ win.question # 0 /\ win.active # None
       /\ asked[win.question].session = win.active
  /\ win.waits \in Processes =>
       pc[win.waits] # "idle" /\ loc[win.waits].request = win.question
  /\ \A q \in DOMAIN saw : saw[q] \in {asked[q].session, "unloaded", "other"}

TypeInv == StoreTypes /\ ProcessTypes /\ WindowTypes
IInv    == TypeInv /\ StoreInv /\ WindowInv

-----------------------------------------------------------------------------
(* What a step of the window or of another client does to the service.       *)
Asking(r) == asked' = Append(asked, r) /\ UNCHANGED <<stored, pc, loc, answered>>

ServiceStep ==
  \/ \E s \in Sessions, k \in Packs : Start(s, k)
  \/ \E r \in Requests : Asking(r)
  \/ \E p \in Processes : \E q \in DOMAIN asked : Serve(p, q)
  \/ \E p \in Processes : \E n \in AnswerSizes : AppendExchange(p, n)
  \/ \E p \in Processes : Reply(p)
  \/ \E p \in Processes : Fail(p)
  \/ UNCHANGED vars

(* The request of the send button is one of a session that exists.           *)
LEMMA SendAsks ==
  ASSUME IInv, NEW n \in QuestionSizes, NEW mode \in Modes, Send(n, mode)
  PROVE  \E r \in Requests : Asking(r) /\ r.session = win.active
<1>. DEFINE r == [session |-> win.active, pack |-> sessions[win.active],
                  seen |-> win.messageCount, size |-> n, mode |-> mode]
<1>1. win.active \in Sessions /\ sessions[win.active] \in Packs
  BY DEF IInv, TypeInv, StoreTypes, WindowTypes, Window, WindowInv, Send
<1>2. win.messageCount \in Nat /\ n \in Nat
  BY ChatAssumption DEF IInv, TypeInv, WindowTypes, Window
<1>3. r \in Requests
  BY <1>1, <1>2 DEF Requests
<1>4. Asking(r)
  BY DEF Send, Asking
<1>. QED  BY <1>3, <1>4

(* Every step is one of these for the service.                             *)
LEMMA StepOfService ==
  ASSUME IInv, [ClientNext]_chatVars
  PROVE  ServiceStep
<1>1. ASSUME NEW s \in Sessions, NEW k \in Packs, Upload(s, k) \/ OtherStart(s, k)
      PROVE  ServiceStep
  BY <1>1 DEF Upload, OtherStart, ServiceStep
<1>2. ASSUME NEW s \in Sessions, NEW k \in Packs, NEW seen \in 0..MaxExchanges,
             NEW n \in QuestionSizes, NEW mode \in Modes, OtherAsk(s, k, seen, n, mode)
      PROVE  ServiceStep
  <2>. DEFINE r == [session |-> s, pack |-> k, seen |-> 2 * seen, size |-> n, mode |-> mode]
  <2>1. n \in Nat /\ 2 * seen \in Nat
    BY ChatAssumption
  <2>2. r \in Requests
    BY <2>1 DEF Requests
  <2>3. Asking(r)
    BY <1>2 DEF OtherAsk, Ask, Asking
  <2>. QED  BY <2>2, <2>3 DEF ServiceStep
<1>3. CASE Resume \/ Refresh \/ SendAgain \/ Broken
  BY <1>3 DEF Resume, Refresh, SendAgain, Broken, ServiceStep
<1>4. ASSUME NEW n \in QuestionSizes, NEW mode \in Modes, Send(n, mode)
      PROVE  ServiceStep
  BY <1>4, SendAsks DEF ServiceStep
<1>5. ASSUME NEW p \in Processes, NEW q \in DOMAIN asked, Taken(p, q)
      PROVE  ServiceStep
  BY <1>5 DEF Taken, ServiceStep
<1>6. ASSUME NEW p \in Processes, Answered(p) \/ Serving(p)
      PROVE  ServiceStep
  BY <1>6 DEF Answered, Serving, ServiceStep
<1>7. CASE UNCHANGED chatVars
  BY <1>7 DEF chatVars, ServiceStep
<1>. QED  BY <1>1, <1>2, <1>3, <1>4, <1>5, <1>6, <1>7 DEF ClientNext

-----------------------------------------------------------------------------
(* Types of the service: what Become does.                                   *)
LEMMA BecomeTypes ==
  ASSUME ProcessTypes, NEW p \in Processes, NEW to \in {"idle", "generate", "reply"},
         NEW l, Become(p, to, l), to # "idle" => l.request \in DOMAIN asked,
         UNCHANGED asked
  PROVE  /\ pc' \in [Processes -> {"idle", "generate", "reply"}]
         /\ loc' = [x \in Processes |-> loc'[x]]
         /\ \A x \in Processes : pc'[x] # "idle" => loc'[x].request \in DOMAIN asked'
         /\ pc'[p] = to /\ loc'[p] = l
         /\ \A x \in Processes \ {p} : pc'[x] = pc[x] /\ loc'[x] = loc[x]
  BY Zenon DEF ProcessTypes, Become

(* The types of the store and of the processes are preserved by every step.  *)
THEOREM ServiceTypesStep ==
  ASSUME IInv, ServiceStep
  PROVE  StoreTypes' /\ ProcessTypes'
<1>. USE DEF IInv, TypeInv
<1>1. ASSUME NEW s \in Sessions, NEW k \in Packs, Start(s, k)
      PROVE  StoreTypes' /\ ProcessTypes'
  BY <1>1 DEF Start, StoreTypes, ProcessTypes
<1>2. ASSUME NEW r \in Requests, Asking(r)
      PROVE  StoreTypes' /\ ProcessTypes'
  <2>1. StoreTypes'
    BY <1>2 DEF Asking, StoreTypes, stored
  <2>2. asked' \in Seq(Requests) /\ DOMAIN asked \subseteq DOMAIN asked'
    BY <1>2, AppendOne DEF Asking, ProcessTypes
  <2>. QED  BY <1>2, <2>1, <2>2 DEF Asking, ProcessTypes
<1>3. ASSUME NEW p \in Processes, NEW q \in DOMAIN asked, Serve(p, q)
      PROVE  StoreTypes' /\ ProcessTypes'
  <2>1. StoreTypes'
    BY <1>3 DEF Serve, StoreTypes, stored
  <2>2. PICK h : Become(p, "generate", [request |-> q, history |-> h])
    BY <1>3 DEF Serve
  <2>. QED  BY <1>3, <2>1, <2>2, BecomeTypes DEF Serve, ProcessTypes
<1>4. ASSUME NEW p \in Processes, NEW n \in AnswerSizes, AppendExchange(p, n)
      PROVE  StoreTypes' /\ ProcessTypes'
  <2>. DEFINE q == loc[p].request  s == asked[q].session
  <2>1. q \in DOMAIN asked /\ asked[q] \in Requests
    <3>1. pc[p] = "generate"
      BY <1>4 DEF AppendExchange
    <3>2. loc[p].request \in DOMAIN asked /\ asked \in Seq(Requests)
      BY <3>1 DEF ProcessTypes
    <3>. QED  BY <3>2, ElementOfSeq, LenProperties
  <2>2. s \in Sessions /\ asked[q].size \in Nat /\ n \in Nat /\ q \in Nat
    BY <2>1, ChatAssumption DEF Requests, ProcessTypes
  <2>3. CASE Bound(q) /\ Current(q)
    <3>1. Message(q, "student", asked[q].size) \in Messages /\ Message(q, "professor", n) \in Messages
      BY <2>2 DEF Message, Messages
    <3>2. messages[s] \o Exchange(q, n) \in Seq(Messages)
      BY <2>2, <3>1, AppendTwo DEF Exchange, StoreTypes
    <3>3. /\ messages' = [messages EXCEPT ![s] = @ \o Exchange(q, n)]
          /\ shown' = [shown EXCEPT ![s] = Append(@, loc[p].history)]
          /\ Become(p, "reply", loc[p]) /\ UNCHANGED <<sessions, asked, answered>>
      BY <1>4, <2>3 DEF AppendExchange
    <3>4. messages' \in [Sessions -> Seq(Messages)] /\ sessions' \in [Sessions -> Packs \cup {None}]
      BY <2>2, <3>2, <3>3 DEF StoreTypes
    <3>5. shown' = [t \in Sessions |-> shown'[t]]
      BY <2>2, <3>3, Zenon DEF StoreTypes
    <3>6. \A t \in Sessions : \E H : shown'[t] \in Seq(H)
      <4>1. PICK H : shown[s] \in Seq(H)
        BY <2>2 DEF StoreTypes
      <4>2. shown'[s] \in Seq(H \cup {loc[p].history})
        BY <2>2, <3>3, <4>1, AppendAny DEF StoreTypes
      <4>. QED  BY <2>2, <3>3, <4>2 DEF StoreTypes
    <3>7. ProcessTypes'
      BY <2>1, <3>3, BecomeTypes DEF ProcessTypes
    <3>. QED  BY <3>4, <3>5, <3>6, <3>7 DEF StoreTypes
  <2>4. CASE ~(Bound(q) /\ Current(q))
    <3>1. Become(p, "idle", NoLocals) /\ UNCHANGED <<messages, shown, sessions, asked, answered>>
      BY <1>4, <2>4 DEF AppendExchange
    <3>. QED  BY <3>1, BecomeTypes DEF ProcessTypes, StoreTypes
  <2>. QED  BY <2>3, <2>4
<1>5. ASSUME NEW p \in Processes, Reply(p)
      PROVE  StoreTypes' /\ ProcessTypes'
  <2>1. loc[p].request \in DOMAIN asked
    BY <1>5 DEF Reply, ProcessTypes
  <2>. QED  BY <1>5, <2>1, BecomeTypes DEF Reply, ProcessTypes, StoreTypes, stored
<1>6. ASSUME NEW p \in Processes, Fail(p)
      PROVE  StoreTypes' /\ ProcessTypes'
  BY <1>6, BecomeTypes DEF Fail, ProcessTypes, StoreTypes, stored
<1>7. CASE UNCHANGED vars
  BY <1>7 DEF vars, stored, ProcessTypes, StoreTypes
<1>. QED  BY <1>1, <1>2, <1>3, <1>4, <1>5, <1>6, <1>7 DEF ServiceStep

-----------------------------------------------------------------------------
(* What is stored for a request is left alone by a step that keeps the        *)
(* messages, the requests and the packs of the sessions that have messages.   *)
LEMMA KeptInPlace ==
  ASSUME IInv, asked' \in Seq(Requests), DOMAIN asked \subseteq DOMAIN asked',
         \A q \in DOMAIN asked : asked'[q] = asked[q],
         \A s \in Sessions : sessions[s] # None => sessions'[s] = sessions[s],
         UNCHANGED <<messages, shown>>
  PROVE  /\ \A s \in Sessions :
              /\ Len(messages'[s]) = 2 * Len(shown'[s])
              /\ \A e \in DOMAIN shown'[s] : messages'[s][2 * e].role = "professor"
              /\ \A i \in DOMAIN messages'[s] : InPlace(messages[s][i], s, i)'
         /\ \A q \in DOMAIN asked : IsStored(q) => IsStored(q)'
<1>1. ASSUME NEW s \in Sessions, NEW i \in DOMAIN messages[s]
      PROVE  InPlace(messages[s][i], s, i)'
  <2>. DEFINE q == messages[s][i].request
  <2>1. q \in DOMAIN asked /\ asked[q].pack = sessions[s] /\ InPlace(messages[s][i], s, i)
    BY DEF IInv, StoreInv, InPlace
  <2>2. asked[q] \in Requests
    BY <2>1, ElementOfSeq, LenProperties DEF IInv, TypeInv, ProcessTypes
  <2>3. sessions[s] # None
    BY <2>1, <2>2, ChatAssumption DEF Requests
  <2>. QED  BY <2>1, <2>3 DEF InPlace
<1>2. \A q \in DOMAIN asked : IsStored(q) => IsStored(q)'
  BY DEF IsStored
<1>. QED  BY <1>1, <1>2 DEF IInv, StoreInv

(* What is stored for a request stays in its place, and what a process is     *)
(* about to answer is stored, after every step.                               *)
THEOREM StoreInvStep ==
  ASSUME IInv, ServiceStep
  PROVE  StoreInv'
<1>. USE DEF IInv, TypeInv
<1>1. ASSUME NEW s \in Sessions, NEW k \in Packs, Start(s, k)
      PROVE  StoreInv'
  <2>1. \A t \in Sessions : sessions[t] # None => sessions'[t] = sessions[t]
    BY <1>1 DEF Start, StoreTypes
  <2>2. /\ \A q \in answered : q \in DOMAIN asked
        /\ \A p \in Processes : pc[p] = "reply" => loc[p].request \in DOMAIN asked
    BY DEF ProcessTypes
  <2>. QED  BY <1>1, <2>1, <2>2, KeptInPlace DEF Start, ProcessTypes, StoreInv
<1>2. ASSUME NEW r \in Requests, Asking(r)
      PROVE  StoreInv'
  <2>1. /\ asked' \in Seq(Requests) /\ DOMAIN asked \subseteq DOMAIN asked'
        /\ \A q \in DOMAIN asked : asked'[q] = asked[q]
    BY <1>2, AppendOne DEF Asking, ProcessTypes
  <2>2. /\ \A q \in answered : q \in DOMAIN asked
        /\ \A p \in Processes : pc[p] = "reply" => loc[p].request \in DOMAIN asked
    BY DEF ProcessTypes
  <2>. QED  BY <1>2, <2>1, <2>2, KeptInPlace DEF Asking, stored, StoreInv
<1>3. ASSUME NEW p \in Processes, NEW q \in DOMAIN asked, Serve(p, q)
      PROVE  StoreInv'
  <2>1. PICK h : Become(p, "generate", [request |-> q, history |-> h])
    BY <1>3 DEF Serve
  <2>2. UNCHANGED <<stored, asked, answered>>
    BY <1>3 DEF Serve
  <2>3. \A x \in Processes : pc'[x] = "reply" => pc[x] = "reply" /\ loc'[x] = loc[x]
    BY <2>1, <2>2, BecomeTypes
  <2>4. \A q1 : IsStored(q1)' <=> IsStored(q1)
    BY <2>2 DEF IsStored, stored
  <2>. QED  BY <2>2, <2>3, <2>4 DEF StoreInv, stored, InPlace
<1>4. ASSUME NEW p \in Processes, NEW n \in AnswerSizes, AppendExchange(p, n)
      PROVE  StoreInv'
  <2>1. PICK q \in DOMAIN asked : q = loc[p].request /\ asked[q] \in Requests
    <3>1. pc[p] = "generate"
      BY <1>4 DEF AppendExchange
    <3>2. loc[p].request \in DOMAIN asked /\ asked \in Seq(Requests)
      BY <3>1 DEF ProcessTypes
    <3>. QED  BY <3>2, ElementOfSeq, LenProperties
  <2>2. PICK s \in Sessions : s = asked[q].session
    BY <2>1 DEF Requests
  <2>3. asked[q].size \in Nat /\ n \in Nat /\ q \in Nat
    BY <2>1, ChatAssumption DEF Requests, ProcessTypes
  <2>4. CASE Bound(q) /\ Current(q)
    <3>. DEFINE x == Message(q, "student", asked[q].size)
                y == Message(q, "professor", n)
                m == messages[s] \o <<x, y>>
    <3>1. x \in Messages /\ y \in Messages
      BY <2>3 DEF Message, Messages
    <3>2. /\ messages' = [messages EXCEPT ![s] = m]
          /\ shown' = [shown EXCEPT ![s] = Append(@, loc[p].history)]
          /\ Become(p, "reply", loc[p]) /\ UNCHANGED <<sessions, asked, answered>>
      BY <1>4, <2>1, <2>2, <2>4 DEF AppendExchange, Exchange
    <3>3. sessions[s] = asked[q].pack /\ Len(messages[s]) = asked[q].seen
      BY <2>2, <2>4 DEF Bound, Current
    <3>4. messages[s] \in Seq(Messages) /\ Len(messages[s]) \in Nat
      BY <2>2, LenProperties DEF StoreTypes
    <3>. HIDE DEF x, y
    <3>5. /\ Len(m) = Len(messages[s]) + 2
          /\ DOMAIN m = DOMAIN messages[s] \cup {Len(messages[s]) + 1, Len(messages[s]) + 2}
          /\ \A i \in DOMAIN messages[s] : m[i] = messages[s][i]
          /\ m[Len(messages[s]) + 1] = x /\ m[Len(messages[s]) + 2] = y
      BY <3>1, <3>4, AppendTwo
    <3>. HIDE DEF m
    <3>6. messages'[s] = m /\ \A t \in Sessions \ {s} : messages'[t] = messages[t]
      BY <2>2, <3>2 DEF StoreTypes
    <3>7. PICK H : shown[s] \in Seq(H)
      BY <2>2 DEF StoreTypes
    <3>8. /\ Len(shown'[s]) = Len(shown[s]) + 1 /\ Len(shown[s]) \in Nat
          /\ DOMAIN shown'[s] = 1..(Len(shown[s]) + 1) /\ DOMAIN shown[s] = 1..Len(shown[s])
          /\ \A t \in Sessions \ {s} : shown'[t] = shown[t]
      <4>1. shown'[s] = Append(shown[s], loc[p].history) /\ \A t \in Sessions \ {s} : shown'[t] = shown[t]
        BY <2>2, <3>2 DEF StoreTypes
      <4>2. shown'[s] \in Seq(H \cup {loc[p].history}) /\ Len(shown'[s]) = Len(shown[s]) + 1
        BY <3>7, <4>1, AppendAny
      <4>. QED  BY <3>7, <4>1, <4>2, LenProperties
    <3>9. x.request = q /\ x.role = "student" /\ y.request = q /\ y.role = "professor"
      BY DEF x, y, Message
    <3>10. ASSUME NEW t \in Sessions, NEW i \in DOMAIN messages'[t]
           PROVE  InPlace(messages[t][i], t, i)'
      <4>1. CASE t # s \/ i \in DOMAIN messages[s]
        <5>1. messages'[t][i] = messages[t][i] /\ i \in DOMAIN messages[t]
          BY <3>5, <3>6, <4>1
        <5>2. InPlace(messages[t][i], t, i)
          BY <5>1 DEF StoreInv
        <5>. QED  BY <3>2, <5>1, <5>2 DEF InPlace
      <4>2. CASE t = s /\ i = Len(messages[s]) + 1
        <5>1. messages'[t][i] = x /\ asked'[q].seen = i - 1
          BY <3>2, <3>3, <3>4, <3>5, <3>6, <4>2
        <5>. QED  BY <2>2, <3>2, <3>3, <3>9, <4>2, <5>1 DEF InPlace
      <4>3. CASE t = s /\ i = Len(messages[s]) + 2
        <5>1. messages'[t][i] = y /\ asked'[q].seen = i - 2
          BY <3>2, <3>3, <3>4, <3>5, <3>6, <4>3
        <5>. QED  BY <2>2, <3>2, <3>3, <3>9, <4>3, <5>1 DEF InPlace
      <4>. QED  BY <3>5, <3>6, <4>1, <4>2, <4>3
    <3>11. ASSUME NEW t \in Sessions
           PROVE  /\ Len(messages'[t]) = 2 * Len(shown'[t])
                  /\ \A e \in DOMAIN shown'[t] : messages'[t][2 * e].role = "professor"
      <4>1. CASE t # s
        BY <3>6, <3>8, <4>1 DEF StoreInv
      <4>2. CASE t = s
        <5>1. Len(messages[s]) = 2 * Len(shown[s]) /\ DOMAIN messages[s] = 1..Len(messages[s])
          BY <2>2, <3>4, LenProperties DEF StoreInv
        <5>2. Len(messages'[s]) = 2 * Len(shown'[s])
          BY <3>5, <3>6, <3>8, <5>1
        <5>3. ASSUME NEW e \in DOMAIN shown[s]
              PROVE  m[2 * e].role = "professor"
          <6>1. e \in 1..Len(shown[s]) /\ 2 * e \in 1..(2 * Len(shown[s]))
            BY <3>8
          <6>2. m[2 * e] = messages[s][2 * e]
            BY <3>5, <5>1, <6>1
          <6>. QED  BY <2>2, <6>2 DEF StoreInv
        <5>4. m[2 * (Len(shown[s]) + 1)].role = "professor"
          BY <3>5, <3>8, <3>9, <5>1
        <5>5. \A e \in DOMAIN shown'[s] : e \in DOMAIN shown[s] \/ e = Len(shown[s]) + 1
          BY <3>8
        <5>. QED  BY <3>6, <4>2, <5>2, <5>3, <5>4, <5>5
      <4>. QED  BY <4>1, <4>2
    <3>12. IsStored(q)' /\ \A q1 \in DOMAIN asked : IsStored(q1) => IsStored(q1)'
      <4>1. IsStored(q)'
        BY <2>2, <3>2, <3>5, <3>6, <3>9 DEF IsStored
      <4>2. \A q1 \in DOMAIN asked : asked[q1].session \in Sessions
        <5>. TAKE q1 \in DOMAIN asked
        <5>1. asked[q1] \in Requests
          BY ElementOfSeq, LenProperties DEF ProcessTypes
        <5>. QED  BY <5>1 DEF Requests
      <4>. QED  BY <3>2, <3>5, <3>6, <4>1, <4>2 DEF IsStored
    <3>13. \A z \in Processes : pc'[z] = "reply" =>
             \/ loc'[z].request = q
             \/ pc[z] = "reply" /\ loc'[z] = loc[z] /\ loc[z].request \in DOMAIN asked
      BY <2>1, <3>2, BecomeTypes DEF ProcessTypes
    <3>14. \A z \in answered' : z \in DOMAIN asked /\ IsStored(z)
      BY <3>2 DEF StoreInv, ProcessTypes
    <3>15. \A z \in Processes : pc'[z] = "reply" => IsStored(loc[z].request)'
      <4>. TAKE z \in Processes
      <4>. HAVE pc'[z] = "reply"
      <4>1. CASE loc'[z].request = q
        BY <3>12, <4>1 DEF IsStored
      <4>2. CASE pc[z] = "reply" /\ loc'[z] = loc[z] /\ loc[z].request \in DOMAIN asked
        <5>1. PICK r \in DOMAIN asked : r = loc[z].request
          BY <4>2
        <5>2. IsStored(r)
          BY <4>2, <5>1 DEF StoreInv
        <5>3. IsStored(r)'
          BY <3>12, <5>2
        <5>. QED  BY <4>2, <5>1, <5>3 DEF IsStored
      <4>. QED  BY <3>13, <4>1, <4>2
    <3>. QED  BY <3>10, <3>11, <3>12, <3>14, <3>15 DEF StoreInv
  <2>5. CASE ~(Bound(q) /\ Current(q))
    <3>1. Become(p, "idle", NoLocals) /\ UNCHANGED <<messages, shown, sessions, asked, answered>>
      BY <1>4, <2>1, <2>5 DEF AppendExchange
    <3>2. \A x \in Processes : pc'[x] = "reply" => pc[x] = "reply" /\ loc'[x] = loc[x]
      BY <3>1, BecomeTypes
    <3>3. \A q1 : IsStored(q1)' <=> IsStored(q1)
      BY <3>1 DEF IsStored
    <3>. QED  BY <3>1, <3>2, <3>3 DEF StoreInv, InPlace
  <2>. QED  BY <2>4, <2>5
<1>5. ASSUME NEW p \in Processes, Reply(p) \/ Fail(p)
      PROVE  StoreInv'
  <2>1. Become(p, "idle", NoLocals) /\ UNCHANGED <<stored, asked>>
    BY <1>5 DEF Reply, Fail
  <2>2. \A x \in Processes : pc'[x] = "reply" => pc[x] = "reply" /\ loc'[x] = loc[x]
    BY <2>1, BecomeTypes
  <2>3. \A q1 : IsStored(q1)' <=> IsStored(q1)
    BY <2>1 DEF IsStored, stored
  <2>4. \A q1 \in answered' : IsStored(q1)
    BY <1>5 DEF Reply, Fail, StoreInv
  <2>. QED  BY <2>1, <2>2, <2>3, <2>4 DEF StoreInv, stored, InPlace
<1>6. CASE UNCHANGED vars
  <2>1. \A q1 : IsStored(q1)' <=> IsStored(q1)
    BY <1>6 DEF IsStored, vars, stored
  <2>. QED  BY <1>6, <2>1 DEF vars, stored, StoreInv, InPlace
<1>. QED  BY <1>1, <1>2, <1>3, <1>4, <1>5, <1>6 DEF ServiceStep

-----------------------------------------------------------------------------
(* The window: the types of its variables, and that a session it has drawn is *)
(* there.                                                                     *)
LEMMA SessionsStay ==
  ASSUME IInv, ServiceStep
  PROVE  \A s \in Sessions : sessions[s] # None => sessions'[s] = sessions[s]
<1>1. CASE \E s \in Sessions, k \in Packs : Start(s, k)
  BY <1>1 DEF Start, IInv, TypeInv, StoreTypes
<1>2. CASE UNCHANGED sessions
  BY <1>2
<1>. QED  BY <1>1, <1>2 DEF ServiceStep, Asking, Serve, AppendExchange, Reply, Fail, vars, stored

(* Requests that were made before a step are the same after it.              *)
LEMMA RequestsStay ==
  ASSUME IInv, ServiceStep
  PROVE  /\ DOMAIN asked \subseteq DOMAIN asked'
         /\ \A q \in DOMAIN asked : asked'[q] = asked[q]
<1>1. ASSUME NEW r \in Requests, Asking(r)
      PROVE  /\ DOMAIN asked \subseteq DOMAIN asked'
             /\ \A q \in DOMAIN asked : asked'[q] = asked[q]
  BY <1>1, AppendOne DEF Asking, IInv, TypeInv, ProcessTypes
<1>2. CASE UNCHANGED asked
  BY <1>2
<1>. QED  BY <1>1, <1>2 DEF ServiceStep, Start, Serve, AppendExchange, Reply, Fail, vars

(* The requests and what was on the screen for them have one order.          *)
LEMMA Aligned ==
  ASSUME TypeInv
  PROVE  DOMAIN saw = DOMAIN asked /\ DOMAIN asked = 1..Len(asked) /\ Len(asked) \in Nat
BY LenProperties DEF TypeInv, ProcessTypes, WindowTypes

(* A drawing of the active session shows that session.                       *)
LEMMA DrawnActive ==
  ASSUME IInv, win.active # None
  PROVE  /\ Drawn \in Window
         /\ Drawn.active = win.active /\ Drawn.view = win.active
         /\ Drawn.question = win.question /\ Drawn.waits = win.waits
<1>1. win.active \in Sessions
  BY DEF IInv, TypeInv, WindowTypes, Window
<1>2. Len(messages[win.active]) \in Nat
  BY <1>1, LenProperties DEF IInv, TypeInv, StoreTypes
<1>. QED  BY <1>1, <1>2 DEF Drawn, Render, IInv, TypeInv, WindowTypes, Window

(* A new session is drawn as an empty conversation.                          *)
LEMMA Remembered ==
  ASSUME IInv, NEW s \in Sessions
  PROVE  /\ Remember(win, s) \in Window
         /\ Remember(win, s).active = s /\ Remember(win, s).view = s
         /\ Remember(win, s).question = win.question /\ Remember(win, s).waits = win.waits
BY DEF Remember, Render, IInv, TypeInv, WindowTypes, Window

-----------------------------------------------------------------------------
(* A step that draws, or leaves, the window and makes no request.             *)
LEMMA QuietStep ==
  ASSUME IInv, ServiceStep, UNCHANGED <<asked, saw>>,
         win' \in Window, last' \in Sessions, sessions'[last'] # None,
         win'.active # None => /\ sessions'[win'.active] # None
                               /\ ~win'.unloaded => win'.view = win'.active,
         win'.question \in {0, win.question},
         ~Idle' => /\ win'.question # 0 /\ win'.active # None
                   /\ asked[win'.question].session = win'.active,
         win'.waits \in Processes =>
           pc'[win'.waits] # "idle" /\ loc'[win'.waits].request = win'.question
  PROVE  WindowTypes' /\ WindowInv'
<1>1. WindowTypes'
  BY DEF IInv, TypeInv, WindowTypes
<1>2. win'.question # 0 => win'.question \in DOMAIN asked' /\ Mine(win.question)'
  BY DEF IInv, WindowInv, Mine
<1>3. win'.question # 0 => Mine(win.question)'
  BY <1>2
<1>. QED  BY <1>1, <1>2, <1>3 DEF IInv, WindowInv, Idle, Mine

(* What the window has drawn, and what it waits for, stays true of the        *)
(* service after every step of either.                                        *)
THEOREM WindowStep ==
  ASSUME IInv, ClientNext, ServiceStep
  PROVE  WindowTypes' /\ WindowInv'
<1>. USE DEF IInv, TypeInv
<1>1. ASSUME NEW s \in Sessions, NEW k \in Packs, Upload(s, k)
      PROVE  WindowTypes' /\ WindowInv'
  <2>1. /\ Idle /\ sessions'[s] # None /\ UNCHANGED <<asked, saw, pc, loc>>
        /\ win' = Remember(win, s) /\ last' = s
    BY <1>1, ChatAssumption DEF Upload, Start, StoreTypes
  <2>2. Idle'
    BY <2>1, Remembered DEF Idle
  <2>3. win'.waits \notin Processes
    BY <2>2, ClientAssumption DEF Idle
  <2>. QED  BY <2>1, <2>2, <2>3, Remembered, QuietStep
<1>2. ASSUME NEW s \in Sessions, NEW k \in Packs, OtherStart(s, k)
      PROVE  WindowTypes' /\ WindowInv'
  <2>1. /\ sessions'[s] # None /\ UNCHANGED <<asked, saw, pc, loc, win>>
        /\ last' \in {last, s}
    BY <1>2, ChatAssumption DEF OtherStart, Start, StoreTypes
  <2>2. \A t \in Sessions : sessions[t] # None => sessions'[t] # None
    BY SessionsStay
  <2>. QED  BY <2>1, <2>2, QuietStep DEF WindowTypes, WindowInv, Window, Idle
<1>3. ASSUME NEW s \in Sessions, NEW k \in Packs, NEW seen \in 0..MaxExchanges,
             NEW n \in QuestionSizes, NEW mode \in Modes, OtherAsk(s, k, seen, n, mode)
      PROVE  WindowTypes' /\ WindowInv'
  <2>1. /\ saw' = Append(saw, "other") /\ UNCHANGED <<win, last, sessions, pc, loc>>
        /\ \E r : asked' = Append(asked, r) /\ r \in Requests
    <3>. DEFINE r == [session |-> s, pack |-> k, seen |-> 2 * seen, size |-> n, mode |-> mode]
    <3>1. n \in Nat /\ 2 * seen \in Nat
      BY ChatAssumption
    <3>2. r \in Requests
      BY <3>1 DEF Requests
    <3>. QED  BY <1>3, <3>2 DEF OtherAsk, Ask, stored
  <2>2. /\ saw' \in Seq(Sessions \cup {None, "unloaded", "other"}) /\ Len(saw') = Len(asked')
        /\ DOMAIN saw' = DOMAIN saw \cup {Len(saw) + 1}
        /\ \A q \in DOMAIN saw : saw'[q] = saw[q]
        /\ saw'[Len(saw) + 1] = "other"
    BY <2>1, AppendOne DEF WindowTypes, ProcessTypes
  <2>3. DOMAIN saw = DOMAIN asked /\ DOMAIN asked \subseteq DOMAIN asked'
        /\ \A q \in DOMAIN asked : asked'[q] = asked[q]
    BY Aligned, RequestsStay
  <2>4. WindowTypes'
    BY <2>1, <2>2 DEF WindowTypes
  <2>5. win.question # 0 => win.question \in DOMAIN asked' /\ Mine(win.question)'
    BY <2>1, <2>2, <2>3 DEF WindowInv, Mine
  <2>6. \A q \in DOMAIN saw' : saw'[q] \in {asked'[q].session, "unloaded", "other"}
    BY <2>2, <2>3 DEF WindowInv
  <2>7. ~Idle => asked'[win.question].session = win.active
    BY <2>3 DEF WindowInv
  <2>. QED  BY <2>1, <2>4, <2>5, <2>6, <2>7 DEF WindowInv, Idle, Mine
<1>4. CASE Resume
  <2>1. Idle /\ UNCHANGED <<vars, last, saw>>
    BY <1>4 DEF Resume
  <2>2. /\ last \in Sessions /\ Len(messages[last]) \in Nat /\ sessions[last] # None
    BY LenProperties DEF WindowTypes, WindowInv, StoreTypes
  <2>3. /\ win' \in Window /\ win'.active = last
        /\ ~win'.unloaded => win'.view = last
        /\ win'.question = win.question /\ win'.waits = win.waits
    <3>. DEFINE w == [win EXCEPT !.active = last, !.unloaded = last # win.view]
    <3>1. win' = w \/ win' = Render(w, last, Len(messages[last]))
      BY <1>4 DEF Resume
    <3>2. /\ w \in Window /\ w.active = last /\ (~w.unloaded => w.view = last)
          /\ w.question = win.question /\ w.waits = win.waits
      BY <2>2 DEF WindowTypes, Window
    <3>. HIDE DEF w
    <3>. QED  BY <2>2, <3>1, <3>2 DEF Render, Window
  <2>. QED  BY <2>1, <2>2, <2>3, ClientAssumption, QuietStep DEF vars, stored, Idle
<1>5. CASE Refresh
  <2>1. Idle /\ win.active # None /\ win' = Drawn /\ UNCHANGED <<vars, last, saw>>
    BY <1>5 DEF Refresh
  <2>. QED  BY <2>1, DrawnActive, ClientAssumption, QuietStep DEF vars, stored, Idle, WindowTypes, WindowInv
<1>6. CASE SendAgain
  <2>1. /\ win' = [win EXCEPT !.waits = "process"] /\ UNCHANGED <<vars, last, saw>>
        /\ win.question # 0 /\ asked[win.question].session = win.active
    BY <1>6 DEF SendAgain
  <2>2. /\ win' \in Window /\ win'.waits = "process" /\ win'.question = win.question
        /\ win'.active = win.active /\ win'.view = win.view /\ win'.unloaded = win.unloaded
    BY <2>1 DEF WindowTypes, Window
  <2>3. win.question \in DOMAIN asked
    BY <2>1 DEF WindowInv
  <2>4. asked[win.question] \in Requests
    BY <2>3, ElementOfSeq, LenProperties DEF ProcessTypes
  <2>5. win.active # None
    BY <2>1, <2>4, ChatAssumption DEF Requests
  <2>. QED  BY <2>1, <2>2, <2>5, ClientAssumption, QuietStep DEF vars, stored, Idle, WindowTypes, WindowInv
<1>7. CASE Broken
  <2>1. PICK w \in {win, Drawn} : win' = [w EXCEPT !.waits = "nothing"]
    BY <1>7 DEF Broken
  <2>2. win.active # None /\ UNCHANGED <<vars, last, saw>>
    BY <1>7 DEF Broken, WindowInv
  <2>3. /\ w \in Window /\ w.active = win.active /\ w.question = win.question
        /\ ~w.unloaded => w.view = win.active
    BY <2>2, DrawnActive DEF WindowTypes, WindowInv
  <2>4. /\ win' \in Window /\ win'.waits = "nothing" /\ win'.question = win.question
        /\ win'.active = win.active /\ (~win'.unloaded => win'.view = win'.active)
    BY <2>1, <2>3 DEF Window
  <2>. QED  BY <2>2, <2>4, ClientAssumption, QuietStep DEF vars, stored, Idle, WindowTypes, WindowInv
<1>8. ASSUME NEW n \in QuestionSizes, NEW mode \in Modes, Send(n, mode)
      PROVE  WindowTypes' /\ WindowInv'
  <2>1. PICK r \in Requests : asked' = Append(asked, r) /\ r.session = win.active
    BY <1>8, SendAsks DEF Asking
  <2>2. PICK x : x = IF win.unloaded THEN "unloaded" ELSE win.view
    OBVIOUS
  <2>3. win.active \in Sessions /\ sessions[win.active] # None
        /\ x \in {win.active, "unloaded"} /\ x # "other"
    BY <1>8, <2>2, ClientAssumption DEF Send, WindowTypes, Window, WindowInv
  <2>4. saw' = Append(saw, x) /\ UNCHANGED <<last, sessions, pc, loc>>
    BY <1>8, <2>2 DEF Send, stored
  <2>5. /\ saw' \in Seq(Sessions \cup {None, "unloaded", "other"}) /\ Len(saw') = Len(saw) + 1
        /\ DOMAIN saw' = DOMAIN saw \cup {Len(saw) + 1}
        /\ \A q \in DOMAIN saw : saw'[q] = saw[q]
        /\ saw'[Len(saw) + 1] = x
    BY <2>3, <2>4, AppendOne DEF WindowTypes
  <2>6. /\ Len(asked') = Len(asked) + 1 /\ DOMAIN asked' = DOMAIN asked \cup {Len(asked) + 1}
        /\ \A q \in DOMAIN asked : asked'[q] = asked[q]
        /\ asked'[Len(asked) + 1] = r
    BY <2>1, AppendOne DEF ProcessTypes
  <2>7. DOMAIN saw = DOMAIN asked /\ Len(saw) = Len(asked) /\ Len(asked) \in Nat
    BY Aligned DEF WindowTypes
  <2>8. /\ win' \in Window /\ win'.question = Len(asked) + 1 /\ win'.waits = "process"
        /\ win'.active = win.active /\ win'.view = win.view /\ win'.unloaded = win.unloaded
    <3>1. PICK l \in Nat : l = Len(asked') /\ l = Len(asked) + 1
      BY <2>6, <2>7
    <3>2. win' = [win EXCEPT !.question = l, !.waits = "process"]
      BY <1>8, <3>1, Zenon DEF Send
    <3>. QED  BY <3>1, <3>2 DEF WindowTypes, Window
  <2>9. WindowTypes'
    BY <2>4, <2>5, <2>6, <2>7, <2>8 DEF WindowTypes
  <2>10. /\ win'.question # 0 /\ win'.question \in DOMAIN asked' /\ saw'[win'.question] # "other"
         /\ asked'[win'.question].session = win'.active
    BY <2>1, <2>3, <2>5, <2>6, <2>7, <2>8
  <2>11. \A q \in DOMAIN saw' : saw'[q] \in {asked'[q].session, "unloaded", "other"}
    BY <2>1, <2>3, <2>5, <2>6, <2>7 DEF WindowInv
  <2>. QED  BY <2>3, <2>4, <2>8, <2>9, <2>10, <2>11, ChatAssumption, ClientAssumption DEF WindowInv, Idle, Mine
<1>9. ASSUME NEW p \in Processes, NEW q \in DOMAIN asked, Taken(p, q)
      PROVE  WindowTypes' /\ WindowInv'
  <2>1. PICK h : Become(p, "generate", [request |-> q, history |-> h])
    BY <1>9 DEF Taken, Serve
  <2>2. pc[p] = "idle" /\ UNCHANGED <<stored, asked, answered, last, saw>>
    BY <1>9 DEF Taken, Serve
  <2>3. /\ pc'[p] = "generate" /\ loc'[p].request = q
        /\ \A x \in Processes \ {p} : pc'[x] = pc[x] /\ loc'[x] = loc[x]
    BY <2>1, <2>2, BecomeTypes
  <2>4. CASE Mine(q) /\ win.waits = "process" /\ win.question = q
    <3>1. win' = [win EXCEPT !.waits = p]
      BY <1>9, <2>4 DEF Taken
    <3>2. /\ win' \in Window /\ win'.waits = p /\ win'.question = win.question
          /\ win'.active = win.active /\ win'.view = win.view /\ win'.unloaded = win.unloaded
      BY <3>1 DEF WindowTypes, Window
    <3>. QED  BY <2>2, <2>3, <2>4, <3>2, QuietStep DEF stored, WindowTypes, WindowInv, Idle
  <2>5. CASE win' = win
    <3>1. win.waits # p
      BY <2>2 DEF WindowInv
    <3>. QED  BY <2>2, <2>3, <2>5, <3>1, QuietStep DEF stored, WindowTypes, WindowInv, Idle
  <2>. QED  BY <1>9, <2>4, <2>5 DEF Taken
<1>10. ASSUME NEW p \in Processes, Answered(p)
       PROVE  WindowTypes' /\ WindowInv'
  <2>1. PICK q \in DOMAIN asked : q = loc[p].request /\ asked[q] \in Requests
    BY <1>10, ElementOfSeq, LenProperties DEF Answered, Reply, ProcessTypes
  <2>2. Become(p, "idle", NoLocals) /\ UNCHANGED <<stored, asked, last, saw>>
    BY <1>10 DEF Answered, Reply
  <2>3. \A x \in Processes \ {p} : pc'[x] = pc[x] /\ loc'[x] = loc[x]
    BY <2>2, BecomeTypes
  <2>4. CASE Mine(q)
    <3>1. /\ win.waits = p
          /\ win' = [Render(win, asked[q].session, asked[q].seen + 2) EXCEPT !.question = 0, !.waits = "nothing"]
      BY <1>10, <2>1, <2>4 DEF Answered
    <3>2. q = win.question /\ win.active = asked[q].session /\ win.active # None
      BY <2>1, <3>1, ClientAssumption DEF WindowInv, Idle
    <3>3. asked[q].session \in Sessions /\ asked[q].seen + 2 \in Nat
      BY <2>1 DEF Requests
    <3>4. /\ win' \in Window /\ win'.waits = "nothing" /\ win'.question = 0
          /\ win'.active = win.active /\ win'.view = win.active
      BY <3>1, <3>2, <3>3 DEF Render, WindowTypes, Window
    <3>. QED  BY <2>2, <3>4, ClientAssumption, QuietStep DEF stored, WindowTypes, WindowInv, Idle
  <2>5. CASE ~Mine(q)
    <3>1. win' = win
      BY <1>10, <2>1, <2>5 DEF Answered
    <3>2. win.waits # p
      BY <2>1, <2>5, ClientAssumption DEF WindowInv, Idle
    <3>. QED  BY <2>2, <2>3, <3>1, <3>2, QuietStep DEF stored, WindowTypes, WindowInv, Idle
  <2>. QED  BY <2>4, <2>5
<1>11. ASSUME NEW p \in Processes, Serving(p)
       PROVE  WindowTypes' /\ WindowInv'
  <2>1. /\ UNCHANGED <<sessions, asked, answered, last, saw>>
        /\ Become(p, "idle", NoLocals) \/ (Become(p, "reply", loc[p]) /\ pc[p] # "idle")
    BY <1>11 DEF Serving, AppendExchange, Fail, stored
  <2>2. /\ pc'[p] = "idle" \/ (pc'[p] = "reply" /\ loc'[p] = loc[p])
        /\ \A x \in Processes \ {p} : pc'[x] = pc[x] /\ loc'[x] = loc[x]
    <3>1. CASE Become(p, "idle", NoLocals)
      BY <2>1, <3>1, BecomeTypes
    <3>2. CASE Become(p, "reply", loc[p]) /\ pc[p] # "idle"
      BY <2>1, <3>2, BecomeTypes DEF ProcessTypes
    <3>. QED  BY <2>1, <3>1, <3>2
  <2>3. CASE win.waits = p /\ pc'[p] = "idle"
    <3>1. win' = [win EXCEPT !.waits = "nobody"]
      BY <1>11, <2>3 DEF Serving
    <3>2. /\ win' \in Window /\ win'.waits = "nobody" /\ win'.question = win.question
          /\ win'.active = win.active /\ win'.view = win.view /\ win'.unloaded = win.unloaded
      BY <3>1 DEF WindowTypes, Window
    <3>3. ~Idle
      BY <2>3, ClientAssumption DEF Idle
    <3>. QED  BY <2>1, <3>2, <3>3, ClientAssumption, QuietStep DEF WindowTypes, WindowInv, Idle
  <2>4. CASE ~(win.waits = p /\ pc'[p] = "idle")
    <3>1. win' = win
      BY <1>11, <2>4 DEF Serving
    <3>. QED  BY <2>1, <2>2, <2>4, <3>1, QuietStep DEF WindowTypes, WindowInv, Idle
  <2>. QED  BY <2>3, <2>4
<1>. QED  BY <1>1, <1>2, <1>3, <1>4, <1>5, <1>6, <1>7, <1>8, <1>9, <1>10, <1>11 DEF ClientNext

-----------------------------------------------------------------------------
(* The store of an earlier run satisfies the invariant.                      *)
LEMMA InitIInv == ClientInit => IInv
<1>. SUFFICES ASSUME ClientInit PROVE IInv
  OBVIOUS
<1>1. PICK s \in Sessions, k \in Packs, m \in QuestionSizes, n \in AnswerSizes :
        /\ sessions = [t \in Sessions |-> IF t = s THEN k ELSE None]
        /\ messages = [t \in Sessions |->
             IF t = s THEN <<Message(1, "student", m), Message(1, "professor", n)>> ELSE <<>>]
        /\ shown = [t \in Sessions |-> IF t = s THEN <<<<>>>> ELSE <<>>]
        /\ asked = <<[session |-> s, pack |-> k, seen |-> 0, size |-> m, mode |-> "course"]>>
        /\ answered = {1}
        /\ pc = [p \in Processes |-> "idle"] /\ loc = [p \in Processes |-> NoLocals]
  BY DEF ClientInit, Init
<1>2. /\ last \in Sessions /\ sessions[last] # None /\ saw = <<"other">>
      /\ win = [active |-> None, view |-> None, messageCount |-> 0, question |-> 0,
                waits |-> "nothing", unloaded |-> FALSE]
  BY DEF ClientInit
<1>3. m \in Nat /\ n \in Nat /\ k # None
  BY ChatAssumption
<1>. DEFINE x == Message(1, "student", m)  y == Message(1, "professor", n)
            r == [session |-> s, pack |-> k, seen |-> 0, size |-> m, mode |-> "course"]
<1>4. /\ x \in Messages /\ x.request = 1 /\ x.role = "student"
      /\ y \in Messages /\ y.request = 1 /\ y.role = "professor"
  BY <1>3 DEF Message, Messages
<1>5. r \in Requests /\ r.session = s /\ r.pack = k /\ r.seen = 0
  BY <1>3 DEF Requests, Modes
<1>. HIDE DEF x, y, r
<1>6. /\ <<x, y>> \in Seq(Messages) /\ Len(<<x, y>>) = 2 /\ DOMAIN <<x, y>> = {1, 2}
      /\ <<x, y>>[1] = x /\ <<x, y>>[2] = y /\ <<>> \in Seq(Messages)
  BY <1>4
<1>7. /\ messages = [t \in Sessions |-> IF t = s THEN <<x, y>> ELSE <<>>]
      /\ asked = <<r>>
  BY <1>1 DEF x, y, r
<1>8. asked \in Seq(Requests) /\ DOMAIN asked = {1} /\ asked[1] = r /\ Len(asked) = 1
  BY <1>5, <1>7
<1>9. StoreTypes
  <2>1. sessions \in [Sessions -> Packs \cup {None}] /\ messages \in [Sessions -> Seq(Messages)]
    BY <1>1, <1>6, <1>7
  <2>2. shown = [t \in Sessions |-> shown[t]] /\ \A t \in Sessions : shown[t] \in Seq({<<>>})
    BY <1>1
  <2>. QED  BY <2>1, <2>2 DEF StoreTypes
<1>10. ProcessTypes
  BY <1>1, <1>8 DEF ProcessTypes
<1>11. WindowTypes
  BY <1>2, <1>8 DEF WindowTypes, Window
<1>12. StoreInv
  <2>1. ASSUME NEW t \in Sessions
        PROVE  /\ Len(messages[t]) = 2 * Len(shown[t])
               /\ \A e \in DOMAIN shown[t] : messages[t][2 * e].role = "professor"
    BY <1>1, <1>4, <1>6, <1>7
  <2>2. ASSUME NEW t \in Sessions, NEW i \in DOMAIN messages[t]
        PROVE  InPlace(messages[t][i], t, i)
    <3>1. t = s /\ i \in {1, 2}
      BY <1>6, <1>7
    <3>2. sessions[t] = k
      BY <1>1, <3>1
    <3>3. (i = 1 /\ messages[t][i] = x) \/ (i = 2 /\ messages[t][i] = y)
      BY <1>6, <1>7, <3>1
    <3>. QED  BY <1>4, <1>5, <1>8, <3>1, <3>2, <3>3 DEF InPlace
  <2>3. IsStored(1)
    BY <1>4, <1>5, <1>6, <1>7, <1>8 DEF IsStored
  <2>. QED  BY <1>1, <2>1, <2>2, <2>3 DEF StoreInv
<1>13. WindowInv
  BY <1>2, ClientAssumption DEF WindowInv, Idle
<1>. QED  BY <1>9, <1>10, <1>11, <1>12, <1>13 DEF IInv, TypeInv

(* The invariant holds of every execution of the window and the service.     *)
THEOREM ChatInvariant == ClientSpec => []IInv
<1>1. IInv /\ [ClientNext]_chatVars => IInv'
  <2>. SUFFICES ASSUME IInv, [ClientNext]_chatVars PROVE IInv'
    OBVIOUS
  <2>1. ServiceStep
    BY StepOfService
  <2>2. (StoreTypes /\ ProcessTypes /\ StoreInv)'
    BY <2>1, ServiceTypesStep, StoreInvStep
  <2>3. (WindowTypes /\ WindowInv)'
    <3>1. CASE ClientNext
      BY <2>1, <3>1, WindowStep
    <3>2. CASE UNCHANGED chatVars
      BY <3>2 DEF chatVars, vars, stored, IInv, TypeInv, WindowTypes, WindowInv, Idle, Mine
    <3>. QED  BY <3>1, <3>2
  <2>. QED  BY <2>2, <2>3 DEF IInv, TypeInv
<1>. QED  BY InitIInv, <1>1, PTL DEF ClientSpec

-----------------------------------------------------------------------------
(* A request, however often it is sent and whichever processes take it, is     *)
(* stored once: one message of the student and one of the Professor.          *)
THEOREM RequestStoredOnceCorrect == ClientSpec => []RequestStoredOnce
<1>1. IInv => RequestStoredOnce
  <2>. SUFFICES ASSUME IInv, NEW s \in Sessions, NEW t \in Sessions,
                       NEW i \in DOMAIN messages[s], NEW j \in DOMAIN messages[t],
                       messages[s][i].request = messages[t][j].request,
                       messages[s][i].role = messages[t][j].role
                PROVE  s = t /\ i = j
    BY DEF RequestStoredOnce
  <2>1. InPlace(messages[s][i], s, i) /\ InPlace(messages[t][j], t, j)
    BY DEF IInv, StoreInv
  <2>2. i \in Nat /\ j \in Nat
    BY LenProperties DEF IInv, TypeInv, StoreTypes
  <2>. QED  BY <2>1, <2>2 DEF InPlace
<1>. QED  BY <1>1, ChatInvariant, PTL

(* An exchange is stored only under the pack its session is pinned to, and an  *)
(* answer that reached a window is stored.                                     *)
THEOREM PinnedToItsPackCorrect == ClientSpec => []PinnedToItsPack
<1>1. IInv => PinnedToItsPack
  BY DEF IInv, StoreInv, InPlace, IsStored, PinnedToItsPack
<1>. QED  BY <1>1, ChatInvariant, PTL

(* A question of the window is stored in the conversation that was on its      *)
(* screen, right after the exchanges that it showed, except after a failed     *)
(* resuming.                                                                   *)
THEOREM ContinuesWhatWasShownCorrect == ClientSpec => []ContinuesWhatWasShown
<1>1. IInv => ContinuesWhatWasShown
  <2>. SUFFICES ASSUME IInv, NEW s \in Sessions, NEW e \in DOMAIN shown[s],
                       Mine(messages[s][2 * e].request)
                PROVE  /\ saw[messages[s][2 * e].request] \in {s, "unloaded"}
                       /\ asked[messages[s][2 * e].request].seen = 2 * e - 2
    BY DEF ContinuesWhatWasShown
  <2>1. PICK H : shown[s] \in Seq(H)
    BY DEF IInv, TypeInv, StoreTypes
  <2>2. /\ DOMAIN shown[s] = 1..Len(shown[s]) /\ Len(shown[s]) \in Nat
        /\ DOMAIN messages[s] = 1..Len(messages[s]) /\ Len(messages[s]) = 2 * Len(shown[s])
    BY <2>1, LenProperties DEF IInv, TypeInv, StoreTypes, StoreInv
  <2>3. 2 * e \in DOMAIN messages[s]
    BY <2>2
  <2>4. InPlace(messages[s][2 * e], s, 2 * e) /\ messages[s][2 * e].role = "professor"
    BY <2>3 DEF IInv, StoreInv
  <2>5. messages[s][2 * e].request \in DOMAIN saw
    BY <2>4, Aligned DEF IInv, InPlace
  <2>. QED  BY <2>4, <2>5 DEF InPlace, Mine, IInv, WindowInv
<1>. QED  BY <1>1, ChatInvariant, PTL

-----------------------------------------------------------------------------
(* A non-empty set of natural numbers has a least element.                    *)
LEMMA LeastNumber ==
  ASSUME NEW S \in SUBSET Nat, S # {}
  PROVE  \E t \in S : \A u \in S : t <= u
<1>1. PICK t \in S : \A u \in S : ~ (<<u, t>> \in OpToRel(<, Nat))
  BY WFMin, NatLessThanWellFounded, Zenon
<1>2. \A u \in S : ~ (u < t)
  BY <1>1, S \subseteq Nat, Zenon DEF OpToRel
<1>. QED  BY <1>2, S \subseteq Nat

(* A non-empty set of numbers up to n has a largest element.                  *)
LEMMA LargestNumber ==
  ASSUME NEW n \in Nat, NEW S \in SUBSET (0..n), S # {}
  PROVE  \E t \in S : \A u \in S : t >= u
<1>. DEFINE left == {n - u : u \in S}
<1>1. left \in SUBSET Nat /\ left # {}
  <2>1. PICK u \in S : TRUE
    BY S # {}
  <2>2. n - u \in left
    OBVIOUS
  <2>. QED  BY <2>2
<1>2. PICK t \in left : \A u \in left : t <= u
  <2>. HIDE DEF left
  <2>. QED  BY <1>1, LeastNumber
<1>3. PICK u \in S : t = n - u
  BY <1>2
<1>4. \A v \in S : u >= v
  <2>1. \A v \in S : n - v \in left
    OBVIOUS
  <2>2. \A v \in S : n - u <= n - v
    BY <1>2, <1>3, <2>1, Zenon
  <2>. QED  BY <2>2
<1>. QED  BY <1>4

(* The context of a question is made of the last m exchanges for an m, which  *)
(* all fit; one more would not, or there is none.                             *)
LEMMA ContextIsRecent ==
  ASSUME NEW ms, NEW half \in Nat, Len(ms) = 2 * half, NEW current
  PROVE  \E m \in 0..half :
           /\ Context(ms, current) = Recent(ms, m) /\ m <= MaxPairs
           /\ m > 0 => Fits(ms, m, current)
           /\ m < half => ~Fits(ms, m + 1, current)
<1>. DEFINE fit == {n \in 0..half : \A k \in 1..n : Fits(ms, k, current)}
<1>1. fit = {n \in 0..(Len(ms) \div 2) : \A k \in 1..n : Fits(ms, k, current)}
  OBVIOUS
<1>2. 0 \in fit /\ fit \in SUBSET (0..half)
  OBVIOUS
<1>3. Max(fit) \in fit /\ \A n \in fit : Max(fit) >= n
  <2>. HIDE DEF fit
  <2>1. \E m \in fit : \A n \in fit : m >= n
    BY <1>2, LargestNumber
  <2>. QED  BY <2>1, Zenon DEF Max
<1>. DEFINE m == Max(fit)
<1>4. Context(ms, current) = Recent(ms, m)
  BY <1>1, Zenon DEF Context
<1>5. m \in 0..half /\ \A k \in 1..m : Fits(ms, k, current)
  <2>. HIDE DEF m
  <2>1. m \in fit
    BY <1>3 DEF m
  <2>. QED  BY <2>1
<1>6. m < half => ~Fits(ms, m + 1, current)
  <2>. HIDE DEF m
  <2>1. SUFFICES ASSUME m < half, Fits(ms, m + 1, current) PROVE FALSE
    OBVIOUS
  <2>2. \A k \in 1..(m + 1) : Fits(ms, k, current)
    BY <1>5, <2>1
  <2>3. m + 1 \in fit
    BY <1>5, <2>1, <2>2
  <2>4. m >= m + 1
    BY <1>3, <2>3, Zenon DEF m
  <2>. QED  BY <1>5, <2>4
<1>. HIDE DEF m
<1>7. m > 0 => Fits(ms, m, current)
  BY <1>5
<1>8. m <= MaxPairs
  <2>1. CASE m > 0
    BY <1>7, <2>1 DEF Fits
  <2>. QED  BY <1>5, <2>1, ChatAssumption
<1>. QED  BY <1>4, <1>5, <1>6, <1>7, <1>8

(* The last m exchanges of a conversation are its end.                        *)
LEMMA RecentIsSuffix ==
  ASSUME NEW S, NEW ms \in Seq(S), NEW half \in Nat, Len(ms) = 2 * half, NEW m \in 0..half
  PROVE  Len(Recent(ms, m)) = 2 * m /\ IsSuffix(Recent(ms, m), ms)
         /\ (m = 0 => Recent(ms, m) = <<>>)
<1>. DEFINE L == 2 * half
            h == Recent(ms, m)
            low == L - 2 * m + 1
<1>1. low \in Int /\ low \in 1..(L + 1) /\ DOMAIN ms = 1..L /\ \A i \in 1..L : ms[i] \in S
  BY ElementOfSeq
<1>2. h = SubSeq(ms, low, L)
  BY DEF Recent
<1>3. /\ h \in Seq(S) /\ Len(h) = 2 * m
      /\ \A i \in 1..(2 * m) : h[i] = ms[low + i - 1]
  <2>1. \A i \in low..L : ms[i] \in S
    BY <1>1
  <2>2. /\ SubSeq(ms, low, L) \in Seq(S)
        /\ Len(SubSeq(ms, low, L)) = IF low <= L THEN L - low + 1 ELSE 0
        /\ \A i \in 1..(L - low + 1) : SubSeq(ms, low, L)[i] = ms[low + i - 1]
    <3>. HIDE DEF low, L
    <3>1. L \in Int
      BY DEF L
    <3>. QED  BY <1>1, <2>1, <3>1, SubSeqProperties
  <2>3. (IF low <= L THEN L - low + 1 ELSE 0) = 2 * m /\ L - low + 1 = 2 * m
    OBVIOUS
  <2>. HIDE DEF h, low, L
  <2>. QED  BY <1>2, <2>2, <2>3
<1>. HIDE DEF h
<1>4. \A i \in 1..(2 * m) : Reverse(h)[i] = Reverse(ms)[i]
  <2>1. TAKE i \in 1..(2 * m)
  <2>2. Reverse(h)[i] = h[2 * m - i + 1]
    BY <1>3 DEF Reverse
  <2>3. Reverse(ms)[i] = ms[L - i + 1]
    BY DEF Reverse
  <2>4. h[2 * m - i + 1] = ms[low + (2 * m - i + 1) - 1]
    BY <1>3
  <2>. QED  BY <2>2, <2>3, <2>4
<1>5. /\ Reverse(h) \in Seq(S) /\ Len(Reverse(h)) = 2 * m
      /\ Reverse(ms) \in Seq(S) /\ Len(Reverse(ms)) = L
  <2>1. \A i \in 1..(2 * m) : h[(2 * m - i) + 1] \in S
    BY <1>3, ElementOfSeq
  <2>2. \A i \in 1..L : ms[(L - i) + 1] \in S
    BY <1>1
  <2>. QED  BY <1>3, <2>1, <2>2 DEF Reverse
<1>6. SubSeq(Reverse(h), 1, 2 * m) = SubSeq(Reverse(ms), 1, 2 * m)
  <2>. DEFINE a == Reverse(h)  b == Reverse(ms)
  <2>1. /\ SubSeq(a, 1, 2 * m) = [i \in 1..(2 * m) |-> a[i]]
        /\ SubSeq(b, 1, 2 * m) = [i \in 1..(2 * m) |-> b[i]]
    <3>. HIDE DEF a, b
    <3>. QED  OBVIOUS
  <2>. QED  BY <1>4, <2>1
<1>7. IsSuffix(h, ms)
  BY <1>5, <1>6 DEF IsSuffix, IsPrefix
<1>8. m = 0 => h = <<>>
  BY <1>3
<1>. QED  BY <1>3, <1>7, <1>8 DEF h

-----------------------------------------------------------------------------
(* The history an answer was generated from, or is being generated from, is   *)
(* the one its request saw: the context of the exchanges before the position  *)
(* it expects, or nothing in general mode.                                    *)
Seen(a, m, q) == SubSeq(m[a[q].session], 1, a[q].seen)

RightHistory(a, m, q, h) ==
  h = IF a[q].mode = "general" THEN <<>> ELSE Context(Seen(a, m, q), a[q].size)

HistoryInv ==
  /\ \A s \in Sessions : \A e \in DOMAIN shown[s] :
       RightHistory(asked, messages, messages[s][2 * e].request, shown[s][e])
  /\ \A p \in Processes : pc[p] = "generate" =>
       /\ RightHistory(asked, messages, loc[p].request, loc[p].history)
       /\ asked[loc[p].request].seen <= Len(messages[asked[loc[p].request].session])

(* Where the messages of an exchange are.                                     *)
LEMMA ExchangeIsStored ==
  ASSUME IInv, NEW s \in Sessions, NEW e \in DOMAIN shown[s]
  PROVE  /\ e \in 1..Len(shown[s]) /\ Len(shown[s]) \in Nat
         /\ 2 * e \in DOMAIN messages[s] /\ DOMAIN messages[s] = 1..Len(messages[s])
         /\ Len(messages[s]) \in Nat /\ messages[s] \in Seq(Messages)
         /\ messages[s][2 * e].request \in DOMAIN asked
         /\ asked[messages[s][2 * e].request].session = s
         /\ asked[messages[s][2 * e].request].seen = 2 * e - 2
<1>1. PICK H : shown[s] \in Seq(H)
  BY DEF IInv, TypeInv, StoreTypes
<1>2. /\ DOMAIN shown[s] = 1..Len(shown[s]) /\ Len(shown[s]) \in Nat
      /\ DOMAIN messages[s] = 1..Len(messages[s]) /\ Len(messages[s]) = 2 * Len(shown[s])
      /\ messages[s] \in Seq(Messages)
  BY <1>1, LenProperties DEF IInv, TypeInv, StoreTypes, StoreInv
<1>3. 2 * e \in DOMAIN messages[s]
  BY <1>2
<1>4. InPlace(messages[s][2 * e], s, 2 * e) /\ messages[s][2 * e].role = "professor"
  BY <1>3 DEF IInv, StoreInv
<1>. QED  BY <1>2, <1>3, <1>4 DEF InPlace

(* A step that keeps the requests and adds at most to the end of messages     *)
(* keeps what a request saw.                                                  *)
LEMMA SeenStays ==
  ASSUME IInv, NEW q \in DOMAIN asked, asked'[q] = asked[q],
         asked[q].seen <= Len(messages[asked[q].session]),
         \A s \in Sessions :
           \/ messages'[s] = messages[s]
           \/ \E x \in Messages, y \in Messages : messages'[s] = messages[s] \o <<x, y>>
  PROVE  /\ \A h : RightHistory(asked, messages, q, h) => RightHistory(asked', messages', q, h)
         /\ asked'[q].seen <= Len(messages'[asked'[q].session])
<1>1. asked[q] \in Requests
  BY ElementOfSeq, LenProperties DEF IInv, TypeInv, ProcessTypes
<1>2. PICK s \in Sessions : s = asked[q].session
  BY <1>1 DEF Requests
<1>3. asked[q].seen \in Nat /\ messages[s] \in Seq(Messages)
  BY <1>1 DEF Requests, IInv, TypeInv, StoreTypes
<1>4. /\ SubSeq(messages'[s], 1, asked[q].seen) = SubSeq(messages[s], 1, asked[q].seen)
      /\ asked[q].seen <= Len(messages'[s])
  <2>1. CASE messages'[s] = messages[s]
    BY <1>2, <2>1
  <2>2. ASSUME NEW x \in Messages, NEW y \in Messages, messages'[s] = messages[s] \o <<x, y>>
        PROVE  /\ SubSeq(messages'[s], 1, asked[q].seen) = SubSeq(messages[s], 1, asked[q].seen)
               /\ asked[q].seen <= Len(messages'[s])
    <3>. DEFINE m == messages[s]  n == asked[q].seen  w == messages'[s]
    <3>1. /\ w \in Seq(Messages) /\ Len(w) = Len(m) + 2 /\ DOMAIN m = 1..Len(m)
          /\ \A i \in DOMAIN m : w[i] = m[i]
      BY <1>3, <2>2, AppendTwo, LenProperties
    <3>2. n \in Nat /\ n <= Len(m) /\ Len(m) \in Nat
      BY <1>2, <1>3
    <3>3. /\ SubSeq(w, 1, n) = [i \in 1..n |-> w[i]]
          /\ SubSeq(m, 1, n) = [i \in 1..n |-> m[i]]
      <4>. HIDE DEF w, m, n
      <4>. QED  BY <3>2
    <3>. HIDE DEF w, m, n
    <3>4. \A i \in 1..n : w[i] = m[i]
      BY <3>1, <3>2
    <3>5. SubSeq(w, 1, n) = SubSeq(m, 1, n)
      BY <3>3, <3>4
    <3>6. n <= Len(w)
      BY <3>1, <3>2
    <3>. QED  BY <3>5, <3>6 DEF w, m, n
  <2>. QED  BY <2>1, <2>2, Zenon
<1>5. Seen(asked', messages', q) = Seen(asked, messages, q)
  BY <1>2, <1>4, Zenon DEF Seen
<1>6. \A h : RightHistory(asked, messages, q, h) => RightHistory(asked', messages', q, h)
  BY <1>5, Zenon DEF RightHistory
<1>7. asked'[q].seen <= Len(messages'[asked'[q].session])
  BY <1>2, <1>4, Zenon
<1>. QED  BY <1>6, <1>7, Zenon

(* The histories stay right through a step that stores no exchange and starts *)
(* no answer.                                                                 *)
LEMMA HistoriesStay ==
  ASSUME IInv, HistoryInv, \A q \in DOMAIN asked : asked'[q] = asked[q],
         UNCHANGED <<messages, shown>>,
         \A p \in Processes : pc'[p] = "generate" => pc[p] = "generate" /\ loc'[p] = loc[p]
  PROVE  HistoryInv'
<1>1. ASSUME NEW s \in Sessions, NEW e \in DOMAIN shown[s]
      PROVE  RightHistory(asked', messages', messages'[s][2 * e].request, shown'[s][e])
  <2>1. PICK q \in DOMAIN asked : q = messages[s][2 * e].request /\ asked[q].session = s
                                  /\ asked[q].seen = 2 * e - 2
    BY ExchangeIsStored, Zenon
  <2>2. asked[q].seen <= Len(messages[s])
    BY <2>1, ExchangeIsStored
  <2>3. RightHistory(asked, messages, q, shown[s][e])
    BY <2>1, Zenon DEF HistoryInv
  <2>4. RightHistory(asked', messages', q, shown[s][e])
    BY <2>1, <2>2, <2>3, SeenStays, Zenon
  <2>. QED  BY <2>1, <2>4, Zenon
<1>2. ASSUME NEW p \in Processes, pc'[p] = "generate"
      PROVE  /\ RightHistory(asked', messages', loc'[p].request, loc'[p].history)
             /\ asked'[loc'[p].request].seen <= Len(messages'[asked'[loc'[p].request].session])
  <2>1. PICK q : q = loc[p].request
    OBVIOUS
  <2>2. pc[p] = "generate" /\ loc'[p] = loc[p]
    BY <1>2, Zenon
  <2>3. q \in DOMAIN asked
    BY <2>1, <2>2 DEF IInv, TypeInv, ProcessTypes
  <2>4. RightHistory(asked, messages, q, loc[p].history)
        /\ asked[q].seen <= Len(messages[asked[q].session])
    BY <2>1, <2>2, Zenon DEF HistoryInv
  <2>5. /\ RightHistory(asked', messages', q, loc[p].history)
        /\ asked'[q].seen <= Len(messages'[asked'[q].session])
    BY <2>3, <2>4, SeenStays, Zenon
  <2>. QED  BY <2>1, <2>2, <2>5, Zenon
<1>. QED  BY <1>1, <1>2, Zenon DEF HistoryInv

(* Every step of the service leaves the histories right: an answer starts     *)
(* from what its request saw, and is stored only right after that.            *)
THEOREM HistoryStep ==
  ASSUME IInv, HistoryInv, ServiceStep
  PROVE  HistoryInv'
<1>. USE DEF IInv, TypeInv
<1>1. CASE \E s \in Sessions, k \in Packs : Start(s, k)
  BY <1>1, HistoriesStay DEF Start
<1>2. ASSUME NEW r \in Requests, Asking(r)
      PROVE  HistoryInv'
  <2>1. \A q \in DOMAIN asked : asked'[q] = asked[q]
    BY <1>2, AppendOne DEF Asking, ProcessTypes
  <2>. QED  BY <1>2, <2>1, HistoriesStay DEF Asking, stored
<1>3. ASSUME NEW p \in Processes, NEW q \in DOMAIN asked, Serve(p, q)
      PROVE  HistoryInv'
  <2>. DEFINE h == IF asked[q].mode = "general" THEN <<>>
                   ELSE Context(messages[asked[q].session], asked[q].size)
  <2>1. Become(p, "generate", [request |-> q, history |-> h]) /\ UNCHANGED <<stored, asked>>
    BY <1>3, Zenon DEF Serve
  <2>2. asked[q] \in Requests
    BY ElementOfSeq, LenProperties DEF ProcessTypes
  <2>3. PICK s \in Sessions : s = asked[q].session
    BY <2>2 DEF Requests
  <2>4. Len(messages[s]) = asked[q].seen /\ messages[s] \in Seq(Messages)
    BY <1>3, <2>3 DEF Serve, Current, StoreTypes
  <2>5. SubSeq(messages[s], 1, asked[q].seen) = messages[s]
    BY <2>4, SubSeqFull, Zenon
  <2>6. RightHistory(asked, messages, q, h)
    BY <2>3, <2>5, Zenon DEF RightHistory, Seen
  <2>. HIDE DEF h
  <2>7. /\ pc'[p] = "generate" /\ loc'[p] = [request |-> q, history |-> h]
        /\ \A x \in Processes \ {p} : pc'[x] = pc[x] /\ loc'[x] = loc[x]
    BY <2>1, BecomeTypes
  <2>8. /\ loc'[p].request = q /\ loc'[p].history = h
        /\ asked[q].seen <= Len(messages[asked[q].session])
    BY <2>2, <2>3, <2>4, <2>7 DEF Requests
  <2>9. UNCHANGED <<messages, shown, asked>>
    BY <2>1 DEF stored
  <2>. QED  BY <2>6, <2>7, <2>8, <2>9, Zenon DEF HistoryInv
<1>4. ASSUME NEW p \in Processes, NEW n \in AnswerSizes, AppendExchange(p, n)
      PROVE  HistoryInv'
  <2>1. PICK q \in DOMAIN asked : q = loc[p].request /\ asked[q] \in Requests
    <3>1. pc[p] = "generate"
      BY <1>4 DEF AppendExchange
    <3>2. loc[p].request \in DOMAIN asked /\ asked \in Seq(Requests)
      BY <3>1 DEF ProcessTypes
    <3>. QED  BY <3>2, ElementOfSeq, LenProperties
  <2>2. PICK s \in Sessions : s = asked[q].session
    BY <2>1 DEF Requests
  <2>3. asked[q].size \in Nat /\ n \in Nat /\ q \in Nat
    BY <2>1, ChatAssumption DEF Requests, ProcessTypes
  <2>4. CASE Bound(q) /\ Current(q)
    <3>. DEFINE x == Message(q, "student", asked[q].size)
                y == Message(q, "professor", n)
    <3>1. x \in Messages /\ y \in Messages /\ y.request = q
      BY <2>3 DEF Message, Messages
    <3>2. /\ messages' = [messages EXCEPT ![s] = @ \o <<x, y>>]
          /\ shown' = [shown EXCEPT ![s] = Append(@, loc[p].history)]
          /\ Become(p, "reply", loc[p]) /\ UNCHANGED asked
      BY <1>4, <2>1, <2>2, <2>4, Zenon DEF AppendExchange, Exchange
    <3>. HIDE DEF x, y
    <3>3. /\ messages'[s] = messages[s] \o <<x, y>> /\ messages[s] \in Seq(Messages)
          /\ \A t \in Sessions \ {s} : messages'[t] = messages[t]
      BY <3>2 DEF StoreTypes
    <3>4. /\ shown'[s] = Append(shown[s], loc[p].history)
          /\ \A t \in Sessions \ {s} : shown'[t] = shown[t]
      BY <3>2, Zenon DEF StoreTypes
    <3>5. \A t \in Sessions :
            \/ messages'[t] = messages[t]
            \/ \E x1 \in Messages, y1 \in Messages : messages'[t] = messages[t] \o <<x1, y1>>
      BY <3>1, <3>3, Zenon
    <3>6. ASSUME NEW t \in Sessions, NEW e \in DOMAIN shown[t]
          PROVE  RightHistory(asked', messages', messages'[t][2 * e].request, shown[t][e])
      <4>1. PICK r \in DOMAIN asked : r = messages[t][2 * e].request /\ asked[r].session = t
                                      /\ asked[r].seen = 2 * e - 2
        BY ExchangeIsStored, Zenon
      <4>2. 2 * e \in DOMAIN messages[t] /\ asked[r].seen <= Len(messages[t])
        BY <4>1, ExchangeIsStored
      <4>3. messages'[t][2 * e] = messages[t][2 * e]
        <5>1. CASE t = s
          <6>1. \A i \in DOMAIN messages[s] : (messages[s] \o <<x, y>>)[i] = messages[s][i]
            BY <3>1, <3>3, AppendTwo
          <6>. QED  BY <3>3, <4>2, <5>1, <6>1, Zenon
        <5>2. CASE t # s
          BY <3>3, <5>2, Zenon
        <5>. QED  BY <5>1, <5>2
      <4>4. RightHistory(asked, messages, r, shown[t][e])
        BY <4>1, Zenon DEF HistoryInv
      <4>5. RightHistory(asked', messages', r, shown[t][e])
        BY <3>2, <3>5, <4>1, <4>2, <4>4, SeenStays, Zenon
      <4>. QED  BY <4>1, <4>3, <4>5, Zenon
    <3>7. PICK l : l = Len(shown[s]) + 1
      OBVIOUS
    <3>8. PICK H : shown[s] \in Seq(H)
      BY DEF StoreTypes
    <3>9. /\ Append(shown[s], loc[p].history)[l] = loc[p].history
          /\ DOMAIN Append(shown[s], loc[p].history) = DOMAIN shown[s] \cup {l}
          /\ \A e \in DOMAIN shown[s] : Append(shown[s], loc[p].history)[e] = shown[s][e]
      <4>. DEFINE G == H \cup {loc[p].history}
      <4>1. shown[s] \in Seq(G) /\ loc[p].history \in G
        BY <3>8, SeqMonotonic
      <4>. HIDE DEF G
      <4>2. /\ Append(shown[s], loc[p].history)[Len(shown[s]) + 1] = loc[p].history
            /\ DOMAIN Append(shown[s], loc[p].history) = DOMAIN shown[s] \cup {Len(shown[s]) + 1}
            /\ \A e \in DOMAIN shown[s] : Append(shown[s], loc[p].history)[e] = shown[s][e]
        BY <4>1, AppendOne
      <4>. QED  BY <3>7, <4>2, Zenon
    <3>10. messages'[s][2 * l] = y
      <4>1. Len(messages[s]) = 2 * Len(shown[s]) /\ Len(shown[s]) \in Nat
        BY <3>8, LenProperties DEF StoreInv
      <4>2. (messages[s] \o <<x, y>>)[Len(messages[s]) + 2] = y
        BY <3>1, <3>3, AppendTwo
      <4>3. Len(messages[s]) + 2 = 2 * l
        BY <3>7, <4>1
      <4>. QED  BY <3>3, <4>2, <4>3, Zenon
    <3>11. RightHistory(asked', messages', q, loc[p].history)
      <4>1. pc[p] = "generate"
        BY <1>4 DEF AppendExchange
      <4>2. /\ RightHistory(asked, messages, q, loc[p].history)
            /\ asked[q].seen <= Len(messages[asked[q].session])
        BY <2>1, <4>1, Zenon DEF HistoryInv
      <4>. QED  BY <2>1, <3>2, <3>5, <4>2, SeenStays, Zenon
    <3>12. ASSUME NEW t \in Sessions, NEW e \in DOMAIN shown'[t]
           PROVE  RightHistory(asked', messages', messages'[t][2 * e].request, shown'[t][e])
      <4>1. CASE t = s /\ e = l
        BY <3>1, <3>4, <3>9, <3>10, <3>11, <4>1, Zenon
      <4>2. CASE e \in DOMAIN shown[t] /\ shown'[t][e] = shown[t][e]
        BY <3>6, <4>2, Zenon
      <4>3. (t = s /\ e = l) \/ (e \in DOMAIN shown[t] /\ shown'[t][e] = shown[t][e])
        BY <3>4, <3>9, Zenon
      <4>. QED  BY <4>1, <4>2, <4>3, Zenon
    <3>13. ASSUME NEW z \in Processes, pc'[z] = "generate"
           PROVE  /\ RightHistory(asked', messages', loc'[z].request, loc'[z].history)
                  /\ asked'[loc'[z].request].seen <= Len(messages'[asked'[loc'[z].request].session])
      <4>1. pc[z] = "generate" /\ loc'[z] = loc[z]
        BY <2>1, <3>2, <3>13, BecomeTypes
      <4>2. PICK r : r = loc[z].request
        OBVIOUS
      <4>3. r \in DOMAIN asked
        BY <4>1, <4>2 DEF ProcessTypes
      <4>4. /\ RightHistory(asked, messages, r, loc[z].history)
            /\ asked[r].seen <= Len(messages[asked[r].session])
        BY <4>1, <4>2, Zenon DEF HistoryInv
      <4>5. /\ RightHistory(asked', messages', r, loc[z].history)
            /\ asked'[r].seen <= Len(messages'[asked'[r].session])
        BY <3>2, <3>5, <4>3, <4>4, SeenStays, Zenon
      <4>. QED  BY <4>1, <4>2, <4>5, Zenon
    <3>. QED  BY <3>12, <3>13, Zenon DEF HistoryInv
  <2>5. CASE ~(Bound(q) /\ Current(q))
    <3>1. Become(p, "idle", NoLocals) /\ UNCHANGED <<messages, shown, sessions, asked, answered>>
      BY <1>4, <2>1, <2>5, Zenon DEF AppendExchange
    <3>2. \A z \in Processes : pc'[z] = "generate" => pc[z] = "generate" /\ loc'[z] = loc[z]
      BY <3>1, BecomeTypes
    <3>. QED  BY <3>1, <3>2, HistoriesStay
  <2>. QED  BY <2>4, <2>5, Zenon
<1>5. ASSUME NEW p \in Processes, Reply(p) \/ Fail(p)
      PROVE  HistoryInv'
  <2>1. Become(p, "idle", NoLocals) /\ UNCHANGED <<messages, shown, asked>>
    BY <1>5 DEF Reply, Fail, stored
  <2>2. \A z \in Processes : pc'[z] = "generate" => pc[z] = "generate" /\ loc'[z] = loc[z]
    BY <2>1, BecomeTypes
  <2>. QED  BY <2>1, <2>2, HistoriesStay
<1>6. CASE UNCHANGED vars
  BY <1>6, HistoriesStay DEF vars, stored
<1>. QED  BY <1>1, <1>2, <1>3, <1>4, <1>5, <1>6, Zenon DEF ServiceStep

-----------------------------------------------------------------------------
(* The exchange of an earlier run was generated from nothing.                 *)
LEMMA EmptyContext == \A n : Context(<<>>, n) = <<>>
<1>1. TAKE n
<1>2. PICK m \in 0..0 : Context(<<>>, n) = Recent(<<>>, m)
  <2>1. \E m \in 0..0 : Context(<<>>, n) = Recent(<<>>, m)
    BY ContextIsRecent
  <2>. QED  BY <2>1
<1>3. Recent(<<>>, 0) = <<>>
  <2>1. Recent(<<>>, 0) = SubSeq(<<>>, 1, 0)
    BY DEF Recent
  <2>. QED  BY <2>1, SubSeqEmpty
<1>. QED  BY <1>2, <1>3

(* It is the only one there is at first, and no answer is under way.         *)
LEMMA InitHistory == ClientInit => HistoryInv
<1>. SUFFICES ASSUME ClientInit PROVE HistoryInv
  OBVIOUS
<1>1. PICK s \in Sessions, k \in Packs, m \in QuestionSizes, n \in AnswerSizes :
        /\ messages = [t \in Sessions |->
             IF t = s THEN <<Message(1, "student", m), Message(1, "professor", n)>> ELSE <<>>]
        /\ shown = [t \in Sessions |-> IF t = s THEN <<<<>>>> ELSE <<>>]
        /\ asked = <<[session |-> s, pack |-> k, seen |-> 0, size |-> m, mode |-> "course"]>>
        /\ pc = [p \in Processes |-> "idle"]
  BY DEF ClientInit, Init
<1>2. /\ asked[1].session = s /\ asked[1].seen = 0
      /\ messages[s] = <<Message(1, "student", m), Message(1, "professor", n)>>
  BY <1>1
<1>3. \A x, y : SubSeq(<<x, y>>, 1, 0) = <<>>
  BY SubSeqEmpty
<1>4. Seen(asked, messages, 1) = <<>>
  BY <1>2, <1>3 DEF Seen
<1>5. RightHistory(asked, messages, 1, <<>>)
  BY <1>4, EmptyContext, Zenon DEF RightHistory
<1>6. ASSUME NEW t \in Sessions, NEW e \in DOMAIN shown[t]
      PROVE  t = s /\ e = 1 /\ shown[t][e] = <<>> /\ messages[t][2 * e].request = 1
  <2>1. t = s
    BY <1>1
  <2>2. e = 1 /\ shown[t][e] = <<>>
    BY <1>1, <2>1
  <2>. QED  BY <1>2, <2>1, <2>2 DEF Message
<1>7. \A p \in Processes : pc[p] # "generate"
  BY <1>1
<1>. QED  BY <1>5, <1>6, <1>7, Zenon DEF HistoryInv

(* The histories are right in every execution.                                *)
THEOREM HistoryInvariant == ClientSpec => [](IInv /\ HistoryInv)
<1>1. IInv /\ HistoryInv /\ [ClientNext]_chatVars => HistoryInv'
  BY StepOfService, HistoryStep
<1>. QED  BY InitHistory, ChatInvariant, <1>1, PTL DEF ClientSpec

(* Every stored answer was generated from the end of what stands before it,   *)
(* as much of it as fits, and a general one from nothing.                     *)
THEOREM AnswerFollowsItsHistoryCorrect == ClientSpec => []AnswerFollowsItsHistory
<1>1. IInv /\ HistoryInv => AnswerFollowsItsHistory
  <2>. SUFFICES ASSUME IInv, HistoryInv, NEW s \in Sessions, NEW e \in DOMAIN shown[s]
                PROVE
                LET q    == messages[s][2 * e].request
                    past == SubSeq(messages[s], 1, 2 * e - 2)
                    h    == shown[s][e]
                IN IF asked[q].mode = "general" THEN h = <<>>
                   ELSE /\ IsSuffix(h, past) /\ Len(h) % 2 = 0 /\ Len(h) <= 2 * MaxPairs
                        /\ asked[q].size + Total(h) <= Budget \/ h = <<>>
                        /\ Len(h) < Len(past) /\ Len(h) < 2 * MaxPairs =>
                             ~(asked[q].size + Total(Recent(past, 1 + Len(h) \div 2)) <= Budget)
    BY Zenon DEF AnswerFollowsItsHistory
  <2>. DEFINE q    == messages[s][2 * e].request
              past == SubSeq(messages[s], 1, 2 * e - 2)
              h    == shown[s][e]
              size == asked[q].size
  <2>1. /\ e \in 1..Len(shown[s]) /\ Len(shown[s]) \in Nat
        /\ 2 * e \in 1..Len(messages[s]) /\ messages[s] \in Seq(Messages)
        /\ Len(messages[s]) \in Nat /\ asked[q].session = s /\ asked[q].seen = 2 * e - 2
    BY ExchangeIsStored
  <2>2. RightHistory(asked, messages, q, h)
    BY Zenon DEF HistoryInv
  <2>3. Seen(asked, messages, q) = past
    BY <2>1, Zenon DEF Seen
  <2>4. h = IF asked[q].mode = "general" THEN <<>> ELSE Context(past, size)
    BY <2>2, <2>3, Zenon DEF RightHistory
  <2>5. CASE asked[q].mode # "general"
    <3>. DEFINE half == e - 1
    <3>1. half \in Nat /\ past \in Seq(Messages) /\ Len(past) = 2 * half
      <4>. DEFINE m == messages[s]  n == 2 * e - 2
      <4>1. n \in Nat /\ n <= Len(m) /\ m \in Seq(Messages) /\ e \in Nat /\ e >= 1
        BY <2>1
      <4>. HIDE DEF m
      <4>2. SubSeq(m, 1, n) \in Seq(Messages) /\ Len(SubSeq(m, 1, n)) = n
        BY <4>1
      <4>. QED  BY <4>1, <4>2 DEF m
    <3>. HIDE DEF q, past, h, size, half
    <3>2. PICK m \in 0..half :
            /\ Context(past, size) = Recent(past, m) /\ m <= MaxPairs
            /\ m > 0 => Fits(past, m, size)
            /\ m < half => ~Fits(past, m + 1, size)
      BY <3>1, ContextIsRecent
    <3>3. h = Recent(past, m)
      BY <2>4, <2>5, <3>2
    <3>4. Len(h) = 2 * m /\ IsSuffix(h, past) /\ (m = 0 => h = <<>>)
      BY <3>1, <3>3, RecentIsSuffix, Zenon
    <3>5. /\ Len(h) % 2 = 0 /\ Len(h) <= 2 * MaxPairs /\ 1 + Len(h) \div 2 = m + 1
          /\ Len(h) < Len(past) /\ Len(h) < 2 * MaxPairs => m < half /\ m + 1 <= MaxPairs
      BY <3>1, <3>2, <3>4, ChatAssumption
    <3>6. m > 0 => size + Total(h) <= Budget
      BY <3>2, <3>3, Zenon DEF Fits
    <3>7. m < half /\ m + 1 <= MaxPairs => ~(size + Total(Recent(past, m + 1)) <= Budget)
      BY <3>2, Zenon DEF Fits
    <3>8. m = 0 \/ m > 0
      BY <3>1, <3>2
    <3>. QED  BY <2>5, <3>4, <3>5, <3>6, <3>7, <3>8, Zenon DEF q, past, h, size
  <2>6. CASE asked[q].mode = "general"
    BY <2>4, <2>6, Zenon
  <2>. QED  BY <2>5, <2>6, Zenon
<1>. QED  BY <1>1, HistoryInvariant, PTL
=============================================================================
