------------------------------- MODULE LocalChat -------------------------------
(***************************************************************************)
(* Local Professor chat: processes of the local application answer the     *)
(* chat requests of browser windows over one SQLite store.  A request names *)
(* its session, the Course Pack the session is pinned to and how many       *)
(* messages its window has seen                                             *)
(* (local_learning_api_v01.py, course_knowledge/local_learning_workspace_   *)
(* v01.py, local_professor_chat_service_v01.py, local_chat_store_v01.py).   *)
(*                                                                         *)
(* The model is called between two transactions: the history it is shown   *)
(* is loaded in the first, the exchange is appended in the second, under    *)
(* BEGIN IMMEDIATE.  In one process chat_lock holds a request from its      *)
(* first transaction to its last.  A text is abstracted to its request and  *)
(* its length; answers longer than a message may be are refused unstored.   *)
(***************************************************************************)
EXTENDS Naturals, FiniteSets, SequencesExt, FiniteSetsExt

CONSTANTS
  Processes, Sessions, Packs,
  QuestionSizes, AnswerSizes,   \* lengths of a text
  MaxPairs,       \* complete exchanges in a context (3: six messages)
  Budget,         \* characters in a context (6000)
  None,
  MaxExchanges,   \* bound: exchanges of a session
  MaxRequests     \* bound: requests of the browsers

ASSUME ChatAssumption ==
  /\ QuestionSizes \cup AnswerSizes \subseteq Nat \ {0}
  /\ MaxPairs \in Nat /\ Budget \in Nat
  /\ MaxExchanges \in Nat /\ MaxRequests \in Nat
  /\ None \notin Packs \cup Sessions

VARIABLES
  sessions,   \* local_chat_sessions_v01: the pack a session is pinned to, or None
  messages,   \* local_chat_messages_v01 of each session, by position
  shown,      \* history: what the model was shown for each exchange
  asked,      \* the requests the browsers have made; each may be sent again
  pc, loc,    \* the processes
  answered    \* history: the requests that were answered with their exchange saved

stored == <<sessions, messages, shown>>
vars   == <<stored, asked, pc, loc, answered>>

Modes == {"course", "general"}
Message(q, role, n) == [request |-> q, role |-> role, size |-> n]
NoLocals == [request |-> 0, history |-> <<>>]

Become(p, to, l) == pc' = [pc EXCEPT ![p] = to] /\ loc' = [loc EXCEPT ![p] = l]

\* The store of an earlier run: one session, with one exchange in it.
Init ==
  \E s \in Sessions, k \in Packs, m \in QuestionSizes, n \in AnswerSizes :
    /\ sessions = [t \in Sessions |-> IF t = s THEN k ELSE None]
    /\ messages = [t \in Sessions |->
         IF t = s THEN <<Message(1, "student", m), Message(1, "professor", n)>> ELSE <<>>]
    /\ shown = [t \in Sessions |-> IF t = s THEN <<<<>>>> ELSE <<>>]
    /\ asked = <<[session |-> s, pack |-> k, seen |-> 0, size |-> m, mode |-> "course"]>>
    /\ answered = {1}
    /\ pc = [p \in Processes |-> "idle"] /\ loc = [p \in Processes |-> NoLocals]

-----------------------------------------------------------------------------
(* conversation_context: the recent complete exchanges, newest first, until *)
(* one does not fit.                                                        *)
Total(ms) == FoldSeq(LAMBDA m, n : m.size + n, 0, ms)

\* The last n exchanges.
Recent(ms, n) == SubSeq(ms, Len(ms) - 2 * n + 1, Len(ms))

\* Mutant of Fits: the current message is not counted.
Fits_HistoryOnly(ms, n, current) == n <= MaxPairs /\ Total(Recent(ms, n)) <= Budget

Fits(ms, n, current) == n <= MaxPairs /\ current + Total(Recent(ms, n)) <= Budget

Context(ms, current) ==
  Recent(ms, Max({n \in 0..(Len(ms) \div 2) : \A k \in 1..n : Fits(ms, k, current)}))

-----------------------------------------------------------------------------
\* create_session for a pack.
Start(s, k) ==
  /\ sessions[s] = None
  /\ sessions' = [sessions EXCEPT ![s] = k]
  /\ UNCHANGED <<messages, shown, asked, pc, loc, answered>>

\* A window asks; the messages it has seen may be fewer than there are.
Ask(s, k, seen, n, mode) ==
  /\ Len(asked) < MaxRequests /\ sessions[s] # None /\ 2 * seen <= Len(messages[s])
  /\ asked' = Append(asked, [session |-> s, pack |-> k, seen |-> 2 * seen,
                             size |-> n, mode |-> mode])
  /\ UNCHANGED <<stored, pc, loc, answered>>

\* Mutant of Bound: the pack of the session is not compared.
Bound_AnyPack(q) == TRUE

\* The exact binding of the session is found.
Bound(q) == sessions[asked[q].session] = asked[q].pack

\* Mutant of Current: the history may have advanced.
Current_Ever(q) == TRUE

\* The conversation has not advanced since the window loaded it.
Current(q) == Len(messages[asked[q].session]) = asked[q].seen

\* send_explanation and explain_general up to the call of the model.  A window
\* may send an unanswered request again, to any process.
Serve(p, q) ==
  /\ pc[p] = "idle" /\ q \notin answered
  /\ Bound(q) /\ Current(q)
  /\ Become(p, "generate", [request |-> q, history |->
       IF asked[q].mode = "general" THEN <<>>
       ELSE Context(messages[asked[q].session], asked[q].size)])
  /\ UNCHANGED <<stored, asked, answered>>

Exchange(q, n) == <<Message(q, "student", asked[q].size), Message(q, "professor", n)>>

\* append_exchange with the answer of the model: both messages, at the
\* positions the request expects, which the primary key keeps free of others.
AppendExchange(p, n) ==
  LET q == loc[p].request  s == asked[q].session
  IN /\ pc[p] = "generate" /\ Len(shown[s]) < MaxExchanges
     /\ IF Bound(q) /\ Current(q)
        THEN /\ messages' = [messages EXCEPT ![s] = @ \o Exchange(q, n)]
             /\ shown' = [shown EXCEPT ![s] = Append(@, loc[p].history)]
             /\ Become(p, "reply", loc[p])
        ELSE Become(p, "idle", NoLocals) /\ UNCHANGED <<messages, shown>>
     /\ UNCHANGED <<sessions, asked, answered>>

\* The answer reaches the window.
Reply(p) ==
  /\ pc[p] = "reply"
  /\ answered' = answered \cup {loc[p].request}
  /\ Become(p, "idle", NoLocals) /\ UNCHANGED <<stored, asked>>

\* The model fails or its answer is refused; the process dies, or the answer of
\* the request is lost.
Fail(p) ==
  /\ pc[p] # "idle"
  /\ Become(p, "idle", NoLocals) /\ UNCHANGED <<stored, asked, answered>>

Next ==
  \/ \E s \in Sessions, k \in Packs :
       \/ Start(s, k)
       \/ \E seen \in 0..MaxExchanges, n \in QuestionSizes, mode \in Modes : Ask(s, k, seen, n, mode)
  \/ \E p \in Processes :
       \/ \E q \in DOMAIN asked : Serve(p, q)
       \/ (\E n \in AnswerSizes : AppendExchange(p, n)) \/ Reply(p) \/ Fail(p)

Spec == Init /\ [][Next]_vars

-----------------------------------------------------------------------------
(* Every stored answer of course mode was generated from the exchanges that *)
(* stand before it, all of the recent ones that fit and no others; a general *)
(* answer was generated from none ("Do not pass prior course dialogue").     *)
AnswerFollowsItsHistory ==
  \A s \in Sessions : \A e \in DOMAIN shown[s] :
    LET q    == messages[s][2 * e].request
        past == SubSeq(messages[s], 1, 2 * e - 2)
        h    == shown[s][e]
    IN IF asked[q].mode = "general" THEN h = <<>>
       ELSE /\ IsSuffix(h, past) /\ Len(h) % 2 = 0 /\ Len(h) <= 2 * MaxPairs
            /\ asked[q].size + Total(h) <= Budget \/ h = <<>>
            /\ Len(h) < Len(past) /\ Len(h) < 2 * MaxPairs =>
                 ~(asked[q].size + Total(Recent(past, 1 + Len(h) \div 2)) <= Budget)

(* A request that is sent again after its answer was lost is stored once.   *)
RequestStoredOnce ==
  \A s, t \in Sessions : \A i \in DOMAIN messages[s], j \in DOMAIN messages[t] :
    messages[s][i].request = messages[t][j].request /\ messages[s][i].role = messages[t][j].role
      => s = t /\ i = j

(* An exchange is stored only under the pack its session is pinned to, and  *)
(* an answered request is stored.                                           *)
PinnedToItsPack ==
  /\ \A s \in Sessions : \A i \in DOMAIN messages[s] :
       LET r == asked[messages[s][i].request] IN r.session = s /\ r.pack = sessions[s]
  /\ \A q \in answered : \E i \in DOMAIN messages[asked[q].session] :
       messages[asked[q].session][i].request = q
=============================================================================
