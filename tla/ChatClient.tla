------------------------------- MODULE ChatClient -------------------------------
(***************************************************************************)
(* A window of the local Professor chat (local_learning_web_assets_v01/    *)
(* app.js) over LocalChat, beside other windows and clients.  A window has  *)
(* one request under way at a time (run).  Only the chat request is long:   *)
(* the others read or create one row, and nothing sees the window between   *)
(* their answer and its being drawn, so each is one step.                   *)
(*                                                                         *)
(* What is sent comes from the script's variables, what the student reads   *)
(* is on the screen; a failed request leaves the two apart.                 *)
(***************************************************************************)
EXTENDS LocalChat

CONSTANT MaxOther   \* bound: requests that are not of the window

ASSUME ClientAssumption ==
  /\ MaxOther \in Nat
  /\ Processes \cap {"nothing", "process", "nobody"} = {}
  /\ Sessions \cap {"unloaded", "other"} = {}

VARIABLES
  win,    \* the window: active, the session it asks in; view, the session on the
          \* screen, and messageCount; question, the request whose text is still in
          \* the box (0: another text); waits, for nothing, for a process to take
          \* the request, for that process, or for nobody once it has let it down;
          \* unloaded, active is another session than the one drawn
  last,   \* lastKey in localStorage, shared by the windows of the browser
  saw     \* history: the session on the screen when each request was made;
          \* "unloaded" when resuming another one had failed; "other": not of this window

chatVars == <<vars, win, last, saw>>

ClientInit ==
  /\ Init /\ last \in {s \in Sessions : sessions[s] # None} /\ saw = <<"other">>
  /\ win = [active |-> None, view |-> None, messageCount |-> 0, question |-> 0,
            waits |-> "nothing", unloaded |-> FALSE]

Idle == win.waits = "nothing"

\* render of a snapshot of session s with n messages.
Render(w, s, n) == [w EXCEPT !.view = s, !.messageCount = n, !.unloaded = FALSE]

\* Mutant of Remember: the session is remembered and not drawn.
Remember_NotDrawn(w, s) == [w EXCEPT !.active = s]

\* remember, of a new session.
Remember(w, s) == Render([w EXCEPT !.active = s], s, 0)

-----------------------------------------------------------------------------
\* The upload button: a session is created, and drawn.  If the answer is lost,
\* the session exists all the same (OtherStart).
Upload(s, k) ==
  /\ Idle /\ Start(s, k)
  /\ win' = Remember(win, s) /\ last' = s /\ UNCHANGED saw

\* The resume button: the session becomes the active one before its history is
\* there, and stays so when it does not come.
Resume ==
  /\ Idle /\ last # None
  /\ LET w == [win EXCEPT !.active = last, !.unloaded = last # win.view]
     IN win' \in {w, Render(w, last, Len(messages[last]))}
  /\ UNCHANGED <<vars, last, saw>>

\* refresh.
Drawn == Render(win, win.active, Len(messages[win.active]))

Refresh ==
  /\ Idle /\ win.active # None
  /\ win' = Drawn /\ UNCHANGED <<vars, last, saw>>

\* The send button with a text that was not sent before.
Send(n, mode) ==
  /\ Idle /\ win.active # None /\ Len(asked) < MaxRequests
  /\ asked' = Append(asked, [session |-> win.active, pack |-> sessions[win.active],
                             seen |-> win.messageCount, size |-> n, mode |-> mode])
  /\ saw' = Append(saw, IF win.unloaded THEN "unloaded" ELSE win.view)
  /\ win' = [win EXCEPT !.question = Len(asked'), !.waits = "process"]
  /\ UNCHANGED <<stored, pc, loc, answered, last>>

\* The same button with the text that is still in the box, and nothing else
\* changed: the request is the same again.
SendAgain ==
  /\ Idle /\ win.question # 0
  /\ asked[win.question].session = win.active /\ asked[win.question].seen = win.messageCount
  /\ win' = [win EXCEPT !.waits = "process"]
  /\ UNCHANGED <<vars, last, saw>>

\* A refusal or a broken connection, whatever the service still does: the
\* history is read again, if that succeeds, and the text stays.
Broken ==
  /\ ~Idle
  /\ \E w \in {win, Drawn} : win' = [w EXCEPT !.waits = "nothing"]
  /\ UNCHANGED <<vars, last, saw>>

Mine(q) == saw[q] # "other"

\* A request may also be taken after the window has given it up: it waited for
\* chat_lock.
Taken(p, q) ==
  /\ Serve(p, q) /\ UNCHANGED <<last, saw>>
  /\ win' = IF Mine(q) /\ win.waits = "process" /\ win.question = q
            THEN [win EXCEPT !.waits = p] ELSE win

\* The snapshot is the one the exchange was appended to.
Answered(p) ==
  LET q == loc[p].request
  IN /\ Reply(p) /\ UNCHANGED <<last, saw>>
     /\ IF Mine(q)
        THEN /\ win.waits = p
             /\ win' = [Render(win, asked[q].session, asked[q].seen + 2)
                          EXCEPT !.question = 0, !.waits = "nothing"]
        ELSE UNCHANGED win

\* The process goes on; when it ends without an answer the window will hear so.
Serving(p) ==
  /\ (\E n \in AnswerSizes : AppendExchange(p, n)) \/ Fail(p)
  /\ win' = IF win.waits = p /\ pc'[p] = "idle" THEN [win EXCEPT !.waits = "nobody"] ELSE win
  /\ UNCHANGED <<last, saw>>

\* A session of another window of this browser, or of somebody else.
OtherStart(s, k) == Start(s, k) /\ last' \in {last, s} /\ UNCHANGED <<win, saw>>

OtherAsk(s, k, seen, n, mode) ==
  /\ Len(SelectSeq(saw, LAMBDA x : x = "other")) < MaxOther
  /\ Ask(s, k, seen, n, mode) /\ saw' = Append(saw, "other") /\ UNCHANGED <<win, last>>

ClientNext ==
  \/ \E s \in Sessions, k \in Packs :
       \/ Upload(s, k) \/ OtherStart(s, k)
       \/ \E seen \in 0..MaxExchanges, n \in QuestionSizes, mode \in Modes : OtherAsk(s, k, seen, n, mode)
  \/ Resume \/ Refresh \/ SendAgain \/ Broken
  \/ \E n \in QuestionSizes, mode \in Modes : Send(n, mode)
  \/ \E p \in Processes :
       \/ \E q \in DOMAIN asked : Taken(p, q)
       \/ Answered(p) \/ Serving(p)

ClientSpec == ClientInit /\ [][ClientNext]_chatVars

-----------------------------------------------------------------------------
(* A question of the window is stored in the conversation that was on the    *)
(* screen when it was sent, right after the exchanges that were drawn of it, *)
(* whatever other windows, failures and second sendings came between        *)
(* (send, app.js).  Excepted is a window whose resuming failed: resume sets   *)
(* active before the history is there, messageCount still counts the old     *)
(* conversation, and where both are equally long the question is stored      *)
(* without its conversation having been drawn.                               *)
ContinuesWhatWasShown ==
  \A s \in Sessions : \A e \in DOMAIN shown[s] :
    LET q == messages[s][2 * e].request
    IN Mine(q) => /\ saw[q] \in {s, "unloaded"}
                  /\ asked[q].seen = 2 * e - 2
=============================================================================
