------------------------------- MODULE OnceOnly -------------------------------
(***************************************************************************)
(* What a durable request promises: a key is reserved, then its agent is   *)
(* called at most once, and at most one result of that call is kept, for   *)
(* good.  A call whose result is lost is never repeated.                   *)
(***************************************************************************)
EXTENDS Naturals

CONSTANTS Keys, Results, None

VARIABLES
  reserved,   \* the keys that are reserved
  calls,      \* how often the agent has been called for each key
  result      \* the stored result of each key, or None

vars == <<reserved, calls, result>>

Init ==
  /\ reserved = {}
  /\ calls = [k \in Keys |-> 0]
  /\ result = [k \in Keys |-> None]

Reserve(k) == k \notin reserved /\ reserved' = reserved \cup {k} /\ UNCHANGED <<calls, result>>

Call(k) ==
  /\ k \in reserved /\ calls[k] = 0
  /\ calls' = [calls EXCEPT ![k] = 1]
  /\ UNCHANGED <<reserved, result>>

Keep(k) ==
  /\ calls[k] = 1 /\ result[k] = None
  /\ \E r \in Results : result' = [result EXCEPT ![k] = r]
  /\ UNCHANGED <<reserved, calls>>

Next == \E k \in Keys : Reserve(k) \/ Call(k) \/ Keep(k)

Spec == Init /\ [][Next]_vars
=============================================================================
