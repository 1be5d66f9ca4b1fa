------------------------------ MODULE PolicyProofs ------------------------------
(***************************************************************************)
(* Proofs about the two policies that are computed from what is recorded.   *)
(*                                                                         *)
(* CoursePath, for any titles, documents and bounds on the proposal.  The   *)
(* two recursive functions of the module, the loop over the proposed        *)
(* prerequisites and the hops of a student who is sent elsewhere, are       *)
(* handled by one lemma on iteration along the natural numbers.             *)
(*                                                                         *)
(* StudentModel, for any events and any number of them: the assumption on   *)
(* its inputs is not needed.                                                *)
(***************************************************************************)
EXTENDS CoursePath, StudentModel, SequenceTheorems, FiniteSetTheorems, WellFoundedInduction, TLAPS

-----------------------------------------------------------------------------
(* A non-empty set of natural numbers has a least element.                   *)
LEMMA LeastNumber ==
  ASSUME NEW S \in SUBSET Nat, S # {}
  PROVE  \E t \in S : \A u \in S : t <= u
<1>1. PICK t \in S : \A u \in S : ~ (<<u, t>> \in OpToRel(<, Nat))
  BY WFMin, NatLessThanWellFounded, Zenon
<1>2. \A u \in S : ~ (u < t)
  BY <1>1, S \subseteq Nat, Zenon DEF OpToRel
<1>. QED  BY <1>2, S \subseteq Nat

(* The first of a set of topics is one of them, and the least.               *)
LEMMA FirstIsLeast ==
  ASSUME NEW S \in SUBSET Nat, S # {}
  PROVE  FirstOf(S) \in S /\ \A u \in S : FirstOf(S) <= u
BY LeastNumber DEF FirstOf

(* A non-empty set of numbers up to n has a largest element.                 *)
LEMMA LargestNumber ==
  ASSUME NEW n \in Nat, NEW S \in SUBSET (0..n), S # {}
  PROVE  \E t \in S : \A u \in S : u <= t
<1>. DEFINE above == {m \in Nat : \A u \in S : u <= m}
<1>1. n \in above
  OBVIOUS
<1>2. PICK m \in above : \A k \in above : m <= k
  <2>. HIDE DEF above
  <2>1. above \in SUBSET Nat /\ above # {}
    BY <1>1 DEF above
  <2>. QED  BY <2>1, LeastNumber
<1>3. m \in S
  <2>1. SUFFICES ASSUME m \notin S PROVE FALSE
    OBVIOUS
  <2>2. m > 0
    <3>1. PICK u \in S : u <= m
      OBVIOUS
    <3>. QED  BY <2>1, <3>1, S \subseteq 0..n
  <2>3. m - 1 \in above
    BY <2>1, <2>2, S \subseteq 0..n
  <2>. QED  BY <2>3, <1>2
<1>. QED  BY <1>3

-----------------------------------------------------------------------------
(* Iteration: h starts with b and goes on by step[k] in its k-th turn.       *)
Iterates(h, n, b, step) ==
  h = [k \in 0..n |-> IF k = 0 THEN b ELSE step[k][h[k - 1]]]

(* There is such an h, in the set the steps stay in.                         *)
LEMMA IterationExists ==
  ASSUME NEW S, NEW n \in Nat, NEW b \in S, NEW step \in [1..n -> [S -> S]]
  PROVE  \E h \in [0..n -> S] : Iterates(h, n, b, step)
<1>. DEFINE Good(h, m) == h \in [0..m -> S] /\ Iterates(h, m, b, step)
            bad == {m \in Nat : m <= n /\ ~\E h : Good(h, m)}
<1>1. bad = {}
  <2>1. SUFFICES ASSUME bad # {} PROVE FALSE
    OBVIOUS
  <2>2. PICK m \in bad : \A k \in bad : m <= k
    <3>. HIDE DEF bad
    <3>1. bad \in SUBSET Nat
      BY DEF bad
    <3>. QED  BY <2>1, <3>1, LeastNumber
  <2>3. CASE m = 0
    <3>1. Good([k \in 0..0 |-> b], 0)
      BY DEF Iterates
    <3>. QED  BY <3>1, <2>2, <2>3
  <2>4. CASE m > 0
    <3>1. PICK h : Good(h, m - 1)
      BY <2>2, <2>4
    <3>. DEFINE g == [k \in 0..m |-> IF k = m THEN step[m][h[m - 1]] ELSE h[k]]
    <3>2. h \in [0..(m - 1) -> S] /\ m \in 1..n
      BY <3>1, <2>2, <2>4
    <3>3. g \in [0..m -> S]
      BY <3>2
    <3>4. \A k \in 0..m : g[k] = IF k = 0 THEN b ELSE step[k][g[k - 1]]
      <4>1. TAKE k \in 0..m
      <4>2. CASE k = m
        BY <4>2, <3>2
      <4>3. CASE k < m
        <5>1. k \in 0..(m - 1) /\ g[k] = h[k]
          BY <4>3, <3>2
        <5>2. h[k] = IF k = 0 THEN b ELSE step[k][h[k - 1]]
          BY <5>1, <3>1, Zenon DEF Iterates
        <5>3. k # 0 => g[k - 1] = h[k - 1]
          BY <4>3, <3>2
        <5>. QED  BY <5>1, <5>2, <5>3
      <4>. QED  BY <4>2, <4>3, <3>2
    <3>5. Good(g, m)
      BY <3>3, <3>4 DEF Iterates
    <3>. QED  BY <3>5, <2>2
  <2>. QED  BY <2>2, <2>3, <2>4
<1>. QED  BY <1>1

(* Induction up to n: what holds at 0 and is kept by every turn holds after  *)
(* each of the n turns.                                                      *)
LEMMA EveryTurn ==
  ASSUME NEW n \in Nat, NEW G, 0 \in G, \A k \in 1..n : k - 1 \in G => k \in G
  PROVE  \A k \in 0..n : k \in G
<1>. DEFINE bad == {m \in 0..n : m \notin G}
<1>1. SUFFICES ASSUME bad # {} PROVE FALSE
  OBVIOUS
<1>2. PICK m \in bad : \A k \in bad : m <= k
  <2>. HIDE DEF bad
  <2>1. bad \in SUBSET Nat
    BY DEF bad
  <2>. QED  BY <1>1, <2>1, LeastNumber
<1>3. m # 0
  BY <1>2
<1>4. m - 1 \in G
  BY <1>2, <1>3
<1>. QED  BY <1>2, <1>3, <1>4

-----------------------------------------------------------------------------
(* The places of the prerequisites a topic keeps are places of topics that   *)
(* were kept before it.                                                      *)
LEMMA AcceptedPlaces ==
  ASSUME kept \in Seq(Nat), NEW list \in Seq(Nat)
  PROVE  Accepted(list) \in Seq(DOMAIN kept)
<1>. DEFINE S == Seq(DOMAIN kept)
            N == Len(list)
            Turn(k, before) ==
              LET n == list[k] IN
              IF /\ n < number + 1 /\ \E j \in DOMAIN kept : kept[j] = n
                 /\ \A i \in DOMAIN before : before[i] # PlaceOf(n)
              THEN Append(before, PlaceOf(n)) ELSE before
            Loop(h) == h = [k \in 0..N |-> IF k = 0 THEN <<>> ELSE Turn(k, h[k - 1])]
            step == [k \in 1..N |-> [before \in S |-> Turn(k, before)]]
<1>1. N \in Nat /\ <<>> \in S
  OBVIOUS
<1>2. \A k \in 1..N : \A before \in S : Turn(k, before) \in S
  <2>1. TAKE k \in 1..N
  <2>2. TAKE before \in S
  <2>3. CASE \E j \in DOMAIN kept : kept[j] = list[k]
    <3>1. PlaceOf(list[k]) \in DOMAIN kept
      BY <2>3 DEF PlaceOf
    <3>2. Append(before, PlaceOf(list[k])) \in S
      BY <3>1, AppendProperties, Zenon
    <3>. QED  BY <3>2, Zenon
  <2>. QED  BY <2>3, Zenon
<1>3. \E h : Loop(h)
  <2>. HIDE DEF Turn, S, N
  <2>1. step \in [1..N -> [S -> S]]
    BY <1>2
  <2>2. PICK h \in [0..N -> S] : Iterates(h, N, <<>>, step)
    <3>. HIDE DEF step
    <3>. QED  BY <1>1, <2>1, IterationExists, Zenon
  <2>3. \A k \in 0..N : k # 0 => k \in 1..N /\ h[k - 1] \in S
    BY <1>1
  <2>4. Loop(h)
    BY <2>2, <2>3 DEF Iterates
  <2>. QED  BY <2>4
<1>. DEFINE taken == CHOOSE h : Loop(h)
<1>4. Accepted(list) = taken[N]
  BY Zenon DEF Accepted
<1>5. Loop(taken)
  BY <1>3, Zenon
<1>6. \A k \in 0..N : taken[k] = IF k = 0 THEN <<>> ELSE Turn(k, taken[k - 1])
  <2>. HIDE DEF taken, Turn, N
  <2>. QED  BY <1>5, Zenon
<1>. DEFINE typed == {k \in 0..N : taken[k] \in S}
<1>7. \A k \in 0..N : k \in typed
  <2>1. 0 \in 0..N /\ \A k \in 1..N : k \in 0..N /\ k # 0
    BY <1>1
  <2>2. 0 \in typed /\ \A k \in 1..N : k - 1 \in typed => k \in typed
    <3>. HIDE DEF taken, Turn, N, S
    <3>. QED  BY <1>1, <1>2, <1>6, <2>1, Zenon
  <2>. HIDE DEF typed, N
  <2>. QED  BY <1>1, <2>2, EveryTurn, Zenon
<1>8. taken[N] \in S
  <2>. HIDE DEF taken, S
  <2>. QED  BY <1>1, <1>7
<1>. QED  BY <1>4, <1>8, Zenon

-----------------------------------------------------------------------------
(* The practice policy on a path whose prerequisites come earlier.           *)
Earlier(p) == \A t \in DOMAIN p : \A i \in DOMAIN p[t] : p[t][i] \in 1..(t - 1)

(* The first topic that is not practiced misses no prerequisite.             *)
LEMMA FirstMissesNothing ==
  ASSUME NEW p \in Seq(Seq(Nat)), Earlier(p), NEW s \in [DOMAIN p -> Summary],
         Unpracticed(s) # {}
  PROVE  LET t == FirstOf(Unpracticed(s))
         IN t \in Unpracticed(s) /\ t \in DOMAIN p /\ Missing(p[t], s) = {}
<1>. DEFINE U == Unpracticed(s)
            t == FirstOf(U)
<1>1. U \in SUBSET DOMAIN p /\ U \in SUBSET Nat
  BY DEF Unpracticed
<1>2. t \in U /\ \A u \in U : t <= u
  BY <1>1, FirstIsLeast
<1>3. \A i \in DOMAIN p[t] : p[t][i] \notin U
  <2>. HIDE DEF U, t
  <2>. QED  BY <1>1, <1>2 DEF Earlier
<1>. QED  BY <1>1, <1>2, <1>3 DEF Missing

(* A step within a topic never leads to another one.                         *)
LEMMA WithinStays ==
  ASSUME NEW t, NEW summary
  PROVE  ~GoesToTopic(StepWithin(t, summary))
BY DEF StepWithin, GoesToTopic, StepTo

(* Where the page of a topic sends the student: to an earlier topic that is  *)
(* not practiced, or to the first of those; and a page that sends nowhere    *)
(* has work to do, unless the course is finished.                            *)
LEMMA WhereTheStepLeads ==
  ASSUME NEW p \in Seq(Seq(Nat)), Earlier(p), NEW s \in [DOMAIN p -> Summary],
         NEW t \in DOMAIN p
  PROVE  LET step == NextStep(t, p, s)
             U == Unpracticed(s)
         IN  IF GoesToTopic(step)
             THEN /\ U # {} /\ step.topic \in U
                  /\ step.topic < t \/ step.topic = FirstOf(U)
             ELSE U = {} \/ t \in U
<1>. DEFINE U == Unpracticed(s)
            missing == Missing(p[t], s)
            step == NextStep(t, p, s)
<1>1. CASE missing # {}
  <2>. DEFINE i == FirstOf(missing)
  <2>1. missing \in SUBSET Nat
    BY DEF Missing
  <2>2. i \in missing
    <3>. HIDE DEF missing
    <3>. QED  BY <1>1, <2>1, FirstIsLeast
  <2>3. i \in DOMAIN p[t] /\ p[t][i] \in U
    <3>. HIDE DEF i
    <3>. QED  BY <2>2 DEF Missing
  <2>4. p[t][i] < t
    <3>. HIDE DEF i
    <3>. QED  BY <2>3 DEF Earlier
  <2>5. step = StepTo("prerequisite_not_practiced", p[t][i])
    BY <1>1 DEF NextStep
  <2>6. GoesToTopic(step) /\ step.topic = p[t][i]
    <3>. HIDE DEF i, step
    <3>. QED  BY <2>5 DEF GoesToTopic, StepTo
  <2>. HIDE DEF i, step
  <2>. QED  BY <2>3, <2>4, <2>6 DEF step
<1>2. CASE missing = {} /\ t \in U
  <2>1. step = StepWithin(t, s[t])
    BY <1>2 DEF NextStep, Unpracticed
  <2>. QED  BY <1>2, <2>1, WithinStays, Zenon
<1>3. CASE missing = {} /\ t \notin U /\ U = {}
  <2>1. step = StepTo("course_practiced", t)
    BY <1>3 DEF NextStep, Unpracticed
  <2>. QED  BY <1>3, <2>1 DEF GoesToTopic, StepTo
<1>4. CASE missing = {} /\ t \notin U /\ U # {}
  <2>1. step = StepTo("ready_for_next_topic", FirstOf(U))
    BY <1>4 DEF NextStep, Unpracticed
  <2>2. GoesToTopic(step) /\ step.topic = FirstOf(U)
    <3>. HIDE DEF step
    <3>. QED  BY <2>1 DEF GoesToTopic, StepTo
  <2>3. FirstOf(U) \in U
    BY <1>4, FirstMissesNothing, Zenon
  <2>. QED  BY <1>4, <2>2, <2>3, Zenon
<1>. QED  BY <1>1, <1>2, <1>3, <1>4, Zenon

(* The first topic that is not practiced can be worked on at once.           *)
LEMMA FirstIsWorkable ==
  ASSUME NEW p \in Seq(Seq(Nat)), Earlier(p), NEW s \in [DOMAIN p -> Summary],
         Unpracticed(s) # {}
  PROVE  ~GoesToTopic(NextStep(FirstOf(Unpracticed(s)), p, s))
<1>. DEFINE t == FirstOf(Unpracticed(s))
<1>1. t \in Unpracticed(s) /\ Missing(p[t], s) = {}
  BY FirstMissesNothing, Zenon
<1>2. NextStep(t, p, s) = StepWithin(t, s[t])
  <2>. HIDE DEF t
  <2>. QED  BY <1>1 DEF NextStep, Unpracticed
<1>. QED  BY <1>2, WithinStays, Zenon

(* After k hops from any topic the student is on a topic whose page sends    *)
(* nowhere, or at least k places before the end of the path; so the hops end *)
(* before there are as many as topics.                                       *)
LEMMA HopsEnd ==
  ASSUME path \in Seq(Seq(Nat)), RequiresEarlier, summaries \in [DOMAIN path -> Summary],
         NEW t \in DOMAIN path
  PROVE  LET u == Detour(Len(path))[t]
         IN  u \in DOMAIN path /\ ~GoesToTopic(NextStep(u, path, summaries))
<1>. DEFINE N == Len(path)
            D == DOMAIN path
            S == [D -> D]
            From(u) == NextStep(u, path, summaries)
            Hop(u) == IF GoesToTopic(From(u)) THEN From(u).topic ELSE u
            Loop(h) == h = [k \in 0..N |-> [v \in D |->
              IF k = 0 THEN v
              ELSE LET u == h[k - 1][v] s == NextStep(u, path, summaries)
                   IN IF GoesToTopic(s) THEN s.topic ELSE u]]
            start == [v \in D |-> v]
            step == [k \in 1..N |-> [f \in S |-> [v \in D |-> Hop(f[v])]]]
<1>1. N \in Nat /\ D = 1..N
  OBVIOUS
<1>2. Earlier(path)
  BY Zenon DEF RequiresEarlier, Earlier
<1>3. \A u \in D : Hop(u) \in D
  <2>1. TAKE u \in D
  <2>2. GoesToTopic(From(u)) => From(u).topic \in Unpracticed(summaries)
    BY <1>2, WhereTheStepLeads, Zenon
  <2>3. Unpracticed(summaries) \subseteq D
    BY DEF Unpracticed
  <2>. QED  BY <2>2, <2>3, Zenon
<1>4. \E h : Loop(h)
  <2>. HIDE DEF N, D, Hop
  <2>1. step \in [1..N -> [S -> S]] /\ start \in S
    BY <1>3
  <2>2. PICK h \in [0..N -> S] : Iterates(h, N, start, step)
    <3>. HIDE DEF step, start, S
    <3>. QED  BY <1>1, <2>1, IterationExists, Zenon
  <2>3. \A k \in 0..N : k # 0 => k \in 1..N /\ h[k - 1] \in S
    <3>. HIDE DEF step, start, S
    <3>. QED  BY <1>1
  <2>4. \A k \in 0..N : h[k] = [v \in D |-> IF k = 0 THEN v ELSE Hop(h[k - 1][v])]
    BY <2>2, <2>3 DEF Iterates
  <2>5. h = [k \in 0..N |-> [v \in D |-> IF k = 0 THEN v ELSE Hop(h[k - 1][v])]]
    BY <2>4
  <2>. QED  BY <2>5 DEF Hop
<1>. DEFINE hop == CHOOSE h : Loop(h)
<1>5. Detour(N) = hop[N]
  BY Zenon DEF Detour
<1>6. \A k \in 0..N : hop[k] = [v \in D |-> IF k = 0 THEN v ELSE Hop(hop[k - 1][v])]
  <2>1. Loop(hop)
    BY <1>4, Zenon
  <2>. HIDE DEF hop, N, D
  <2>. QED  BY <2>1
<1>. DEFINE at == [k \in 0..N |-> hop[k][t]]
            good == {k \in 0..N : at[k] \in D /\ (~GoesToTopic(From(at[k])) \/ at[k] <= N - k)}
<1>7. at[0] = t /\ \A k \in 1..N : at[k] = Hop(at[k - 1])
  <2>1. 0 \in 0..N /\ \A k \in 1..N : k \in 0..N /\ k - 1 \in 0..N /\ k # 0
    BY <1>1
  <2>2. t \in D
    OBVIOUS
  <2>. HIDE DEF hop, N, D, Hop
  <2>3. \A k \in 0..N : hop[k][t] = IF k = 0 THEN t ELSE Hop(hop[k - 1][t])
    BY <1>6, <2>2
  <2>. QED  BY <2>1, <2>3
<1>8. \A k \in 1..N : k - 1 \in good => k \in good
  <2>. HIDE DEF at, D, N
  <2>1. SUFFICES ASSUME NEW k \in 1..N, k - 1 \in good PROVE k \in good
    OBVIOUS
  <2>. DEFINE u == at[k - 1]
  <2>2. /\ u \in D /\ at[k] = Hop(u) /\ at[k] \in D
        /\ ~GoesToTopic(From(u)) \/ u <= N - (k - 1)
    BY <1>3, <1>7, <2>1
  <2>3. CASE ~GoesToTopic(From(u))
    <3>1. at[k] = u
      BY <2>2, <2>3
    <3>. QED  BY <1>1, <2>1, <2>2, <2>3, <3>1
  <2>4. CASE GoesToTopic(From(u))
    <3>1. at[k] = From(u).topic
      BY <2>2, <2>4
    <3>2. at[k] < u \/ (Unpracticed(summaries) # {} /\ at[k] = FirstOf(Unpracticed(summaries)))
      BY <1>2, <2>2, <2>4, <3>1, WhereTheStepLeads, Zenon DEF D
    <3>3. CASE at[k] < u
      <4>1. u <= N - (k - 1)
        BY <2>2, <2>4
      <4>2. at[k] \in Nat /\ u \in Nat
        BY <1>1, <2>2
      <4>3. at[k] <= N - k
        BY <1>1, <3>3, <4>1, <4>2
      <4>. QED  BY <1>1, <2>2, <4>3
    <3>4. CASE Unpracticed(summaries) # {} /\ at[k] = FirstOf(Unpracticed(summaries))
      <4>1. ~GoesToTopic(From(at[k]))
        BY <1>2, <3>4, FirstIsWorkable, Zenon
      <4>. QED  BY <1>1, <2>2, <4>1
    <3>. QED  BY <3>2, <3>3, <3>4
  <2>. QED  BY <2>3, <2>4
<1>9. 0 \in good
  <2>. HIDE DEF at
  <2>. QED  BY <1>1, <1>7
<1>10. N \in good
  <2>. HIDE DEF good, N
  <2>1. \A k \in 0..N : k \in good
    BY <1>1, <1>8, <1>9, EveryTurn, Zenon
  <2>. QED  BY <1>1, <2>1
<1>11. at[N] \in D /\ ~GoesToTopic(From(at[N]))
  <2>. HIDE DEF at, D
  <2>. QED  BY <1>1, <1>10
<1>12. at[N] = Detour(Len(path))[t]
  <2>. HIDE DEF hop
  <2>. QED  BY <1>1, <1>5
<1>. QED  BY <1>11, <1>12, Zenon

-----------------------------------------------------------------------------
(* The inductive invariant: every kept topic has a number, the path of a     *)
(* course under study has topics with summaries, and prerequisites come      *)
(* earlier.                                                                  *)
PathInv ==
  /\ phase \in {"proposed", "study", "follow"}
  /\ number \in Nat /\ path \in Seq(Seq(Nat)) /\ kept \in Seq(Nat)
  /\ phase = "proposed" => Len(kept) = Len(path)
  /\ phase # "proposed" => summaries \in [DOMAIN path -> Summary]
  /\ RequiresEarlier

(* The lists of the model are sequences of numbers.                          *)
LEMMA ListsAreNumbers == Lists \subseteq Seq(Nat)
<1>1. MaxProposed \in Nat
  BY PathAssumption
<1>2. Numbers \subseteq Nat
  BY <1>1 DEF Numbers
<1>3. SUFFICES ASSUME NEW l \in Lists PROVE l \in Seq(Nat)
  OBVIOUS
<1>4. PICK n \in 0..MaxListed : l \in [1..n -> Numbers]
  BY DEF Lists
<1>5. n \in Nat
  BY PathAssumption
<1>6. l \in [1..n -> Nat]
  BY <1>2, <1>4
<1>. QED  BY <1>5, <1>6

(* A topic that is kept requires topics that were kept before it.            *)
LEMMA ConsiderKeeps ==
  ASSUME PathInv, NEW title, NEW s, NEW l \in Lists, Consider(title, s, l)
  PROVE  PathInv'
<1>1. number' \in Nat /\ phase' = "proposed" /\ phase = "proposed"
  BY DEF PathInv, Consider
<1>2. CASE UNCHANGED <<titles, path, kept>>
  BY <1>1, <1>2 DEF PathInv, RequiresEarlier
<1>3. CASE /\ path' = Append(path, Accepted(l)) /\ kept' = Append(kept, number + 1)
  <2>. DEFINE a == Accepted(l)
              n == Len(path)
  <2>1. a \in Seq(DOMAIN kept)
    BY ListsAreNumbers, AcceptedPlaces, Zenon DEF PathInv
  <2>2. n \in Nat /\ DOMAIN kept = 1..n /\ DOMAIN path = 1..n
    BY <1>1 DEF PathInv
  <2>3. a \in Seq(Nat) /\ \A i \in DOMAIN a : a[i] \in 1..n
    <3>. HIDE DEF a, n
    <3>. QED  BY <2>1, <2>2
  <2>. HIDE DEF a
  <2>4. path' \in Seq(Seq(Nat)) /\ kept' \in Seq(Nat) /\ Len(path') = n + 1 /\ Len(kept') = n + 1
    BY <1>1, <1>3, <2>2, <2>3 DEF PathInv, a
  <2>5. /\ DOMAIN path' = 1..(n + 1) /\ path'[n + 1] = a
        /\ \A t \in 1..n : path'[t] = path[t]
    BY <1>3, <2>2, <2>3 DEF PathInv, a
  <2>6. RequiresEarlier'
    <3>1. SUFFICES ASSUME NEW t \in 1..(n + 1), NEW i \in DOMAIN path'[t]
                   PROVE  path'[t][i] \in 1..(t - 1)
      BY <2>5, Zenon DEF RequiresEarlier
    <3>2. CASE t = n + 1
      BY <2>2, <2>3, <2>5, <3>2
    <3>3. CASE t \in 1..n
      BY <2>2, <2>5, <3>1, <3>3, Zenon DEF PathInv, RequiresEarlier
    <3>. QED  BY <2>2, <3>2, <3>3
  <2>. QED  BY <1>1, <2>4, <2>6 DEF PathInv
<1>. QED  BY <1>2, <1>3, Zenon DEF Consider

(* The headings of the documents make a path of earlier prerequisites too.   *)
LEMMA HeadingsKeep ==
  ASSUME PathInv, Headings
  PROVE  PathInv'
<1>0. PICK n \in 1..MaxProposed : \E document \in [1..n -> Documents] :
        LET before(t) == {u \in 1..(t - 1) : document[u] = document[t]}
            latest(t) == CHOOSE u \in before(t) : \A v \in before(t) : v <= u
        IN StartStudy([t \in 1..n |-> IF before(t) = {} THEN <<>> ELSE <<latest(t)>>])
  BY Zenon DEF Headings
<1>1. PICK document \in [1..n -> Documents] :
        LET before(t) == {u \in 1..(t - 1) : document[u] = document[t]}
            latest(t) == CHOOSE u \in before(t) : \A v \in before(t) : v <= u
        IN StartStudy([t \in 1..n |-> IF before(t) = {} THEN <<>> ELSE <<latest(t)>>])
  BY <1>0, Zenon
<1>. DEFINE before(t) == {u \in 1..(t - 1) : document[u] = document[t]}
            latest(t) == CHOOSE u \in before(t) : \A v \in before(t) : v <= u
            p == [t \in 1..n |-> IF before(t) = {} THEN <<>> ELSE <<latest(t)>>]
<1>2. StartStudy(p)
  BY <1>1, Zenon
<1>3. n \in Nat
  BY PathAssumption
<1>4. \A t \in 1..n : before(t) # {} => latest(t) \in 1..(t - 1)
  <2>1. SUFFICES ASSUME NEW t \in 1..n, before(t) # {} PROVE latest(t) \in before(t)
    OBVIOUS
  <2>2. t \in Nat /\ before(t) \in SUBSET (0..t)
    BY <1>3
  <2>3. \E u \in before(t) : \A v \in before(t) : v <= u
    <3>. HIDE DEF before
    <3>. QED  BY <2>1, <2>2, LargestNumber, Zenon
  <2>. QED  BY <2>3, Zenon
<1>5. p \in Seq(Seq(Nat)) /\ DOMAIN p = 1..n
  <2>1. \A t \in 1..n : before(t) # {} => <<latest(t)>> \in Seq(Nat)
    <3>. HIDE DEF latest, before
    <3>. QED  BY <1>3, <1>4
  <2>2. \A t \in 1..n : p[t] \in Seq(Nat)
    <3>. HIDE DEF latest, before
    <3>. QED  BY <2>1
  <2>. HIDE DEF latest, before
  <2>3. p = [t \in 1..n |-> p[t]] /\ DOMAIN p = 1..n
    OBVIOUS
  <2>. HIDE DEF p
  <2>. QED  BY <1>3, <2>2, <2>3
<1>6. \A t \in 1..n : \A i \in DOMAIN p[t] : p[t][i] \in 1..(t - 1)
  <2>. HIDE DEF latest, before
  <2>. QED  BY <1>4
<1>. HIDE DEF p
<1>7. /\ phase' = "study" /\ path' = p /\ number' = 0 /\ kept' = <<>>
      /\ summaries' = [t \in DOMAIN p |-> NotStarted]
  BY <1>2 DEF StartStudy
<1>8. NotStarted \in Summary
  BY DEF NotStarted, Summary
<1>. QED  BY <1>5, <1>6, <1>7, <1>8 DEF PathInv, RequiresEarlier

(* The topics a proposal ends with keep their prerequisites.                 *)
LEMMA ProposeKeeps ==
  ASSUME PathInv, Propose
  PROVE  PathInv'
<1>1. /\ phase' = "study" /\ path' = path /\ number' = 0 /\ kept' = <<>>
      /\ summaries' = [t \in DOMAIN path |-> NotStarted]
  BY DEF Propose, StartStudy
<1>2. NotStarted \in Summary
  BY DEF NotStarted, Summary
<1>. QED  BY <1>1, <1>2 DEF PathInv, RequiresEarlier

(* Study changes the summary of one topic and leaves the path alone.         *)
LEMMA WorkKeeps ==
  ASSUME PathInv, phase # "proposed", NEW t,
         \/ Open(t)
         \/ \E r \in {"wrong", "assisted", "clean"} : Answer(t, r)
  PROVE  PathInv'
<1>1. UNCHANGED <<phase, number, path, kept>>
  BY DEF Open, Answer
<1>2. summaries' \in [DOMAIN path -> Summary]
  <2>1. summaries \in [DOMAIN path -> Summary]
    BY DEF PathInv
  <2>2. CASE Open(t)
    BY <2>1, <2>2 DEF Open, Summary
  <2>3. CASE \E r \in {"wrong", "assisted", "clean"} : Answer(t, r)
    <3>1. PICK r \in {"wrong", "assisted", "clean"} : Answer(t, r)
      BY <2>3
    <3>. DEFINE errors == IF r = "wrong" THEN UpTo(StrugglingErrors, summaries[t].errors + 1) ELSE 0
                clean == IF r = "clean" THEN UpTo(PracticedDistinctItems, summaries[t].clean + 1)
                         ELSE summaries[t].clean
    <3>2. CASE t \notin DOMAIN path
      <4>1. summaries' = summaries
        BY <2>1, <3>1, <3>2 DEF Answer
      <4>. QED  BY <2>1, <4>1
    <3>3. CASE t \in DOMAIN path
      <4>1. /\ summaries[t] \in Summary
            /\ errors \in Nat /\ clean \in Nat
        BY <2>1, <3>3 DEF Summary, UpTo, StrugglingErrors, PracticedDistinctItems
      <4>2. summaries' = [summaries EXCEPT ![t].last = r, ![t].restudied = FALSE,
                                           ![t].errors = errors, ![t].clean = clean]
        BY <3>1 DEF Answer
      <4>. HIDE DEF errors, clean
      <4>. QED  BY <2>1, <3>3, <4>1, <4>2 DEF Summary
    <3>. QED  BY <3>2, <3>3
  <2>. QED  BY <2>2, <2>3
<1>. QED  BY <1>1, <1>2 DEF PathInv, RequiresEarlier

(* The invariant holds of every execution.                                   *)
THEOREM PathInvCorrect == Spec => []PathInv
<1>1. Init => PathInv
  BY DEF Init, PathInv, RequiresEarlier
<1>2. PathInv /\ [Next]_vars => PathInv'
  <2>1. SUFFICES ASSUME PathInv, [Next]_vars PROVE PathInv'
    OBVIOUS
  <2>2. CASE UNCHANGED vars
    BY <2>1, <2>2 DEF vars, PathInv, RequiresEarlier
  <2>3. CASE Build
    BY <2>1, <2>3, ConsiderKeeps, ProposeKeeps, HeadingsKeep, Zenon DEF Build
  <2>4. ASSUME NEW t \in DOMAIN path, Wander(t) PROVE PathInv'
    BY <2>1, <2>4, WorkKeeps DEF Wander
  <2>5. CASE Settle \/ FollowGo
    BY <2>1, <2>5 DEF Settle, FollowGo, PathInv, RequiresEarlier
  <2>6. CASE FollowLesson
    BY <2>1, <2>6, WorkKeeps DEF FollowLesson
  <2>7. ASSUME NEW r \in {"wrong", "assisted", "clean"}, FollowAnswer(r) PROVE PathInv'
    BY <2>1, <2>7, WorkKeeps DEF FollowAnswer
  <2>. QED  BY <2>1, <2>2, <2>3, <2>4, <2>5, <2>6, <2>7, Zenon DEF Next
<1>. QED  BY <1>1, <1>2, PTL DEF Spec

-----------------------------------------------------------------------------
(* However many proposed topics are dropped, and whatever numbers the model  *)
(* lists, a prerequisite is an earlier topic of the path.                    *)
THEOREM RequiresEarlierCorrect == Spec => []RequiresEarlier
<1>1. PathInv => RequiresEarlier
  BY DEF PathInv
<1>. QED  BY <1>1, PathInvCorrect, PTL

(* The recommended topic can be worked on at once.                           *)
THEOREM RecommendedIsWorkableCorrect == Spec => []RecommendedIsWorkable
<1>1. PathInv => RecommendedIsWorkable
  <2>1. SUFFICES ASSUME PathInv, phase # "proposed", Unpracticed(summaries) # {}
                 PROVE  ~GoesToTopic(NextStep(Recommended(path, summaries), path, summaries))
    BY Zenon DEF RecommendedIsWorkable
  <2>2. Recommended(path, summaries) = FirstOf(Unpracticed(summaries))
    BY <2>1 DEF Recommended
  <2>3. Earlier(path) /\ path \in Seq(Seq(Nat)) /\ summaries \in [DOMAIN path -> Summary]
    BY <2>1, Zenon DEF PathInv, RequiresEarlier, Earlier
  <2>. QED  BY <2>1, <2>2, <2>3, FirstIsWorkable, Zenon
<1>. QED  BY <1>1, PathInvCorrect, PTL

(* Following "go to topic" ends, after at most as many hops as topics, at a  *)
(* topic with work to do or at the end of the course.                        *)
THEOREM DetoursEndCorrect == Spec => []DetoursEnd
<1>1. PathInv => DetoursEnd
  <2>1. SUFFICES ASSUME PathInv, phase # "proposed", NEW t \in DOMAIN path
                 PROVE  LET u == Detour(Len(path))[t]
                        IN /\ ~GoesToTopic(NextStep(u, path, summaries))
                           /\ Unpracticed(summaries) = {} \/ u \in Unpracticed(summaries)
    BY Zenon DEF DetoursEnd
  <2>. DEFINE u == Detour(Len(path))[t]
  <2>2. path \in Seq(Seq(Nat)) /\ summaries \in [DOMAIN path -> Summary] /\ RequiresEarlier
    BY <2>1 DEF PathInv
  <2>3. u \in DOMAIN path /\ ~GoesToTopic(NextStep(u, path, summaries))
    BY <2>1, <2>2, HopsEnd, Zenon
  <2>4. Earlier(path)
    BY <2>2, Zenon DEF RequiresEarlier, Earlier
  <2>. HIDE DEF u
  <2>5. Unpracticed(summaries) = {} \/ u \in Unpracticed(summaries)
    BY <2>2, <2>3, <2>4, WhereTheStepLeads, Zenon
  <2>. QED  BY <2>3, <2>5, Zenon DEF u
<1>. QED  BY <1>1, PathInvCorrect, PTL

-----------------------------------------------------------------------------
(* The student model (module StudentModel).                                 *)

(* Two of a set with at least two elements.                                  *)
LEMMA TwoOf ==
  ASSUME NEW S, IsFiniteSet(S), Cardinality(S) >= 2
  PROVE  \E x, y \in S : x # y
<1>1. PICK x \in S : TRUE
  BY FS_EmptySet
<1>2. IsFiniteSet(S \ {x}) /\ Cardinality(S \ {x}) = Cardinality(S) - 1
  BY <1>1, FS_RemoveElement
<1>3. S \ {x} # {}
  BY <1>2, FS_EmptySet, FS_CardinalityType
<1>. QED  BY <1>1, <1>3

(* A third element beside any two.                                          *)
LEMMA ThirdOf ==
  ASSUME NEW S, IsFiniteSet(S), Cardinality(S) >= 3, NEW x \in S, NEW y \in S
  PROVE  \E z \in S : z # x /\ z # y
<1>. DEFINE T == S \ {x}
<1>1. Cardinality(S) \in Nat
  BY FS_CardinalityType
<1>2. IsFiniteSet(T) /\ Cardinality(T) = Cardinality(S) - 1
  BY FS_RemoveElement
<1>. HIDE DEF T
<1>3. IsFiniteSet(T \ {y}) /\ Cardinality(T \ {y}) >= Cardinality(T) - 1
  <2>1. /\ IsFiniteSet(T \ {y})
        /\ Cardinality(T \ {y}) = IF y \in T THEN Cardinality(T) - 1 ELSE Cardinality(T)
    BY <1>2, FS_RemoveElement, Zenon
  <2>. QED  BY <1>1, <1>2, <2>1
<1>4. T \ {y} # {}
  BY <1>1, <1>2, <1>3, FS_EmptySet
<1>. QED  BY <1>4 DEF T

(* How many two and three different elements are.                            *)
LEMMA PairAndTriple ==
  ASSUME NEW x, NEW y, x # y
  PROVE  /\ IsFiniteSet({x, y}) /\ Cardinality({x, y}) = 2
         /\ \A z : z # x /\ z # y => Cardinality({x, y, z}) = 3
<1>1. IsFiniteSet({x}) /\ Cardinality({x}) = 1
  BY FS_Singleton
<1>2. {x, y} = {x} \cup {y}
  OBVIOUS
<1>3. IsFiniteSet({x, y}) /\ Cardinality({x, y}) = 2
  BY <1>1, <1>2, FS_AddElement
<1>4. ASSUME NEW z, z # x, z # y PROVE Cardinality({x, y, z}) = 3
  <2>1. {x, y, z} = {x, y} \cup {z}
    OBVIOUS
  <2>. QED  BY <1>3, <1>4, <2>1, FS_AddElement
<1>. QED  BY <1>3, <1>4

(* What is recorded is a sequence.                                          *)
Recorded == evidence \in Seq(Inputs)

(* The answers that count for a level: the first independent ones.            *)
Earning ==
  {k \in FirstAttempts(evidence) :
     /\ Independent(evidence[k])
     /\ evidence[k].group = None
        \/ ~\E j \in FirstAttempts(evidence) :
             j < k /\ evidence[j].session = evidence[k].session
             /\ evidence[j].group = evidence[k].group}

LEMMA EarningCounts ==
  ASSUME Recorded
  PROVE  /\ Earning \subseteq DOMAIN evidence /\ IsFiniteSet(Earning)
         /\ {e \in Counted(evidence) : Independent(e)}
              = {evidence[k] : k \in Earning}
<1>1. Earning \subseteq DOMAIN evidence
  BY DEF Earning, FirstAttempts
<1>2. IsFiniteSet(DOMAIN evidence)
  BY FS_Interval DEF Recorded
<1>3. IsFiniteSet(Earning)
  BY <1>1, <1>2, FS_Subset
<1>4. {e \in Counted(evidence) : Independent(e)}
        = {evidence[k] : k \in Earning}
  BY DEF Earning, Counted
<1>. QED  BY <1>1, <1>3, <1>4

(* Each of them is fresh, and those about different items are apart.          *)
LEMMA EarningIsFresh ==
  ASSUME Recorded
  PROVE  /\ \A k \in Earning : Fresh(k)
         /\ \A k, j \in Earning : evidence[k].item # evidence[j].item => Apart(k, j)
<1>1. ASSUME NEW k \in Earning PROVE Fresh(k)
  BY <1>1 DEF Earning, FirstAttempts, Fresh, Eligible
<1>2. ASSUME NEW k \in Earning, NEW j \in Earning, evidence[k].item # evidence[j].item
      PROVE  Apart(k, j)
  <2>1. k \in Nat /\ j \in Nat /\ k # j
    BY <1>2, EarningCounts DEF Recorded
  <2>2. k < j \/ j < k
    BY <2>1
  <2>. QED  BY <1>2, <2>2 DEF Earning, Apart
<1>. QED  BY <1>1, <1>2

(* How many items and sessions they are about.                               *)
LEMMA ItemsEarned ==
  ASSUME Recorded
  PROVE  LET I == {e \in Counted(evidence) : Independent(e)}
             items == {evidence[k].item : k \in Earning}
             sessions == {evidence[k].session : k \in Earning}
         IN /\ IsFiniteSet(items) /\ ItemsOf(I) = Cardinality(items)
            /\ IsFiniteSet(sessions) /\ SessionsOf(I) = Cardinality(sessions)
<1>. DEFINE I == {e \in Counted(evidence) : Independent(e)}
            items == {evidence[k].item : k \in Earning}
            sessions == {evidence[k].session : k \in Earning}
<1>1. I = {evidence[k] : k \in Earning}
  BY EarningCounts
<1>2. {e.item : e \in I} = items /\ {e.session : e \in I} = sessions
  <2>. HIDE DEF I
  <2>. QED  BY <1>1
<1>3. IsFiniteSet(items)
  <2>. DEFINE f == [k \in Earning |-> evidence[k].item]
  <2>1. f \in Surjection(Earning, items)
    BY DEF Surjection
  <2>. QED  BY <2>1, EarningCounts, FS_Surjection
<1>4. IsFiniteSet(sessions)
  <2>. DEFINE f == [k \in Earning |-> evidence[k].session]
  <2>1. f \in Surjection(Earning, sessions)
    BY DEF Surjection
  <2>. QED  BY <2>1, EarningCounts, FS_Surjection
<1>. HIDE DEF I, items, sessions
<1>5. ItemsOf(I) = Cardinality(items) /\ SessionsOf(I) = Cardinality(sessions)
  BY <1>2 DEF ItemsOf, SessionsOf
<1>. QED  BY <1>3, <1>4, <1>5 DEF I, items, sessions

(* Three answers about different items that span two sessions.               *)
LEMMA ThreeApart ==
  ASSUME LET items == {evidence[k].item : k \in Earning}
             sessions == {evidence[k].session : k \in Earning}
         IN /\ IsFiniteSet(items) /\ Cardinality(items) >= 3
            /\ IsFiniteSet(sessions) /\ Cardinality(sessions) >= 2
  PROVE  \E a, b, c \in Earning :
           /\ evidence[a].item # evidence[b].item /\ evidence[b].item # evidence[c].item
           /\ evidence[a].item # evidence[c].item /\ evidence[a].session # evidence[b].session
<1>. DEFINE items == {evidence[k].item : k \in Earning}
            sessions == {evidence[k].session : k \in Earning}
<1>1. \A i, j \in items : \E h \in items : h # i /\ h # j
  <2>1. IsFiniteSet(items) /\ Cardinality(items) >= 3
    OBVIOUS
  <2>. HIDE DEF items
  <2>. QED  BY <2>1, ThirdOf
<1>2. \E s, t \in sessions : s # t
  <2>1. IsFiniteSet(sessions) /\ Cardinality(sessions) >= 2
    OBVIOUS
  <2>. HIDE DEF sessions
  <2>. QED  BY <2>1, TwoOf
<1>3. PICK x, y \in Earning : evidence[x].session # evidence[y].session
  BY <1>2
<1>4. \A k, j \in Earning : \E h \in Earning :
        evidence[h].item # evidence[k].item /\ evidence[h].item # evidence[j].item
  BY <1>1
<1>5. \E a, b \in Earning :
        evidence[a].item # evidence[b].item /\ evidence[a].session # evidence[b].session
  <2>1. PICK z \in Earning : evidence[z].item # evidence[x].item
    BY <1>4
  <2>. QED  BY <1>3, <2>1
<1>. QED  BY <1>4, <1>5

(* The level of any evidence is earned.                                      *)
LEMMA EvidenceEarns ==
  ASSUME Recorded
  PROVE  LevelIsEarned
<1>. DEFINE K == Counted(evidence)
            I == {e \in K : Independent(e)}
            items == {evidence[k].item : k \in Earning}
            sessions == {evidence[k].session : k \in Earning}
            level == Level(evidence)
            earned(n) == {P \in kSubset(n, DOMAIN evidence) :
                            /\ \A k \in P : Fresh(k)
                            /\ \A k, j \in P : k # j => Apart(k, j)}
<1>1. /\ level >= Competent => CompetentGate(K)
      /\ level = Strong => StrongGate(K)
  BY DEF Level, LevelOf, Unknown, Emerging, Developing,
         Competent, Strong
<1>2. /\ IsFiniteSet(items) /\ ItemsOf(I) = Cardinality(items)
      /\ IsFiniteSet(sessions) /\ SessionsOf(I) = Cardinality(sessions)
  BY ItemsEarned
<1>3. \A k, j \in Earning : evidence[k].item # evidence[j].item => Apart(k, j)
  BY EarningIsFresh
<1>4. ASSUME level >= Competent PROVE earned(2) # {}
  <2>1. ItemsOf(I) >= 2
    BY <1>1, <1>4 DEF CompetentGate
  <2>2. \E i, j \in items : i # j
    <3>1. IsFiniteSet(items) /\ Cardinality(items) >= 2
      BY <1>2, <2>1
    <3>. HIDE DEF items
    <3>. QED  BY <3>1, TwoOf
  <2>3. PICK a, b \in Earning : evidence[a].item # evidence[b].item
    BY <2>2
  <2>4. a \in DOMAIN evidence /\ b \in DOMAIN evidence /\ Fresh(a) /\ Fresh(b)
    BY EarningCounts, EarningIsFresh
  <2>5. {a, b} \in kSubset(2, DOMAIN evidence)
    <3>1. Cardinality({a, b}) = 2
      BY <2>3, PairAndTriple
    <3>. QED  BY <2>4, <3>1 DEF kSubset
  <2>. QED  BY <1>3, <2>3, <2>4, <2>5
<1>5. ASSUME level = Strong
      PROVE  \E P \in earned(3) : Cardinality({evidence[k].session : k \in P}) >= 2
  <2>1. ItemsOf(I) >= 3 /\ SessionsOf(I) >= 2
    BY <1>1, <1>5 DEF StrongGate
  <2>2. PICK a, b, c \in Earning :
          /\ evidence[a].item # evidence[b].item /\ evidence[b].item # evidence[c].item
          /\ evidence[a].item # evidence[c].item /\ evidence[a].session # evidence[b].session
    BY <1>2, <2>1, ThreeApart
  <2>3. /\ {a, b, c} \subseteq DOMAIN evidence
        /\ Fresh(a) /\ Fresh(b) /\ Fresh(c)
    BY EarningCounts, EarningIsFresh
  <2>4. Cardinality({a, b, c}) = 3
    <3>1. a # b /\ c # a /\ c # b
      BY <2>2
    <3>. QED  BY <3>1, PairAndTriple
  <2>5. {a, b, c} \in kSubset(3, DOMAIN evidence)
    BY <2>3, <2>4 DEF kSubset
  <2>6. {a, b, c} \in earned(3)
    <3>1. \A k, j \in {a, b, c} : k # j => Apart(k, j)
      BY <1>3, <2>2
    <3>. QED  BY <2>3, <2>5, <3>1
  <2>7. Cardinality({evidence[k].session : k \in {a, b, c}}) >= 2
    <3>. DEFINE S == {evidence[a].session, evidence[b].session}
    <3>1. /\ {evidence[k].session : k \in {a, b, c}} = S \cup {evidence[c].session}
          /\ evidence[a].session # evidence[b].session
      BY <2>2
    <3>2. IsFiniteSet(S) /\ Cardinality(S) = 2
      BY <3>1, PairAndTriple
    <3>. HIDE DEF S
    <3>3. Cardinality(S \cup {evidence[c].session}) >= 2
      <4>. DEFINE T == S \cup {evidence[c].session}
      <4>1. Cardinality(T) = IF evidence[c].session \in S THEN Cardinality(S) ELSE Cardinality(S) + 1
        BY <3>2, FS_AddElement, Zenon
      <4>. QED  BY <3>2, <4>1
    <3>. QED  BY <3>1, <3>3
  <2>. QED  BY <2>6, <2>7
<1>. QED  BY <1>4, <1>5 DEF LevelIsEarned

(* A level above developing is earned: by correct, independent and fresh      *)
(* answers to different items, in two sessions for strong, no two of a        *)
(* session in one response group (_competent_gate, _strong_gate), whatever    *)
(* was recorded and in any number.                                           *)
THEOREM LevelIsEarnedCorrect == StudentSpec => []LevelIsEarned
<1>1. StudentInit => Recorded
  BY DEF Recorded, StudentInit
<1>2. Recorded /\ [Record]_evidence => Recorded'
  BY DEF Recorded, Record
<1>3. Recorded => LevelIsEarned
  BY EvidenceEarns
<1>. QED  BY <1>1, <1>2, <1>3, PTL DEF StudentSpec

(* An answer to an item that was already answered in the session is not the   *)
(* first there, so nothing else is counted (correlated evidence).             *)
LEMMA RepeatIsNotCounted ==
  ASSUME NEW E \in Seq(Inputs), NEW e \in Inputs,
         NEW j \in DOMAIN E, Eligible(E[j]),
         E[j].session = e.session, E[j].item = e.item
  PROVE  Counted(Append(E, e)) = Counted(E)
<1>. DEFINE F == Append(E, e)
            first == FirstAttempts(E)
<1>1. /\ Len(F) = Len(E) + 1 /\ F[Len(E) + 1] = e
      /\ DOMAIN E = 1..Len(E) /\ DOMAIN F = 1..(Len(E) + 1)
      /\ \A k \in DOMAIN E : F[k] = E[k]
  OBVIOUS
<1>. HIDE DEF F
<1>2. \A k \in DOMAIN F : k # Len(E) + 1 => k \in DOMAIN E
  BY <1>1
<1>3. Len(E) + 1 \notin FirstAttempts(F)
  BY <1>1 DEF FirstAttempts
<1>4. FirstAttempts(F) = first
  <2>1. ASSUME NEW k \in DOMAIN E PROVE k \in FirstAttempts(F) <=> k \in first
    <3>1. \A i \in 1..(k - 1) : i \in DOMAIN E /\ F[i] = E[i]
      BY <1>1, <2>1
    <3>2. k \in DOMAIN F /\ F[k] = E[k]
      BY <1>1, <2>1
    <3>. QED  BY <2>1, <3>1, <3>2 DEF FirstAttempts
  <2>2. first \subseteq DOMAIN E /\ FirstAttempts(F) \subseteq DOMAIN F
    BY DEF FirstAttempts
  <2>. QED  BY <1>2, <1>3, <2>1, <2>2
<1>5. first \subseteq DOMAIN E
  BY DEF FirstAttempts
<1>6. \A k \in first : F[k] = E[k]
  BY <1>1, <1>5
<1>. DEFINE chosen(G, S) == {k \in S : G[k].group = None \/ ~\E i \in S :
                             i < k /\ G[i].session = G[k].session /\ G[i].group = G[k].group}
<1>7. /\ Counted(F) = {F[k] : k \in chosen(F, first)}
      /\ Counted(E) = {E[k] : k \in chosen(E, first)}
  BY <1>4 DEF Counted
<1>. HIDE DEF first
<1>8. chosen(F, first) = chosen(E, first) /\ chosen(E, first) \subseteq first
  BY <1>6
<1>. HIDE DEF chosen
<1>9. {F[k] : k \in chosen(F, first)} = {E[k] : k \in chosen(E, first)}
  BY <1>6, <1>8
<1>. QED  BY <1>7, <1>9 DEF F

(* Repeating an item in its session leaves the level alone, whatever the      *)
(* answer was: the last part of LevelFollowsAnswers, for any evidence         *)
(* (estimate_objective_state, correlated attempts).                          *)
THEOREM RepeatChangesNothing ==
  StudentSpec =>
    [][(\E j \in DOMAIN evidence :
          LET e == evidence'[Len(evidence')] IN
          /\ Eligible(evidence[j])
          /\ evidence[j].session = e.session /\ evidence[j].item = e.item)
       => Level(evidence') = Level(evidence)]_evidence
<1>. DEFINE A == (\E j \in DOMAIN evidence :
                    LET e == evidence'[Len(evidence')] IN
                    /\ Eligible(evidence[j])
                    /\ evidence[j].session = e.session /\ evidence[j].item = e.item)
                 => Level(evidence') = Level(evidence)
<1>1. Recorded /\ [Record]_evidence => [A]_evidence
  <2>1. SUFFICES ASSUME Recorded, NEW e \in Inputs, evidence' = Append(evidence, e),
                        NEW j \in DOMAIN evidence, Eligible(evidence[j]),
                        evidence[j].session = evidence'[Len(evidence')].session,
                        evidence[j].item = evidence'[Len(evidence')].item
                 PROVE  Level(evidence') = Level(evidence)
    BY DEF Record
  <2>2. evidence'[Len(evidence')] = e
    BY <2>1 DEF Recorded
  <2>3. Counted(evidence') = Counted(evidence)
    BY <2>1, <2>2, RepeatIsNotCounted DEF Recorded
  <2>. QED  BY <2>3 DEF Level
<1>2. StudentInit => Recorded
  BY DEF Recorded, StudentInit
<1>3. Recorded /\ [Record]_evidence => Recorded'
  BY DEF Recorded, Record
<1>. QED  BY <1>1, <1>2, <1>3, PTL DEF StudentSpec
=============================================================================
