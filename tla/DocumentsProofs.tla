---------------------------- MODULE DocumentsProofs ----------------------------
(***************************************************************************)
(* Proofs about CourseDocuments, for any finite set of request threads and  *)
(* any limit: documents stay readable, and threads together pass the limit  *)
(* by no more than one document for each other thread.                      *)
(***************************************************************************)
EXTENDS CourseDocuments, FiniteSetTheorems, TLAPS

-----------------------------------------------------------------------------
Stages == {"duplicate_check", "save_upload", "save_pack", "insert"}

TypeInv ==
  /\ documents \subseteq Documents
  /\ pc \in [Requests -> Pcs] /\ loc \in [Requests -> Documents \cup {NoUpload}]
  /\ \A p \in Requests : pc[p] \in Stages => loc[p] \in Documents

(* A thread has saved the files its stage comes after.                         *)
FilesInv ==
  /\ \A p \in Requests : /\ pc[p] \in {"save_pack", "insert"} => loc[p][2] \in uploads
                         /\ pc[p] = "insert" => loc[p] \in packs
  /\ DocumentsReadable

(* The threads that may still insert a document of a course.                   *)
InFlight(c) == {p \in Requests : pc[p] # "idle" /\ loc[p][1] = c}

(* A thread that may insert was let in below the limit: the documents of a     *)
(* course and those on their way to it together stay below the bound.          *)
CountInv ==
  \A c \in Courses :
    /\ IsFiniteSet(Of(c))
    /\ Cardinality(Of(c)) + Cardinality(InFlight(c)) <= MaxDocuments + Cardinality(Requests) - 1

IInv == TypeInv /\ FilesInv /\ CountInv

-----------------------------------------------------------------------------
(* Numbers of threads are natural numbers no larger than that of all threads.  *)
LEMMA FlightSize ==
  ASSUME NEW S \in SUBSET Requests
  PROVE  /\ IsFiniteSet(S) /\ Cardinality(S) \in Nat
         /\ Cardinality(S) <= Cardinality(Requests) /\ Cardinality(Requests) \in Nat
BY DocumentsAssumption, FS_Subset, FS_CardinalityType

(* Nothing is added to a course and no thread comes to work on it.             *)
LEMMA CountStays ==
  ASSUME CountInv, UNCHANGED documents,
         \A c \in Courses : InFlight(c)' \subseteq InFlight(c)
  PROVE  CountInv'
<1>. SUFFICES ASSUME NEW c \in Courses
     PROVE  /\ IsFiniteSet(Of(c)')
            /\ Cardinality(Of(c)') + Cardinality(InFlight(c)')
                 <= MaxDocuments + Cardinality(Requests) - 1
  BY DEF CountInv
<1>1. Of(c)' = Of(c)
  BY DEF Of
<1>2. InFlight(c) \in SUBSET Requests /\ InFlight(c)' \in SUBSET Requests
  BY DEF InFlight
<1>3. Cardinality(InFlight(c)') <= Cardinality(InFlight(c))
  BY <1>2, FlightSize, FS_Subset
<1>4. /\ Cardinality(InFlight(c)') \in Nat /\ Cardinality(InFlight(c)) \in Nat
      /\ Cardinality(Requests) \in Nat
  BY <1>2, FlightSize
<1>5. IsFiniteSet(Of(c)) /\ Cardinality(Of(c)) \in Nat
  BY FS_CardinalityType DEF CountInv
<1>6. Cardinality(Of(c)) + Cardinality(InFlight(c)) <= MaxDocuments + Cardinality(Requests) - 1
  BY DEF CountInv
<1>. QED  BY <1>1, <1>3, <1>4, <1>5, <1>6, DocumentsAssumption

(* A thread that leaves, goes on, or is stopped works on no other course.      *)
LEMMA FlightStays ==
  ASSUME TypeInv, NEW p \in Requests, NEW to \in Pcs,
         pc[p] # "idle", Goto(p, to) \/ Leave(p)
  PROVE  \A c \in Courses : InFlight(c)' \subseteq InFlight(c)
<1>1. pc' \in [Requests -> Pcs] /\ loc' \in [Requests -> Documents \cup {NoUpload}]
  BY DEF Goto, Leave, TypeInv, Pcs
<1>2. \A q \in Requests \ {p} : pc'[q] = pc[q] /\ loc'[q] = loc[q]
  BY DEF Goto, Leave, TypeInv
<1>3. pc'[p] # "idle" => loc'[p] = loc[p]
  BY DEF Goto, Leave, TypeInv
<1>. QED  BY <1>1, <1>2, <1>3 DEF InFlight

(* A thread is let in while the course has room.                               *)
LEMMA UploadCounts ==
  ASSUME IInv, NEW p \in Requests, NEW d \in Documents, Upload(p, d)
  PROVE  CountInv'
<1>. SUFFICES ASSUME NEW c \in Courses
     PROVE  /\ IsFiniteSet(Of(c)')
            /\ Cardinality(Of(c)') + Cardinality(InFlight(c)')
                 <= MaxDocuments + Cardinality(Requests) - 1
  BY DEF CountInv
<1>1. Of(c)' = Of(c)
  BY DEF Of, Upload
<1>2. InFlight(c) \in SUBSET Requests /\ InFlight(c)' \in SUBSET Requests
  BY DEF InFlight
<1>3. IsFiniteSet(Of(c)) /\ Cardinality(Of(c)) \in Nat
  BY FS_CardinalityType DEF CountInv, IInv
<1>4. CASE c = d[1]
  <2>1. Cardinality(Of(c)) < MaxDocuments
    BY <1>4 DEF Upload, Room
  <2>2. /\ Cardinality(InFlight(c)') \in Nat /\ Cardinality(Requests) \in Nat
        /\ Cardinality(InFlight(c)') <= Cardinality(Requests)
    BY <1>2, FlightSize
  <2>. QED  BY <1>1, <1>3, <2>1, <2>2, DocumentsAssumption
<1>5. CASE c # d[1]
  <2>1. InFlight(c)' = InFlight(c)
    BY <1>5 DEF InFlight, Upload, IInv, TypeInv
  <2>. QED  BY <1>1, <2>1 DEF IInv, CountInv
<1>. QED  BY <1>4, <1>5

(* A row more is a thread less.                                                *)
LEMMA InsertCounts ==
  ASSUME IInv, NEW p \in Requests, Insert(p)
  PROVE  CountInv'
<1>. SUFFICES ASSUME NEW c \in Courses
     PROVE  /\ IsFiniteSet(Of(c)')
            /\ Cardinality(Of(c)') + Cardinality(InFlight(c)')
                 <= MaxDocuments + Cardinality(Requests) - 1
  BY DEF CountInv
<1>1. IsFiniteSet(Of(c)) /\ Cardinality(Of(c)) \in Nat
  BY FS_CardinalityType DEF CountInv, IInv
<1>2. InFlight(c) \in SUBSET Requests
  BY DEF InFlight
<1>3. Cardinality(InFlight(c)) \in Nat /\ Cardinality(Requests) \in Nat /\ IsFiniteSet(InFlight(c))
  BY <1>2, FlightSize
<1>4. Cardinality(Of(c)) + Cardinality(InFlight(c)) <= MaxDocuments + Cardinality(Requests) - 1
  BY DEF IInv, CountInv
<1>5. InFlight(c)' = InFlight(c) \ {p}
  BY DEF InFlight, Insert, Leave, IInv, TypeInv, Pcs
<1>6. Of(c)' = IF loc[p][1] = c THEN Of(c) \cup {loc[p]} ELSE Of(c)
  BY DEF Of, Insert
<1>7. CASE loc[p][1] = c
  <2>1. p \in InFlight(c)
    BY <1>7 DEF InFlight, Insert
  <2>2. Cardinality(InFlight(c)') = Cardinality(InFlight(c)) - 1
    BY <1>3, <1>5, <2>1, FS_RemoveElement
  <2>3. /\ IsFiniteSet(Of(c)') /\ Cardinality(Of(c)') \in Nat
        /\ Cardinality(Of(c)') <= Cardinality(Of(c)) + 1
    <3>. DEFINE S == Of(c) \cup {loc[p]}
    <3>1. IsFiniteSet(S) /\ (Cardinality(S) = Cardinality(Of(c)) \/ Cardinality(S) = Cardinality(Of(c)) + 1)
      BY <1>1, FS_AddElement
    <3>2. Of(c)' = S
      BY <1>6, <1>7
    <3>. HIDE DEF S
    <3>3. IsFiniteSet(Of(c)') /\ Cardinality(Of(c)') = Cardinality(S)
      BY <3>1, <3>2
    <3>. QED  BY <1>1, <3>1, <3>3
  <2>. QED  BY <1>1, <1>3, <1>4, <2>2, <2>3, DocumentsAssumption
<1>8. CASE loc[p][1] # c
  <2>1. InFlight(c)' = InFlight(c)
    BY <1>5, <1>8 DEF InFlight
  <2>. QED  BY <1>1, <1>4, <1>6, <1>8, <2>1
<1>. QED  BY <1>7, <1>8

-----------------------------------------------------------------------------
(* The invariant holds of every execution, restarts included.                  *)
THEOREM DocumentsInvariant == Spec => []IInv
<1>1. Init => IInv
  <2>. SUFFICES ASSUME Init PROVE IInv
    OBVIOUS
  <2>1. TypeInv /\ FilesInv
    BY DEF Init, TypeInv, FilesInv, DocumentsReadable, Pcs, Stages
  <2>2. \A c \in Courses : Of(c) = {} /\ InFlight(c) = {}
    BY DEF Init, Of, InFlight
  <2>3. CountInv
    <3>1. Cardinality(Requests) \in Nat
      BY DocumentsAssumption, FS_CardinalityType
    <3>. QED  BY <2>2, <3>1, FS_EmptySet, DocumentsAssumption DEF CountInv
  <2>. QED  BY <2>1, <2>3 DEF IInv
<1>2. IInv /\ [Next]_vars => IInv'
  <2>. SUFFICES ASSUME IInv, [Next]_vars PROVE IInv'
    OBVIOUS
  <2>. USE DEF IInv
  <2>1. ASSUME NEW p \in Requests, NEW d \in Documents, Upload(p, d) PROVE IInv'
    <3>1. TypeInv' /\ FilesInv'
      BY <2>1 DEF Upload, files, TypeInv, FilesInv, DocumentsReadable, Pcs, Stages
    <3>. QED  BY <2>1, <3>1, UploadCounts
  <2>2. ASSUME NEW p \in Requests, DuplicateCheck(p) PROVE IInv'
    <3>1. TypeInv' /\ FilesInv'
      BY <2>2 DEF DuplicateCheck, FirstSave, Goto, Leave, files, TypeInv, FilesInv,
                  DocumentsReadable, Pcs, Stages
    <3>2. CountInv'
      BY <2>2, FlightStays, CountStays DEF DuplicateCheck, FirstSave, Pcs
    <3>. QED  BY <3>1, <3>2
  <2>3. ASSUME NEW p \in Requests, SaveUpload(p) PROVE IInv'
    <3>1. TypeInv' /\ FilesInv'
      BY <2>3 DEF SaveUpload, Goto, TypeInv, FilesInv, DocumentsReadable, Pcs, Stages
    <3>2. CountInv'
      BY <2>3, FlightStays, CountStays DEF SaveUpload, Pcs
    <3>. QED  BY <3>1, <3>2
  <2>4. ASSUME NEW p \in Requests, SavePack(p) PROVE IInv'
    <3>1. TypeInv' /\ FilesInv'
      BY <2>4 DEF SavePack, Goto, TypeInv, FilesInv, DocumentsReadable, Pcs, Stages
    <3>2. CountInv'
      BY <2>4, FlightStays, CountStays DEF SavePack, Pcs
    <3>. QED  BY <3>1, <3>2
  <2>5. ASSUME NEW p \in Requests, Insert(p) PROVE IInv'
    <3>1. TypeInv' /\ FilesInv'
      BY <2>5 DEF Insert, Leave, files, TypeInv, FilesInv, DocumentsReadable, Pcs, Stages
    <3>. QED  BY <2>5, <3>1, InsertCounts
  <2>6. CASE Restart
    <3>1. TypeInv' /\ FilesInv'
      BY <2>6 DEF Restart, files, TypeInv, FilesInv, DocumentsReadable, Pcs, Stages
    <3>2. CountInv'
      BY <2>6, CountStays DEF Restart, InFlight
    <3>. QED  BY <3>1, <3>2
  <2>7. CASE UNCHANGED vars
    <3>1. TypeInv' /\ FilesInv'
      BY <2>7 DEF vars, files, TypeInv, FilesInv, DocumentsReadable
    <3>2. CountInv'
      BY <2>7, CountStays DEF vars, InFlight
    <3>. QED  BY <3>1, <3>2
  <2>. QED  BY <2>1, <2>2, <2>3, <2>4, <2>5, <2>6, <2>7 DEF Next
<1>. QED  BY <1>1, <1>2, PTL DEF Spec

(* A row of a document is never without its two files, wherever the process    *)
(* was stopped.                                                                *)
THEOREM DocumentsReadableCorrect == Spec => []DocumentsReadable
<1>1. IInv => DocumentsReadable
  BY DEF IInv, FilesInv
<1>. QED  BY <1>1, DocumentsInvariant, PTL

(* Whatever the number of threads, they pass the limit by at most one document *)
(* for each other thread.                                                      *)
THEOREM LimitByThreadsCorrect == Spec => []LimitByThreads
<1>1. IInv => LimitByThreads
  <2>. SUFFICES ASSUME IInv, NEW c \in Courses
       PROVE  Cardinality(Of(c)) <= MaxDocuments + Cardinality(Requests) - 1
    BY DEF LimitByThreads
  <2>1. InFlight(c) \in SUBSET Requests
    BY DEF InFlight
  <2>2. Cardinality(InFlight(c)) \in Nat /\ Cardinality(Requests) \in Nat
    BY <2>1, FlightSize
  <2>3. Cardinality(Of(c)) \in Nat
    BY FS_CardinalityType DEF IInv, CountInv
  <2>4. Cardinality(Of(c)) + Cardinality(InFlight(c)) <= MaxDocuments + Cardinality(Requests) - 1
    BY DEF IInv, CountInv
  <2>. QED  BY <2>2, <2>3, <2>4, DocumentsAssumption
<1>. QED  BY <1>1, DocumentsInvariant, PTL
=============================================================================
