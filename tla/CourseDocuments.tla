---------------------------- MODULE CourseDocuments ----------------------------
(***************************************************************************)
(* Adding documents to courses: request threads check the limit and the    *)
(* duplicates, publish two immutable files and insert a row                *)
(* (course_workspace/service_v01.py add_document, store_v01.py,            *)
(* course_knowledge/local_learning_workspace_v01.py _save_once).           *)
(*                                                                         *)
(* The threads share the store, each call of which is one step, and the    *)
(* directories, in which a file appears whole or not at all.               *)
(***************************************************************************)
EXTENDS Naturals, FiniteSets

CONSTANTS
  Requests,      \* request threads
  Courses,
  Contents,      \* bound: contents of uploads
  MaxDocuments,  \* MAX_DOCUMENTS_PER_COURSE_V01
  NoContent

ASSUME DocumentsAssumption ==
  /\ MaxDocuments \in Nat \ {0} /\ NoContent \notin Contents
  /\ IsFiniteSet(Requests)

VARIABLES
  documents,   \* cw_documents_v01: <<course, content>>
  uploads,     \* uploads/: contents by their digest
  packs,       \* packs/: the pack made of a content for a course
  pc, loc      \* the threads

files == <<uploads, packs>>
vars  == <<documents, files, pc, loc>>

Documents == Courses \X Contents
NoUpload  == <<NoContent, NoContent>>
Pcs == {"idle", "duplicate_check", "save_upload", "save_pack", "insert"}

Of(course) == {d \in documents : d[1] = course}
Goto(p, to) == pc' = [pc EXCEPT ![p] = to] /\ UNCHANGED loc
Leave(p) == pc' = [pc EXCEPT ![p] = "idle"] /\ loc' = [loc EXCEPT ![p] = NoUpload]

Init ==
  /\ documents = {} /\ uploads = {} /\ packs = {}
  /\ pc = [p \in Requests |-> "idle"] /\ loc = [p \in Requests |-> NoUpload]

\* Mutant of Room: the limit is not checked.
Room_Always(course) == TRUE

Room(course) == Cardinality(Of(course)) < MaxDocuments

\* The rows of the course are counted first.
Upload(p, d) ==
  /\ pc[p] = "idle" /\ Room(d[1])
  /\ pc' = [pc EXCEPT ![p] = "duplicate_check"] /\ loc' = [loc EXCEPT ![p] = d]
  /\ UNCHANGED <<documents, files>>

\* Mutant of FirstSave: the row is inserted before the files are saved.
FirstSave_Row == "insert"

FirstSave == "save_upload"

\* After parsing, which may refuse the file, the same content is looked for.
DuplicateCheck(p) ==
  /\ pc[p] = "duplicate_check"
  /\ \/ loc[p] \notin documents /\ Goto(p, FirstSave)
     \/ Leave(p)
  /\ UNCHANGED <<documents, files>>

\* _save_once: a file that is there already is left alone.
SaveUpload(p) ==
  /\ pc[p] = "save_upload"
  /\ uploads' = uploads \cup {loc[p][2]} /\ Goto(p, "save_pack")
  /\ UNCHANGED <<documents, packs>>

SavePack(p) ==
  /\ pc[p] = "save_pack"
  /\ packs' = packs \cup {loc[p]} /\ Goto(p, "insert")
  /\ UNCHANGED <<documents, uploads>>

\* The unique key of course and content refuses a second row.
Insert(p) ==
  /\ pc[p] = "insert"
  /\ documents' = documents \cup {loc[p]}
  /\ Leave(p) /\ UNCHANGED files

\* The process stops.
Restart ==
  /\ \E p \in Requests : pc[p] # "idle"
  /\ pc' = [p \in Requests |-> "idle"] /\ loc' = [p \in Requests |-> NoUpload]
  /\ UNCHANGED <<documents, files>>

Next ==
  \/ \E p \in Requests :
       \/ \E d \in Documents : Upload(p, d)
       \/ DuplicateCheck(p) \/ SaveUpload(p) \/ SavePack(p) \/ Insert(p)
  \/ Restart

Spec == Init /\ [][Next]_vars

-----------------------------------------------------------------------------
(* Every document of a course can be read back: its upload and its pack are *)
(* on disk, wherever the process was stopped.                               *)
DocumentsReadable ==
  \A d \in documents : d[2] \in uploads /\ d \in packs

(* Uploads that overlap can pass the limit together, but by no more than    *)
(* one document for each other thread.                                      *)
LimitByThreads ==
  \A c \in Courses : Cardinality(Of(c)) <= MaxDocuments + Cardinality(Requests) - 1
=============================================================================
