--------------------------------- MODULE Registry ---------------------------------
(***************************************************************************)
(* Enrolling, editing and erasing employees: /api/employees over three     *)
(* stores that share no transaction, namely the employees table, the face  *)
(* collection of CompreFace and the reference photos on disk.              *)
(*                                                                         *)
(* An operation awaits between any two stores, so other operations come in *)
(* between; the Erase of one enrolment meets the Enroll of the next.  A    *)
(* row's id and a face's owner are the operation that enrolled them.       *)
(***************************************************************************)
EXTENDS Integers, FiniteSets

CONSTANTS
  Codes,      \* employee codes, also the names of CompreFace subjects
  Enrols,     \* enrolments, also the ids of the rows they insert
  Patches,    \* PATCH requests
  Deletes,    \* DELETE requests
  None,       \* NULL
  MaxPhotos,  \* most reference photos of an enrolment (3)
  MaxFaults   \* bound: failed calls and crashes

ASSUME RegistryConstantsOK ==
  /\ None \notin Enrols /\ MaxPhotos \in Nat \ {0}
  /\ MaxFaults \in Nat
  /\ Enrols \cap Patches = {} /\ Enrols \cap Deletes = {} /\ Patches \cap Deletes = {}

VARIABLES
  serial,    \* never changes.  TRUE: admins wait for one operation before the next,
             \*   and nothing fails
  row,       \* code -> enrolment whose row holds the code, or None
  active,    \* enrolments whose row says active
  attended,  \* enrolments whose row some attendance session refers to
  faces,     \* code -> faces <<enrolment, photo>> under that subject
  photo,     \* code -> enrolment whose reference photo is on disk, or None
  pc, code, count, added, target, loaded, wants, \* locals of an operation
  faults

db == <<row, active, attended>>
locals == <<code, count, added, target, loaded, wants>>
vars == <<serial, db, faces, photo, pc, locals, faults>>

Ops == Enrols \cup Patches \cup Deletes
Running == {"add", "undo", "insert", "update", "purge", "delete"}
Ended == {"rejected", "created", "patched", "erased", "missing", "failed"}

Exists(e) == \E c \in Codes : row[c] = e
CodeOf(e) == CHOOSE c \in Codes : row[c] = e

Init ==
  /\ serial \in BOOLEAN
  /\ row = [c \in Codes |-> None]
  /\ active = {} /\ attended = {}
  /\ faces = [c \in Codes |-> {}]
  /\ photo = [c \in Codes |-> None]
  /\ pc = [o \in Ops |-> "new"]
  /\ code = [o \in Ops |-> None]
  /\ count = [e \in Enrols |-> 0]
  /\ added = [e \in Enrols |-> 0]
  /\ target = [o \in Patches \cup Deletes |-> None]
  /\ loaded = [p \in Patches |-> FALSE]
  /\ wants = [p \in Patches |-> FALSE]
  /\ faults = 0

Goto(o, from, to) == pc[o] = from /\ pc' = [pc EXCEPT ![o] = to]
Begin(o, to) ==
  /\ Goto(o, "new", to)
  /\ serial => \A p \in Ops : pc[p] \notin Running

\* ---- Enroll ------------------------------------------------------------------
\* 1 to 3 photos, and a code no row has yet; anything else is 400 or 409.
RejectEnroll(e, c, n) ==
  /\ Begin(e, "rejected")
  /\ n \notin 1..MaxPhotos \/ row[c] # None
  /\ UNCHANGED <<db, faces, photo, locals, faults>>

\* A slip: the number of photos is not checked.
BeginAnyEnroll(e, c, n) ==
  /\ Begin(e, "add")
  /\ row[c] = None
  /\ code' = [code EXCEPT ![e] = c]
  /\ count' = [count EXCEPT ![e] = n]
  /\ UNCHANGED <<db, faces, photo, added, target, loaded, wants, faults>>

BeginEnroll(e, c, n) ==
  /\ Begin(e, "add")
  /\ n \in 1..MaxPhotos /\ row[c] = None
  /\ code' = [code EXCEPT ![e] = c]
  /\ count' = [count EXCEPT ![e] = n]
  /\ UNCHANGED <<db, faces, photo, added, target, loaded, wants, faults>>

\* CompreFace takes the next photo.  After the last one the first photo is
\* written to disk, over whatever is there, before the row is inserted.
NextFace(e) == <<e, added[e] + 1>>

AddFace(e) ==
  /\ pc[e] = "add"
  /\ faces' = [faces EXCEPT ![code[e]] = @ \cup {NextFace(e)}]
  /\ added' = [added EXCEPT ![e] = @ + 1]
  /\ IF added'[e] = count[e]
     THEN /\ pc' = [pc EXCEPT ![e] = "insert"]
          /\ photo' = [photo EXCEPT ![code[e]] = e]
     ELSE UNCHANGED <<pc, photo>>
  /\ UNCHANGED <<db, code, count, target, loaded, wants, faults>>

\* A slip: the failed enrolment is answered without purging the subject.
RefuseWithoutUndo(e) ==
  /\ Goto(e, "add", "rejected")
  /\ UNCHANGED <<db, faces, photo, locals, faults>>

\* CompreFace answers with an error (no face in the photo): purge the subject.
RefuseFace(e) ==
  /\ Goto(e, "add", "undo")
  /\ UNCHANGED <<db, faces, photo, locals, faults>>

PurgeSubject(c) == faces' = [faces EXCEPT ![c] = {}]

UndoEnroll(e) ==
  /\ Goto(e, "undo", "rejected")
  /\ PurgeSubject(code[e])
  /\ UNCHANGED <<db, photo, locals, faults>>

\* The unique index on employee_code decides at the commit.
InsertRow(e) ==
  /\ Goto(e, "insert", "created")
  /\ row[code[e]] = None
  /\ row' = [row EXCEPT ![code[e]] = e]
  /\ active' = active \cup {e}
  /\ UNCHANGED <<attended, faces, photo, locals, faults>>

LoseInsert(e) ==
  /\ Goto(e, "insert", "failed")
  /\ row[code[e]] # None
  /\ UNCHANGED <<db, faces, photo, locals, faults>>

\* ---- Patch and delete -----------------------------------------------------------
\* Both read the row first: 404 if there is none.
Miss(o, e) ==
  /\ Begin(o, "missing")
  /\ ~ Exists(e)
  /\ UNCHANGED <<db, faces, photo, locals, faults>>

BeginPatch(p, e, on) ==
  /\ Begin(p, "update")
  /\ Exists(e)
  /\ target' = [target EXCEPT ![p] = e]
  /\ loaded' = [loaded EXCEPT ![p] = e \in active]
  /\ wants' = [wants EXCEPT ![p] = on]
  /\ UNCHANGED <<db, faces, photo, code, count, added, faults>>

\* A slip: values that are false are taken for unset.
PatchTrueOnly(p) ==
  LET e == target[p] IN
  /\ Goto(p, "update", IF Exists(e) THEN "patched" ELSE "failed")
  /\ active' = IF Exists(e) /\ wants[p] THEN active \cup {e} ELSE active
  /\ UNCHANGED <<row, attended, faces, photo, locals, faults>>

\* Only a column that differs from the value loaded is written.  A row that is
\* gone by then makes the UPDATE, or the refresh after it, raise.
CommitPatch(p) ==
  LET e == target[p] IN
  /\ Goto(p, "update", IF Exists(e) THEN "patched" ELSE "failed")
  /\ active' = IF ~ Exists(e) \/ wants[p] = loaded[p] THEN active
               ELSE IF wants[p] THEN active \cup {e} ELSE active \ {e}
  /\ UNCHANGED <<row, attended, faces, photo, locals, faults>>

BeginDelete(x, e) ==
  /\ Begin(x, "purge")
  /\ Exists(e)
  /\ target' = [target EXCEPT ![x] = e]
  /\ code' = [code EXCEPT ![x] = CodeOf(e)]
  /\ UNCHANGED <<db, faces, photo, count, added, loaded, wants, faults>>

\* A slip: the row goes, the embeddings stay.
SkipPurge(x) ==
  /\ Goto(x, "purge", "delete")
  /\ UNCHANGED <<db, faces, photo, locals, faults>>

\* The subject is purged by name, whoever's faces it holds by now; an unknown
\* subject (404) is fine.
PurgeFaces(x) ==
  /\ Goto(x, "purge", "delete")
  /\ PurgeSubject(code[x])
  /\ UNCHANGED <<db, photo, locals, faults>>

\* A slip: the photo named by the code goes with the row, even when the row is gone
\* and the code is another's.
DeleteRowAndPhoto(x) ==
  /\ Goto(x, "delete", "erased")
  /\ target[x] \notin attended
  /\ row' = [c \in Codes |-> IF row[c] = target[x] THEN None ELSE row[c]]
  /\ active' = active \ {target[x]}
  /\ photo' = [photo EXCEPT ![code[x]] = None]
  /\ UNCHANGED <<attended, faces, locals, faults>>

\* A row that is already gone is no error.
DeleteRow(x) ==
  /\ Goto(x, "delete", "erased")
  /\ target[x] \notin attended
  /\ row' = [c \in Codes |-> IF row[c] = target[x] THEN None ELSE row[c]]
  /\ active' = active \ {target[x]}
  /\ UNCHANGED <<attended, faces, photo, locals, faults>>

\* The ORM sets employee_id of the row's sessions to NULL before the DELETE, and
\* the column is NOT NULL: the transaction fails after the purge.
FailDelete(x) ==
  /\ Goto(x, "delete", "failed")
  /\ target[x] \in attended
  /\ UNCHANGED <<db, faces, photo, locals, faults>>

\* ---- The rest of the system -------------------------------------------------------
\* The attendance pipeline commits a session of an employee it recognized and
\* found active a moment ago; by now only the foreign key is checked.
Attend(e) ==
  /\ Exists(e)
  /\ attended' = attended \cup {e}
  /\ UNCHANGED <<row, active, faces, photo, pc, locals, faults>>

Fault == ~ serial /\ faults < MaxFaults /\ faults' = faults + 1

\* An awaited call raises: a lost connection, a timeout, an error status of
\* delete_subject, a failed transaction.  Nothing catches it, and CompreFace may
\* have done what it was asked.
Fail(o) ==
  /\ Fault
  /\ pc[o] \in Running
  /\ pc' = [pc EXCEPT ![o] = "failed"]
  /\ \/ UNCHANGED faces
     \/ pc[o] = "add" /\ faces' = [faces EXCEPT ![code[o]] = @ \cup {NextFace(o)}]
     \/ pc[o] \in {"undo", "purge"} /\ PurgeSubject(code[o])
  /\ UNCHANGED <<db, photo, locals>>

Crash ==
  /\ Fault
  /\ \E o \in Ops : pc[o] \in Running
  /\ pc' = [o \in Ops |-> IF pc[o] \in Running THEN "failed" ELSE pc[o]]
  /\ UNCHANGED <<db, faces, photo, locals>>

\* ---- Specification -------------------------------------------------------------------
Enroll(e) ==
  \/ \E c \in Codes, n \in 0..(MaxPhotos + 1) : RejectEnroll(e, c, n) \/ BeginEnroll(e, c, n)
  \/ AddFace(e) \/ RefuseFace(e) \/ UndoEnroll(e) \/ InsertRow(e) \/ LoseInsert(e)

Patch(p) ==
  \/ \E e \in Enrols : Miss(p, e) \/ \E on \in BOOLEAN : BeginPatch(p, e, on)
  \/ CommitPatch(p)

Delete(x) ==
  \/ \E e \in Enrols : Miss(x, e) \/ BeginDelete(x, e)
  \/ PurgeFaces(x) \/ DeleteRow(x) \/ FailDelete(x)

Next ==
  /\ UNCHANGED serial
  /\ \/ \E e \in Enrols : Enroll(e) \/ Attend(e)
     \/ \E p \in Patches : Patch(p)
     \/ \E x \in Deletes : Delete(x)
     \/ \E o \in Ops : Fail(o)
     \/ Crash

Spec == Init /\ [][Next]_vars

\* ---- Properties -----------------------------------------------------------------------
TypeOK ==
  /\ serial \in BOOLEAN
  /\ row \in [Codes -> Enrols \cup {None}]
  /\ active \subseteq Enrols /\ attended \subseteq Enrols
  /\ faces \in [Codes -> SUBSET (Enrols \X (1..MaxPhotos))]
  /\ photo \in [Codes -> Enrols \cup {None}]
  /\ pc \in [Ops -> {"new"} \cup Running \cup Ended]
  /\ code \in [Ops -> Codes \cup {None}]
  /\ count \in [Enrols -> 0..MaxPhotos]
  /\ added \in [Enrols -> 0..MaxPhotos]
  /\ target \in [Patches \cup Deletes -> Enrols \cup {None}]
  /\ loaded \in [Patches -> BOOLEAN] /\ wants \in [Patches -> BOOLEAN]
  /\ faults \in Nat

FacesOf(e) == {<<e, i>> : i \in 1..count[e]}

\* A deletion answered 204 has erased the employee: the row is gone, no subject
\* holds a face of that enrolment, and neither comes back, whatever else runs.
ErasedStaysErased ==
  \A x \in Deletes : pc[x] = "erased" =>
    /\ ~ Exists(target[x])
    /\ \A c \in Codes : faces[c] \cap FacesOf(target[x]) = {}

\* Every row's photo_url can be served: a reference photo is on disk before the
\* row that names it, and stays at least as long.
RowsHavePhotos == \A c \in Codes : row[c] # None => photo[c] # None

\* When admins wait for each other, the face collection and the table agree between
\* operations: a subject holds every face of the enrolment that has the row, and
\* none without a row.  Exempt is a row whose deletion failed because sessions refer
\* to it.
FacesMatchRows ==
  serial => \A c \in Codes :
    (\A o \in Ops : pc[o] \in Running => code[o] # c) /\ row[c] \notin attended
      => faces[c] = IF row[c] = None THEN {} ELSE FacesOf(row[c])

\* When admins wait for each other, a PATCH answered 200 leaves the employee as it
\* asked, though it writes only what differs from the row it loaded.
PatchTakesEffect ==
  [][serial => \A p \in Patches : pc[p] = "update" /\ pc'[p] = "patched"
       => (target[p] \in active' <=> wants[p])]_vars

\* Two claims the code does not keep.  "On any failure, purge the subject so we never
\* leave half-registered biometric data behind": an enrolment that ended without a
\* row left no face of its own.
NoHalfRegistered ==
  \A e \in Enrols : pc[e] \in {"rejected", "failed"} =>
    \A c \in Codes : \A f \in faces[c] : f[1] # e

\* "Deleting an employee purges their DB record and their CompreFace embeddings -
\* not just a soft flag": a deletion that purged the embeddings, and met no fault,
\* deletes the record too.
DeletionCompletes ==
  \A x \in Deletes : pc[x] = "failed" /\ faults = 0 => ~ Exists(target[x])
================================================================================
