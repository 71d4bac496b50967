------------------------------ MODULE RegistryProofs ------------------------------
(***************************************************************************)
(* What holds of the registry for any number of codes, enrolments, patches *)
(* and deletions, in any interleaving and with any faults.                 *)
(*                                                                         *)
(* An enrolment that has a row is over, and stays so: a deletion has found *)
(* the row, so nothing adds a face of that enrolment, or its row, after    *)
(* the purge.  A face is under the code its enrolment was given, which is  *)
(* the subject the deletion purges.                                        *)
(*                                                                         *)
(* When admins wait for each other, at most one operation is under way and *)
(* says what it has done so far to the faces and the row of its code; all  *)
(* other codes match (SerialOK).                                           *)
(***************************************************************************)
EXTENDS Registry, TLAPS

\* Which operations are where, with what in their locals.
LocalsOK ==
  /\ \A o \in Ops : pc[o] \in {"add", "undo", "insert"} => o \in Enrols /\ code[o] \in Codes
  /\ \A o \in Ops : pc[o] = "update" => o \in Patches /\ target[o] \in Enrols
  /\ \A o \in Ops : pc[o] \in {"purge", "delete"} => o \in Deletes /\ code[o] \in Codes
  /\ \A e \in Enrols : pc[e] = "new" => added[e] = 0
  /\ \A e \in Enrols : pc[e] = "add" => added[e] < count[e]

\* The photo is on disk before the row is inserted.
PhotoBeforeRow ==
  /\ RowsHavePhotos
  /\ \A e \in Enrols : pc[e] = "insert" => photo[code[e]] # None

\* A row, and a face, is where its enrolment put it.
RowsAreCreated ==
  \A c \in Codes : \A e \in Enrols : row[c] = e => pc[e] = "created" /\ code[e] = c

FacesHaveSubjects ==
  \A c \in Codes : \A e \in Enrols : \A i \in 1..MaxPhotos :
    <<e, i>> \in faces[c] => pc[e] # "new" /\ code[e] = c

\* A deletion is of an enrolment that is over, and purges its subject first.
Deleting(x) ==
  /\ pc[x] \in {"purge", "delete", "erased"} =>
       target[x] \in Enrols /\ pc[target[x]] = "created" /\ code[x] = code[target[x]]
  /\ pc[x] \in {"delete", "erased"} =>
       \A c \in Codes : \A i \in 1..MaxPhotos : <<target[x], i>> \notin faces[c]
  /\ pc[x] = "erased" => \A c \in Codes : row[c] # target[x]

IInv ==
  /\ TypeOK
  /\ LocalsOK
  /\ PhotoBeforeRow
  /\ RowsAreCreated
  /\ FacesHaveSubjects
  /\ \A x \in Deletes : Deleting(x)

\* The invariant holds at the start.
LEMMA InitEstablishes == Init => IInv
  <1> SUFFICES ASSUME Init  PROVE IInv
    OBVIOUS
  <1>1. \A o \in Ops : pc[o] = "new"
    BY DEF Init
  <1>2. TypeOK
    BY RegistryConstantsOK DEF Init, TypeOK, Ops, Running, Ended
  <1>3. LocalsOK
    BY <1>1 DEF Init, LocalsOK, Ops
  <1>4. PhotoBeforeRow
    BY <1>1 DEF Init, PhotoBeforeRow, RowsHavePhotos, Ops
  <1>5. RowsAreCreated
    BY RegistryConstantsOK DEF Init, RowsAreCreated
  <1>6. FacesHaveSubjects
    BY DEF Init, FacesHaveSubjects
  <1>7. \A x \in Deletes : Deleting(x)
    BY <1>1 DEF Deleting, Ops
  <1> QED BY <1>2, <1>3, <1>4, <1>5, <1>6, <1>7 DEF IInv

\* The types, step by step.
LEMMA TypesAreKept == IInv /\ [Next]_vars => TypeOK'
  <1> SUFFICES ASSUME IInv, [Next]_vars  PROVE TypeOK'
    OBVIOUS
  <1> USE RegistryConstantsOK
  <1>1. TypeOK /\ LocalsOK /\ serial' = serial
    BY DEF IInv, Next, vars
  <1> USE DEF TypeOK, Goto, Begin, db, locals, Ops, Running, Ended
  <1>2. ASSUME NEW e \in Enrols, NEW c \in Codes, NEW n \in 0..(MaxPhotos + 1),
               RejectEnroll(e, c, n) \/ BeginEnroll(e, c, n)
        PROVE  TypeOK'
    BY <1>1, <1>2 DEF RejectEnroll, BeginEnroll
  <1>3. ASSUME NEW e \in Enrols, AddFace(e)  PROVE TypeOK'
    <2>1. code[e] \in Codes /\ added[e] \in 0..MaxPhotos /\ count[e] \in 0..MaxPhotos /\ added[e] < count[e]
      BY <1>1, <1>3 DEF AddFace, LocalsOK
    <2>2. added[e] + 1 \in 1..MaxPhotos
      BY <2>1
    <2>3. NextFace(e) \in Enrols \X (1..MaxPhotos)
      BY <2>2 DEF NextFace
    <2>4. faces' \in [Codes -> SUBSET (Enrols \X (1..MaxPhotos))]
      BY <1>1, <1>3, <2>1, <2>3 DEF AddFace
    <2>5. added' \in [Enrols -> 0..MaxPhotos]
      BY <1>1, <1>3, <2>2 DEF AddFace
    <2> QED BY <1>1, <1>3, <2>1, <2>4, <2>5 DEF AddFace
  <1>4. ASSUME NEW e \in Enrols, RefuseFace(e) \/ UndoEnroll(e) \/ InsertRow(e) \/ LoseInsert(e)
        PROVE  TypeOK'
    BY <1>1, <1>4 DEF RefuseFace, UndoEnroll, PurgeSubject, InsertRow, LoseInsert
  <1>5. ASSUME NEW p \in Patches, Patch(p)  PROVE TypeOK'
    <2>1. ASSUME NEW e \in Enrols, Miss(p, e)  PROVE TypeOK'
      BY <1>1, <2>1 DEF Miss
    <2>2. ASSUME NEW e \in Enrols, NEW on \in BOOLEAN, BeginPatch(p, e, on)  PROVE TypeOK'
      BY <1>1, <2>2 DEF BeginPatch
    <2>3. ASSUME CommitPatch(p)  PROVE TypeOK'
      <3>1. target[p] \in Enrols
        BY <1>1, <2>3 DEF CommitPatch, LocalsOK
      <3>2. active' = active \/ active' = active \cup {target[p]} \/ active' = active \ {target[p]}
        BY <2>3 DEF CommitPatch
      <3>3. active' \subseteq Enrols
        BY <1>1, <3>1, <3>2
      <3> QED BY <1>1, <2>3, <3>3 DEF CommitPatch
    <2> QED BY <1>5, <2>1, <2>2, <2>3 DEF Patch
  <1>6. ASSUME NEW x \in Deletes, Delete(x)  PROVE TypeOK'
    <2>1. ASSUME NEW e \in Enrols, Miss(x, e)  PROVE TypeOK'
      BY <1>1, <2>1 DEF Miss
    <2>2. ASSUME NEW e \in Enrols, BeginDelete(x, e)  PROVE TypeOK'
      <3>1. CodeOf(e) \in Codes
        BY <2>2 DEF BeginDelete, Exists, CodeOf
      <3> QED BY <1>1, <2>2, <3>1 DEF BeginDelete
    <2>3. ASSUME PurgeFaces(x) \/ DeleteRow(x) \/ FailDelete(x)  PROVE TypeOK'
      BY <1>1, <2>3 DEF PurgeFaces, PurgeSubject, DeleteRow, FailDelete
    <2> QED BY <1>6, <2>1, <2>2, <2>3 DEF Delete
  <1>7. ASSUME NEW e \in Enrols, Attend(e)  PROVE TypeOK'
    BY <1>1, <1>7 DEF Attend
  <1>8. ASSUME NEW o \in Ops, Fail(o)  PROVE TypeOK'
    <2>1. faces' \in [Codes -> SUBSET (Enrols \X (1..MaxPhotos))]
      <3>1. CASE UNCHANGED faces
        BY <1>1, <3>1
      <3>2. CASE pc[o] = "add" /\ faces' = [faces EXCEPT ![code[o]] = @ \cup {NextFace(o)}]
        <4>1. o \in Enrols /\ code[o] \in Codes /\ added[o] \in 0..MaxPhotos /\ count[o] \in 0..MaxPhotos
              /\ added[o] < count[o]
          BY <1>1, <3>2 DEF LocalsOK
        <4>2. added[o] + 1 \in 1..MaxPhotos
          BY <4>1
        <4>3. NextFace(o) \in Enrols \X (1..MaxPhotos)
          BY <4>1, <4>2 DEF NextFace
        <4> QED BY <1>1, <3>2, <4>1, <4>3
      <3>3. CASE pc[o] \in {"undo", "purge"} /\ PurgeSubject(code[o])
        BY <1>1, <3>3 DEF PurgeSubject
      <3> QED BY <1>8, <3>1, <3>2, <3>3 DEF Fail
    <2>2. faults' \in Nat /\ pc' = [pc EXCEPT ![o] = "failed"]
      BY <1>1, <1>8 DEF Fail, Fault
    <2> QED BY <1>1, <1>8, <2>1, <2>2 DEF Fail
  <1>9. CASE Crash
    BY <1>1, <1>9 DEF Crash, Fault
  <1>10. CASE UNCHANGED vars
    BY <1>1, <1>10 DEF vars
  <1> QED BY <1>2, <1>3, <1>4, <1>5, <1>6, <1>7, <1>8, <1>9, <1>10 DEF Next, Enroll

\* An operation that ends, or goes on, and puts nothing into a store.
LEMMA QuietStep ==
  ASSUME IInv, TypeOK', NEW o \in Ops, NEW to, pc' = [pc EXCEPT ![o] = to],
         UNCHANGED <<row, photo, code, count, added>>,
         \A p \in Patches \cup Deletes : p # o => target'[p] = target[p],
         o \in Deletes => target'[o] = target[o],
         \A c \in Codes : faces'[c] \subseteq faces[c],
         pc[o] # "created",
         to \in {"undo", "update", "rejected", "patched", "missing", "failed"},
         to = "undo" => pc[o] = "add", to = "update" => o \in Patches /\ target'[o] \in Enrols
  PROVE  IInv'
  <1>1. pc'[o] = to /\ \A p \in Ops : p # o => pc'[p] = pc[p]
    BY DEF IInv, TypeOK
  <1>2. LocalsOK'
    BY <1>1, RegistryConstantsOK DEF IInv, LocalsOK, Ops
  <1>3. PhotoBeforeRow'
    BY <1>1 DEF IInv, PhotoBeforeRow, RowsHavePhotos, Ops
  <1>4. RowsAreCreated'
    BY <1>1 DEF IInv, RowsAreCreated, Ops
  <1>5. FacesHaveSubjects'
    BY <1>1 DEF IInv, FacesHaveSubjects, Ops
  <1>6. ASSUME NEW x \in Deletes  PROVE Deleting(x)'
    <2>1. Deleting(x) /\ target'[x] = target[x]
      BY DEF IInv
    <2>2. pc'[x] = pc[x] \/ pc'[x] = to
      BY <1>1 DEF Ops
    <2>3. pc[x] \in {"purge", "delete", "erased"} => pc'[target[x]] = "created"
      BY <1>1, <2>1 DEF Deleting, Ops
    <2> QED BY <2>1, <2>2, <2>3 DEF Deleting
  <1> QED BY <1>2, <1>3, <1>4, <1>5, <1>6 DEF IInv

\* An enrolment takes its code.
LEMMA BeginEnrollKeeps ==
  ASSUME IInv, TypeOK', NEW e \in Enrols, NEW c \in Codes, NEW n \in 0..(MaxPhotos + 1),
         BeginEnroll(e, c, n)
  PROVE  IInv'
  <1>1. /\ pc[e] = "new" /\ pc'[e] = "add" /\ \A o \in Ops : o # e => pc'[o] = pc[o]
        /\ code'[e] = c /\ \A o \in Ops : o # e => code'[o] = code[o]
        /\ \A d \in Enrols : d # e => count'[d] = count[d]
        /\ UNCHANGED <<row, faces, photo, added, target>>
        /\ e \in Ops
    BY DEF IInv, TypeOK, BeginEnroll, Begin, Goto, db, Ops
  <1>2. LocalsOK'
    <2>1. added[e] < count'[e]
      BY DEF IInv, TypeOK, LocalsOK, BeginEnroll, Begin, Goto
    <2> QED BY <1>1, <2>1, RegistryConstantsOK DEF IInv, LocalsOK, Ops
  <1>3. PhotoBeforeRow'
    BY <1>1 DEF IInv, PhotoBeforeRow, RowsHavePhotos, Ops
  <1>4. RowsAreCreated'
    BY <1>1 DEF IInv, RowsAreCreated, Ops
  <1>5. FacesHaveSubjects'
    BY <1>1 DEF IInv, FacesHaveSubjects, Ops
  <1>6. ASSUME NEW x \in Deletes  PROVE Deleting(x)'
    <2>1. Deleting(x) /\ x # e
      BY RegistryConstantsOK DEF IInv
    <2> QED BY <1>1, <2>1 DEF Deleting, Ops
  <1> QED BY <1>2, <1>3, <1>4, <1>5, <1>6 DEF IInv

\* CompreFace takes a face of an enrolment that is under way.
LEMMA FaceAdded ==
  ASSUME IInv, TypeOK', NEW e \in Enrols, pc[e] = "add",
         faces' = [faces EXCEPT ![code[e]] = @ \cup {NextFace(e)}],
         pc' = pc \/ \E to \in {"insert", "failed"} : pc' = [pc EXCEPT ![e] = to],
         UNCHANGED <<row, code, target>>,
         \A c \in Codes : photo'[c] = photo[c] \/ photo'[c] = e,
         pc'[e] = "insert" => photo'[code[e]] = e,
         pc'[e] = "add" => added'[e] < count'[e],
         \A d \in Enrols : d # e => added'[d] = added[d] /\ count'[d] = count[d]
  PROVE  IInv'
  <1>1. /\ pc'[e] \in {"add", "insert", "failed"} /\ \A o \in Ops : o # e => pc'[o] = pc[o]
        /\ e \in Ops /\ code[e] \in Codes /\ e # None
    BY RegistryConstantsOK DEF IInv, TypeOK, LocalsOK, Ops
  <1>2. /\ \A c \in Codes : \A d \in Enrols : \A i \in 1..MaxPhotos :
             <<d, i>> \in faces'[c] => <<d, i>> \in faces[c] \/ (d = e /\ c = code[e])
    BY DEF IInv, TypeOK, NextFace
  <1>3. LocalsOK'
    BY <1>1 DEF IInv, LocalsOK, Ops
  <1>4. PhotoBeforeRow'
    BY <1>1 DEF IInv, PhotoBeforeRow, RowsHavePhotos, LocalsOK, Ops
  <1>5. RowsAreCreated'
    BY <1>1 DEF IInv, RowsAreCreated, Ops
  <1>6. FacesHaveSubjects'
    BY <1>1, <1>2 DEF IInv, FacesHaveSubjects, Ops
  <1>7. ASSUME NEW x \in Deletes  PROVE Deleting(x)'
    <2>1. Deleting(x) /\ x # e /\ x \in Ops
      BY RegistryConstantsOK DEF IInv, Ops
    <2>2. pc'[x] = pc[x]
      BY <1>1, <2>1
    <2>3. pc[x] \in {"purge", "delete", "erased"} => target[x] # e /\ pc'[target[x]] = "created"
      BY <1>1, <2>1 DEF Deleting, Ops
    <2> QED BY <1>1, <1>2, <2>1, <2>2, <2>3 DEF Deleting
  <1> QED BY <1>3, <1>4, <1>5, <1>6, <1>7 DEF IInv

\* The row of an enrolment is inserted: that ends it, so it is not one that was deleted.
LEMMA InsertRowKeeps ==
  ASSUME IInv, TypeOK', NEW e \in Enrols, InsertRow(e)
  PROVE  IInv'
  <1>1. /\ pc[e] = "insert" /\ pc'[e] = "created" /\ \A o \in Ops : o # e => pc'[o] = pc[o]
        /\ code[e] \in Codes /\ e \in Ops
        /\ row'[code[e]] = e /\ \A c \in Codes : c # code[e] => row'[c] = row[c]
        /\ UNCHANGED <<faces, photo, code, added, count, target>>
    BY DEF IInv, TypeOK, LocalsOK, InsertRow, Goto, locals, Ops
  <1>2. LocalsOK'
    BY <1>1 DEF IInv, LocalsOK, Ops
  <1>3. PhotoBeforeRow'
    BY <1>1 DEF IInv, PhotoBeforeRow, RowsHavePhotos, Ops
  <1>4. RowsAreCreated'
    BY <1>1 DEF IInv, RowsAreCreated, Ops
  <1>5. FacesHaveSubjects'
    BY <1>1 DEF IInv, FacesHaveSubjects, Ops
  <1>6. ASSUME NEW x \in Deletes  PROVE Deleting(x)'
    <2>1. Deleting(x) /\ x # e /\ x \in Ops
      BY RegistryConstantsOK DEF IInv, Ops
    <2>2. pc'[x] = pc[x]
      BY <1>1, <2>1
    <2>3. pc[x] \in {"purge", "delete", "erased"} => target[x] # e /\ pc'[target[x]] = "created"
      BY <1>1, <2>1 DEF Deleting, Ops
    <2> QED BY <1>1, <2>1, <2>2, <2>3 DEF Deleting
  <1> QED BY <1>2, <1>3, <1>4, <1>5, <1>6 DEF IInv

\* A deletion finds the row, purges the subject, deletes the row.
LEMMA BeginDeleteKeeps ==
  ASSUME IInv, TypeOK', NEW x \in Deletes, NEW e \in Enrols, BeginDelete(x, e)
  PROVE  IInv'
  <1>1. /\ pc[x] = "new" /\ pc'[x] = "purge" /\ \A o \in Ops : o # x => pc'[o] = pc[o]
        /\ x \in Ops /\ code'[x] = CodeOf(e) /\ \A o \in Ops : o # x => code'[o] = code[o]
        /\ target'[x] = e /\ \A y \in Patches \cup Deletes : y # x => target'[y] = target[y]
        /\ UNCHANGED <<row, faces, photo, added, count>>
    BY DEF IInv, TypeOK, BeginDelete, Begin, Goto, db, Ops
  <1>2. CodeOf(e) \in Codes /\ row[CodeOf(e)] = e
    BY DEF BeginDelete, Exists, CodeOf
  <1>3. pc[e] = "created" /\ code[e] = CodeOf(e) /\ e # x /\ e \in Ops
    BY <1>2, RegistryConstantsOK DEF IInv, RowsAreCreated, Ops
  <1>4. LocalsOK'
    BY <1>1, <1>2, RegistryConstantsOK DEF IInv, LocalsOK, Ops
  <1>5. PhotoBeforeRow'
    BY <1>1, RegistryConstantsOK DEF IInv, PhotoBeforeRow, RowsHavePhotos, Ops
  <1>6. RowsAreCreated' /\ FacesHaveSubjects'
    BY <1>1, RegistryConstantsOK DEF IInv, RowsAreCreated, FacesHaveSubjects, Ops
  <1>7. ASSUME NEW y \in Deletes  PROVE Deleting(y)'
    <2>1. CASE y = x
      BY <1>1, <1>3, <2>1 DEF Deleting
    <2>2. CASE y # x
      <3>1. Deleting(y) /\ y \in Ops
        BY DEF IInv, Ops
      <3>2. pc[y] \in {"purge", "delete", "erased"} => target[y] \in Ops /\ target[y] # x
        BY <3>1, RegistryConstantsOK DEF Deleting, Ops
      <3> QED BY <1>1, <2>2, <3>1, <3>2 DEF Deleting
    <2> QED BY <2>1, <2>2
  <1> QED BY <1>4, <1>5, <1>6, <1>7 DEF IInv

\* A deletion purges the subject of the enrolment it is about.
LEMMA PurgeFacesKeeps ==
  ASSUME IInv, TypeOK', NEW x \in Deletes, PurgeFaces(x)
  PROVE  IInv'
  <1>1. /\ pc[x] = "purge" /\ pc'[x] = "delete" /\ \A o \in Ops : o # x => pc'[o] = pc[o]
        /\ x \in Ops /\ code[x] \in Codes
        /\ faces'[code[x]] = {} /\ \A c \in Codes : c # code[x] => faces'[c] = faces[c]
        /\ UNCHANGED <<row, photo, code, added, count, target>>
    BY DEF IInv, TypeOK, LocalsOK, PurgeFaces, PurgeSubject, Goto, db, locals, Ops
  <1>2. Deleting(x)
    BY DEF IInv
  <1>3. LocalsOK'
    BY <1>1, RegistryConstantsOK DEF IInv, LocalsOK, Ops
  <1>4. PhotoBeforeRow'
    BY <1>1, RegistryConstantsOK DEF IInv, PhotoBeforeRow, RowsHavePhotos, Ops
  <1>5. RowsAreCreated' /\ FacesHaveSubjects'
    BY <1>1, RegistryConstantsOK DEF IInv, RowsAreCreated, FacesHaveSubjects, Ops
  <1>6. ASSUME NEW y \in Deletes  PROVE Deleting(y)'
    <2>1. CASE y = x
      <3>1. target[x] \in Enrols /\ pc[target[x]] = "created" /\ code[target[x]] = code[x]
        BY <1>1, <1>2 DEF Deleting
      <3>2. \A c \in Codes : \A i \in 1..MaxPhotos : <<target[x], i>> \notin faces'[c]
        BY <1>1, <3>1 DEF IInv, FacesHaveSubjects
      <3>3. pc'[target[x]] = "created"
        BY <1>1, <3>1, RegistryConstantsOK DEF Ops
      <3> QED BY <1>1, <2>1, <3>1, <3>2, <3>3 DEF Deleting
    <2>2. CASE y # x
      <3>1. Deleting(y) /\ y \in Ops
        BY DEF IInv, Ops
      <3>2. pc[y] \in {"purge", "delete", "erased"} => pc'[target[y]] = "created"
        BY <1>1, <3>1 DEF Deleting, Ops
      <3>3. \A c \in Codes : faces'[c] \subseteq faces[c]
        BY <1>1
      <3> QED BY <1>1, <2>2, <3>1, <3>2, <3>3 DEF Deleting
    <2> QED BY <2>1, <2>2
  <1> QED BY <1>3, <1>4, <1>5, <1>6 DEF IInv

\* A deletion deletes the row after the purge.
LEMMA DeleteRowKeeps ==
  ASSUME IInv, TypeOK', NEW x \in Deletes, DeleteRow(x)
  PROVE  IInv'
  <1>1. /\ pc[x] = "delete" /\ pc'[x] = "erased" /\ \A o \in Ops : o # x => pc'[o] = pc[o]
        /\ x \in Ops
        /\ \A c \in Codes : row'[c] = IF row[c] = target[x] THEN None ELSE row[c]
        /\ UNCHANGED <<faces, photo, code, added, count, target>>
    BY DEF IInv, TypeOK, DeleteRow, Goto, locals, Ops
  <1>2. Deleting(x) /\ target[x] \in Enrols /\ target[x] # None
    BY <1>1, RegistryConstantsOK DEF IInv, Deleting
  <1>3. LocalsOK'
    BY <1>1, RegistryConstantsOK DEF IInv, LocalsOK, Ops
  <1>4. PhotoBeforeRow'
    BY <1>1, RegistryConstantsOK DEF IInv, PhotoBeforeRow, RowsHavePhotos, Ops
  <1>5. RowsAreCreated' /\ FacesHaveSubjects'
    BY <1>1, RegistryConstantsOK DEF IInv, RowsAreCreated, FacesHaveSubjects, Ops
  <1>6. ASSUME NEW y \in Deletes  PROVE Deleting(y)'
    <2>1. Deleting(y) /\ y \in Ops
      BY DEF IInv, Ops
    <2>2. pc[y] \in {"purge", "delete", "erased"} => pc'[target[y]] = "created" /\ target[y] # None
      BY <1>1, <2>1, RegistryConstantsOK DEF Deleting, Ops
    <2>3. pc'[y] = pc[y] \/ y = x
      BY <1>1, <2>1
    <2> QED BY <1>1, <1>2, <2>1, <2>2, <2>3 DEF Deleting
  <1> QED BY <1>3, <1>4, <1>5, <1>6 DEF IInv

\* A call that raises, or the end of the process.
LEMMA FaultsKeep ==
  ASSUME IInv, TypeOK', Crash \/ \E o \in Ops : Fail(o)
  PROVE  IInv'
  <1>1. ASSUME NEW o \in Ops, Fail(o)  PROVE IInv'
    <2>1. pc' = [pc EXCEPT ![o] = "failed"] /\ UNCHANGED <<row, photo, code, count, added, target>>
          /\ pc[o] \in Running
      BY <1>1 DEF Fail, db, locals
    <2>2. CASE pc[o] = "add" /\ faces' = [faces EXCEPT ![code[o]] = @ \cup {NextFace(o)}]
      <3>1. o \in Enrols /\ pc'[o] = "failed"
        BY <2>1, <2>2 DEF IInv, LocalsOK, TypeOK
      <3> QED BY <2>1, <2>2, <3>1, FaceAdded
    <2>3. CASE UNCHANGED faces \/ PurgeSubject(code[o])
      <3>1. \A c \in Codes : faces'[c] \subseteq faces[c]
        BY <2>3 DEF IInv, TypeOK, PurgeSubject
      <3> QED BY <2>1, <3>1, QuietStep DEF Running
    <2> QED BY <1>1, <2>2, <2>3 DEF Fail
  <1>2. CASE Crash
    <2>1. /\ \A o \in Ops : pc'[o] = pc[o] \/ (pc[o] \in Running /\ pc'[o] = "failed")
          /\ UNCHANGED <<row, faces, photo, code, count, added, target>>
      BY <1>2 DEF Crash, db, locals
    <2>2. LocalsOK'
      BY <2>1 DEF IInv, LocalsOK, Ops
    <2>3. PhotoBeforeRow'
      BY <2>1 DEF IInv, PhotoBeforeRow, RowsHavePhotos, Ops
    <2>4. RowsAreCreated' /\ FacesHaveSubjects'
      BY <2>1 DEF IInv, RowsAreCreated, FacesHaveSubjects, Ops, Running
    <2>5. ASSUME NEW x \in Deletes  PROVE Deleting(x)'
      <3>1. Deleting(x)
        BY DEF IInv
      <3>2. pc'[x] = pc[x] \/ pc'[x] = "failed"
        BY <2>1 DEF Ops
      <3>3. pc[x] \in {"purge", "delete", "erased"} => pc'[target[x]] = "created"
        BY <2>1, <3>1 DEF Deleting, Ops, Running
      <3> QED BY <2>1, <3>1, <3>2, <3>3 DEF Deleting
    <2> QED BY <2>2, <2>3, <2>4, <2>5 DEF IInv
  <1> QED BY <1>1, <1>2

\* Every action keeps the invariant.
LEMMA StepsKeepInvariant == IInv /\ [Next]_vars => IInv'
  <1> SUFFICES ASSUME IInv, [Next]_vars  PROVE IInv'
    OBVIOUS
  <1>0. TypeOK'
    BY TypesAreKept
  <1>q. \A c \in Codes : UNCHANGED faces \/ (\E d : PurgeSubject(d)) => faces'[c] \subseteq faces[c]
    BY DEF IInv, TypeOK, PurgeSubject
  <1>1. ASSUME NEW e \in Enrols, NEW c \in Codes, NEW n \in 0..(MaxPhotos + 1), RejectEnroll(e, c, n)
        PROVE  IInv'
    BY <1>0, <1>1, QuietStep DEF RejectEnroll, Begin, Goto, db, locals, Ops
  <1>2. ASSUME NEW e \in Enrols, AddFace(e)  PROVE IInv'
    <2>1. /\ pc[e] = "add" /\ faces' = [faces EXCEPT ![code[e]] = @ \cup {NextFace(e)}]
          /\ UNCHANGED <<row, code, count, target>>
          /\ added[e] \in Nat /\ count[e] \in Nat /\ added[e] < count[e]
          /\ added' = [added EXCEPT ![e] = @ + 1] /\ code[e] \in Codes
      BY <1>2 DEF IInv, TypeOK, LocalsOK, AddFace, db, Ops
    <2>2. added'[e] = added[e] + 1 /\ \A d \in Enrols : d # e => added'[d] = added[d]
      BY <2>1 DEF IInv, TypeOK
    <2>3. CASE added'[e] = count[e]
      <3>1. pc' = [pc EXCEPT ![e] = "insert"] /\ photo' = [photo EXCEPT ![code[e]] = e]
        BY <1>2, <2>3 DEF AddFace
      <3>2. pc'[e] = "insert" /\ photo'[code[e]] = e /\ \A c \in Codes : photo'[c] = photo[c] \/ photo'[c] = e
        BY <2>1, <3>1 DEF IInv, TypeOK, Ops
      <3> QED BY <1>0, <2>1, <2>2, <3>1, <3>2, FaceAdded
    <2>4. CASE added'[e] # count[e]
      <3>1. pc' = pc /\ photo' = photo /\ added'[e] < count'[e]
        BY <1>2, <2>1, <2>2, <2>4 DEF AddFace
      <3> QED BY <1>0, <2>1, <2>2, <3>1, FaceAdded
    <2> QED BY <2>3, <2>4
  <1>3. ASSUME NEW e \in Enrols, RefuseFace(e) \/ UndoEnroll(e) \/ LoseInsert(e)  PROVE IInv'
    BY <1>0, <1>3, <1>q, QuietStep DEF RefuseFace, UndoEnroll, LoseInsert, Goto, db, locals, Ops
  <1>4. ASSUME NEW p \in Patches, Patch(p)  PROVE IInv'
    <2>1. ASSUME NEW e \in Enrols, Miss(p, e)  PROVE IInv'
      BY <1>0, <2>1, QuietStep DEF Miss, Begin, Goto, db, locals, Ops
    <2>2. ASSUME NEW e \in Enrols, NEW on \in BOOLEAN, BeginPatch(p, e, on)  PROVE IInv'
      <3>1. /\ target'[p] = e /\ \A y \in Patches \cup Deletes : y # p => target'[y] = target[y]
            /\ p \notin Deletes
        BY <2>2, RegistryConstantsOK DEF IInv, TypeOK, BeginPatch
      <3> QED BY <1>0, <2>2, <3>1, QuietStep DEF BeginPatch, Begin, Goto, db, Ops
    <2>3. ASSUME CommitPatch(p)  PROVE IInv'
      <3>1. PICK to \in {"patched", "failed"} : pc' = [pc EXCEPT ![p] = to]
        BY <2>3 DEF CommitPatch, Goto
      <3>2. pc[p] = "update" /\ p \in Ops /\ UNCHANGED <<row, faces, photo, code, count, added, target>>
        BY <2>3 DEF CommitPatch, Goto, locals, Ops
      <3> QED BY <1>0, <3>1, <3>2, QuietStep
    <2> QED BY <1>4, <2>1, <2>2, <2>3 DEF Patch
  <1>5. ASSUME NEW x \in Deletes, Delete(x)  PROVE IInv'
    <2>1. ASSUME NEW e \in Enrols, Miss(x, e)  PROVE IInv'
      BY <1>0, <2>1, QuietStep DEF Miss, Begin, Goto, db, locals, Ops
    <2>2. ASSUME FailDelete(x)  PROVE IInv'
      BY <1>0, <2>2, QuietStep DEF FailDelete, Goto, db, locals, Ops
    <2> QED BY <1>0, <1>5, <2>1, <2>2, BeginDeleteKeeps, PurgeFacesKeeps, DeleteRowKeeps DEF Delete
  <1>6. CASE (\E e \in Enrols : Attend(e)) \/ UNCHANGED vars
    <2>1. UNCHANGED <<row, faces, photo, pc, code, count, added, target>>
      BY <1>6 DEF Attend, vars, db, locals
    <2> QED BY <1>0, <2>1 DEF IInv, LocalsOK, PhotoBeforeRow, RowsHavePhotos, RowsAreCreated,
                              FacesHaveSubjects, Deleting
  <1> QED BY <1>0, <1>1, <1>2, <1>3, <1>4, <1>5, <1>6, BeginEnrollKeeps, InsertRowKeeps, FaultsKeep
          DEF Next, Enroll

\* A deletion answered 204 has erased the row and every face of the enrolment, and
\* neither comes back, whatever else runs and fails.
THEOREM ErasureIsFinal == Spec => []ErasedStaysErased
  <1>1. IInv => ErasedStaysErased
    <2> SUFFICES ASSUME IInv, NEW x \in Deletes, pc[x] = "erased", NEW c \in Codes
                 PROVE  row[c] # target[x] /\ faces[c] \cap FacesOf(target[x]) = {}
      BY DEF ErasedStaysErased, Exists
    <2>1. /\ target[x] \in Enrols /\ row[c] # target[x]
          /\ \A i \in 1..MaxPhotos : <<target[x], i>> \notin faces[c]
      BY DEF IInv, Deleting
    <2>2. count[target[x]] \in 0..MaxPhotos
      BY <2>1 DEF IInv, TypeOK
    <2>3. 1..count[target[x]] \subseteq 1..MaxPhotos
      BY <2>2, RegistryConstantsOK
    <2> QED BY <2>1, <2>3 DEF FacesOf
  <1> QED BY <1>1, InitEstablishes, StepsKeepInvariant, PTL DEF Spec

\* Every variable of the registry stays in its type.
THEOREM TypeCorrect == Spec => []TypeOK
  <1>1. IInv => TypeOK
    BY DEF IInv
  <1> QED BY <1>1, InitEstablishes, StepsKeepInvariant, PTL DEF Spec

\* Every row's reference photo is on disk, though enrolments and erasures of its code race.
THEOREM PhotosAreServed == Spec => []RowsHavePhotos
  <1>1. IInv => RowsHavePhotos
    BY DEF IInv, PhotoBeforeRow
  <1> QED BY <1>1, InitEstablishes, StepsKeepInvariant, PTL DEF Spec

\* ---- Enrolments that are refused -------------------------------------------------------
\* Only an enrolment that is adding faces gets any, whoever else runs or fails.
LEMMA OnlyAddersGetFaces ==
  ASSUME IInv, [Next]_vars, NEW e \in Enrols, pc[e] # "add", NEW c \in Codes, NEW i \in 1..MaxPhotos,
         <<e, i>> \in faces'[c]
  PROVE  <<e, i>> \in faces[c]
  <1> USE DEF db, locals
  <1>1. CASE UNCHANGED faces
    BY <1>1
  <1>2. ASSUME NEW o, pc[o] = "add", faces' = [faces EXCEPT ![code[o]] = @ \cup {NextFace(o)}]
        PROVE  <<e, i>> \in faces[c]
    BY <1>2 DEF IInv, TypeOK, NextFace
  <1>3. ASSUME NEW d, PurgeSubject(d)  PROVE <<e, i>> \in faces[c]
    BY <1>3 DEF IInv, TypeOK, PurgeSubject
  <1>4. ASSUME NEW d \in Enrols, Enroll(d)  PROVE <<e, i>> \in faces[c]
    BY <1>1, <1>2, <1>3, <1>4
       DEF Enroll, RejectEnroll, BeginEnroll, AddFace, RefuseFace, UndoEnroll, InsertRow, LoseInsert
  <1>5. ASSUME NEW p \in Patches, Patch(p)  PROVE <<e, i>> \in faces[c]
    BY <1>1, <1>5 DEF Patch, Miss, BeginPatch, CommitPatch
  <1>6. ASSUME NEW x \in Deletes, Delete(x)  PROVE <<e, i>> \in faces[c]
    BY <1>1, <1>3, <1>6 DEF Delete, Miss, BeginDelete, PurgeFaces, DeleteRow, FailDelete
  <1>7. ASSUME NEW o \in Ops, Fail(o)  PROVE <<e, i>> \in faces[c]
    BY <1>1, <1>2, <1>3, <1>7 DEF Fail
  <1>8. CASE Crash \/ (\E d \in Enrols : Attend(d)) \/ UNCHANGED vars
    BY <1>1, <1>8 DEF Crash, Attend, vars
  <1> QED BY <1>4, <1>5, <1>6, <1>7, <1>8 DEF Next

\* An enrolment is refused before it has a face, or by the step that purges its subject.
LEMMA RefusalSteps ==
  ASSUME IInv, [Next]_vars, NEW e \in Enrols, pc[e] # "rejected", pc'[e] = "rejected"
  PROVE  pc[e] = "new" \/ UndoEnroll(e)
  <1> USE DEF Goto, Begin
  <1>0. e \in Ops /\ e \notin Patches /\ e \notin Deletes
    BY RegistryConstantsOK DEF Ops
  <1>1. ASSUME NEW o \in Ops, NEW to, pc' = [pc EXCEPT ![o] = to]  PROVE o = e /\ to = "rejected"
    BY <1>0, <1>1 DEF IInv, TypeOK
  <1>2. pc' # pc
    OBVIOUS
  <1>3. ASSUME NEW d \in Enrols, Enroll(d)  PROVE pc[e] = "new" \/ UndoEnroll(e)
    <2>1. d \in Ops
      BY DEF Ops
    <2>2. ASSUME NEW c \in Codes, NEW n \in 0..(MaxPhotos + 1), RejectEnroll(d, c, n)
          PROVE  pc[e] = "new"
      BY <1>1, <2>1, <2>2 DEF RejectEnroll
    <2>3. ASSUME NEW c \in Codes, NEW n \in 0..(MaxPhotos + 1), BeginEnroll(d, c, n)
          PROVE  FALSE
      BY <1>1, <2>1, <2>3 DEF BeginEnroll
    <2>4. ~ AddFace(d)
      BY <1>1, <1>2, <2>1 DEF AddFace
    <2>5. ~ RefuseFace(d) /\ ~ InsertRow(d) /\ ~ LoseInsert(d)
      BY <1>1, <2>1 DEF RefuseFace, InsertRow, LoseInsert
    <2>6. UndoEnroll(d) => UndoEnroll(e)
      BY <1>1, <2>1 DEF UndoEnroll
    <2> QED BY <1>3, <2>2, <2>3, <2>4, <2>5, <2>6 DEF Enroll
  <1>4. ASSUME NEW p \in Patches  PROVE ~ Patch(p)
    <2>1. p \in Ops /\ p # e
      BY <1>0 DEF Ops
    <2> QED BY <1>1, <2>1 DEF Patch, Miss, BeginPatch, CommitPatch
  <1>5. ASSUME NEW x \in Deletes  PROVE ~ Delete(x)
    <2>1. x \in Ops /\ x # e
      BY <1>0 DEF Ops
    <2> QED BY <1>1, <2>1 DEF Delete, Miss, BeginDelete, PurgeFaces, DeleteRow, FailDelete
  <1>6. \A o \in Ops : ~ Fail(o)
    BY <1>1 DEF Fail
  <1>7. ~ Crash
    BY <1>0 DEF Crash
  <1>8. ~ UNCHANGED vars /\ \A d \in Enrols : ~ Attend(d)
    BY <1>2 DEF vars, Attend
  <1> QED BY <1>3, <1>4, <1>5, <1>6, <1>7, <1>8 DEF Next

\* "On any failure, purge the subject", for the failures the code answers itself: once an
\* enrolment was refused (a bad request, a taken code, an error status of CompreFace), no
\* subject holds a face of it, then or later, whatever runs and fails around it.  What
\* NoHalfRegistered says beyond this, of calls that raise, the code does not keep.
THEOREM RefusalsLeaveNothing ==
  Spec => [](\A e \in Enrols : pc[e] = "rejected" =>
               \A c \in Codes : \A f \in faces[c] : f[1] # e)
  <1> DEFINE Gone(e) == \A c \in Codes : \A i \in 1..MaxPhotos : <<e, i>> \notin faces[c]
             Clean == \A e \in Enrols : pc[e] = "rejected" => Gone(e)
  <1>1. Init => Clean
    BY DEF Init
  <1>2. IInv /\ Clean /\ [Next]_vars => Clean'
    <2> SUFFICES ASSUME IInv, Clean, [Next]_vars, NEW e \in Enrols, pc'[e] = "rejected"
                 PROVE  Gone(e)'
      OBVIOUS
    <2>1. CASE pc[e] = "rejected"
      BY <2>1, OnlyAddersGetFaces
    <2>2. CASE pc[e] = "new"
      BY <2>2, OnlyAddersGetFaces DEF IInv, FacesHaveSubjects
    <2>3. CASE pc[e] # "rejected" /\ UndoEnroll(e)
      <3>1. pc[e] = "undo" /\ code[e] \in Codes /\ faces'[code[e]] = {}
        BY <2>3 DEF UndoEnroll, Goto, PurgeSubject, IInv, TypeOK, LocalsOK, Ops
      <3> QED BY <3>1, OnlyAddersGetFaces DEF IInv, FacesHaveSubjects
    <2> QED BY <2>1, <2>2, <2>3, RefusalSteps
  <1>3. IInv /\ Clean => \A e \in Enrols : pc[e] = "rejected" =>
                            \A c \in Codes : \A f \in faces[c] : f[1] # e
    BY DEF IInv, TypeOK
  <1> QED BY <1>1, <1>2, <1>3, InitEstablishes, StepsKeepInvariant, PTL DEF Spec

\* ---- Admins who wait for each other ------------------------------------------------------
\* What an enrolment under way has put under its code so far.
Enrolling(e) ==
  /\ pc[e] \in {"add", "undo", "insert"} => row[code[e]] = None
  /\ pc[e] = "add" => faces[code[e]] = {<<e, i>> : i \in 1..added[e]}
  /\ pc[e] = "insert" => faces[code[e]] = FacesOf(e)

\* What a deletion under way has left of its row and subject.
Removing(x) ==
  /\ pc[x] \in {"purge", "delete"} => row[code[x]] = target[x]
  /\ pc[x] = "delete" => faces[code[x]] = {}

\* What a PATCH has loaded is still so.
Patching(p) == pc[p] = "update" => (loaded[p] <=> target[p] \in active)

Busy(c) == \E o \in Enrols \cup Deletes : pc[o] \in Running /\ code[o] = c
Matching(c) ==
  ~ Busy(c) /\ row[c] \notin attended
    => faces[c] = IF row[c] = None THEN {} ELSE FacesOf(row[c])

SerialOK ==
  serial =>
    /\ \A o \in Ops : \A q \in Ops : pc[o] \in Running /\ pc[q] \in Running => o = q
    /\ \A e \in Enrols : Enrolling(e)
    /\ \A x \in Deletes : Removing(x)
    /\ \A p \in Patches : Patching(p)
    /\ \A c \in Codes : Matching(c)

\* Of a step of the only operation under way, only its own effect is to be shown.
LEMMA OneStep ==
  ASSUME IInv, SerialOK, serial, NEW o \in Ops, NEW to, pc' = [pc EXCEPT ![o] = to],
         \A q \in Ops : q # o => pc[q] \notin Running,
         o \in Enrols => Enrolling(o)', o \in Deletes => Removing(o)',
         o \in Patches => Patching(o)', \A c \in Codes : Matching(c)'
  PROVE  SerialOK'
  <1>1. \A q \in Ops : q # o => pc'[q] \notin Running
    BY DEF IInv, TypeOK
  <1>2. ASSUME NEW e \in Enrols  PROVE Enrolling(e)'
    BY <1>1 DEF Enrolling, Running, Ops
  <1>3. ASSUME NEW x \in Deletes  PROVE Removing(x)'
    BY <1>1 DEF Removing, Running, Ops
  <1>4. ASSUME NEW p \in Patches  PROVE Patching(p)'
    BY <1>1 DEF Patching, Running, Ops
  <1> QED BY <1>1, <1>2, <1>3, <1>4 DEF SerialOK

\* Steps that change no store: a code that becomes or stays busy needs no match, and one
\* that is free of the operation matches already.
LEMMA StoresStay ==
  ASSUME IInv, SerialOK, serial, NEW o \in Ops, NEW to, pc' = [pc EXCEPT ![o] = to],
         UNCHANGED <<row, attended, faces>>,
         \A q \in Ops : q # o => pc[q] \notin Running /\ code'[q] = code[q],
         \A e \in Enrols : pc[e] = "created" => count'[e] = count[e],
         NEW c \in Codes,
         o \in Enrols \cup Deletes /\ pc[o] \in Running /\ code[o] = c =>
           to \in Running /\ code'[o] = c
  PROVE  Matching(c)'
  <1> SUFFICES ASSUME (~ Busy(c))', row'[c] \notin attended'
               PROVE  faces'[c] = IF row'[c] = None THEN {} ELSE FacesOf(row[c])'
    BY DEF Matching
  <1>1. pc'[o] = to
    BY DEF IInv, TypeOK
  <1>2. ~ Busy(c)
    BY <1>1 DEF Busy, Ops
  <1>3. faces[c] = IF row[c] = None THEN {} ELSE FacesOf(row[c])
    BY <1>2 DEF SerialOK, Matching
  <1>4. row[c] # None => row[c] \in Enrols /\ pc[row[c]] = "created"
    BY DEF IInv, TypeOK, RowsAreCreated
  <1>5. row[c] # None => FacesOf(row[c])' = FacesOf(row[c])
    BY <1>4 DEF FacesOf
  <1> QED BY <1>3, <1>5

\* A code that was free of every operation, and that a step leaves alone, still matches.
LEMMA MatchStays ==
  ASSUME SerialOK, serial, NEW c \in Codes, ~ Busy(c),
         row'[c] = row[c], faces'[c] = faces[c], attended \subseteq attended', count' = count
  PROVE  Matching(c)'
  <1>1. row[c] \notin attended => faces[c] = IF row[c] = None THEN {} ELSE FacesOf(row[c])
    BY DEF SerialOK, Matching
  <1>2. FacesOf(row[c])' = FacesOf(row[c])
    BY DEF FacesOf
  <1> QED BY <1>1, <1>2 DEF Matching

\* Every step of an enrolment.
LEMMA EnrollIsSerial ==
  ASSUME IInv, IInv', SerialOK, serial, NEW e \in Enrols, Enroll(e)
  PROVE  SerialOK'
  <1> USE DEF Goto, Begin, db, locals
  <1>0. e \in Ops /\ e \notin Patches /\ e \notin Deletes /\ None \notin Enrols
    BY RegistryConstantsOK DEF Ops
  <1>1. ASSUME pc[e] \in Running  PROVE \A q \in Ops : q # e => pc[q] \notin Running
    BY <1>0, <1>1 DEF SerialOK
  <1>2. ASSUME NEW c \in Codes, NEW n \in 0..(MaxPhotos + 1), RejectEnroll(e, c, n)
        PROVE  SerialOK'
    <2>1. /\ pc' = [pc EXCEPT ![e] = "rejected"] /\ pc[e] = "new"
          /\ UNCHANGED <<row, attended, faces, code, count>>
          /\ \A q \in Ops : pc[q] \notin Running
      BY <1>2 DEF RejectEnroll
    <2>2. pc'[e] = "rejected"
      BY <1>0, <2>1 DEF IInv, TypeOK
    <2>3. \A d \in Codes : Matching(d)'
      BY <1>0, <2>1, StoresStay
    <2>4. Enrolling(e)'
      BY <2>2 DEF Enrolling
    <2> QED BY <1>0, <2>1, <2>3, <2>4, OneStep
  <1>3. ASSUME NEW c \in Codes, NEW n \in 0..(MaxPhotos + 1), BeginEnroll(e, c, n)
        PROVE  SerialOK'
    <2>1. /\ pc' = [pc EXCEPT ![e] = "add"] /\ pc[e] = "new" /\ row[c] = None
          /\ code' = [code EXCEPT ![e] = c] /\ count' = [count EXCEPT ![e] = n]
          /\ UNCHANGED <<row, attended, faces, added>>
          /\ \A q \in Ops : pc[q] \notin Running
      BY <1>3 DEF BeginEnroll
    <2>2. /\ pc'[e] = "add" /\ code'[e] = c /\ added[e] = 0
          /\ \A q \in Ops : q # e => code'[q] = code[q]
          /\ \A f \in Enrols : f # e => count'[f] = count[f]
      BY <1>0, <2>1 DEF IInv, TypeOK, LocalsOK
    <2>3. \A d \in Codes : Matching(d)'
      BY <1>0, <2>1, <2>2, StoresStay DEF Running
    <2>4. ~ Busy(c) /\ row[c] \notin attended
      BY <1>0, <2>1 DEF Busy, Ops, IInv, TypeOK
    <2>5. faces[c] = {}
      BY <2>1, <2>4 DEF SerialOK, Matching
    <2>6. Enrolling(e)'
      BY <2>1, <2>2, <2>5 DEF Enrolling
    <2> QED BY <1>0, <2>1, <2>3, <2>6, OneStep
  <1>4. ASSUME AddFace(e)  PROVE SerialOK'
    <2>1. /\ pc[e] = "add" /\ code[e] \in Codes /\ code' = code
          /\ UNCHANGED <<row, attended, count>>
          /\ faces' = [faces EXCEPT ![code[e]] = @ \cup {<<e, added[e] + 1>>}]
          /\ added' = [added EXCEPT ![e] = @ + 1]
          /\ added[e] \in Nat
          /\ pc' = pc \/ (pc' = [pc EXCEPT ![e] = "insert"] /\ added'[e] = count[e])
      BY <1>0, <1>4 DEF AddFace, NextFace, IInv, TypeOK, LocalsOK
    <2>2. /\ faces'[code[e]] = faces[code[e]] \cup {<<e, added[e] + 1>>}
          /\ \A c \in Codes : c # code[e] => faces'[c] = faces[c]
          /\ added'[e] = added[e] + 1
      BY <2>1 DEF IInv, TypeOK
    <2>3. row[code[e]] = None /\ faces[code[e]] = {<<e, i>> : i \in 1..added[e]}
      BY <2>1 DEF SerialOK, Enrolling
    <2>4. faces'[code[e]] = {<<e, i>> : i \in 1..added'[e]}
      <3>1. 1..added'[e] = 1..added[e] \cup {added[e] + 1}
        BY <2>1, <2>2
      <3> QED BY <2>2, <2>3, <3>1
    <2>5. pc'[e] \in {"add", "insert"} /\ (pc'[e] = "insert" => added'[e] = count'[e])
      BY <1>0, <2>1 DEF IInv, TypeOK
    <2>6. Enrolling(e)'
      BY <2>1, <2>3, <2>4, <2>5 DEF Enrolling, FacesOf
    <2>7. PICK to \in {"add", "insert"} : pc' = [pc EXCEPT ![e] = to]
      BY <1>0, <2>1 DEF IInv, TypeOK
    <2>8. ASSUME NEW c \in Codes  PROVE Matching(c)'
      <3>1. CASE c = code[e]
        <4>1. Busy(c)'
          BY <1>0, <2>1, <2>5, <3>1 DEF Busy, Running
        <4> QED BY <4>1 DEF Matching
      <3>2. CASE c # code[e]
        <4>1. ASSUME (~ Busy(c))'  PROVE ~ Busy(c)
          BY <1>0, <1>1, <2>1, <3>2, <4>1 DEF Busy, Ops, Running
        <4>2. CASE Busy(c)
          BY <4>1, <4>2 DEF Matching
        <4>3. CASE ~ Busy(c)
          BY <2>1, <2>2, <3>2, <4>3, MatchStays
        <4> QED BY <4>2, <4>3
      <3> QED BY <3>1, <3>2
    <2>9. \A q \in Ops : q # e => pc[q] \notin Running
      BY <1>1, <2>1 DEF Running
    <2> QED BY <1>0, <2>6, <2>7, <2>8, <2>9, OneStep
  <1>5. ASSUME RefuseFace(e)  PROVE SerialOK'
    <2>1. /\ pc' = [pc EXCEPT ![e] = "undo"] /\ pc[e] = "add"
          /\ UNCHANGED <<row, attended, faces, code, count>>
      BY <1>5 DEF RefuseFace
    <2>2. pc'[e] = "undo" /\ \A q \in Ops : q # e => pc[q] \notin Running
      BY <1>0, <1>1, <2>1 DEF IInv, TypeOK, Running
    <2>3. \A d \in Codes : Matching(d)'
      BY <1>0, <2>1, <2>2, StoresStay DEF Running
    <2>4. Enrolling(e)'
      BY <2>1, <2>2 DEF SerialOK, Enrolling
    <2> QED BY <1>0, <2>1, <2>2, <2>3, <2>4, OneStep
  <1>6. ASSUME UndoEnroll(e) \/ InsertRow(e)  PROVE SerialOK'
    <2> DEFINE c == code[e]
    <2>1. PICK to \in {"rejected", "created"} :
            /\ pc' = [pc EXCEPT ![e] = to] /\ pc[e] \in {"undo", "insert"}
            /\ UNCHANGED <<attended, code, count>> /\ c \in Codes
            /\ \A d \in Codes : d # c => row'[d] = row[d] /\ faces'[d] = faces[d]
            /\ faces'[c] = IF row'[c] = None THEN {} ELSE FacesOf(row'[c])
      <3>1. CASE UndoEnroll(e)
        <4>1. pc[e] = "undo" /\ c \in Codes /\ row[c] = None
          BY <1>0, <3>1 DEF UndoEnroll, IInv, LocalsOK, SerialOK, Enrolling
        <4> QED BY <3>1, <4>1 DEF UndoEnroll, PurgeSubject, IInv, TypeOK
      <3>2. CASE InsertRow(e)
        <4>1. pc[e] = "insert" /\ c \in Codes /\ faces[c] = FacesOf(e)
          BY <1>0, <3>2 DEF InsertRow, IInv, LocalsOK, SerialOK, Enrolling
        <4> QED BY <1>0, <3>2, <4>1 DEF InsertRow, IInv, TypeOK
      <3> QED BY <1>6, <3>1, <3>2
    <2>2. pc'[e] = to /\ \A q \in Ops : q # e => pc[q] \notin Running
      BY <1>0, <1>1, <2>1 DEF IInv, TypeOK, Running
    <2>3. ASSUME NEW d \in Codes  PROVE Matching(d)'
      <3>1. CASE d = c
        BY <2>1, <3>1 DEF Matching, FacesOf
      <3>2. CASE d # c
        <4>1. ~ Busy(d)
          BY <2>2, <3>2 DEF Busy, Ops
        <4> QED BY <2>1, <3>2, <4>1, MatchStays
      <3> QED BY <3>1, <3>2
    <2>4. Enrolling(e)'
      BY <2>2 DEF Enrolling
    <2> QED BY <1>0, <2>1, <2>2, <2>3, <2>4, OneStep
  <1>7. ~ LoseInsert(e)
    BY DEF LoseInsert, SerialOK, Enrolling
  <1> QED BY <1>2, <1>3, <1>4, <1>5, <1>6, <1>7 DEF Enroll

\* Every step of a PATCH.
LEMMA PatchIsSerial ==
  ASSUME IInv, IInv', SerialOK, serial, NEW p \in Patches, Patch(p)
  PROVE  SerialOK'
  <1> USE DEF Goto, Begin, db, locals
  <1>0. p \in Ops /\ p \notin Enrols /\ p \notin Deletes
    BY RegistryConstantsOK DEF Ops
  <1>1. PICK to : pc' = [pc EXCEPT ![p] = to] /\ (to = "update" \/ to \in {"missing", "patched", "failed"})
        /\ UNCHANGED <<row, attended, faces, code, count>>
        /\ \A q \in Ops : q # p => pc[q] \notin Running
    <2>1. ASSUME NEW e \in Enrols, Miss(p, e)
          PROVE  /\ pc' = [pc EXCEPT ![p] = "missing"] /\ UNCHANGED <<row, attended, faces, code, count>>
                 /\ \A q \in Ops : pc[q] \notin Running
      BY <2>1 DEF Miss
    <2>2. ASSUME NEW e \in Enrols, NEW on \in BOOLEAN, BeginPatch(p, e, on)
          PROVE  /\ pc' = [pc EXCEPT ![p] = "update"] /\ UNCHANGED <<row, attended, faces, code, count>>
                 /\ \A q \in Ops : pc[q] \notin Running
      BY <2>2 DEF BeginPatch
    <2>3. ASSUME CommitPatch(p)
          PROVE  /\ pc' = [pc EXCEPT ![p] = "patched"] \/ pc' = [pc EXCEPT ![p] = "failed"]
                 /\ UNCHANGED <<row, attended, faces, code, count>>
                 /\ \A q \in Ops : q # p => pc[q] \notin Running
      BY <1>0, <2>3 DEF CommitPatch, SerialOK, Running
    <2> QED BY <2>1, <2>2, <2>3 DEF Patch
  <1>2. pc'[p] = to
    BY <1>0, <1>1 DEF IInv, TypeOK
  <1>3. \A c \in Codes : Matching(c)'
    BY <1>0, <1>1, StoresStay
  <1>4. Patching(p)'
    <2>1. CASE to = "update"
      <3>1. PICK e \in Enrols, on \in BOOLEAN : BeginPatch(p, e, on)
        <4>1. pc'[p] # "missing" /\ pc'[p] # "patched" /\ pc'[p] # "failed"
          BY <1>2, <2>1
        <4> QED BY <1>0, <4>1 DEF Patch, Miss, CommitPatch, IInv, TypeOK
      <3>2. target'[p] = e /\ loaded'[p] = (e \in active) /\ active' = active
        BY <3>1 DEF BeginPatch, IInv, TypeOK
      <3> QED BY <3>2 DEF Patching
    <2>2. CASE to # "update"
      BY <1>2, <2>2 DEF Patching
    <2> QED BY <2>1, <2>2
  <1> QED BY <1>0, <1>1, <1>3, <1>4, OneStep

\* Every step of a deletion.
LEMMA DeleteIsSerial ==
  ASSUME IInv, IInv', SerialOK, serial, NEW x \in Deletes, Delete(x)
  PROVE  SerialOK'
  <1> USE DEF Goto, Begin, db, locals
  <1>0. x \in Ops /\ x \notin Enrols /\ x \notin Patches /\ None \notin Enrols
    BY RegistryConstantsOK DEF Ops
  <1>1. ASSUME pc[x] \in Running  PROVE \A q \in Ops : q # x => pc[q] \notin Running
    BY <1>0, <1>1 DEF SerialOK
  <1>2. ASSUME NEW e \in Enrols, Miss(x, e)  PROVE SerialOK'
    <2>1. /\ pc' = [pc EXCEPT ![x] = "missing"] /\ pc[x] = "new"
          /\ UNCHANGED <<row, attended, faces, code, count>> /\ \A q \in Ops : pc[q] \notin Running
      BY <1>2 DEF Miss
    <2>2. \A d \in Codes : Matching(d)'
      BY <1>0, <2>1, StoresStay
    <2>3. Removing(x)'
      BY <1>0, <2>1 DEF Removing, IInv, TypeOK
    <2> QED BY <1>0, <2>1, <2>2, <2>3, OneStep
  <1>3. ASSUME NEW e \in Enrols, BeginDelete(x, e)  PROVE SerialOK'
    <2>1. /\ pc' = [pc EXCEPT ![x] = "purge"] /\ pc[x] = "new"
          /\ target' = [target EXCEPT ![x] = e] /\ code' = [code EXCEPT ![x] = CodeOf(e)]
          /\ UNCHANGED <<row, attended, faces, count>> /\ \A q \in Ops : pc[q] \notin Running
      BY <1>3 DEF BeginDelete
    <2>2. /\ pc'[x] = "purge" /\ target'[x] = e /\ code'[x] = CodeOf(e)
          /\ \A q \in Ops : q # x => code'[q] = code[q]
      BY <1>0, <2>1 DEF IInv, TypeOK
    <2>3. row[CodeOf(e)] = e
      BY <1>3 DEF BeginDelete, Exists, CodeOf
    <2>4. \A d \in Codes : Matching(d)'
      BY <1>0, <2>1, <2>2, StoresStay DEF Running
    <2>5. Removing(x)'
      BY <2>1, <2>2, <2>3 DEF Removing
    <2> QED BY <1>0, <2>1, <2>4, <2>5, OneStep
  <1>4. ASSUME PurgeFaces(x)  PROVE SerialOK'
    <2>1. /\ pc' = [pc EXCEPT ![x] = "delete"] /\ pc[x] = "purge" /\ code[x] \in Codes
          /\ UNCHANGED <<row, attended, code, count, target>>
          /\ faces'[code[x]] = {} /\ \A d \in Codes : d # code[x] => faces'[d] = faces[d]
      BY <1>0, <1>4 DEF PurgeFaces, PurgeSubject, IInv, TypeOK, LocalsOK
    <2>2. pc'[x] = "delete" /\ \A q \in Ops : q # x => pc[q] \notin Running
      BY <1>0, <1>1, <2>1 DEF IInv, TypeOK, Running
    <2>3. ASSUME NEW d \in Codes  PROVE Matching(d)'
      <3>1. CASE d = code[x]
        <4>1. Busy(d)'
          BY <2>1, <2>2, <3>1 DEF Busy, Running
        <4> QED BY <4>1 DEF Matching
      <3>2. CASE d # code[x]
        <4>1. ~ Busy(d)
          BY <2>2, <3>2 DEF Busy, Ops
        <4> QED BY <2>1, <3>2, <4>1, MatchStays
      <3> QED BY <3>1, <3>2
    <2>4. Removing(x)'
      BY <2>1, <2>2 DEF SerialOK, Removing
    <2> QED BY <1>0, <2>1, <2>2, <2>3, <2>4, OneStep
  <1>5. ASSUME DeleteRow(x) \/ FailDelete(x)  PROVE SerialOK'
    <2>1. pc[x] = "delete" /\ code[x] \in Codes /\ row[code[x]] = target[x] /\ faces[code[x]] = {}
          /\ target[x] \in Enrols
      BY <1>0, <1>5 DEF DeleteRow, FailDelete, IInv, LocalsOK, Deleting, SerialOK, Removing
    <2>2. \A q \in Ops : q # x => pc[q] \notin Running
      BY <1>1, <2>1 DEF Running
    <2>3. \A d \in Codes : d # code[x] => row[d] # target[x]
      BY <2>1 DEF IInv, RowsAreCreated
    <2>4. PICK to \in {"erased", "failed"} :
            /\ pc' = [pc EXCEPT ![x] = to]
            /\ UNCHANGED <<attended, faces, code, count>>
            /\ \A d \in Codes : d # code[x] => row'[d] = row[d]
            /\ row'[code[x]] = None \/ row'[code[x]] \in attended
      BY <1>5, <2>1, <2>3 DEF DeleteRow, FailDelete, IInv, TypeOK
    <2>5. pc'[x] = to
      BY <1>0, <2>4 DEF IInv, TypeOK
    <2>6. ASSUME NEW d \in Codes  PROVE Matching(d)'
      <3>1. CASE d = code[x]
        BY <2>1, <2>4, <3>1 DEF Matching
      <3>2. CASE d # code[x]
        <4>1. ~ Busy(d)
          BY <2>2, <3>2 DEF Busy, Ops
        <4> QED BY <2>4, <3>2, <4>1, MatchStays
      <3> QED BY <3>1, <3>2
    <2>7. Removing(x)'
      BY <2>5 DEF Removing
    <2> QED BY <1>0, <2>2, <2>4, <2>6, <2>7, OneStep
  <1> QED BY <1>2, <1>3, <1>4, <1>5 DEF Delete

\* Every step keeps what holds of admins who wait for each other.
LEMMA StepsAreSerial == IInv /\ IInv' /\ SerialOK /\ [Next]_vars => SerialOK'
  <1> SUFFICES ASSUME IInv, IInv', SerialOK, [Next]_vars, serial'  PROVE SerialOK'
    BY DEF SerialOK
  <1>0. serial
    BY DEF Next, vars
  <1> DEFINE StoresKept == UNCHANGED <<row, active, faces, pc, code, count, added, target, loaded>>
                           /\ attended \subseteq attended'
  <1>k. StoresKept => SerialOK'
    <2> SUFFICES ASSUME StoresKept  PROVE SerialOK'
      OBVIOUS
    <2>1. ASSUME NEW c \in Codes  PROVE Matching(c)'
      <3>1. CASE Busy(c)
        BY <3>1 DEF Busy, Matching
      <3>2. CASE ~ Busy(c)
        BY <1>0, <3>2, MatchStays
      <3> QED BY <3>1, <3>2
    <2>2. ASSUME NEW e \in Enrols  PROVE Enrolling(e)'
      BY <1>0 DEF SerialOK, Enrolling, FacesOf
    <2>3. (\A x \in Deletes : Removing(x)') /\ (\A p \in Patches : Patching(p)')
      BY <1>0 DEF SerialOK, Removing, Patching
    <2> QED BY <1>0, <2>1, <2>2, <2>3 DEF SerialOK
  <1>1. ASSUME NEW e \in Enrols, Attend(e)  PROVE SerialOK'
    <2>1. UNCHANGED <<row, active, faces, pc, code, count, added, target, loaded>> /\ attended \subseteq attended'
      BY <1>1 DEF Attend, locals
    <2> QED BY <1>k, <2>1
  <1>2. CASE UNCHANGED vars
    <2>1. UNCHANGED <<row, active, attended, faces, pc, code, count, added, target, loaded>>
      BY <1>2 DEF vars, db, locals
    <2> QED BY <1>k, <2>1
  <1>3. ~ Crash /\ \A o \in Ops : ~ Fail(o)
    BY <1>0 DEF Crash, Fail, Fault
  <1> QED BY <1>0, <1>1, <1>2, <1>3, EnrollIsSerial, PatchIsSerial, DeleteIsSerial DEF Next

\* The initial state is serial in this sense.
LEMMA SerialInit == Init => SerialOK
  <1> SUFFICES ASSUME Init  PROVE SerialOK
    OBVIOUS
  <1>1. /\ \A o \in Ops : pc[o] = "new"
        /\ \A c \in Codes : row[c] = None /\ faces[c] = {}
    BY DEF Init
  <1> QED BY <1>1 DEF SerialOK, Enrolling, Removing, Patching, Matching, Running, Ops

\* When admins wait for each other, the face collection and the table agree between
\* operations, except for rows whose deletion their sessions forbid.
THEOREM FacesFollowRows == Spec => []FacesMatchRows
  <1>1. IInv /\ SerialOK => FacesMatchRows
    BY DEF SerialOK, Matching, Busy, FacesMatchRows, Ops
  <1> QED BY <1>1, InitEstablishes, StepsKeepInvariant, SerialInit, StepsAreSerial, PTL DEF Spec

\* When admins wait for each other, a PATCH answered 200 has its effect.
THEOREM PatchesTakeEffect == Spec => PatchTakesEffect
  <1>1. IInv /\ SerialOK /\ [Next]_vars =>
          [serial => \A p \in Patches : pc[p] = "update" /\ pc'[p] = "patched"
             => (target[p] \in active' <=> wants[p])]_vars
    <2> SUFFICES ASSUME IInv, SerialOK, Next, serial, NEW p \in Patches,
                        pc[p] = "update", pc'[p] = "patched"
                 PROVE  target[p] \in active' <=> wants[p]
      OBVIOUS
    <2>1. CommitPatch(p)
      <3>1. p \in Ops /\ p \notin Enrols /\ p \notin Deletes
        BY RegistryConstantsOK DEF Ops
      <3>2. ASSUME NEW o \in Ops, o # p, NEW to, pc' = [pc EXCEPT ![o] = to]  PROVE FALSE
        BY <3>1, <3>2 DEF IInv, TypeOK
      <3>3. ASSUME NEW o \in Ops, o # p, pc[o] \in {"add"}  PROVE FALSE
        BY <3>1, <3>3 DEF SerialOK, Running
      <3>4. ASSUME NEW e \in Enrols, Enroll(e)  PROVE FALSE
        <4>1. e \in Ops /\ e # p
          BY <3>1 DEF Ops
        <4> QED BY <3>2, <3>3, <3>4, <4>1
             DEF Enroll, RejectEnroll, BeginEnroll, AddFace, RefuseFace, UndoEnroll, InsertRow,
                 LoseInsert, Begin, Goto
      <3>5. ASSUME NEW x \in Deletes, Delete(x)  PROVE FALSE
        <4>1. x \in Ops /\ x # p
          BY <3>1 DEF Ops
        <4> QED BY <3>2, <3>5, <4>1
             DEF Delete, Miss, BeginDelete, PurgeFaces, DeleteRow, FailDelete, Begin, Goto
      <3>6. ASSUME NEW q \in Patches, Patch(q)  PROVE CommitPatch(p)
        <4>1. q \in Ops
          BY DEF Ops
        <4>2. CASE q # p
          BY <3>2, <3>6, <4>1, <4>2 DEF Patch, Miss, BeginPatch, CommitPatch, Begin, Goto
        <4>3. CASE q = p
          BY <3>6, <4>3 DEF Patch, Miss, BeginPatch, Begin, Goto
        <4> QED BY <4>2, <4>3
      <3>7. ~ Crash /\ (\A o \in Ops : ~ Fail(o))
        BY DEF Crash, Fail, Fault
      <3>8. \A e \in Enrols : ~ Attend(e)
        BY DEF Attend
      <3> QED BY <3>4, <3>5, <3>6, <3>7, <3>8 DEF Next
    <2>2. loaded[p] <=> target[p] \in active
      BY DEF SerialOK, Patching
    <2>3. Exists(target[p])
      <3>1. p \in Ops
        BY DEF Ops
      <3> QED BY <2>1, <3>1 DEF CommitPatch, Goto, IInv, TypeOK
    <2>4. active' = IF wants[p] = loaded[p] THEN active
                    ELSE IF wants[p] THEN active \cup {target[p]} ELSE active \ {target[p]}
      BY <2>1, <2>3 DEF CommitPatch
    <2>5. loaded[p] \in BOOLEAN /\ wants[p] \in BOOLEAN
      BY DEF IInv, TypeOK
    <2>6. CASE wants[p] = loaded[p]
      BY <2>2, <2>4, <2>6
    <2>7. CASE wants[p] # loaded[p] /\ wants[p]
      BY <2>4, <2>7
    <2>8. CASE wants[p] # loaded[p] /\ ~ wants[p]
      BY <2>4, <2>8
    <2> QED BY <2>5, <2>6, <2>7, <2>8
  <1> QED BY <1>1, InitEstablishes, StepsKeepInvariant, SerialInit, StepsAreSerial, PTL
          DEF Spec, PatchTakesEffect
================================================================================
