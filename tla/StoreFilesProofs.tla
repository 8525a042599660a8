--------------------------- MODULE StoreFilesProofs ---------------------------
(***************************************************************************)
(* Proofs about StoreFiles, for any versions, contents and processes, and  *)
(* operations that break off at any step: committed content stays, the     *)
(* status column follows the status machine and every file is accounted    *)
(* for whatever overlaps; while nothing overlaps, live versions keep their *)
(* bytes.                                                                  *)
(***************************************************************************)
EXTENDS StoreFiles, TLAPS

Publishing == {"put", "replace", "insert"}
Purging == {"count", "unlink", "commit"}

\* An operation knows what it is about.
OpSound(o) ==
  /\ o.pc \in Publishing => o.pkg \in Package /\ o.blob \in Blob
  /\ o.pc \in Purging => o.pkg \in Package
  /\ o.pc = "idle" => o = NoOp

\* A purge is the API's, of a version that nobody can have approved since.
PurgeSound(i) ==
  op[i].pc \in Purging => i = Api /\ row[op[i].pkg].status \notin {"absent", "approved", "purged"}

FilesInv ==
  /\ FilesTypeOK
  /\ \A i \in Process : OpSound(op[i]) /\ PurgeSound(i)

\* Another version that is live has the bytes of the operation.
SharedBy(i) == \E q \in Package \ {op[i].pkg} : Live(q) /\ row[q].blob_sha256 = op[i].blob

\* What an operation that is the only one knows of the files and the table.
Alone(i) ==
  /\ op[i].pc \in Publishing => ~Published(op[i].pkg)
  /\ op[i].pc = "replace" => op[i].blob \in tmps
  /\ op[i].pc = "insert" => op[i].blob \in files
  /\ op[i].pc \in Purging => row[op[i].pkg].blob_sha256 = op[i].blob
  /\ op[i].pc = "unlink" => (op[i].shared <=> SharedBy(i))
  /\ op[i].pc = "commit" => op[i].pkg \in doomed /\ (op[i].blob \in files => SharedBy(i))

AloneInv ==
  ~overlapped =>
    /\ \A i, j \in Process : i # j => op[i] = NoOp \/ op[j] = NoOp
    /\ \A i \in Process : Alone(i)
    /\ BytesSurvive

-----------------------------------------------------------------------------
\* The moves of the status machine neither make nor unmake a row.
LEMMA MovesKeepRows ==
  ASSUME NEW m \in Machine!ReviewTransitions \cup Machine!LifecycleTransitions
  PROVE  /\ m[1] \in Status \ {"absent", "purged"} /\ m[2] \in Status \ {"absent", "purged"}
  BY DEF Machine!ReviewTransitions, Machine!LifecycleTransitions, Status

\* Where a step of publish goes.
LEMMA PublishSteps ==
  ASSUME FilesInv, NEW i \in Process
  PROVE  /\ \A u \in Uploads : PublishBegin(i, u) =>
              /\ u.pkg \in Package /\ u.blob \in Blob
              /\ op' = [op EXCEPT ![i] = [pc |-> "put", pkg |-> u.pkg, blob |-> u.blob, shared |-> FALSE]]
         /\ Put(i) \/ Replace(i) \/ Insert(i) => op[i].pkg \in Package /\ op[i].blob \in Blob
         /\ Insert(i) => \/ /\ ~Published(op[i].pkg)
                            /\ row'[op[i].pkg].status = "draft" /\ row'[op[i].pkg].blob_sha256 = op[i].blob
                            /\ \A q \in Package \ {op[i].pkg} : row'[q] = row[q]
                            /\ row' \in [Package -> FileRow]
                         \/ Published(op[i].pkg) /\ row' = row
  <1>1. \A u \in Uploads : u.pkg \in Package /\ u.blob \in Blob
    BY FilesAssumption
  <1>2. Put(i) \/ Replace(i) \/ Insert(i) => op[i].pkg \in Package /\ op[i].blob \in Blob
    BY DEF Put, Replace, Insert, FilesInv, OpSound, Publishing
  <1>3. ASSUME Insert(i), ~Published(op[i].pkg)
        PROVE  /\ row'[op[i].pkg].status = "draft" /\ row'[op[i].pkg].blob_sha256 = op[i].blob
               /\ \A q \in Package \ {op[i].pkg} : row'[q] = row[q]
               /\ row' \in [Package -> FileRow]
    <2>1. row' = [row EXCEPT ![op[i].pkg] =
                    [status |-> "draft", blob_sha256 |-> op[i].blob, legal_hold |-> FALSE]]
      BY <1>3 DEF Insert
    <2>2. row \in [Package -> FileRow] /\ op[i].pkg \in Package /\ op[i].blob \in Blob
      BY <1>2, <1>3 DEF FilesInv, FilesTypeOK
    <2>3. [status |-> "draft", blob_sha256 |-> op[i].blob, legal_hold |-> FALSE] \in FileRow
      BY <2>2 DEF FileRow, Status
    <2> QED BY <2>1, <2>2, <2>3
  <1> QED BY <1>1, <1>2, <1>3 DEF PublishBegin, Insert

\* What the other steps do to the table: a move, a hold, or the tombstone.
LEMMA RowSteps ==
  ASSUME FilesInv, NEW p \in Package
  PROVE  /\ \A i \in Process, m \in Machine!ReviewTransitions \cup Machine!LifecycleTransitions :
              SetStatus(i, p, m) => /\ row'[p].status = m[2] /\ row'[p].blob_sha256 = row[p].blob_sha256
                                    /\ \A q \in Package \ {p} : row'[q] = row[q]
                                    /\ row' \in [Package -> FileRow]
         /\ \A hold \in BOOLEAN :
              SetLegalHold(p, hold) =>
                /\ row'[p].status = row[p].status /\ row'[p].blob_sha256 = row[p].blob_sha256
                /\ \A q \in Package \ {p} : row'[q] = row[q]
                /\ row' \in [Package -> FileRow]
         /\ \A i \in Process :
              Commit(i) /\ p = op[i].pkg =>
                /\ row'[p].status = "purged" /\ row'[p].blob_sha256 = row[p].blob_sha256
                /\ \A q \in Package \ {p} : row'[q] = row[q]
                /\ row' \in [Package -> FileRow]
  <1>1. row \in [Package -> FileRow] /\ row[p] \in FileRow
    BY DEF FilesInv, FilesTypeOK
  <1>2. ASSUME NEW s \in Status, row' = [row EXCEPT ![p].status = s]
        PROVE  /\ row'[p].status = s /\ row'[p].blob_sha256 = row[p].blob_sha256
               /\ \A q \in Package \ {p} : row'[q] = row[q]
               /\ row' \in [Package -> FileRow]
    <2>1. row' = [row EXCEPT ![p] = [row[p] EXCEPT !.status = s]]
      BY <1>2
    <2>2. [row[p] EXCEPT !.status = s] \in FileRow
      BY <1>1 DEF FileRow
    <2> QED BY <1>1, <2>1, <2>2 DEF FileRow
  <1>3. ASSUME NEW hold \in BOOLEAN, SetLegalHold(p, hold)
        PROVE  /\ row'[p].status = row[p].status /\ row'[p].blob_sha256 = row[p].blob_sha256
               /\ \A q \in Package \ {p} : row'[q] = row[q]
               /\ row' \in [Package -> FileRow]
    <2>1. row' = [row EXCEPT ![p] = [row[p] EXCEPT !.legal_hold = hold]]
      BY <1>3 DEF SetLegalHold
    <2>2. [row[p] EXCEPT !.legal_hold = hold] \in FileRow
      BY <1>1 DEF FileRow
    <2> QED BY <1>1, <2>1, <2>2 DEF FileRow
  <1>4. "purged" \in Status
    BY DEF Status
  <1> QED BY <1>2, <1>3, <1>4, MovesKeepRows DEF SetStatus, Commit

-----------------------------------------------------------------------------
(* The types, and what a purge knows whatever overlaps it. *)

\* One operation is set, and the table left alone.
LEMMA OpStep ==
  ASSUME FilesInv, NEW i \in Process, NEW o \in Op, op' = [op EXCEPT ![i] = o],
         OpSound(o),
         o.pc \in Purging => i = Api /\ row[o.pkg].status \notin {"absent", "approved", "purged"},
         row' = row, files' \subseteq Blob, tmps' \subseteq Blob, doomed' \subseteq Package,
         abandoned' \subseteq Blob, overlapped' \in BOOLEAN
  PROVE  FilesInv'
  <1>1. op \in [Process -> Op] /\ row \in [Package -> FileRow]
    BY DEF FilesInv, FilesTypeOK
  <1>2. op' \in [Process -> Op] /\ op'[i] = o /\ \A j \in Process : j # i => op'[j] = op[j]
    BY <1>1
  <1>3. FilesTypeOK'
    BY <1>1, <1>2 DEF FilesTypeOK
  <1>4. ASSUME NEW j \in Process PROVE OpSound(op'[j]) /\ PurgeSound(j)'
    BY <1>2 DEF FilesInv, PurgeSound
  <1> QED BY <1>3, <1>4 DEF FilesInv, OpSound

\* An operation that is over, or has never begun, is well formed.
LEMMA NoOpIsOp == NoOp \in Op /\ OpSound(NoOp) /\ NoOp.pc = "idle" /\ NoOp.blob = NoBlob
  BY DEF NoOp, Op, OpSound, Publishing, Purging

\* What a publish leaves behind is its content.
LEMMA AbandonedStep ==
  ASSUME FilesInv, FilesNext
  PROVE  abandoned' \subseteq Blob
  <1>0. abandoned \subseteq Blob
    BY DEF FilesInv, FilesTypeOK
  <1>1. ASSUME NEW i \in Process, Insert(i) PROVE abandoned' \subseteq Blob
    BY <1>0, <1>1, PublishSteps DEF Insert
  <1>2. ASSUME NEW i \in Process, BreakOff(i) PROVE abandoned' \subseteq Blob
    BY <1>0, <1>2 DEF BreakOff, FilesInv, OpSound, Publishing
  <1>3. ASSUME NEW i \in Process, Unlink(i) PROVE abandoned' \subseteq Blob
    BY <1>0, <1>3 DEF Unlink
  <1> QED BY <1>0, <1>1, <1>2, <1>3
          DEF FilesNext, FilesStep, PublishBegin, Put, Replace, PurgeBegin, CountReferences,
              Commit, SetStatus, SetLegalHold

\* Every step keeps the types, and what a purge knows.
LEMMA FilesInvStep ==
  ASSUME FilesInv, [FilesNext]_filesVars
  PROVE  FilesInv'
  <1>0. /\ row \in [Package -> FileRow] /\ files \subseteq Blob /\ tmps \subseteq Blob
        /\ op \in [Process -> Op] /\ doomed \subseteq Package
        /\ abandoned \subseteq Blob /\ overlapped \in BOOLEAN
        /\ \A i \in Process : OpSound(op[i]) /\ PurgeSound(i) /\ op[i] \in Op
    BY DEF FilesInv, FilesTypeOK
  <1>n. ASSUME FilesNext PROVE overlapped' \in BOOLEAN /\ abandoned' \subseteq Blob
    BY <1>0, <1>n, AbandonedStep DEF FilesNext
  <1> DEFINE At(i, pc) == [op[i] EXCEPT !.pc = pc]
  <1>g. ASSUME NEW i \in Process, NEW pc \in Publishing \cup Purging
        PROVE  /\ At(i, pc) \in Op /\ At(i, pc).pc = pc /\ At(i, pc).pkg = op[i].pkg
               /\ At(i, pc).blob = op[i].blob
               /\ Goto(i, pc) => op' = [op EXCEPT ![i] = At(i, pc)]
    <2>1. op[i] \in Op
      BY <1>0
    <2>2. At(i, pc) \in Op /\ At(i, pc).pc = pc /\ At(i, pc).pkg = op[i].pkg /\ At(i, pc).blob = op[i].blob
      BY <1>g, <2>1 DEF Op, Publishing, Purging
    <2> QED BY <2>2 DEF Goto
  <1>f. ASSUME NEW i \in Process, Finish(i) PROVE op' = [op EXCEPT ![i] = NoOp]
    BY <1>f DEF Finish
  <1> HIDE DEF At
  <1>1. ASSUME FilesNext, NEW i \in Process, NEW u \in Uploads, PublishBegin(i, u)
        PROVE  FilesInv'
    <2> DEFINE o == [pc |-> "put", pkg |-> u.pkg, blob |-> u.blob, shared |-> FALSE]
    <2>1. /\ u.pkg \in Package /\ u.blob \in Blob /\ op' = [op EXCEPT ![i] = o]
          /\ UNCHANGED <<row, files, tmps, doomed>>
      BY <1>1, PublishSteps DEF PublishBegin
    <2>2. o \in Op /\ OpSound(o) /\ o.pc \notin Purging
      BY <2>1 DEF Op, OpSound, Publishing, Purging
    <2> HIDE DEF o
    <2> QED BY <1>0, <1>1, <1>n, <2>1, <2>2, OpStep
  <1>2. ASSUME FilesNext, NEW i \in Process, Put(i) \/ Replace(i)
        PROVE  FilesInv'
    <2>1. /\ row' = row /\ doomed' = doomed /\ files' \subseteq Blob /\ tmps' \subseteq Blob
          /\ Goto(i, "insert") \/ Goto(i, "replace") \/ Finish(i)
      BY <1>0, <1>2, PublishSteps DEF Put, Replace
    <2>2. op[i].pkg \in Package /\ op[i].blob \in Blob
      BY <1>2, PublishSteps
    <2>3. ASSUME NEW pc \in Publishing, Goto(i, pc)
          PROVE  FilesInv'
      <3>1. At(i, pc) \in Op /\ op' = [op EXCEPT ![i] = At(i, pc)]
            /\ OpSound(At(i, pc)) /\ At(i, pc).pc \notin Purging
        BY <1>g, <2>2, <2>3 DEF OpSound, Publishing, Purging
      <3> QED BY <1>0, <1>2, <1>n, <2>1, <3>1, OpStep
    <2>4. CASE Finish(i)
      <3>1. NoOp.pc \notin Purging
        BY NoOpIsOp DEF Purging
      <3> QED BY <1>0, <1>2, <1>f, <1>n, <2>1, <2>4, <3>1, NoOpIsOp, OpStep
    <2> QED BY <2>1, <2>3, <2>4 DEF Publishing
  <1>3. ASSUME FilesNext, NEW i \in Process, CountReferences(i) \/ Unlink(i)
        PROVE  FilesInv'
    <2>1. op[i].pkg \in Package /\ PurgeSound(i) /\ op[i].pc \in Purging
      BY <1>0, <1>3 DEF CountReferences, Unlink, OpSound, Purging
    <2>2. \E o \in Op : /\ op' = [op EXCEPT ![i] = o] /\ o.pc \in Purging
                        /\ o.pkg = op[i].pkg /\ o.blob = op[i].blob
      <3>1. CASE Unlink(i)
        BY <1>g, <3>1 DEF Unlink, Purging
      <3>2. CASE CountReferences(i)
        <4> DEFINE b == \E q \in Package \ {op[i].pkg} : Live(q) /\ row[q].blob_sha256 = op[i].blob
                   o == [op[i] EXCEPT !.pc = "unlink", !.shared = b]
        <4>1. b \in BOOLEAN
          OBVIOUS
        <4>2. op' = [op EXCEPT ![i] = o]
          BY <3>2 DEF CountReferences
        <4> HIDE DEF b
        <4>3. o \in Op /\ o.pc = "unlink" /\ o.pkg = op[i].pkg /\ o.blob = op[i].blob
          <5>1. op[i] \in Op
            BY <1>0
          <5> QED BY <4>1, <5>1 DEF Op
        <4> HIDE DEF o
        <4> QED BY <4>2, <4>3 DEF Purging
      <3> QED BY <1>3, <3>1, <3>2
    <2>3. PICK o \in Op : /\ op' = [op EXCEPT ![i] = o] /\ o.pc \in Purging
                          /\ o.pkg = op[i].pkg /\ o.blob = op[i].blob
      BY <2>2
    <2>4. OpSound(o) /\ i = Api /\ row[o.pkg].status \notin {"absent", "approved", "purged"}
      BY <2>1, <2>3 DEF OpSound, PurgeSound, Publishing, Purging
    <2>5. row' = row /\ tmps' = tmps /\ files' \subseteq Blob /\ doomed' \subseteq Package
      BY <1>0, <1>3, <2>1 DEF CountReferences, Unlink
    <2> QED BY <1>0, <1>3, <1>n, <2>3, <2>4, <2>5, OpStep
  <1>4. ASSUME FilesNext, NEW p \in Package, PurgeBegin(Api, p)
        PROVE  FilesInv'
    <2> DEFINE o == [pc |-> "count", pkg |-> p, blob |-> row[p].blob_sha256, shared |-> FALSE]
    <2>1. /\ op' = [op EXCEPT ![Api] = o] /\ UNCHANGED <<row, files, tmps, doomed>>
          /\ row[p].status \notin {"absent", "approved", "purged"} /\ Api \in Process
      BY <1>4, FilesAssumption DEF PurgeBegin, Live
    <2>2. o \in Op /\ OpSound(o) /\ o.pkg = p
      <3>1. row[p].blob_sha256 \in Blob \cup {NoBlob}
        BY <1>0 DEF FileRow
      <3> QED BY <3>1 DEF Op, OpSound, Publishing, Purging
    <2> HIDE DEF o
    <2> QED BY <1>0, <1>4, <1>n, <2>1, <2>2, OpStep
  <1>5. ASSUME FilesNext, NEW i \in Process, BreakOff(i)
        PROVE  FilesInv'
    <2>1. op' = [op EXCEPT ![i] = NoOp] /\ UNCHANGED <<row, files, tmps, doomed>>
      BY <1>5, <1>f DEF BreakOff
    <2>2. NoOp.pc \notin Purging
      BY NoOpIsOp DEF Purging
    <2> QED BY <1>0, <1>5, <1>n, <2>1, <2>2, NoOpIsOp, OpStep
  <1>r. ASSUME FilesNext, row' \in [Package -> FileRow], UNCHANGED <<files, tmps, doomed>>,
               \A j \in Process : op'[j] = op[j] \/ op'[j] = NoOp, op' \in [Process -> Op],
               \A j \in Process : op'[j] = op[j] /\ op[j].pc \in Purging =>
                 row'[op[j].pkg].status \notin {"absent", "approved", "purged"}
        PROVE  FilesInv'
    <2>1. FilesTypeOK'
      BY <1>0, <1>n, <1>r DEF FilesTypeOK
    <2>2. ASSUME NEW j \in Process PROVE OpSound(op'[j]) /\ PurgeSound(j)'
      BY <1>0, <1>r, NoOpIsOp DEF PurgeSound, Purging
    <2> QED BY <2>1, <2>2 DEF FilesInv, OpSound
  <1>6. ASSUME FilesNext, NEW i \in Process, Insert(i)
        PROVE  FilesInv'
    <2>1. /\ op' = [op EXCEPT ![i] = NoOp] /\ UNCHANGED <<files, tmps, doomed>>
      BY <1>6, <1>f DEF Insert
    <2>2. \/ /\ ~Published(op[i].pkg) /\ row' \in [Package -> FileRow]
             /\ \A q \in Package \ {op[i].pkg} : row'[q] = row[q]
          \/ row' = row
      BY <1>6, PublishSteps
    <2>3. op' \in [Process -> Op] /\ \A j \in Process : op'[j] = op[j] \/ op'[j] = NoOp
      BY <1>0, <2>1, NoOpIsOp
    <2>4. row' \in [Package -> FileRow]
      BY <1>0, <2>2
    <2>5. ASSUME NEW j \in Process, op[j].pc \in Purging
          PROVE  row'[op[j].pkg].status \notin {"absent", "approved", "purged"}
      <3>1. op[j].pkg \in Package /\ row[op[j].pkg].status \notin {"absent", "approved", "purged"}
        BY <1>0, <2>5 DEF OpSound, PurgeSound
      <3> QED BY <2>2, <3>1 DEF Published
    <2> QED BY <1>6, <1>r, <2>1, <2>3, <2>4, <2>5
  <1>7. ASSUME FilesNext, NEW i \in Process, Commit(i)
        PROVE  FilesInv'
    <2>1. /\ op' = [op EXCEPT ![i] = NoOp] /\ UNCHANGED <<files, tmps, doomed>>
          /\ op[i].pc = "commit"
      BY <1>7, <1>f DEF Commit
    <2>2. op[i].pkg \in Package /\ i = Api
      BY <1>0, <2>1 DEF OpSound, PurgeSound, Purging
    <2>3. op' \in [Process -> Op] /\ op'[i] = NoOp /\ \A j \in Process : j # i => op'[j] = op[j]
      BY <1>0, <2>1, NoOpIsOp
    <2>4. row' \in [Package -> FileRow]
      BY <1>7, <2>2, RowSteps
    <2>5. ASSUME NEW j \in Process, op'[j] = op[j], op[j].pc \in Purging PROVE FALSE
      <3>1. j = Api
        BY <1>0, <2>5 DEF PurgeSound
      <3> QED BY <2>2, <2>3, <2>5, <3>1, NoOpIsOp DEF Purging
    <2> QED BY <1>7, <1>r, <2>1, <2>3, <2>4, <2>5
  <1>8. ASSUME FilesNext, NEW i \in Process, NEW p \in Package,
               NEW m \in Machine!ReviewTransitions \cup Machine!LifecycleTransitions, SetStatus(i, p, m)
        PROVE  FilesInv'
    <2>1. /\ row'[p].status = m[2] /\ row[p].status = m[1]
          /\ \A q \in Package \ {p} : row'[q] = row[q]
          /\ row' \in [Package -> FileRow] /\ UNCHANGED <<files, tmps, op, doomed>>
          /\ op[i].pc = "idle" /\ (i = Api \/ m = <<"draft", "in_review">>)
      BY <1>8, RowSteps DEF SetStatus
    <2>2. ASSUME NEW j \in Process, op[j].pc \in Purging
          PROVE  row'[op[j].pkg].status \notin {"absent", "approved", "purged"}
      <3>1. op[j].pkg \in Package /\ j = Api /\ row[op[j].pkg].status \notin {"absent", "approved", "purged"}
        BY <1>0, <2>2 DEF OpSound, PurgeSound
      <3>2. m[2] = "in_review"
        BY <2>1, <2>2, <3>1 DEF Purging
      <3> QED BY <2>1, <3>1, <3>2
    <2> QED BY <1>0, <1>8, <1>r, <2>1, <2>2
  <1>9. ASSUME FilesNext, NEW p \in Package, NEW hold \in BOOLEAN, SetLegalHold(p, hold)
        PROVE  FilesInv'
    <2>1. /\ row'[p].status = row[p].status
          /\ \A q \in Package \ {p} : row'[q] = row[q]
          /\ row' \in [Package -> FileRow] /\ UNCHANGED <<files, tmps, op, doomed>>
      BY <1>9, RowSteps DEF SetLegalHold
    <2>2. ASSUME NEW j \in Process, op[j].pc \in Purging
          PROVE  row'[op[j].pkg].status \notin {"absent", "approved", "purged"}
      BY <1>0, <2>1, <2>2 DEF OpSound, PurgeSound
    <2> QED BY <1>0, <1>9, <1>r, <2>1, <2>2
  <1>10. CASE UNCHANGED filesVars
    BY <1>10 DEF filesVars, FilesInv, FilesTypeOK, PurgeSound, OpSound
  <1> QED BY <1>1, <1>2, <1>3, <1>4, <1>5, <1>6, <1>7, <1>8, <1>9, <1>10 DEF FilesNext, FilesStep

-----------------------------------------------------------------------------
(* What holds while operations do not overlap. *)

\* When one process is inside an operation before or after a step of its own,
\* and nothing overlaps, all the others are idle.
LEMMA OthersIdle ==
  ASSUME FilesInv, AloneInv, FilesNext, ~overlapped', NEW i \in Process,
         op[i].pc # "idle" \/ op'[i].pc # "idle",
         \A j \in Process : j # i => op'[j] = op[j]
  PROVE  /\ ~overlapped /\ BytesSurvive /\ \A j \in Process : Alone(j)
         /\ \A j \in Process : j # i => op'[j] = NoOp /\ op[j] = NoOp
         /\ \A j, k \in Process : j # k => op'[j] = NoOp \/ op'[k] = NoOp
  <1>1. ~overlapped /\ \A j, k \in Process : j # k => op'[j] = NoOp \/ op'[k] = NoOp
    BY DEF FilesNext
  <1>2. op[i] # NoOp \/ op'[i] # NoOp
    BY NoOpIsOp
  <1>3. \A j, k \in Process : j # k => op[j] = NoOp \/ op[k] = NoOp
    BY <1>1 DEF AloneInv
  <1>4. \A j \in Process : j # i => op'[j] = NoOp /\ op[j] = NoOp
    BY <1>1, <1>2, <1>3
  <1> QED BY <1>1, <1>4 DEF AloneInv

\* The files, as a step of one process leaves them, when it is the only one.
LEMMA AloneStepOf ==
  ASSUME FilesInv, AloneInv, FilesNext, ~overlapped', NEW i \in Process,
         op[i].pc # "idle" \/ op'[i].pc # "idle",
         \A j \in Process : j # i => op'[j] = op[j],
         Alone(i)', BytesSurvive'
  PROVE  AloneInv'
  <1>1. /\ \A j \in Process : j # i => op'[j] = NoOp
        /\ \A j, k \in Process : j # k => op'[j] = NoOp \/ op'[k] = NoOp
    BY OthersIdle
  <1>2. ASSUME NEW j \in Process, j # i PROVE Alone(j)'
    <2>1. op'[j] = NoOp /\ NoOp.pc = "idle"
      BY <1>1, <1>2, NoOpIsOp
    <2> QED BY <2>1 DEF Alone, Publishing, Purging
  <1> QED BY <1>1, <1>2 DEF AloneInv

\* publish, when it is the only operation.
LEMMA PublishAlone ==
  ASSUME FilesInv, FilesInv', AloneInv, FilesNext, ~overlapped', NEW i \in Process,
         \/ \E u \in Uploads : PublishBegin(i, u)
         \/ Put(i) \/ Replace(i) \/ Insert(i)
  PROVE  AloneInv'
  <1>0. /\ op \in [Process -> Op] /\ row \in [Package -> FileRow]
        /\ ~overlapped /\ BytesSurvive /\ Alone(i) /\ OpSound(op[i])
    BY DEF FilesInv, FilesTypeOK, AloneInv, FilesNext
  <1> DEFINE Rest == \A j \in Process : j # i => op'[j] = op[j]
  <1>1. CASE \E u \in Uploads : PublishBegin(i, u)
    <2>1. PICK u \in Uploads : PublishBegin(i, u)
      BY <1>1
    <2> DEFINE o == [pc |-> "put", pkg |-> u.pkg, blob |-> u.blob, shared |-> FALSE]
    <2>2. op' = [op EXCEPT ![i] = o] /\ ~Published(u.pkg) /\ UNCHANGED <<row, files, tmps, doomed>>
      BY <2>1, PublishSteps DEF PublishBegin
    <2>3. op'[i] = o /\ o.pc = "put" /\ o.pkg = u.pkg /\ Rest
      BY <1>0, <2>2
    <2> HIDE DEF o
    <2>4. Alone(i)'
      BY <2>2, <2>3 DEF Alone, Published, Publishing, Purging
    <2>5. BytesSurvive'
      BY <1>0, <2>2 DEF BytesSurvive, Live
    <2> QED BY <2>3, <2>4, <2>5, AloneStepOf
  <1>2. CASE Put(i)
    <2>1. /\ op'[i].pc \in {"insert", "replace"} /\ op'[i].pkg = op[i].pkg /\ op'[i].blob = op[i].blob
          /\ op'[i].pc = "insert" => op[i].blob \in files
          /\ op'[i].pc = "replace" => op[i].blob \in tmps'
          /\ Rest /\ UNCHANGED <<row, files, doomed>> /\ op[i].pc = "put"
      <3>1. op[i] \in Op /\ i \in DOMAIN op
        BY <1>0
      <3> QED BY <1>0, <1>2, <3>1 DEF Put, Goto, Op
    <2>2. Alone(i)'
      BY <1>0, <2>1 DEF Alone, Published, Publishing, Purging
    <2>3. BytesSurvive'
      BY <1>0, <2>1 DEF BytesSurvive, Live
    <2> QED BY <2>1, <2>2, <2>3, AloneStepOf
  <1>3. CASE Replace(i)
    <2>1. op[i].pc = "replace" /\ op[i].blob \in tmps
      BY <1>0, <1>3 DEF Replace, Alone
    <2>2. /\ op'[i].pc = "insert" /\ op'[i].pkg = op[i].pkg /\ op'[i].blob = op[i].blob
          /\ files' = files \cup {op[i].blob} /\ Rest /\ UNCHANGED <<row, doomed>>
      <3>1. op[i] \in Op /\ i \in DOMAIN op
        BY <1>0
      <3> QED BY <1>0, <1>3, <2>1, <3>1 DEF Replace, Goto, Op
    <2>3. Alone(i)'
      BY <1>0, <2>1, <2>2 DEF Alone, Published, Publishing, Purging
    <2>4. BytesSurvive'
      BY <1>0, <2>2 DEF BytesSurvive, Live
    <2> QED BY <2>1, <2>2, <2>3, <2>4, AloneStepOf
  <1>4. CASE Insert(i)
    <2>1. /\ op' = [op EXCEPT ![i] = NoOp] /\ UNCHANGED <<files, tmps, doomed>> /\ op[i].pc = "insert"
      BY <1>4 DEF Insert, Finish
    <2>2. op'[i] = NoOp /\ Rest
      BY <1>0, <2>1
    <2>3. op[i].blob \in files
      BY <1>0, <2>1 DEF Alone
    <2>4. Alone(i)'
      BY <2>2, NoOpIsOp DEF Alone, Publishing, Purging
    <2>5. BytesSurvive'
      BY <1>0, <1>4, <2>1, <2>3, PublishSteps DEF BytesSurvive, Live
    <2> QED BY <2>1, <2>2, <2>4, <2>5, AloneStepOf
  <1> QED BY <1>1, <1>2, <1>3, <1>4

\* purge, when it is the only operation: a file goes only when nobody live has it.
LEMMA PurgeAlone ==
  ASSUME FilesInv, FilesInv', AloneInv, FilesNext, ~overlapped', NEW i \in Process,
         \/ i = Api /\ \E p \in Package : PurgeBegin(Api, p)
         \/ CountReferences(i) \/ Unlink(i) \/ Commit(i)
  PROVE  AloneInv'
  <1>0. /\ op \in [Process -> Op] /\ row \in [Package -> FileRow]
        /\ ~overlapped /\ BytesSurvive /\ Alone(i) /\ OpSound(op[i])
    BY DEF FilesInv, FilesTypeOK, AloneInv, FilesNext
  <1> DEFINE Rest == \A j \in Process : j # i => op'[j] = op[j]
  <1>1. CASE i = Api /\ \E p \in Package : PurgeBegin(Api, p)
    <2>1. PICK p \in Package : PurgeBegin(i, p)
      BY <1>1
    <2> DEFINE o == [pc |-> "count", pkg |-> p, blob |-> row[p].blob_sha256, shared |-> FALSE]
    <2>2. op' = [op EXCEPT ![i] = o] /\ UNCHANGED <<row, files, tmps, doomed>>
      BY <2>1 DEF PurgeBegin
    <2>3. op'[i] = o /\ o.pc = "count" /\ o.pkg = p /\ o.blob = row[p].blob_sha256 /\ Rest
      BY <1>0, <2>2
    <2> HIDE DEF o
    <2>4. Alone(i)'
      BY <2>2, <2>3 DEF Alone, Publishing, Purging
    <2>5. BytesSurvive'
      BY <1>0, <2>2 DEF BytesSurvive, Live
    <2> QED BY <2>3, <2>4, <2>5, AloneStepOf
  <1>2. CASE CountReferences(i)
    <2> DEFINE b == \E q \in Package \ {op[i].pkg} : Live(q) /\ row[q].blob_sha256 = op[i].blob
               o == [op[i] EXCEPT !.pc = "unlink", !.shared = b]
    <2>1. op' = [op EXCEPT ![i] = o] /\ UNCHANGED <<row, files, tmps, doomed>> /\ op[i].pc = "count"
      BY <1>2 DEF CountReferences
    <2>2. o.pc = "unlink" /\ o.pkg = op[i].pkg /\ o.blob = op[i].blob /\ (o.shared <=> b)
      <3>1. op[i] \in Op
        BY <1>0
      <3> HIDE DEF b
      <3> QED BY <3>1 DEF Op
    <2>3. b <=> SharedBy(i)
      BY DEF SharedBy
    <2> HIDE DEF b, o
    <2>4. op'[i] = o /\ Rest
      BY <1>0, <2>1
    <2>5. SharedBy(i)' <=> SharedBy(i)
      BY <2>1, <2>2, <2>4 DEF SharedBy, Live
    <2>6. row[op[i].pkg].blob_sha256 = op[i].blob
      BY <1>0, <2>1 DEF Alone, Purging
    <2>7. Alone(i)'
      BY <2>1, <2>2, <2>3, <2>4, <2>5, <2>6 DEF Alone, Publishing, Purging
    <2>8. BytesSurvive'
      BY <1>0, <2>1 DEF BytesSurvive, Live
    <2> QED BY <2>1, <2>4, <2>7, <2>8, AloneStepOf
  <1>3. CASE Unlink(i)
    <2>1. /\ op'[i].pc = "commit" /\ op'[i].pkg = op[i].pkg /\ op'[i].blob = op[i].blob
          /\ Rest /\ UNCHANGED row /\ op[i].pc = "unlink"
          /\ doomed' = doomed \cup {op[i].pkg}
          /\ files' = IF op[i].shared THEN files ELSE files \ {op[i].blob}
      <3>1. op[i] \in Op /\ i \in DOMAIN op
        BY <1>0
      <3> QED BY <1>0, <1>3, <3>1 DEF Unlink, Bytes, Goto, Op
    <2>2. /\ row[op[i].pkg].blob_sha256 = op[i].blob
          /\ op[i].shared <=> SharedBy(i)
          /\ SharedBy(i)' <=> SharedBy(i)
      BY <1>0, <2>1 DEF Alone, Purging, SharedBy, Live
    <2>3. Alone(i)'
      BY <2>1, <2>2 DEF Alone, Publishing, Purging
    <2>4. BytesSurvive'
      <3> SUFFICES ASSUME NEW p \in Package, Live(p), p \notin doomed, p # op[i].pkg
                   PROVE  row[p].blob_sha256 \in files'
        BY <2>1 DEF BytesSurvive, Live
      <3>1. row[p].blob_sha256 \in files
        BY <1>0 DEF BytesSurvive
      <3>2. row[p].blob_sha256 = op[i].blob => SharedBy(i)
        BY DEF SharedBy
      <3> QED BY <2>1, <2>2, <3>1, <3>2
    <2> QED BY <2>1, <2>3, <2>4, AloneStepOf
  <1>4. CASE Commit(i)
    <2>1. /\ op' = [op EXCEPT ![i] = NoOp] /\ UNCHANGED <<files, tmps, doomed>> /\ op[i].pc = "commit"
      BY <1>4 DEF Commit, Finish
    <2>2. op'[i] = NoOp /\ Rest
      BY <1>0, <2>1
    <2>3. Alone(i)'
      BY <2>2, NoOpIsOp DEF Alone, Publishing, Purging
    <2>4. op[i].pkg \in Package
      BY <1>0, <2>1 DEF OpSound, Purging
    <2>5. BytesSurvive'
      BY <1>0, <1>4, <2>1, <2>4, RowSteps DEF BytesSurvive, Live
    <2> QED BY <2>1, <2>2, <2>3, <2>5, AloneStepOf
  <1> QED BY <1>1, <1>2, <1>3, <1>4

\* A status move or a hold: the same versions are live, with the same bytes.
LEMMA MovesKeepAlone ==
  ASSUME FilesInv, AloneInv, FilesNext, UNCHANGED <<files, tmps, op, doomed>>,
         \A p \in Package : /\ row'[p].blob_sha256 = row[p].blob_sha256
                            /\ Live(p)' <=> Live(p)
                            /\ Published(p)' <=> Published(p)
  PROVE  AloneInv'
  <1> SUFFICES ASSUME ~overlapped' PROVE AloneInv'
    BY DEF AloneInv
  <1>1. ~overlapped
    BY DEF FilesNext
  <1>2. ASSUME NEW i \in Process PROVE Alone(i)'
    <2>1. Alone(i) /\ OpSound(op[i])
      BY <1>1 DEF AloneInv, FilesInv
    <2>2. SharedBy(i)' <=> SharedBy(i)
      BY DEF SharedBy
    <2> QED BY <2>1, <2>2 DEF Alone, OpSound, Publishing, Purging
  <1>3. BytesSurvive'
    BY <1>1 DEF BytesSurvive, AloneInv
  <1>4. \A j, k \in Process : j # k => op'[j] = NoOp \/ op'[k] = NoOp
    BY <1>1 DEF AloneInv
  <1> QED BY <1>2, <1>3, <1>4 DEF AloneInv

\* A move of the status keeps what is live and what is published.
LEMMA StatusKeepsLive ==
  ASSUME FilesInv, NEW i \in Process, NEW p \in Package,
         NEW m \in Machine!ReviewTransitions \cup Machine!LifecycleTransitions, SetStatus(i, p, m)
  PROVE  /\ \A q \in Package : /\ row'[q].blob_sha256 = row[q].blob_sha256
                               /\ Live(q)' <=> Live(q)
                               /\ Published(q)' <=> Published(q)
         /\ UNCHANGED <<files, tmps, op, doomed>>
  <1>1. /\ row[p].status = m[1] /\ row'[p].status = m[2] /\ row'[p].blob_sha256 = row[p].blob_sha256
        /\ \A q \in Package \ {p} : row'[q] = row[q]
        /\ UNCHANGED <<files, tmps, op, doomed>>
    BY RowSteps DEF SetStatus
  <1> QED BY <1>1, MovesKeepRows DEF Live, Published

\* So does a hold.
LEMMA HoldKeepsLive ==
  ASSUME FilesInv, NEW p \in Package, NEW hold \in BOOLEAN, SetLegalHold(p, hold)
  PROVE  /\ \A q \in Package : /\ row'[q].blob_sha256 = row[q].blob_sha256
                               /\ Live(q)' <=> Live(q)
                               /\ Published(q)' <=> Published(q)
         /\ UNCHANGED <<files, tmps, op, doomed>>
  <1>1. /\ row'[p].status = row[p].status /\ row'[p].blob_sha256 = row[p].blob_sha256
        /\ \A q \in Package \ {p} : row'[q] = row[q]
        /\ UNCHANGED <<files, tmps, op, doomed>>
    BY RowSteps DEF SetLegalHold
  <1> QED BY <1>1 DEF Live, Published

\* Every step, broken operations included, keeps what a lone operation knows.
LEMMA AloneStep ==
  ASSUME FilesInv, FilesInv', AloneInv, [FilesNext]_filesVars
  PROVE  AloneInv'
  <1>1. CASE UNCHANGED filesVars
    BY <1>1 DEF filesVars, AloneInv, Alone, SharedBy, BytesSurvive, Live, Published
  <1> SUFFICES ASSUME FilesNext, ~overlapped' PROVE AloneInv'
    BY <1>1 DEF AloneInv
  <1>2. ASSUME NEW i \in Process, BreakOff(i)
        PROVE  AloneInv'
    <2>1. op' = [op EXCEPT ![i] = NoOp] /\ UNCHANGED <<row, files, tmps, doomed>> /\ op[i] # NoOp
      BY <1>2 DEF BreakOff, Finish
    <2>2. op \in [Process -> Op] /\ OpSound(op[i]) /\ ~overlapped
      BY DEF FilesInv, FilesTypeOK, FilesNext
    <2>3. /\ op'[i] = NoOp /\ \A j \in Process : j # i => op'[j] = op[j]
      BY <2>1, <2>2
    <2>4. Alone(i)' /\ BytesSurvive'
      BY <2>1, <2>2, <2>3, NoOpIsOp DEF Alone, Publishing, Purging, BytesSurvive, AloneInv, Live
    <2>5. op[i].pc # "idle"
      BY <2>1, <2>2 DEF OpSound
    <2> QED BY <2>3, <2>4, <2>5, AloneStepOf
  <1>3. ASSUME NEW i \in Process, NEW p \in Package,
               NEW m \in Machine!ReviewTransitions \cup Machine!LifecycleTransitions, SetStatus(i, p, m)
        PROVE  AloneInv'
    BY <1>3, StatusKeepsLive, MovesKeepAlone
  <1>4. ASSUME NEW p \in Package, NEW hold \in BOOLEAN, SetLegalHold(p, hold)
        PROVE  AloneInv'
    BY <1>4, HoldKeepsLive, MovesKeepAlone
  <1>5. Api \in Process
    BY FilesAssumption
  <1> QED BY <1>2, <1>3, <1>4, <1>5, PublishAlone, PurgeAlone DEF FilesNext, FilesStep

-----------------------------------------------------------------------------
(* Every file is accounted for. *)

\* A publish about to insert its row, or a leftover marked as such.
Pending(b) ==
  \/ \E i \in Process : op[i].pc = "insert" /\ op[i].blob = b
  \/ b \in abandoned

\* What a purge still knows when other processes publish meanwhile: its own
\* content, that a version it has counted keeps that content, and that once it
\* has deleted the file only somebody else can have brought it back.
PurgeAccounts(i) ==
  /\ op[i].pc \in Purging => row[op[i].pkg].blob_sha256 = op[i].blob
  /\ op[i].pc = "unlink" /\ op[i].shared => SharedBy(i)
  /\ op[i].pc = "commit" /\ op[i].blob \in files => SharedBy(i) \/ Pending(op[i].blob)

StrayInv ==
  /\ NoStrayFiles
  /\ \A i \in Process : PurgeAccounts(i)

\* A row about to be inserted, or a leftover, stays so or becomes a new row; only
\* a purge deletes leftovers.
LEMMA PendingStep ==
  ASSUME FilesInv, FilesNext, \A i \in Process : ~Unlink(i), NEW b \in Blob, Pending(b)
  PROVE  \/ Pending(b)'
         \/ \E p \in Package : ~Published(p) /\ Live(p)' /\ row'[p].blob_sha256 = b
  <1>0. op \in [Process -> Op] /\ \A i \in Process : op[i] \in Op
    BY DEF FilesInv, FilesTypeOK
  <1>a. ASSUME NEW i \in Process, \A j \in Process : j # i => op'[j] = op[j],
               op[i].pc # "insert", abandoned' = abandoned
        PROVE  Pending(b)'
    BY <1>a DEF Pending
  <1>1. ASSUME NEW i \in Process,
               \/ \E u \in Uploads : PublishBegin(i, u)
               \/ Put(i) \/ Replace(i) \/ CountReferences(i) \/ Commit(i)
               \/ i = Api /\ \E p \in Package : PurgeBegin(Api, p)
        PROVE  Pending(b)'
    <2>1. op[i].pc # "insert" /\ abandoned' = abandoned
      BY <1>1 DEF PublishBegin, Put, Replace, CountReferences, Commit, PurgeBegin
    <2>2. \E o : op' = [op EXCEPT ![i] = o]
      BY <1>1 DEF PublishBegin, Put, Replace, CountReferences, Commit, PurgeBegin, Goto, Finish
    <2> QED BY <1>0, <1>a, <2>1, <2>2
  <1>2. ASSUME NEW i \in Process, Insert(i)
        PROVE  \/ Pending(b)'
               \/ \E p \in Package : ~Published(p) /\ Live(p)' /\ row'[p].blob_sha256 = b
    <2>1. op[i].pkg \in Package /\ \A j \in Process : j # i => op'[j] = op[j]
      BY <1>0, <1>2, PublishSteps DEF Insert, Finish
    <2>2. CASE Published(op[i].pkg)
      <3>1. abandoned' = abandoned \cup {op[i].blob}
        BY <1>2, <2>2 DEF Insert
      <3> QED BY <2>1, <3>1 DEF Pending
    <2>3. CASE ~Published(op[i].pkg)
      <3>1. /\ abandoned' = abandoned \ {op[i].blob}
            /\ row'[op[i].pkg].status = "draft" /\ row'[op[i].pkg].blob_sha256 = op[i].blob
        BY <1>2, <2>3, PublishSteps DEF Insert
      <3>2. CASE b = op[i].blob
        BY <2>1, <2>3, <3>1, <3>2 DEF Live
      <3>3. CASE b # op[i].blob
        BY <2>1, <3>1, <3>3 DEF Pending
      <3> QED BY <3>2, <3>3
    <2> QED BY <2>2, <2>3
  <1>3. ASSUME NEW i \in Process, BreakOff(i) PROVE Pending(b)'
    <2>1. \A j \in Process : j # i => op'[j] = op[j]
      BY <1>0, <1>3 DEF BreakOff, Finish
    <2>2. abandoned \subseteq abandoned' /\ (op[i].pc = "insert" => op[i].blob \in abandoned')
      BY <1>3 DEF BreakOff
    <2> QED BY <2>1, <2>2 DEF Pending
  <1>4. ASSUME UNCHANGED <<op, abandoned>> PROVE Pending(b)'
    BY <1>4 DEF Pending
  <1>5. Api \in Process
    BY FilesAssumption
  <1> QED BY <1>1, <1>2, <1>3, <1>4, <1>5 DEF FilesNext, FilesStep, SetStatus, SetLegalHold

\* Only a tombstone ends the life of a version, and no step rewrites its content.
LEMMA LiveStep ==
  ASSUME FilesInv, FilesNext, NEW q \in Package, Live(q),
         \A i \in Process : Commit(i) => op[i].pkg # q
  PROVE  Live(q)' /\ row'[q].blob_sha256 = row[q].blob_sha256
  <1>1. ASSUME row' = row PROVE Live(q)' /\ row'[q].blob_sha256 = row[q].blob_sha256
    BY <1>1 DEF Live
  <1>2. ASSUME NEW i \in Process, Insert(i)
        PROVE  Live(q)' /\ row'[q].blob_sha256 = row[q].blob_sha256
    BY <1>2, PublishSteps DEF Live, Published
  <1>3. ASSUME NEW i \in Process, Commit(i)
        PROVE  Live(q)' /\ row'[q].blob_sha256 = row[q].blob_sha256
    <2>1. op[i].pkg \in Package /\ op[i].pkg # q
      BY <1>3 DEF Commit, FilesInv, OpSound, Purging
    <2> QED BY <1>3, <2>1, RowSteps DEF Live
  <1>4. ASSUME NEW i \in Process, NEW p \in Package,
               NEW m \in Machine!ReviewTransitions \cup Machine!LifecycleTransitions, SetStatus(i, p, m)
        PROVE  Live(q)' /\ row'[q].blob_sha256 = row[q].blob_sha256
    BY <1>4, StatusKeepsLive
  <1>5. ASSUME NEW p \in Package, NEW hold \in BOOLEAN, SetLegalHold(p, hold)
        PROVE  Live(q)' /\ row'[q].blob_sha256 = row[q].blob_sha256
    BY <1>5, HoldKeepsLive
  <1> QED BY <1>1, <1>2, <1>3, <1>4, <1>5
          DEF FilesNext, FilesStep, PublishBegin, Put, Replace, CountReferences, Unlink,
              PurgeBegin, BreakOff

\* A file appears only for a publish that goes on to insert its row.
LEMMA FileStep ==
  ASSUME FilesInv, FilesNext, NEW b \in files'
  PROVE  b \in files \/ Pending(b)'
  <1>1. ASSUME NEW i \in Process, Replace(i), b \notin files PROVE Pending(b)'
    <2>1. op[i] \in Op /\ op \in [Process -> Op] /\ op[i].blob \in tmps /\ b = op[i].blob
      BY <1>1 DEF Replace, FilesInv, FilesTypeOK
    <2>2. op'[i].pc = "insert" /\ op'[i].blob = b
      BY <1>1, <2>1 DEF Replace, Goto, Op
    <2> QED BY <2>2 DEF Pending
  <1> QED BY <1>1
          DEF FilesNext, FilesStep, PublishBegin, Put, Insert, CountReferences, Unlink, Commit,
              PurgeBegin, BreakOff, SetStatus, SetLegalHold

\* Every step keeps each file accounted for.
LEMMA StrayStep ==
  ASSUME FilesInv, FilesInv', StrayInv, [FilesNext]_filesVars
  PROVE  StrayInv'
  <1>1. CASE UNCHANGED filesVars
    BY <1>1 DEF filesVars, StrayInv, NoStrayFiles, PurgeAccounts, SharedBy, Pending, Live
  <1> SUFFICES ASSUME FilesNext PROVE StrayInv'
    BY <1>1
  <1>0. /\ op \in [Process -> Op] /\ row \in [Package -> FileRow]
        /\ files \subseteq Blob /\ files' \subseteq Blob
        /\ \A i \in Process : /\ OpSound(op[i]) /\ PurgeSound(i) /\ PurgeAccounts(i) /\ op[i] \in Op
                              /\ PurgeSound(i)'
    BY DEF FilesInv, FilesTypeOK, StrayInv
  <1>a. \A b \in files : Pending(b) \/ \E p \in Package : Live(p) /\ row[p].blob_sha256 = b
    BY DEF StrayInv, NoStrayFiles, Pending
  <1>b. ASSUME NEW i \in Process, Unlink(i)
        PROVE  StrayInv'
    <2>1. /\ op'[i].pc = "commit" /\ op'[i].pkg = op[i].pkg /\ op'[i].blob = op[i].blob
          /\ op[i].pc = "unlink" /\ \A j \in Process : j # i => op'[j] = op[j]
          /\ row' = row /\ files' = files \ Bytes(i) /\ abandoned' = abandoned \ Bytes(i)
      <3>1. op[i] \in Op /\ i \in DOMAIN op
        BY <1>0
      <3> QED BY <1>0, <1>b, <3>1 DEF Unlink, Goto, Op
    <2>2. ASSUME NEW b \in files', Pending(b) PROVE Pending(b)'
      BY <2>1, <2>2 DEF Pending
    <2>3. NoStrayFiles'
      BY <1>a, <2>1, <2>2 DEF NoStrayFiles, Pending, Live
    <2>4. PurgeAccounts(i)'
      <3>1. row[op[i].pkg].blob_sha256 = op[i].blob /\ (op[i].shared => SharedBy(i))
        BY <1>0, <2>1 DEF PurgeAccounts, Purging
      <3>2. op[i].blob \in files' => op[i].shared
        BY <2>1 DEF Bytes
      <3>3. SharedBy(i) => SharedBy(i)'
        BY <2>1 DEF SharedBy, Live
      <3> QED BY <2>1, <3>1, <3>2, <3>3 DEF PurgeAccounts
    <2>5. ASSUME NEW j \in Process, j # i PROVE PurgeAccounts(j)'
      <3>1. op'[j].pc \notin Purging
        BY <1>0, <2>1, <2>5 DEF PurgeSound, Purging
      <3> QED BY <3>1 DEF PurgeAccounts, Purging
    <2> QED BY <2>3, <2>4, <2>5 DEF StrayInv
  <1>c. ASSUME NEW i \in Process, Commit(i)
        PROVE  StrayInv'
    <2>1. op' = [op EXCEPT ![i] = NoOp] /\ files' = files /\ op[i].pc = "commit"
      BY <1>c DEF Commit, Finish
    <2>2. \A k \in Process : Commit(k) => k = i
      BY <1>0, <2>1 DEF Commit, PurgeSound, Purging
    <2>3. /\ op[i].pkg \in Package /\ row[op[i].pkg].blob_sha256 = op[i].blob
          /\ op[i].blob \in files => SharedBy(i) \/ Pending(op[i].blob)
      BY <1>0, <2>1 DEF PurgeAccounts, OpSound, Purging
    <2>4. \A q \in Package : Live(q) /\ q # op[i].pkg => Live(q)' /\ row'[q].blob_sha256 = row[q].blob_sha256
      BY <2>2, LiveStep
    <2>5. \A k \in Process : ~Unlink(k)
      BY <1>0, <2>1 DEF Unlink, PurgeSound, Purging
    <2>6. ASSUME NEW b \in files'
          PROVE  Pending(b)' \/ \E p \in Package : Live(p)' /\ row'[p].blob_sha256 = b
      <3>1. b \in files /\ b \in Blob
        BY <1>0, <2>1
      <3>2. CASE Pending(b)
        BY <2>5, <3>1, <3>2, PendingStep
      <3>3. ASSUME NEW p \in Package, Live(p), row[p].blob_sha256 = b, p # op[i].pkg
            PROVE  \E q \in Package : Live(q)' /\ row'[q].blob_sha256 = b
        BY <2>4, <3>3
      <3>4. CASE b = op[i].blob
        BY <2>3, <3>1, <3>2, <3>3, <3>4 DEF SharedBy
      <3>5. CASE b # op[i].blob
        BY <1>a, <2>3, <3>1, <3>2, <3>3, <3>5
      <3> QED BY <3>4, <3>5
    <2>7. NoStrayFiles'
      BY <2>6 DEF NoStrayFiles, Pending
    <2>8. ASSUME NEW j \in Process PROVE PurgeAccounts(j)'
      <3>1. op'[j].pc \notin Purging
        BY <1>0, <2>1, NoOpIsOp DEF PurgeSound, Purging
      <3> QED BY <3>1 DEF PurgeAccounts, Purging
    <2> QED BY <2>7, <2>8 DEF StrayInv
  <1>d. ASSUME \A i \in Process : ~Unlink(i) /\ ~Commit(i)
        PROVE  StrayInv'
    <2>1. \A q \in Package : Live(q) => Live(q)' /\ row'[q].blob_sha256 = row[q].blob_sha256
      BY <1>d, LiveStep
    <2>2. \A b \in Blob : Pending(b) => \/ Pending(b)'
             \/ \E p \in Package : ~Published(p) /\ Live(p)' /\ row'[p].blob_sha256 = b
      BY <1>d, PendingStep
    <2>3. \A b \in files' : b \in Blob /\ (b \in files \/ Pending(b)')
      BY <1>0, FileStep
    <2>4. NoStrayFiles'
      <3>1. \A b \in files' : Pending(b)' \/ \E p \in Package : Live(p)' /\ row'[p].blob_sha256 = b
        BY <1>a, <2>1, <2>2, <2>3
      <3> QED BY <3>1 DEF NoStrayFiles, Pending
    <2>5. ASSUME NEW j \in Process, op'[j] = op[j], op[j].pc \in Purging PROVE PurgeAccounts(j)'
      <3>1. op[j].pkg \in Package /\ Live(op[j].pkg) /\ PurgeAccounts(j)
        BY <1>0, <2>5 DEF PurgeSound, OpSound, Live
      <3>2. SharedBy(j) => SharedBy(j)'
        BY <2>1, <2>5 DEF SharedBy
      <3>3. ASSUME op[j].pc = "commit", op[j].blob \in files'
            PROVE  SharedBy(j)' \/ Pending(op[j].blob)'
        <4>1. CASE Pending(op[j].blob)
          <5>1. ASSUME NEW p \in Package, ~Published(p), Live(p)', row'[p].blob_sha256 = op[j].blob
                PROVE  SharedBy(j)'
            <6>1. p # op[j].pkg
              BY <3>1, <5>1 DEF Live, Published
            <6> QED BY <2>5, <5>1, <6>1 DEF SharedBy
          <5> QED BY <2>2, <2>3, <2>5, <3>3, <4>1, <5>1 DEF Pending
        <4>2. CASE op[j].blob \notin files
          BY <2>3, <2>5, <3>3, <4>2 DEF Pending
        <4> QED BY <3>1, <3>2, <3>3, <4>1, <4>2 DEF PurgeAccounts
      <3>4. row'[op[j].pkg].blob_sha256 = op[j].blob
        BY <2>1, <2>5, <3>1 DEF PurgeAccounts
      <3> QED BY <2>5, <3>1, <3>2, <3>3, <3>4 DEF PurgeAccounts
    <2>6. ASSUME NEW j \in Process, CountReferences(j) PROVE PurgeAccounts(j)'
      <3> DEFINE b == \E q \in Package \ {op[j].pkg} : Live(q) /\ row[q].blob_sha256 = op[j].blob
                 o == [op[j] EXCEPT !.pc = "unlink", !.shared = b]
      <3>1. op' = [op EXCEPT ![j] = o] /\ row' = row /\ op[j].pc = "count"
        BY <2>6 DEF CountReferences
      <3>2. o.pc = "unlink" /\ o.pkg = op[j].pkg /\ o.blob = op[j].blob /\ (o.shared <=> b)
        <4>1. op[j] \in Op
          BY <1>0
        <4> HIDE DEF b
        <4> QED BY <4>1 DEF Op
      <3>3. b <=> SharedBy(j)
        BY DEF SharedBy
      <3> HIDE DEF b, o
      <3>4. op'[j] = o
        BY <1>0, <3>1
      <3>5. SharedBy(j)' <=> SharedBy(j)
        BY <3>1, <3>2, <3>4 DEF SharedBy, Live
      <3>6. row[op[j].pkg].blob_sha256 = op[j].blob
        BY <1>0, <3>1 DEF PurgeAccounts, Purging
      <3> QED BY <3>1, <3>2, <3>3, <3>4, <3>5, <3>6 DEF PurgeAccounts
    <2>7. ASSUME NEW p \in Package, PurgeBegin(Api, p) PROVE PurgeAccounts(Api)'
      <3> DEFINE o == [pc |-> "count", pkg |-> p, blob |-> row[p].blob_sha256, shared |-> FALSE]
      <3>1. op'[Api] = o /\ row' = row
        BY <1>0, <2>7, FilesAssumption DEF PurgeBegin
      <3>2. o.pc = "count" /\ o.pkg = p /\ o.blob = row[p].blob_sha256
        OBVIOUS
      <3> HIDE DEF o
      <3> QED BY <3>1, <3>2 DEF PurgeAccounts, Purging
    <2>8. ASSUME NEW j \in Process, op'[j].pc \notin Purging PROVE PurgeAccounts(j)'
      BY <2>8 DEF PurgeAccounts, Purging
    <2>9. ASSUME NEW i \in Process,
                 \/ \E u \in Uploads : PublishBegin(i, u)
                 \/ Put(i) \/ Replace(i) \/ Insert(i) \/ BreakOff(i)
          PROVE  op'[i].pc \notin Purging /\ \A j \in Process : j # i => op'[j] = op[j]
      <3>1. op[i] \in Op /\ i \in DOMAIN op
        BY <1>0
      <3> QED BY <1>0, <2>9, <3>1, NoOpIsOp
              DEF PublishBegin, Put, Replace, Insert, BreakOff, Goto, Finish, Op, Purging
    <2>10. ASSUME NEW j \in Process PROVE PurgeAccounts(j)'
      <3>1. ASSUME NEW i \in Process, j # i => op'[j] = op[j], j = i => PurgeAccounts(j)'
            PROVE  PurgeAccounts(j)'
        BY <2>5, <2>8, <3>1
      <3>2. ASSUME NEW i \in Process, CountReferences(i)
            PROVE  \A k \in Process : k # i => op'[k] = op[k]
        BY <1>0, <3>2 DEF CountReferences
      <3>3. ASSUME NEW p \in Package, PurgeBegin(Api, p)
            PROVE  \A k \in Process : k # Api => op'[k] = op[k]
        BY <1>0, <3>3 DEF PurgeBegin
      <3>4. ASSUME op' = op PROVE PurgeAccounts(j)'
        BY <2>5, <2>8, <3>4
      <3> QED BY <1>d, <2>6, <2>7, <2>8, <2>9, <3>1, <3>2, <3>3, <3>4, FilesAssumption
              DEF FilesNext, FilesStep, SetStatus, SetLegalHold
    <2> QED BY <2>4, <2>10 DEF StrayInv
  <1> QED BY <1>b, <1>c, <1>d

-----------------------------------------------------------------------------
(* The theorems. *)

\* At the start there is no file, no row and no operation.
LEMMA FilesStart ==
  ASSUME FilesInit
  PROVE  FilesInv /\ AloneInv /\ StrayInv
  <1>1. \A i \in Process : op[i] = NoOp
    BY DEF FilesInit
  <1>2. \A p \in Package : row[p] = [status |-> "absent", blob_sha256 |-> NoBlob, legal_hold |-> FALSE]
    BY DEF FilesInit
  <1>3. FilesTypeOK
    <2>1. [status |-> "absent", blob_sha256 |-> NoBlob, legal_hold |-> FALSE] \in FileRow
      BY DEF FileRow, Status
    <2> QED BY <2>1, NoOpIsOp DEF FilesInit, FilesTypeOK
  <1>4. \A i \in Process : OpSound(op[i]) /\ PurgeSound(i) /\ Alone(i)
    BY <1>1, NoOpIsOp DEF PurgeSound, Alone, Publishing, Purging
  <1>5. BytesSurvive
    BY <1>2 DEF BytesSurvive, Live
  <1>6. StrayInv
    BY <1>1, NoOpIsOp DEF FilesInit, StrayInv, NoStrayFiles, PurgeAccounts, Purging
  <1> QED BY <1>1, <1>3, <1>4, <1>5, <1>6 DEF FilesInv, AloneInv

\* What every reachable state is like, overlaps and broken operations included.
THEOREM FilesInvariant == FilesSpec => [](FilesInv /\ AloneInv /\ StrayInv)
  <1>1. FilesInit => FilesInv /\ AloneInv /\ StrayInv
    BY FilesStart
  <1>2. FilesInv /\ AloneInv /\ StrayInv /\ [FilesNext]_filesVars
          => (FilesInv /\ AloneInv /\ StrayInv)'
    BY FilesInvStep, AloneStep, StrayStep
  <1> QED BY <1>1, <1>2, PTL DEF FilesSpec

\* The table, the files and the operations keep their types.
THEOREM FilesTyping == FilesSpec => []FilesTypeOK
  <1>1. FilesInv => FilesTypeOK
    BY DEF FilesInv
  <1> QED BY <1>1, FilesInvariant, PTL

\* While publishes and purges do not overlap, one that breaks off at any of its
\* steps leaves every version that nobody purged its bytes.
THEOREM BytesSurviveCrashes == FilesSpec => []BytesSurviveAlone
  <1>1. AloneInv => BytesSurviveAlone
    BY DEF AloneInv, BytesSurviveAlone
  <1> QED BY <1>1, FilesInvariant, PTL

\* Whatever overlaps, dies or raises, every blob file is the content of a live
\* row, of a publish about to insert its row, or of one that broke off or was
\* refused and that no publish or purge of the same bytes has followed up.
THEOREM NoFileIsLeftOver == FilesSpec => []NoStrayFiles
  <1>1. StrayInv => NoStrayFiles
    BY DEF StrayInv
  <1> QED BY <1>1, FilesInvariant, PTL

\* The first row committed under a key is the one that stays, however many
\* processes publish other bytes under it.
THEOREM FirstCommitStays == FilesSpec => CommittedContentStays
  <1>1. FilesInv /\ [FilesNext]_filesVars
          => [\A p \in Package : Published(p) => row'[p].blob_sha256 = row[p].blob_sha256]_filesVars
    <2> SUFFICES ASSUME FilesInv, FilesNext, NEW p \in Package, Published(p)
                 PROVE  row'[p].blob_sha256 = row[p].blob_sha256
      OBVIOUS
    <2>1. ASSUME NEW i \in Process, Insert(i)
          PROVE  row'[p].blob_sha256 = row[p].blob_sha256
      BY <2>1, PublishSteps
    <2>2. ASSUME NEW i \in Process, Commit(i)
          PROVE  row'[p].blob_sha256 = row[p].blob_sha256
      <3>1. op[i].pkg \in Package
        BY <2>2 DEF Commit, FilesInv, OpSound, Purging
      <3> QED BY <2>2, <3>1, RowSteps
    <2>3. ASSUME NEW i \in Process, NEW q \in Package,
                 NEW m \in Machine!ReviewTransitions \cup Machine!LifecycleTransitions, SetStatus(i, q, m)
          PROVE  row'[p].blob_sha256 = row[p].blob_sha256
      BY <2>3, StatusKeepsLive
    <2>4. ASSUME NEW q \in Package, NEW hold \in BOOLEAN, SetLegalHold(q, hold)
          PROVE  row'[p].blob_sha256 = row[p].blob_sha256
      BY <2>4, HoldKeepsLive
    <2>5. CASE row' = row
      BY <2>5
    <2> QED BY <2>1, <2>2, <2>3, <2>4, <2>5
        DEF FilesNext, FilesStep, PublishBegin, Put, Replace, CountReferences, Unlink, PurgeBegin, BreakOff
  <1> QED BY <1>1, FilesInvariant, PTL DEF FilesSpec, CommittedContentStays

\* The status column of a store that several processes have open follows the
\* status machine: what purge commits without looking is what it looked at.
THEOREM FilesImplementMachine == FilesSpec => ImplementsStatusMachine
  <1>1. FilesInit => Machine!StatusInit
    BY DEF FilesInit, StatusColumn, Machine!StatusInit
  <1>2. FilesInv /\ [FilesNext]_filesVars => [Machine!StatusNext]_StatusColumn
    <2> SUFFICES ASSUME FilesInv, FilesNext
                 PROVE  Machine!StatusNext \/ StatusColumn' = StatusColumn
      BY DEF filesVars, StatusColumn
    <2>1. ASSUME NEW i \in Process, Insert(i)
          PROVE  Machine!StatusNext \/ StatusColumn' = StatusColumn
      <3>1. CASE row' = row
        BY <3>1 DEF StatusColumn
      <3>2. CASE /\ ~Published(op[i].pkg) /\ row'[op[i].pkg].status = "draft"
                 /\ \A q \in Package \ {op[i].pkg} : row'[q] = row[q]
        <4>1. op[i].pkg \in Package
          BY <2>1, PublishSteps
        <4>2. Machine!Publishes(op[i].pkg)
          BY <3>2, <4>1 DEF Machine!Publishes, StatusColumn, Published
        <4> QED BY <4>1, <4>2 DEF Machine!StatusNext
      <3> QED BY <2>1, <3>1, <3>2, PublishSteps
    <2>2. ASSUME NEW i \in Process, Commit(i)
          PROVE  Machine!StatusNext
      <3>1. op[i].pkg \in Package /\ row[op[i].pkg].status \notin {"absent", "approved", "purged"}
        BY <2>2 DEF Commit, FilesInv, OpSound, PurgeSound, Purging
      <3>2. row'[op[i].pkg].status = "purged" /\ \A q \in Package \ {op[i].pkg} : row'[q] = row[q]
        BY <2>2, <3>1, RowSteps
      <3>3. Machine!Purges(op[i].pkg)
        BY <3>1, <3>2 DEF Machine!Purges, StatusColumn
      <3> QED BY <3>1, <3>3 DEF Machine!StatusNext
    <2>3. ASSUME NEW i \in Process, NEW p \in Package,
                 NEW m \in Machine!ReviewTransitions \cup Machine!LifecycleTransitions, SetStatus(i, p, m)
          PROVE  Machine!StatusNext
      <3>1. /\ row[p].status = m[1] /\ row'[p].status = m[2]
            /\ \A q \in Package \ {p} : row'[q] = row[q]
        BY <2>3, RowSteps DEF SetStatus
      <3>2. StatusColumn[p] = m[1] /\ StatusColumn' = [StatusColumn EXCEPT ![p] = m[2]]
        BY <3>1 DEF StatusColumn
      <3>3. Machine!Moves(p)
        BY <3>2 DEF Machine!Moves
      <3> QED BY <3>3 DEF Machine!StatusNext
    <2>4. ASSUME NEW p \in Package, NEW hold \in BOOLEAN, SetLegalHold(p, hold)
          PROVE  StatusColumn' = StatusColumn
      BY <2>4, RowSteps DEF StatusColumn
    <2>5. CASE row' = row
      BY <2>5 DEF StatusColumn
    <2> QED BY <2>1, <2>2, <2>3, <2>4, <2>5
        DEF FilesNext, FilesStep, PublishBegin, Put, Replace, CountReferences, Unlink, PurgeBegin, BreakOff
  <1> QED BY <1>1, <1>2, FilesInvariant, PTL DEF FilesSpec, ImplementsStatusMachine, Machine!StatusSpec
=============================================================================
