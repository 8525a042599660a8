------------------------- MODULE PackageStoreProofs --------------------------
(***************************************************************************)
(* Proofs about PackageStore for any sets of versions, contents, actors    *)
(* and uploads.  StoreInv is the inductive invariant: its conjuncts are    *)
(* the invariants of PackageStore, which are only inductive together.      *)
(***************************************************************************)
EXTENDS PackageStore, TLAPS

StoreInv ==
  /\ StoreTypeOK
  /\ BlobsAreExactlyLive
  /\ TombstonesConsistent
  /\ TrailExplainsStatus

\* What the transition tables can and cannot say: no transition starts from
\* or leads to "absent" or "purged".
LEMMA TransitionEnds ==
  ASSUME NEW m \in Transitions
  PROVE  /\ m[1] \in Machine!Status \ {"absent", "purged"}
         /\ m[2] \in Machine!Status \ {"absent", "purged"}
  BY DEF Transitions, Machine!ReviewTransitions, Machine!LifecycleTransitions,
         Machine!Status

\* A fresh store satisfies the invariant: no row, no blob.
LEMMA InitEstablishesStoreInv == StoreInit => StoreInv
  <1> SUFFICES ASSUME StoreInit PROVE StoreInv
    OBVIOUS
  <1>1. StoreTypeOK
    BY DEF StoreInit, StoreTypeOK, Row, AuditRow, Machine!Status
  <1>2. BlobsAreExactlyLive
    BY DEF StoreInit, BlobsAreExactlyLive, ContentsOf, Live, Published
  <1>3. TombstonesConsistent /\ TrailExplainsStatus
    BY DEF StoreInit, TombstonesConsistent, TrailExplainsStatus
  <1> QED BY <1>1, <1>2, <1>3 DEF StoreInv

\* publish preserves the invariant.
LEMMA PublishKeepsStoreInv ==
  ASSUME StoreInv, NEW u \in Uploads, NEW a \in Actor, Publish(u, a)
  PROVE  StoreInv'
  <1>1. u.pkg \in Package /\ u.blob \in Blob /\ u.analyst \in Actor \cup {NoActor}
    BY StoreAssumption DEF UploadType
  <1> DEFINE p == u.pkg
  <1>2. rows'[p] = DraftRow(u) /\ (\A q \in Package \ {p} : rows'[q] = rows[q])
    BY <1>1 DEF Publish, StoreInv, StoreTypeOK
  <1>3. DraftRow(u) \in Row
    BY <1>1 DEF DraftRow, Row, Machine!Status
  <1>4. StoreTypeOK'
    BY <1>1, <1>3 DEF Publish, StoreInv, StoreTypeOK, AuditRow, Machine!Status
  <1>5. BlobsAreExactlyLive'
    BY <1>1, <1>2 DEF Publish, DraftRow, StoreInv, BlobsAreExactlyLive, ContentsOf, Live,
                      Published
  <1>6. TombstonesConsistent'
    BY <1>1, <1>2 DEF DraftRow, StoreInv, TombstonesConsistent
  <1>7. TrailExplainsStatus'
    BY <1>1, <1>2 DEF Publish, DraftRow, StoreInv, StoreTypeOK, TrailExplainsStatus
  <1> QED BY <1>4, <1>5, <1>6, <1>7 DEF StoreInv

\* A publish that raises leaves bytes some row owns, or bytes marked abandoned.
LEMMA PublishFailsKeepsStoreInv ==
  ASSUME StoreInv, NEW u \in Uploads, PublishFails(u)
  PROVE  StoreInv'
  <1>1. u.blob \in Blob
    BY StoreAssumption DEF UploadType
  <1>2. UNCHANGED <<rows, sidecars, trail, doomed>>
    BY DEF PublishFails
  <1>3. StoreTypeOK'
    BY <1>1, <1>2 DEF PublishFails, StoreInv, StoreTypeOK
  <1>4. \A q \in Package : Live(q)' <=> Live(q)
    BY <1>2 DEF Live, Published
  <1>5. BlobsAreExactlyLive'
    BY <1>2, <1>4 DEF PublishFails, StoreInv, BlobsAreExactlyLive, ContentsOf
  <1>6. TombstonesConsistent' /\ TrailExplainsStatus'
    BY <1>2 DEF StoreInv, TombstonesConsistent, TrailExplainsStatus
  <1> QED BY <1>3, <1>5, <1>6 DEF StoreInv

\* set_status preserves the invariant for every transition a workflow uses.
LEMMA SetStatusKeepsStoreInv ==
  ASSUME StoreInv, NEW p \in Package, NEW m \in Transitions,
         NEW a \in Actor, NEW r \in BOOLEAN, SetStatus(p, m[1], m[2], a, r)
  PROVE  StoreInv'
  <1>1. /\ m[1] \in Machine!Status \ {"absent", "purged"}
        /\ m[2] \in Machine!Status \ {"absent", "purged"}
    BY TransitionEnds
  <1>2. /\ rows'[p] = [rows[p] EXCEPT !.status = m[2]]
        /\ \A q \in Package \ {p} : rows'[q] = rows[q]
    BY DEF SetStatus, StoreInv, StoreTypeOK
  <1>3. rows[p] \in Row
    BY DEF StoreInv, StoreTypeOK
  <1>4. /\ rows'[p].status = m[2]
        /\ rows'[p].blob_sha256 = rows[p].blob_sha256
        /\ rows'[p].purged_at = rows[p].purged_at
        /\ rows'[p].analyst_id = rows[p].analyst_id
    BY <1>2, <1>3 DEF Row
  <1>5. StoreTypeOK'
    BY <1>1 DEF SetStatus, StoreInv, StoreTypeOK, Row, AuditRow
  <1>6. \A q \in Package : Live(q)' <=> Live(q)
    BY <1>1, <1>2, <1>4 DEF SetStatus, Live, Published
  <1>7. BlobsAreExactlyLive'
    BY <1>2, <1>4, <1>6 DEF SetStatus, StoreInv, BlobsAreExactlyLive, ContentsOf
  <1>8. TombstonesConsistent'
    BY <1>1, <1>2, <1>4 DEF SetStatus, StoreInv, TombstonesConsistent
  <1>9. TrailExplainsStatus'
    BY <1>2, <1>4 DEF SetStatus, StoreInv, StoreTypeOK, TrailExplainsStatus
  <1> QED BY <1>5, <1>7, <1>8, <1>9 DEF StoreInv

\* link_replaces and set_legal_hold touch no column the invariant relates.
LEMMA ColumnWritesKeepStoreInv ==
  ASSUME StoreInv, NEW p \in Package,
         \/ \E q \in Package : LinkReplaces(p, q)
         \/ \E hold \in BOOLEAN : SetLegalHold(p, hold)
  PROVE  StoreInv'
  <1>1. StoreTypeOK'
    BY DEF LinkReplaces, SetLegalHold, StoreInv, StoreTypeOK, Row
  <1>2. \A q \in Package :
          /\ rows'[q].status = rows[q].status
          /\ rows'[q].blob_sha256 = rows[q].blob_sha256
          /\ rows'[q].purged_at = rows[q].purged_at
          /\ rows'[q].analyst_id = rows[q].analyst_id
    BY DEF LinkReplaces, SetLegalHold, StoreInv, StoreTypeOK, Row
  <1>3. UNCHANGED <<blobs, trail, abandoned, doomed>>
    BY DEF LinkReplaces, SetLegalHold
  <1>4. BlobsAreExactlyLive'
    BY <1>2, <1>3 DEF StoreInv, BlobsAreExactlyLive, ContentsOf, Live, Published
  <1>5. TombstonesConsistent' /\ TrailExplainsStatus'
    BY <1>2, <1>3 DEF StoreInv, TombstonesConsistent, TrailExplainsStatus
  <1> QED BY <1>1, <1>4, <1>5 DEF StoreInv

\* purge preserves the invariant: the reference count is what keeps
\* BlobsAreExactlyLive when contents are shared.
LEMMA PurgeKeepsStoreInv ==
  ASSUME StoreInv, NEW p \in Package, NEW a \in Actor, Purge(p, a)
  PROVE  StoreInv'
  <1>1. /\ rows'[p].status = "purged"
        /\ rows'[p].purged_at = TRUE
        /\ rows'[p].analyst_id = NoActor
        /\ \A q \in Package \ {p} : rows'[q] = rows[q]
    BY DEF Purge, StoreInv, StoreTypeOK, Row
  <1>2. StoreTypeOK'
    <2> DEFINE tombstone == [rows[p] EXCEPT !.status = "purged", !.purged_at = TRUE,
                                            !.analyst_id = NoActor]
    <2>a. rows[p] \in Row /\ rows' = [rows EXCEPT ![p] = tombstone]
      BY DEF Purge, StoreInv, StoreTypeOK
    <2>b. tombstone \in Row
      BY <2>a DEF Row, Machine!Status
    <2>1. rows' \in [Package -> Row]
      BY <2>a, <2>b DEF StoreInv, StoreTypeOK
    <2>2. /\ blobs' \subseteq Blob /\ sidecars' \subseteq Package
          /\ abandoned' \subseteq Blob /\ doomed' \subseteq Package
      BY DEF Purge, StoreInv, StoreTypeOK
    <2>3. rows[p].status \in Machine!Status
      BY DEF StoreInv, StoreTypeOK, Row
    <2>4. trail' \in [Package -> AuditRow]
      BY <2>3 DEF Purge, StoreInv, StoreTypeOK, AuditRow, Machine!Status
    <2> QED BY <2>1, <2>2, <2>4 DEF StoreTypeOK
  <1>3. Live(p) /\ ~Live(p)' /\ (\A q \in Package \ {p} : Live(q)' <=> Live(q))
    BY <1>1 DEF Purge, Purgeable, Live, Published
  <1>4. BlobsAreExactlyLive'
    <2>1. /\ blobs' = blobs \ Bytes(p)
          /\ abandoned' = abandoned \ Bytes(p)
          /\ doomed' = doomed
      BY DEF Purge
    <2>2. CASE Unshared(p)
      <3>1. Bytes(p) = {rows[p].blob_sha256}
        BY <2>2 DEF Bytes
      <3> QED BY <1>1, <1>3, <2>1, <2>2, <3>1
              DEF StoreInv, BlobsAreExactlyLive, ContentsOf, Unshared
    <2>3. CASE ~Unshared(p)
      <3>1. blobs' = blobs /\ abandoned' = abandoned
        BY <2>1, <2>3 DEF Bytes
      <3>2. PICK q \in Package \ {p} :
              Live(q) /\ rows[q].blob_sha256 = rows[p].blob_sha256
        BY <2>3 DEF Unshared
      <3> QED BY <1>1, <1>3, <2>1, <3>1, <3>2
              DEF StoreInv, BlobsAreExactlyLive, ContentsOf
    <2> QED BY <2>2, <2>3
  <1>5. TombstonesConsistent'
    BY <1>1 DEF StoreInv, TombstonesConsistent
  <1>6. TrailExplainsStatus'
    BY <1>1 DEF Purge, StoreInv, StoreTypeOK, TrailExplainsStatus
  <1> QED BY <1>2, <1>4, <1>5, <1>6 DEF StoreInv

\* A purge that raises half-way takes bytes no other live version owns.
LEMMA PurgeFailsKeepsStoreInv ==
  ASSUME StoreInv, NEW p \in Package, PurgeFails(p)
  PROVE  StoreInv'
  <1>1. /\ UNCHANGED <<rows, trail>>
        /\ blobs' = blobs \ Bytes(p) /\ abandoned' = abandoned \ Bytes(p)
        /\ doomed' = doomed \cup {p}
    BY DEF PurgeFails
  <1>2. StoreTypeOK'
    BY <1>1 DEF PurgeFails, StoreInv, StoreTypeOK
  <1>3. (\A q \in Package : Live(q)' <=> Live(q)) /\ Live(p)
    BY <1>1 DEF PurgeFails, Purgeable, Live, Published
  <1>4. BlobsAreExactlyLive'
    BY <1>1, <1>3 DEF Bytes, Unshared, StoreInv, BlobsAreExactlyLive, ContentsOf
  <1>5. TombstonesConsistent' /\ TrailExplainsStatus'
    BY <1>1 DEF StoreInv, TombstonesConsistent, TrailExplainsStatus
  <1> QED BY <1>2, <1>4, <1>5 DEF StoreInv

\* No step of the store leaves the invariant.
LEMMA StepKeepsStoreInv == StoreInv /\ [StoreNext]_storeVars => StoreInv'
  <1> SUFFICES ASSUME StoreInv, [StoreNext]_storeVars PROVE StoreInv'
    OBVIOUS
  <1>1. ASSUME NEW u \in Uploads, NEW a \in Actor, Publish(u, a) PROVE StoreInv'
    BY <1>1, PublishKeepsStoreInv
  <1>2. ASSUME NEW p \in Package, NEW m \in Transitions, NEW a \in Actor,
               NEW r \in BOOLEAN, SetStatus(p, m[1], m[2], a, r)
        PROVE StoreInv'
    BY <1>2, SetStatusKeepsStoreInv
  <1>3. ASSUME NEW s \in Package, NEW p \in Package, LinkReplaces(s, p) PROVE StoreInv'
    BY <1>3, ColumnWritesKeepStoreInv
  <1>4. ASSUME NEW p \in Package, NEW hold \in BOOLEAN, SetLegalHold(p, hold)
        PROVE StoreInv'
    BY <1>4, ColumnWritesKeepStoreInv
  <1>5. ASSUME NEW p \in Package, NEW a \in Actor, Purge(p, a) PROVE StoreInv'
    BY <1>5, PurgeKeepsStoreInv
  <1>6. ASSUME NEW p \in Package, WriteReport(p) PROVE StoreInv'
    BY <1>6 DEF WriteReport, StoreInv, StoreTypeOK, BlobsAreExactlyLive, ContentsOf, Live,
                Published, TombstonesConsistent, TrailExplainsStatus
  <1>7. ASSUME NEW u \in Uploads, PublishFails(u) PROVE StoreInv'
    BY <1>7, PublishFailsKeepsStoreInv
  <1>8. ASSUME NEW p \in Package, PurgeFails(p) PROVE StoreInv'
    BY <1>8, PurgeFailsKeepsStoreInv
  <1>9. CASE UNCHANGED storeVars
    BY <1>9 DEF storeVars, StoreInv, StoreTypeOK, BlobsAreExactlyLive, ContentsOf, Live,
                Published, TombstonesConsistent, TrailExplainsStatus
  <1> QED BY <1>1, <1>2, <1>3, <1>4, <1>5, <1>6, <1>7, <1>8, <1>9 DEF StoreNext

\* The invariants of the package store hold in every reachable state, for any
\* number of versions sharing any contents (PackageStore.publish / set_status /
\* link_replaces / set_legal_hold / purge).
THEOREM StoreInvariant == StoreSpec => []StoreInv
  <1>1. StoreInit => StoreInv
    BY InitEstablishesStoreInv
  <1>2. StoreInv /\ [StoreNext]_storeVars => StoreInv'
    BY StepKeepsStoreInv
  <1> QED BY <1>1, <1>2, PTL DEF StoreSpec

\* Type correctness of the packages table, the blob files and the audit trail.
THEOREM StoreTyping == StoreSpec => []StoreTypeOK
  <1>1. StoreInv => StoreTypeOK
    BY DEF StoreInv
  <1> QED BY <1>1, StoreInvariant, PTL

\* purge's reference count is exact: but for what a publish or a purge that raised
\* half-way accounts for, the blob files are always the contents of the non-purged
\* rows, no more and no fewer.
THEOREM BlobsExact == StoreSpec => []BlobsAreExactlyLive
  <1>1. StoreInv => BlobsAreExactlyLive
    BY DEF StoreInv
  <1> QED BY <1>1, StoreInvariant, PTL

-----------------------------------------------------------------------------
\* Every store step maps to a step of the abstract status machine or leaves
\* every status alone.
LEMMA StepImplementsMachine ==
  StoreInv /\ [StoreNext]_storeVars => [Machine!StatusNext]_StatusOf
  <1> SUFFICES ASSUME StoreInv, [StoreNext]_storeVars
               PROVE  Machine!StatusNext \/ UNCHANGED StatusOf
    OBVIOUS
  <1> USE DEF StatusOf
  <1>1. ASSUME NEW u \in Uploads, NEW a \in Actor, Publish(u, a)
        PROVE Machine!StatusNext
    <2>1. u.pkg \in Package
      BY StoreAssumption DEF UploadType
    <2>2. /\ rows'[u.pkg].status = "draft"
          /\ \A q \in Package \ {u.pkg} : rows'[q] = rows[q]
      BY <1>1, <2>1 DEF Publish, DraftRow, StoreInv, StoreTypeOK
    <2>3. Machine!Publishes(u.pkg)
      BY <1>1, <2>1, <2>2 DEF Publish, Published, Machine!Publishes
    <2> QED BY <2>1, <2>3 DEF Machine!StatusNext
  <1>2. ASSUME NEW p \in Package, NEW m \in Transitions, NEW a \in Actor,
               NEW r \in BOOLEAN, SetStatus(p, m[1], m[2], a, r)
        PROVE Machine!StatusNext
    <2>1. /\ rows[p].status = m[1] /\ rows'[p].status = m[2]
          /\ \A q \in Package \ {p} : rows'[q] = rows[q]
      BY <1>2 DEF SetStatus, StoreInv, StoreTypeOK, Row
    <2>a. StatusOf[p] = m[1] /\ StatusOf' = [StatusOf EXCEPT ![p] = m[2]]
      BY <2>1
    <2>b. m \in Machine!ReviewTransitions \cup Machine!LifecycleTransitions
      BY DEF Transitions
    <2>2. Machine!Moves(p)
      BY <2>a, <2>b DEF Machine!Moves
    <2> QED BY <2>2 DEF Machine!StatusNext
  <1>3. ASSUME NEW p \in Package,
               \/ \E q \in Package : LinkReplaces(p, q)
               \/ \E hold \in BOOLEAN : SetLegalHold(p, hold)
        PROVE UNCHANGED StatusOf
    <2>1. \A q \in Package : rows'[q].status = rows[q].status
      BY <1>3 DEF LinkReplaces, SetLegalHold, StoreInv, StoreTypeOK, Row
    <2> QED BY <2>1
  <1>4. ASSUME NEW p \in Package, NEW a \in Actor, Purge(p, a)
        PROVE Machine!StatusNext
    <2>1. /\ rows'[p].status = "purged"
          /\ \A q \in Package \ {p} : rows'[q] = rows[q]
      BY <1>4 DEF Purge, StoreInv, StoreTypeOK, Row
    <2>2. rows[p].status \notin {"absent", "approved", "purged"}
      BY <1>4 DEF Purge, Purgeable, Published, StoreInv, TombstonesConsistent
    <2>3. Machine!Purges(p)
      BY <2>1, <2>2 DEF Machine!Purges
    <2> QED BY <2>3 DEF Machine!StatusNext
  <1>5. ASSUME \/ \E p \in Package : WriteReport(p) \/ PurgeFails(p)
               \/ \E u \in Uploads : PublishFails(u)
        PROVE UNCHANGED StatusOf
    BY <1>5 DEF WriteReport, PublishFails, PurgeFails
  <1>6. CASE UNCHANGED storeVars
    BY <1>6 DEF storeVars
  <1> QED BY <1>1, <1>2, <1>3, <1>4, <1>5, <1>6 DEF StoreNext

\* The package store implements the union of the review and the lifecycle state
\* machines: no sequence of store calls reaches a status by any other route.
THEOREM StoreImplementsMachine == StoreSpec => ImplementsStatusMachine
  <1>1. StoreInit => Machine!StatusInit
    BY DEF StoreInit, StatusOf, Machine!StatusInit
  <1>2. StoreInv /\ [StoreNext]_storeVars => [Machine!StatusNext]_StatusOf
    BY StepImplementsMachine
  <1> QED BY <1>1, <1>2, StoreInvariant, PTL
          DEF StoreSpec, ImplementsStatusMachine, Machine!StatusSpec

\* No store step rewrites published content, drops a row or revives a tombstone.
LEMMA StepKeepsPublished ==
  StoreInv /\ [StoreNext]_storeVars =>
    \A p \in Package : Published(p) =>
       /\ rows'[p].blob_sha256 = rows[p].blob_sha256
       /\ rows'[p].status # "absent"
       /\ rows[p].purged_at => rows'[p].purged_at
  <1> SUFFICES ASSUME StoreInv, [StoreNext]_storeVars, NEW p \in Package, Published(p)
               PROVE  /\ rows'[p].blob_sha256 = rows[p].blob_sha256
                      /\ rows'[p].status # "absent"
                      /\ rows[p].purged_at => rows'[p].purged_at
    OBVIOUS
  <1> USE DEF StoreInv, StoreTypeOK, Row, Published
  <1>1. ASSUME NEW u \in Uploads, NEW a \in Actor, Publish(u, a)
        PROVE rows'[p] = rows[p]
    BY <1>1, StoreAssumption DEF Publish, UploadType
  <1>2. ASSUME NEW q \in Package, NEW m \in Transitions, NEW a \in Actor,
               NEW r \in BOOLEAN, SetStatus(q, m[1], m[2], a, r)
        PROVE  /\ rows'[p].blob_sha256 = rows[p].blob_sha256
               /\ rows'[p].status # "absent"
               /\ rows'[p].purged_at = rows[p].purged_at
    <2>1. m[2] # "absent"
      BY TransitionEnds
    <2> QED BY <1>2, <2>1 DEF SetStatus
  <1>3. ASSUME NEW q \in Package,
               \/ \E s \in Package : LinkReplaces(q, s)
               \/ \E hold \in BOOLEAN : SetLegalHold(q, hold)
        PROVE  /\ rows'[p].blob_sha256 = rows[p].blob_sha256
               /\ rows'[p].status = rows[p].status
               /\ rows'[p].purged_at = rows[p].purged_at
    BY <1>3 DEF LinkReplaces, SetLegalHold
  <1>4. ASSUME NEW q \in Package, NEW a \in Actor, Purge(q, a)
        PROVE  /\ rows'[p].blob_sha256 = rows[p].blob_sha256
               /\ rows'[p].status # "absent"
               /\ rows[p].purged_at => rows'[p].purged_at
    BY <1>4 DEF Purge
  <1>5. ASSUME \/ \E q \in Package : WriteReport(q) \/ PurgeFails(q)
               \/ \E u \in Uploads : PublishFails(u)
        PROVE rows'[p] = rows[p]
    BY <1>5 DEF WriteReport, PublishFails, PurgeFails
  <1>6. CASE UNCHANGED storeVars
    BY <1>6 DEF storeVars
  <1> QED BY <1>1, <1>2, <1>3, <1>4, <1>5, <1>6 DEF StoreNext

\* A published version is immutable: bytes once named by a row stay named, rows
\* are never dropped and tombstones never come back.
THEOREM PublishedNeverRewritten == StoreSpec => PublishedImmutable
  <1>1. StoreInv /\ [StoreNext]_storeVars =>
          [\A p \in Package : Published(p) =>
             /\ rows'[p].blob_sha256 = rows[p].blob_sha256
             /\ rows'[p].status # "absent"
             /\ rows[p].purged_at => rows'[p].purged_at]_storeVars
    BY StepKeepsPublished
  <1> QED BY <1>1, StoreInvariant, PTL DEF StoreSpec, PublishedImmutable
=============================================================================
