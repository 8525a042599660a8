---------------------------- MODULE PackageStore -----------------------------
(***************************************************************************)
(* ap_store.PackageStore, the C3 package store, at the granularity of its  *)
(* lock: every method body that runs under `self._lock` is one action.     *)
(* The store is mechanism only: which caller may do what is decided by     *)
(* ap_review and ap_lifecycle (module PackageWorkflow).  What is kept is   *)
(* the `packages` table, the blob files, the redaction sidecars under the  *)
(* store root, and of package_audit the newest row that records a status.  *)
(* File-level steps inside publish and purge are in module StoreFiles.     *)
(***************************************************************************)
EXTENDS FiniteSets

CONSTANTS
  Package,       \* (package_id, package_version) keys
  Blob,          \* sha256 of package contents
  Actor,         \* identities
  Uploads,       \* the package directories somebody may try to publish
  NoPackage, NoBlob, NoActor          \* SQL NULLs

\* An upload is a directory: its manifest's key, its bytes, its owners.analyst.id.
UploadType == [pkg : Package, blob : Blob, analyst : Actor \cup {NoActor}]

ASSUME StoreAssumption ==
  /\ Uploads \subseteq UploadType
  /\ NoPackage \notin Package
  /\ NoBlob \notin Blob
  /\ NoActor \notin Actor

VARIABLES
  rows,          \* the packages table
  blobs,         \* the blob files under <root>/blobs
  sidecars,      \* the versions with a redaction report under <root>/redaction
  trail,         \* newest status row of package_audit, per version
  abandoned,     \* history: contents a failed publish left and nobody took over
  doomed         \* history: versions a purge that failed may have taken from

storeVars == <<rows, blobs, sidecars, trail, abandoned, doomed>>

StatusOf == [p \in Package |-> rows[p].status]

Machine == INSTANCE PackageStatus WITH status <- StatusOf

Row == [status       : Machine!Status,
        blob_sha256  : Blob \cup {NoBlob},
        analyst_id   : Actor \cup {NoActor},
        legal_hold   : BOOLEAN,
        purged_at    : BOOLEAN,
        replaces     : Package \cup {NoPackage}]

AuditRow == [from : Machine!Status, to : Machine!Status,
             actor : Actor \cup {NoActor}, reason : BOOLEAN]

\* _get_row(p) is not None
Published(p) == rows[p].status # "absent"

\* Rows that still own content: the non-purged ones purge() counts.
Live(p) == Published(p) /\ ~rows[p].purged_at

-----------------------------------------------------------------------------
StoreInit ==
  /\ rows = [p \in Package |->
               [status |-> "absent", blob_sha256 |-> NoBlob,
                analyst_id |-> NoActor, legal_hold |-> FALSE,
                purged_at |-> FALSE, replaces |-> NoPackage]]
  /\ blobs = {}
  /\ sidecars = {}
  /\ trail = [p \in Package |->
                [from |-> "absent", to |-> "absent",
                 actor |-> NoActor, reason |-> FALSE]]
  /\ abandoned = {}
  /\ doomed = {}

\* Mutant of DraftRow: the manifest's own qa.status becomes the live status.
DraftRowFromManifest(u) ==
  [status |-> "qa_passed", blob_sha256 |-> u.blob, analyst_id |-> u.analyst,
   legal_hold |-> FALSE, purged_at |-> FALSE, replaces |-> NoPackage]

\* The row publish() inserts: always a draft, whatever qa.status says.
DraftRow(u) ==
  [status |-> "draft", blob_sha256 |-> u.blob, analyst_id |-> u.analyst,
   legal_hold |-> FALSE, purged_at |-> FALSE, replaces |-> NoPackage]

\* Mutant of Publish: the existing-row check is gone.
PublishOverwrites(u, a) ==
  /\ rows' = [rows EXCEPT ![u.pkg] = DraftRow(u)]
  /\ blobs' = blobs \cup {u.blob}
  /\ trail' = [trail EXCEPT ![u.pkg] =
                 [from |-> trail[u.pkg].to, to |-> "draft", actor |-> a,
                  reason |-> TRUE]]
  /\ UNCHANGED <<sidecars, abandoned, doomed>>

(***************************************************************************)
(* publish: a key that already has a row changes nothing (same bytes: the  *)
(* existing record is returned; other bytes: ImmutabilityError).  The      *)
(* audit row's reason is "published".                                      *)
(***************************************************************************)
Publish(u, a) ==
  /\ ~Published(u.pkg)
  /\ blobs' = blobs \cup {u.blob}
  /\ rows' = [rows EXCEPT ![u.pkg] = DraftRow(u)]
  /\ trail' = [trail EXCEPT ![u.pkg] =
                 [from |-> "absent", to |-> "draft", actor |-> a,
                  reason |-> TRUE]]
  /\ abandoned' = abandoned \ {u.blob}
  /\ UNCHANGED <<sidecars, doomed>>

(***************************************************************************)
(* publish raises after blob_store.put and before its row is committed: a  *)
(* check of run_all, an owners entry that is no mapping, the INSERT.  The  *)
(* blob has no transaction; it stays, and unless another row owns the same *)
(* bytes it waits for the next publish of them.                            *)
(***************************************************************************)
PublishFails(u) ==
  /\ ~Published(u.pkg)
  /\ blobs' = blobs \cup {u.blob}
  /\ abandoned' = IF \E p \in Package : Live(p) /\ rows[p].blob_sha256 = u.blob
                  THEN abandoned ELSE abandoned \cup {u.blob}
  /\ UNCHANGED <<rows, sidecars, trail, doomed>>

\* Mutant of SetStatus: no status in the WHERE clause.
SetStatusUnchecked(p, from, to, a, reason) ==
  /\ Live(p)
  /\ rows' = [rows EXCEPT ![p].status = to]
  /\ trail' = [trail EXCEPT ![p] =
                 [from |-> from, to |-> to, actor |-> a, reason |-> reason]]
  /\ UNCHANGED <<blobs, sidecars, abandoned, doomed>>

\* set_status: compare-and-swap on the status column plus its audit row.
SetStatus(p, from, to, a, reason) ==
  /\ Published(p)
  /\ rows[p].status = from
  /\ rows' = [rows EXCEPT ![p].status = to]
  /\ trail' = [trail EXCEPT ![p] =
                 [from |-> from, to |-> to, actor |-> a, reason |-> reason]]
  /\ UNCHANGED <<blobs, sidecars, abandoned, doomed>>

\* link_replaces: overwrites whatever the successor's columns held.
LinkReplaces(s, p) ==
  /\ Published(s)
  /\ rows' = [rows EXCEPT ![s].replaces = p]
  /\ UNCHANGED <<blobs, sidecars, trail, abandoned, doomed>>

SetLegalHold(p, hold) ==
  /\ Published(p)
  /\ rows' = [rows EXCEPT ![p].legal_hold = hold]
  /\ UNCHANGED <<blobs, sidecars, trail, abandoned, doomed>>

\* Mutant of Unshared: purged rows are counted as references too.
UnsharedWithTombstones(p) ==
  \A q \in Package \ {p} :
    Published(q) => rows[q].blob_sha256 # rows[p].blob_sha256

\* other_refs = 0: nobody else still owns these bytes.
Unshared(p) ==
  \A q \in Package \ {p} :
    Live(q) => rows[q].blob_sha256 # rows[p].blob_sha256

\* Mutants of Purgeable: approved rows too; held rows too.
PurgeableApproved(p) ==
  Published(p) /\ ~rows[p].purged_at /\ ~rows[p].legal_hold

PurgeableHeld(p) ==
  Published(p) /\ ~rows[p].purged_at /\ rows[p].status # "approved"

\* The two hard guards of purge(); an already purged row returns early.
Purgeable(p) ==
  /\ Published(p)
  /\ ~rows[p].purged_at
  /\ rows[p].status # "approved"
  /\ ~rows[p].legal_hold

\* The bytes purge(p) deletes: none while another row owns them.
Bytes(p) == IF Unshared(p) THEN {rows[p].blob_sha256} ELSE {}

Purge(p, a) ==
  /\ Purgeable(p)
  /\ blobs' = blobs \ Bytes(p)
  /\ abandoned' = abandoned \ Bytes(p)
  /\ sidecars' = sidecars \ {p}
  /\ rows' = [rows EXCEPT ![p].status = "purged", ![p].purged_at = TRUE,
                          ![p].analyst_id = NoActor]
  /\ trail' = [trail EXCEPT ![p] =
                 [from |-> rows[p].status, to |-> "purged", actor |-> a,
                  reason |-> FALSE]]
  /\ UNCHANGED doomed

(***************************************************************************)
(* purge raises after the blob is gone (the sidecar's unlink, the UPDATE,  *)
(* the audit row): the transaction is rolled back, the files are not.      *)
(***************************************************************************)
PurgeFails(p) ==
  /\ Purgeable(p)
  /\ blobs' = blobs \ Bytes(p)
  /\ abandoned' = abandoned \ Bytes(p)
  /\ sidecars' \in {sidecars, sidecars \ {p}}
  /\ doomed' = doomed \cup {p}
  /\ UNCHANGED <<rows, trail>>

\* ap_redact.report.write_report: takes no lock and looks at no row.
WriteReport(p) ==
  /\ sidecars' = sidecars \cup {p}
  /\ UNCHANGED <<rows, blobs, trail, abandoned, doomed>>

-----------------------------------------------------------------------------
\* Every transition any workflow in the repository hands to set_status.
Transitions == Machine!ReviewTransitions \cup Machine!LifecycleTransitions

StoreNext ==
  \/ \E u \in Uploads, a \in Actor : Publish(u, a)
  \/ \E u \in Uploads : PublishFails(u)
  \/ \E p \in Package, m \in Transitions, a \in Actor, r \in BOOLEAN :
       SetStatus(p, m[1], m[2], a, r)
  \/ \E s, p \in Package : LinkReplaces(s, p)
  \/ \E p \in Package, hold \in BOOLEAN : SetLegalHold(p, hold)
  \/ \E p \in Package, a \in Actor : Purge(p, a)
  \/ \E p \in Package : PurgeFails(p)
  \/ \E p \in Package : WriteReport(p)

StoreSpec == StoreInit /\ [][StoreNext]_storeVars

-----------------------------------------------------------------------------
(* Type invariant of the store's tables and files. *)
StoreTypeOK ==
  /\ rows \in [Package -> Row]
  /\ blobs \subseteq Blob
  /\ sidecars \subseteq Package
  /\ trail \in [Package -> AuditRow]
  /\ abandoned \subseteq Blob
  /\ doomed \subseteq Package

\* The contents the versions of a set name.
ContentsOf(P) == {rows[p].blob_sha256 : p \in P}

(* The blob files are exactly the contents of the non-purged rows: purging  *)
(* one of several versions that share bytes never takes the bytes from the  *)
(* others, and the last purge leaves no copy behind (purge's reference      *)
(* count, blobstore.delete's contract).  Two errors are excepted by name:   *)
(* what a publish that raised left, until a publish or a purge of the same  *)
(* bytes takes it over, and the versions whose own purge raised half-way.   *)
BlobsAreExactlyLive ==
  LET live == {p \in Package : Live(p)} IN
  /\ ContentsOf(live \ doomed) \subseteq blobs
  /\ blobs \subseteq ContentsOf(live) \cup abandoned
  /\ abandoned \cap ContentsOf(live) = {}

(* purged_at and status = 'purged' never disagree, and a tombstone names no *)
(* analyst: the two columns are written by different statements of          *)
(* different callers (set_status writes only one of them).                  *)
TombstonesConsistent ==
  \A p \in Package :
    /\ rows[p].purged_at <=> rows[p].status = "purged"
    /\ rows[p].purged_at => rows[p].analyst_id = NoActor

(* The audit trail explains the live status: the newest status row of       *)
(* package_audit always ends in the status the packages table shows.        *)
TrailExplainsStatus ==
  \A p \in Package : trail[p].to = rows[p].status

(* The trail is connected: every new status row starts where the last one   *)
(* ended, so no transition is missing from the audit history.               *)
TrailConnected ==
  [][\A p \in Package : trail'[p] # trail[p] => trail'[p].from = trail[p].to]_storeVars

(* A published version is written once: no later step, republish or purge   *)
(* included, changes the bytes the row names, and a row never disappears.   *)
PublishedImmutable ==
  [][\A p \in Package : Published(p) =>
       /\ rows'[p].blob_sha256 = rows[p].blob_sha256
       /\ rows'[p].status # "absent"
       /\ rows[p].purged_at => rows'[p].purged_at]_storeVars

(* The store implements the abstract status machine. *)
ImplementsStatusMachine == Machine!StatusSpec
=============================================================================
