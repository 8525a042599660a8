----------------------------- MODULE CorpusIndex -----------------------------
(***************************************************************************)
(* The C4 search index beside the package store: ap_index.IndexStore, the  *)
(* re-index hook ap_index.reindex.reindex_package, and the routes that     *)
(* call it after moving a package's status.  The store and the index are   *)
(* two databases with a lock each; between the commit of a status and the  *)
(* write to the index a worker thread reads the record back, extracts and  *)
(* redacts the stored bytes and writes the redaction sidecar, and other    *)
(* threads do the same.  The workflows' status moves are taken from        *)
(* PackageStore as single steps: PackageWorkflow implements StoreSpec.     *)
(* Legal holds and supersede links, which the index never looks at, are    *)
(* left out.                                                               *)
(***************************************************************************)
EXTENDS PackageStore, Integers, Sequences

CONSTANTS
  Thread,
  SecretBlob,      \* contents with a high-severity secret finding
  MayRestart,      \* whether the API process may die (bound of the instance)
  MayFail          \* whether publish and purge may raise half-way (bound of the instance)

ASSUME IndexAssumption ==
  /\ SecretBlob \subseteq Blob
  /\ MayRestart \in BOOLEAN
  /\ MayFail \in BOOLEAN

VARIABLES
  indexed,         \* versions whose chunks (there may be none) are in index.sqlite3
  job,             \* [Thread -> Job], the rest of each request in flight
  overlapped,      \* history: two requests have been in flight at once
  restarted        \* history: the process has died with a request in flight

workVars == <<rows, blobs, sidecars, trail, abandoned, doomed, indexed, job>>
indexVars ==
  <<rows, blobs, sidecars, trail, abandoned, doomed, indexed, job, overlapped, restarted>>

Job == [pc : {"idle", "read", "extract", "report", "index", "remove"},
        todo : UNION {[1..n -> Package] : n \in 0..2}]

IdleJob == [pc |-> "idle", todo |-> <<>>]

\* The version this thread is re-indexing.
Current(t) == Head(job[t].todo)

Goto(t, pc) == job' = [job EXCEPT ![t].pc = pc]
Fail(t) == job' = [job EXCEPT ![t] = IdleJob]

\* Done with the current version: on to the next one, or the end of the request.
Finish(t) ==
  job' = [job EXCEPT ![t] =
            IF Len(@.todo) > 1 THEN [pc |-> "read", todo |-> Tail(@.todo)] ELSE IdleJob]

\* redact_package found a high-severity secret: report.blocked.
Blocked(p) == rows[p].blob_sha256 \in SecretBlob

IndexInit ==
  /\ StoreInit
  /\ indexed = {}
  /\ job = [t \in Thread |-> IdleJob]
  /\ overlapped = FALSE /\ restarted = FALSE

-----------------------------------------------------------------------------
(* The routes, up to the store's commit. *)

PublishRoute(u, a) ==
  /\ Publish(u, a) \/ (MayFail /\ PublishFails(u))
  /\ UNCHANGED <<indexed, job>>

\* Mutant of StatusRoute: the hook is not called.
StatusRouteUnhooked(t, p, m, a) ==
  /\ job[t].pc = "idle"
  /\ m[2] # "superseded"
  /\ SetStatus(p, m[1], m[2], a, TRUE)
  /\ UNCHANGED <<indexed, job>>

(* review, recall and restore: the transition, then a re-index of p.        *)
StatusRoute(t, p, m, a) ==
  /\ job[t].pc = "idle"
  /\ m[2] # "superseded"
  /\ SetStatus(p, m[1], m[2], a, TRUE)
  /\ job' = [job EXCEPT ![t] = [pc |-> "read", todo |-> <<p>>]]
  /\ UNCHANGED indexed

(* supersede: the predecessor is re-indexed, then the successor, which the  *)
(* workflow saw approved some time before the commit.                       *)
SupersedeRoute(t, p, s, a) ==
  /\ job[t].pc = "idle"
  /\ s # p /\ rows[s].status \in {"approved", "superseded", "recalled", "purged"}
  /\ SetStatus(p, "approved", "superseded", a, TRUE)
  /\ job' = [job EXCEPT ![t] = [pc |-> "read", todo |-> <<p, s>>]]
  /\ UNCHANGED indexed

(* purge: not wired through the hook, the route removes the chunks itself,  *)
(* also when the store found a tombstone and returned early.                *)
PurgeRoute(t, p, a) ==
  /\ job[t].pc = "idle"
  /\ Published(p)
  /\ Purge(p, a) \/ (rows[p].purged_at /\ UNCHANGED storeVars)
  /\ job' = [job EXCEPT ![t] = [pc |-> "remove", todo |-> <<p>>]]
  /\ UNCHANGED indexed

\* ... a purge that raises is answered with an error before the removal.
PurgeRouteFails(p) ==
  /\ MayFail
  /\ PurgeFails(p)
  /\ UNCHANGED <<indexed, job>>

(* The admin's "re-run redaction + reindex" button. *)
AdminReindex(t, p) ==
  /\ job[t].pc = "idle"
  /\ job' = [job EXCEPT ![t] = [pc |-> "read", todo |-> <<p>>]]
  /\ UNCHANGED <<rows, blobs, sidecars, trail, abandoned, doomed, indexed>>

-----------------------------------------------------------------------------
(* reindex_package, one action per lock section or file operation. *)

\* Mutant of ReadRecord: any version that has a record is indexed.
ReadRecordAnyStatus(t) ==
  /\ job[t].pc = "read"
  /\ Goto(t, IF Published(Current(t)) THEN "extract" ELSE "remove")
  /\ UNCHANGED <<rows, blobs, sidecars, trail, abandoned, doomed, indexed>>

ReadRecord(t) ==
  /\ job[t].pc = "read"
  /\ Goto(t, IF rows[Current(t)].status = "approved" THEN "extract" ELSE "remove")
  /\ UNCHANGED <<rows, blobs, sidecars, trail, abandoned, doomed, indexed>>

(* store.extract re-reads the record; bytes that are gone by now end the    *)
(* request with an error, the rest of its versions unvisited.               *)
Extract(t) ==
  /\ job[t].pc = "extract"
  /\ IF rows[Current(t)].blob_sha256 \in blobs THEN Goto(t, "report") ELSE Fail(t)
  /\ UNCHANGED <<rows, blobs, sidecars, trail, abandoned, doomed, indexed>>

\* Mutant of SaveReport: the sidecar is skipped.
SaveReportSkipped(t) ==
  /\ job[t].pc = "report"
  /\ Goto(t, "index")
  /\ UNCHANGED <<rows, blobs, sidecars, trail, abandoned, doomed, indexed>>

SaveReport(t) ==
  /\ job[t].pc = "report"
  /\ WriteReport(Current(t))
  /\ Goto(t, "index")
  /\ UNCHANGED indexed

\* Mutant of UpdateIndex: report.blocked is not looked at.
UpdateIndexUnblocked(t) ==
  /\ job[t].pc = "index"
  /\ indexed' = indexed \cup {Current(t)}
  /\ Finish(t)
  /\ UNCHANGED <<rows, blobs, sidecars, trail, abandoned, doomed>>

\* report.blocked: remove, otherwise replace the version's chunks.
UpdateIndex(t) ==
  /\ job[t].pc = "index"
  /\ indexed' = IF Blocked(Current(t))
                THEN indexed \ {Current(t)}
                ELSE indexed \cup {Current(t)}
  /\ Finish(t)
  /\ UNCHANGED <<rows, blobs, sidecars, trail, abandoned, doomed>>

\* Mutant of RemoveChunks: nothing is deleted.
RemoveChunksNot(t) ==
  /\ job[t].pc = "remove"
  /\ Finish(t)
  /\ UNCHANGED <<rows, blobs, sidecars, trail, abandoned, doomed, indexed>>

RemoveChunks(t) ==
  /\ job[t].pc = "remove"
  /\ indexed' = indexed \ {Current(t)}
  /\ Finish(t)
  /\ UNCHANGED <<rows, blobs, sidecars, trail, abandoned, doomed>>

Restart ==
  /\ MayRestart
  /\ \E t \in Thread : job[t] # IdleJob
  /\ job' = [t \in Thread |-> IdleJob]
  /\ UNCHANGED <<rows, blobs, sidecars, trail, abandoned, doomed, indexed>>

Route(t) ==
  \E p \in Package, a \in Actor :
    \/ \E m \in Transitions : StatusRoute(t, p, m, a)
    \/ \E s \in Package : SupersedeRoute(t, p, s, a)
    \/ PurgeRoute(t, p, a)
    \/ AdminReindex(t, p)

Reindex(t) ==
  ReadRecord(t) \/ Extract(t) \/ SaveReport(t) \/ UpdateIndex(t) \/ RemoveChunks(t)

IndexStep ==
  \/ \E u \in Uploads, a \in Actor : PublishRoute(u, a)
  \/ \E p \in Package : PurgeRouteFails(p)
  \/ \E t \in Thread : Route(t) \/ Reindex(t)

IndexNext ==
  /\ \/ IndexStep /\ UNCHANGED restarted
     \/ Restart /\ restarted' = TRUE
  /\ overlapped' = (overlapped \/ \E t, u \in Thread : t # u /\ job'[t] # IdleJob /\ job'[u] # IdleJob)

\* A request that has started is carried to its end by its worker thread;
\* nobody has to make a request.
Fairness == \A t \in Thread : WF_workVars(Reindex(t))

IndexSpec == IndexInit /\ [][IndexNext]_indexVars /\ Fairness

-----------------------------------------------------------------------------
(* Type invariant of the index and of the requests in flight. *)
IndexTypeOK ==
  /\ StoreTypeOK
  /\ indexed \subseteq Package
  /\ job \in [Thread -> Job]
  /\ \A t \in Thread : job[t].pc = "idle" <=> job[t].todo = <<>>

(* Fail closed: whatever interleaves or dies, content with a secret finding *)
(* is never searchable.                                                     *)
SecretsNeverIndexed ==
  \A p \in indexed : ~Blocked(p)

(* Content that has not been through review is never searchable, in any     *)
(* interleaving and after any restart, although the index is written from   *)
(* a status read earlier: a stale read can only be stale about a version    *)
(* that was approved.                                                       *)
OnlyReviewedIndexed ==
  \A p \in indexed : rows[p].status \in {"approved", "superseded", "recalled", "purged"}

(* The redaction report is on disk before the chunks are searchable: an     *)
(* indexed version has its sidecar unless a purge has taken it, one that    *)
(* raised half-way included.                                                *)
ReportBeforeIndex ==
  \A p \in indexed : p \in sidecars \/ rows[p].purged_at \/ p \in doomed

\* What the index should hold about p.
Exact(p) ==
  p \in indexed <=> rows[p].status = "approved" /\ ~Blocked(p)

(* The hook derives membership from the current status: with requests one   *)
(* at a time, a re-index that runs to its end leaves its version exact,     *)
(* even when an earlier request died between the commit and the hook.       *)
ReindexIsExact ==
  [][~overlapped' =>
       \A t \in Thread, p \in Package :
         (UpdateIndex(t) \/ RemoveChunks(t)) /\ p = Current(t) => Exact(p)']_indexVars

(* An approved version becomes searchable (or blocked), unless its status   *)
(* moves on first, another request gets in between or the process dies, or  *)
(* a purge that raised has taken its bytes: the wiring                      *)
(* reindex_after_transition was added for.                                  *)
ApprovalReachesIndex ==
  \A p \in Package :
    rows[p].status = "approved" /\ ~Blocked(p)
      ~> \/ p \in indexed \/ rows[p].status # "approved"
         \/ overlapped \/ restarted \/ p \in doomed

(* "only `approved` packages are ever indexed at all": between requests,    *)
(* nothing that is not approved is searchable.                              *)
OnlyApprovedIndexed ==
  (\A t \in Thread : job[t] = IdleJob) =>
    \A p \in indexed : rows[p].status = "approved"
=============================================================================
