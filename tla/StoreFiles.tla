----------------------------- MODULE StoreFiles ------------------------------
(***************************************************************************)
(* publish and purge of ap_store.PackageStore one file operation and one   *)
(* transaction at a time.  Each process that opens a store root has its    *)
(* own PackageStore, whose RLock keeps that process to one operation at a  *)
(* time; between processes (the API, and agents using ap_agent_tools or    *)
(* ap_mcp in local mode) only sqlite's transactions serialise.  The        *)
(* guards are SELECTs that run before the transaction begins, and a blob   *)
(* file is no part of any transaction.  An operation may break off at any  *)
(* step, because its process dies or because a call it makes raises: files *)
(* stay as they are, an open transaction is rolled back.                   *)
(* Redaction sidecars and the audit trail are in module PackageStore.      *)
(***************************************************************************)
EXTENDS FiniteSets

CONSTANTS
  Package, Blob,
  Uploads,         \* [pkg, blob] directories somebody may publish
  Process,         \* processes with this store root open
  Api,             \* the one that decides reviews, recalls and purges
  NoPackage, NoBlob,
  MayBreak         \* whether an operation may break off (bound of the instance)

ASSUME FilesAssumption ==
  /\ Uploads \subseteq [pkg : Package, blob : Blob]
  /\ Api \in Process
  /\ NoPackage \notin Package
  /\ NoBlob \notin Blob
  /\ MayBreak \in BOOLEAN

VARIABLES
  row,             \* the committed packages table
  files,           \* <root>/blobs/**/<sha>.tar.gz
  tmps,            \* <sha>.tar.gz.tmp left or in use
  op,              \* the operation each process is in the middle of
  doomed,          \* history: versions whose purge reached the blob file
  abandoned,       \* history: contents a publish left without a row, nobody's since
  overlapped       \* history: two processes have been inside an operation at the same time

filesVars == <<row, files, tmps, op, doomed, abandoned, overlapped>>

Status == {"absent", "draft", "in_review", "approved", "rejected",
           "superseded", "recalled", "purged"}

FileRow == [status : Status, blob_sha256 : Blob \cup {NoBlob}, legal_hold : BOOLEAN]

Op == [pc     : {"idle", "put", "replace", "insert", "count", "unlink", "commit"},
       pkg    : Package \cup {NoPackage},
       blob   : Blob \cup {NoBlob},
       shared : BOOLEAN]

NoOp == [pc |-> "idle", pkg |-> NoPackage, blob |-> NoBlob, shared |-> FALSE]

StatusColumn == [p \in Package |-> row[p].status]
Machine == INSTANCE PackageStatus WITH status <- StatusColumn

Published(p) == row[p].status # "absent"
Live(p) == row[p].status \notin {"absent", "purged"}

Goto(i, pc) == op' = [op EXCEPT ![i].pc = pc]
Finish(i) == op' = [op EXCEPT ![i] = NoOp]

FilesInit ==
  /\ row = [p \in Package |->
              [status |-> "absent", blob_sha256 |-> NoBlob, legal_hold |-> FALSE]]
  /\ files = {}
  /\ tmps = {}
  /\ op = [i \in Process |-> NoOp]
  /\ doomed = {}
  /\ abandoned = {}
  /\ overlapped = FALSE

-----------------------------------------------------------------------------
(* publish *)

\* _get_row: a key that has a row needs no blob (idempotent, or refused).
PublishBegin(i, u) ==
  /\ op[i].pc = "idle"
  /\ ~Published(u.pkg)
  /\ op' = [op EXCEPT ![i] = [pc |-> "put", pkg |-> u.pkg, blob |-> u.blob,
                              shared |-> FALSE]]
  /\ UNCHANGED <<row, files, tmps, doomed, abandoned>>

\* BlobStore.put: a file that is there is kept, else the bytes go to a .tmp.
Put(i) ==
  /\ op[i].pc = "put"
  /\ IF op[i].blob \in files
     THEN Goto(i, "insert") /\ UNCHANGED tmps
     ELSE Goto(i, "replace") /\ tmps' = tmps \cup {op[i].blob}
  /\ UNCHANGED <<row, files, doomed, abandoned>>

\* tmp.replace(path): fails when another process has just moved the same .tmp.
Replace(i) ==
  /\ op[i].pc = "replace"
  /\ IF op[i].blob \in tmps
     THEN /\ files' = files \cup {op[i].blob}
          /\ tmps' = tmps \ {op[i].blob}
          /\ Goto(i, "insert")
     ELSE Finish(i) /\ UNCHANGED <<files, tmps>>
  /\ UNCHANGED <<row, doomed, abandoned>>

\* Mutant of Insert: INSERT OR REPLACE.
InsertOrReplace(i) ==
  /\ op[i].pc = "insert"
  /\ row' = [row EXCEPT ![op[i].pkg] =
               [status |-> "draft", blob_sha256 |-> op[i].blob, legal_hold |-> FALSE]]
  /\ Finish(i)
  /\ UNCHANGED <<files, tmps, doomed, abandoned>>

\* The INSERT and its audit row; the primary key refuses a second insert.
Insert(i) ==
  /\ op[i].pc = "insert"
  /\ \/ /\ ~Published(op[i].pkg)
        /\ row' = [row EXCEPT ![op[i].pkg] =
                     [status |-> "draft", blob_sha256 |-> op[i].blob,
                      legal_hold |-> FALSE]]
        /\ abandoned' = abandoned \ {op[i].blob}
     \/ /\ Published(op[i].pkg)
        /\ abandoned' = abandoned \cup {op[i].blob}
        /\ UNCHANGED row
  /\ Finish(i)
  /\ UNCHANGED <<files, tmps, doomed>>

-----------------------------------------------------------------------------
(* purge *)

\* The row as purge() finds it: a tombstone returns early, two guards refuse.
PurgeBegin(i, p) ==
  /\ op[i].pc = "idle"
  /\ Live(p)
  /\ row[p].status # "approved"
  /\ ~row[p].legal_hold
  /\ op' = [op EXCEPT ![i] = [pc |-> "count", pkg |-> p, blob |-> row[p].blob_sha256,
                              shared |-> FALSE]]
  /\ UNCHANGED <<row, files, tmps, doomed, abandoned>>

\* Mutant of CountReferences: nobody is asked.
CountReferencesNot(i) ==
  /\ op[i].pc = "count"
  /\ op' = [op EXCEPT ![i].pc = "unlink"]
  /\ UNCHANGED <<row, files, tmps, doomed, abandoned>>

CountReferences(i) ==
  /\ op[i].pc = "count"
  /\ op' = [op EXCEPT ![i].pc = "unlink",
                      ![i].shared = \E q \in Package \ {op[i].pkg} :
                          Live(q) /\ row[q].blob_sha256 = op[i].blob]
  /\ UNCHANGED <<row, files, tmps, doomed, abandoned>>

\* Mutant of Unlink: purge only marks the row.
UnlinkNot(i) ==
  /\ op[i].pc = "unlink"
  /\ doomed' = doomed \cup {op[i].pkg}
  /\ Goto(i, "commit")
  /\ UNCHANGED <<row, files, tmps, abandoned>>

\* What the count lets this purge delete.
Bytes(i) == IF op[i].shared THEN {} ELSE {op[i].blob}

Unlink(i) ==
  /\ op[i].pc = "unlink"
  /\ files' = files \ Bytes(i)
  /\ abandoned' = abandoned \ Bytes(i)
  /\ doomed' = doomed \cup {op[i].pkg}
  /\ Goto(i, "commit")
  /\ UNCHANGED <<row, tmps>>

\* The UPDATE to a tombstone has no status in its WHERE clause.
Commit(i) ==
  /\ op[i].pc = "commit"
  /\ row' = [row EXCEPT ![op[i].pkg].status = "purged"]
  /\ Finish(i)
  /\ UNCHANGED <<files, tmps, doomed, abandoned>>

-----------------------------------------------------------------------------
(* One-transaction operations: they need the process's lock, so no other    *)
(* operation of that process is under way.                                  *)

\* set_status: agents only submit for review.
SetStatus(i, p, m) ==
  /\ op[i].pc = "idle"
  /\ i = Api \/ m = <<"draft", "in_review">>
  /\ row[p].status = m[1]
  /\ row' = [row EXCEPT ![p].status = m[2]]
  /\ UNCHANGED <<files, tmps, op, doomed, abandoned>>

SetLegalHold(p, hold) ==
  /\ op[Api].pc = "idle"
  /\ Published(p)
  /\ row' = [row EXCEPT ![p].legal_hold = hold]
  /\ UNCHANGED <<files, tmps, op, doomed, abandoned>>

(* A process dies, or one of the calls of an operation raises: writing or   *)
(* moving the .tmp, a check of run_all, an owners entry that is no mapping,  *)
(* the INSERT; the reference count, the unlinks, the UPDATE.  A publish that *)
(* has put its blob leaves it.                                               *)
BreakOff(i) ==
  /\ MayBreak
  /\ op[i] # NoOp
  /\ abandoned' = IF op[i].pc = "insert" THEN abandoned \cup {op[i].blob} ELSE abandoned
  /\ Finish(i)
  /\ UNCHANGED <<row, files, tmps, doomed>>

FilesStep ==
  \/ \E i \in Process :
       \/ \E u \in Uploads : PublishBegin(i, u)
       \/ Put(i) \/ Replace(i) \/ Insert(i)
       \/ CountReferences(i) \/ Unlink(i) \/ Commit(i)
       \/ \E p \in Package, m \in Machine!ReviewTransitions \cup Machine!LifecycleTransitions :
            SetStatus(i, p, m)
  \/ \E p \in Package : PurgeBegin(Api, p)
  \/ \E p \in Package, hold \in BOOLEAN : SetLegalHold(p, hold)
  \/ \E i \in Process : BreakOff(i)

FilesNext ==
  /\ FilesStep
  /\ overlapped' = (overlapped \/ \E i, j \in Process : i # j /\ op'[i] # NoOp /\ op'[j] # NoOp)

FilesSpec == FilesInit /\ [][FilesNext]_filesVars

-----------------------------------------------------------------------------
(* Type invariant of the files, the table and the operations. *)
FilesTypeOK ==
  /\ row \in [Package -> FileRow]
  /\ files \subseteq Blob
  /\ tmps \subseteq Blob
  /\ op \in [Process -> Op]
  /\ doomed \subseteq Package
  /\ abandoned \subseteq Blob
  /\ overlapped \in BOOLEAN

(* A version that nobody purged has its bytes, whatever publishes and       *)
(* purges of versions that share its content do.                            *)
BytesSurvive == \A p \in Package : Live(p) /\ p \notin doomed => row[p].blob_sha256 \in files

(* While operations do not overlap, which is what the RLock gives a store    *)
(* that one process has open, a publish or purge that breaks off, of this    *)
(* version or of one that shares its content, never loses the bytes of a     *)
(* version that nobody purged.                                               *)
BytesSurviveAlone == ~overlapped => BytesSurvive

(* Whatever overlaps, dies or raises, a blob file is accounted for: it is    *)
(* the content of a live row, or of a publish about to insert one, or what   *)
(* a publish that broke off or was refused has left.  Such a leftover is     *)
(* taken over by the next publish of the same bytes, and from then on the    *)
(* last purge of a version that has them must remove it.                     *)
NoStrayFiles ==
  \A b \in files :
    \/ \E p \in Package : Live(p) /\ row[p].blob_sha256 = b
    \/ \E i \in Process : op[i].pc = "insert" /\ op[i].blob = b
    \/ b \in abandoned

(* Two processes publishing different bytes under one key: the first row    *)
(* committed is the one that stays.                                         *)
CommittedContentStays ==
  [][\A p \in Package : Published(p) => row'[p].blob_sha256 = row[p].blob_sha256]_filesVars

(* The status column follows the status machine across processes: purge's    *)
(* UPDATE has no status in its WHERE clause, and still no version that was    *)
(* approved meanwhile becomes a tombstone.                                    *)
ImplementsStatusMachine == Machine!StatusSpec
=============================================================================
