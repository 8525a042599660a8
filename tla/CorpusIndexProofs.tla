-------------------------- MODULE CorpusIndexProofs ---------------------------
(***************************************************************************)
(* Proofs about CorpusIndex for any versions, contents, threads and        *)
(* uploads: whatever requests interleave and whenever the process dies,    *)
(* nothing is searchable that carries a secret, has not been reviewed or   *)
(* has no redaction report.  The index is written from reads that may be   *)
(* stale by then; what makes them good enough are the facts about a        *)
(* version that no step of the store takes back.                           *)
(***************************************************************************)
EXTENDS CorpusIndex, PackageStoreProofs, SequenceTheorems

Reviewed(p) == rows[p].status \in {"approved", "superseded", "recalled", "purged"}

Reported(p) == p \in sidecars \/ rows[p].purged_at \/ p \in doomed

\* The version a thread is about to extract, report on and index was approved
\* when it was read, and its report is written before the index is.
JobSound(t) ==
  /\ job[t].pc \in {"extract", "report", "index"} => Reviewed(Current(t))
  /\ job[t].pc = "index" => Reported(Current(t))

IndexInv ==
  /\ StoreInv
  /\ IndexTypeOK
  /\ \A t \in Thread : JobSound(t)
  /\ SecretsNeverIndexed
  /\ OnlyReviewedIndexed
  /\ ReportBeforeIndex

\* While one request at a time is in flight, what it has read of its version's
\* status is still so.
StatusKnown(t) ==
  /\ job[t].pc \in {"extract", "report", "index"} => rows[Current(t)].status = "approved"
  /\ job[t].pc = "remove" => rows[Current(t)].status # "approved"

AloneInv ==
  ~overlapped =>
    /\ \A t, u \in Thread : t # u => job[t] = IdleJob \/ job[u] = IdleJob
    /\ \A t \in Thread : StatusKnown(t)

-----------------------------------------------------------------------------
(* The versions a request still has to visit. *)

Todo == UNION {[1..n -> Package] : n \in 0..2}

\* They are a sequence of at most two.
LEMMA TodoIsSeq ==
  /\ \A q \in Todo : q \in Seq(Package)
  /\ \A q \in Seq(Package) : Len(q) \in 0..2 => q \in Todo
  <1>1. ASSUME NEW q \in Seq(Package), Len(q) \in 0..2 PROVE q \in Todo
    BY <1>1, LenProperties DEF Todo
  <1>2. ASSUME NEW q \in Todo PROVE q \in Seq(Package)
    <2>1. PICK n \in 0..2 : q \in [1..n -> Package]
      BY DEF Todo
    <2> QED BY <2>1
  <1> QED BY <1>1, <1>2

\* None, one or two of them.
LEMMA TodoShape ==
  /\ <<>> \in Todo
  /\ \A p \in Package : <<p>> \in Todo /\ Head(<<p>>) = p /\ <<p>> # <<>>
  /\ \A p, s \in Package : <<p, s>> \in Todo /\ Head(<<p, s>>) = p /\ <<p, s>> # <<>>
  <1>1. ASSUME NEW q, q = <<>> PROVE q \in Todo
    <2>1. q \in Seq(Package) /\ Len(q) \in 0..2
      BY <1>1, EmptySeq
    <2> QED BY <2>1, TodoIsSeq
  <1>2. ASSUME NEW p \in Package, NEW q, q = <<p>>
        PROVE  q \in Todo /\ Head(q) = p /\ q # <<>>
    <2>1. q \in Seq(Package) /\ Len(q) = 1 /\ Head(q) = p /\ q # <<>>
      BY <1>2
    <2> QED BY <2>1, TodoIsSeq
  <1>3. ASSUME NEW p \in Package, NEW s \in Package, NEW q, q = <<p, s>>
        PROVE  q \in Todo /\ Head(q) = p /\ q # <<>>
    <2>1. q \in Seq(Package) /\ Len(q) = 2 /\ Head(q) = p /\ q # <<>>
      BY <1>3
    <2> QED BY <2>1, TodoIsSeq
  <1> QED BY <1>1, <1>2, <1>3

\* The first one is a version, and what is left after it is there to visit.
LEMMA TodoNext ==
  ASSUME NEW q \in Todo, q # <<>>
  PROVE  /\ Head(q) \in Package
         /\ Len(q) > 1 => Tail(q) \in Todo /\ Tail(q) # <<>>
  <1>1. q \in Seq(Package) /\ Len(q) \in 0..2
    <2>1. PICK n \in 0..2 : q \in [1..n -> Package]
      BY DEF Todo
    <2>2. q \in Seq(Package)
      BY <2>1
    <2> QED BY <2>1, <2>2
  <1>2. Head(q) \in Package /\ Tail(q) \in Seq(Package) /\ Len(Tail(q)) = Len(q) - 1
    BY <1>1, HeadTailProperties
  <1>3. Len(q) > 1 => Len(Tail(q)) \in 0..2 /\ Len(Tail(q)) # 0
    BY <1>1, <1>2
  <1>4. ASSUME Tail(q) = <<>> PROVE Len(Tail(q)) = 0
    BY <1>4, EmptySeq
  <1> QED BY <1>2, <1>3, <1>4, TodoIsSeq

-----------------------------------------------------------------------------
(* What no step of the store takes back. *)

\* A reviewed version stays reviewed, and so does what its row names; a report
\* goes only with the version.
LEMMA StoreKeeps ==
  ASSUME StoreInv, [StoreNext]_storeVars, NEW p \in Package
  PROVE  /\ Reviewed(p) => Reviewed(p)' /\ rows'[p].blob_sha256 = rows[p].blob_sha256
         /\ Reported(p) => Reported(p)'
  <1> DEFINE G == /\ Reviewed(p) => Reviewed(p)' /\ rows'[p].blob_sha256 = rows[p].blob_sha256
                  /\ Reported(p) => Reported(p)'
  <1>0. rows \in [Package -> Row] /\ (rows[p].purged_at <=> rows[p].status = "purged")
    BY DEF StoreInv, StoreTypeOK, TombstonesConsistent
  <1>1. ASSUME NEW u \in Uploads, NEW a \in Actor, Publish(u, a) PROVE G
    <2>1. /\ rows[u.pkg].status = "absent" /\ (p # u.pkg => rows'[p] = rows[p])
          /\ sidecars' = sidecars /\ doomed' = doomed
      BY <1>0, <1>1 DEF Publish, Published
    <2> QED BY <1>0, <2>1 DEF Reviewed, Reported
  <1>2. ASSUME NEW q \in Package, NEW m \in Transitions, NEW a \in Actor, NEW r \in BOOLEAN,
               SetStatus(q, m[1], m[2], a, r)
        PROVE  G
    <2>1. m[1] \in {"approved", "superseded", "recalled"} =>
            m[2] \in {"approved", "superseded", "recalled"}
      BY DEF Transitions, Machine!ReviewTransitions, Machine!LifecycleTransitions
    <2>2. m[1] # "purged"
      BY TransitionEnds
    <2>3. /\ rows[q].status = m[1] /\ sidecars' = sidecars /\ doomed' = doomed
          /\ rows' = [rows EXCEPT ![q] = [rows[q] EXCEPT !.status = m[2]]]
      BY <1>0, <1>2 DEF SetStatus
    <2>4. /\ rows'[p].blob_sha256 = rows[p].blob_sha256 /\ rows'[p].purged_at = rows[p].purged_at
          /\ rows'[p].status = IF p = q THEN m[2] ELSE rows[p].status
      BY <1>0, <2>3 DEF Row
    <2> QED BY <2>1, <2>2, <2>3, <2>4 DEF Reviewed, Reported
  <1>3. ASSUME NEW q \in Package,
               \/ \E s \in Package : LinkReplaces(q, s)
               \/ \E hold \in BOOLEAN : SetLegalHold(q, hold)
        PROVE  G
    BY <1>0, <1>3 DEF LinkReplaces, SetLegalHold, Row, Reviewed, Reported
  <1>4. ASSUME NEW q \in Package, NEW a \in Actor, Purge(q, a) PROVE G
    <2>1. /\ sidecars' = sidecars \ {q} /\ doomed' = doomed
          /\ p # q => rows'[p] = rows[p]
          /\ p = q => /\ rows'[p].status = "purged" /\ rows'[p].purged_at
                      /\ rows'[p].blob_sha256 = rows[p].blob_sha256
      BY <1>0, <1>4 DEF Purge, Row
    <2> QED BY <2>1 DEF Reviewed, Reported
  <1>5. ASSUME NEW q \in Package, WriteReport(q) PROVE G
    BY <1>5 DEF WriteReport, Reviewed, Reported
  <1>6. ASSUME NEW u \in Uploads, PublishFails(u) PROVE G
    BY <1>6 DEF PublishFails, Reviewed, Reported
  <1>7. ASSUME NEW q \in Package, PurgeFails(q) PROVE G
    BY <1>7 DEF PurgeFails, Reviewed, Reported
  <1>8. CASE UNCHANGED storeVars
    BY <1>8 DEF storeVars, Reviewed, Reported
  <1> QED BY <1>1, <1>2, <1>3, <1>4, <1>5, <1>6, <1>7, <1>8 DEF StoreNext

-----------------------------------------------------------------------------
(* The steps. *)

JobFits(j) == j \in Job /\ (j.pc = "idle" <=> j.todo = <<>>)

\* A step of the store beside a step of one request.
LEMMA RequestKeeps ==
  ASSUME IndexInv, [StoreNext]_storeVars,
         NEW t \in Thread, NEW j, JobFits(j), job' = [job EXCEPT ![t] = j],
         j.pc \in {"extract", "report", "index"} => Reviewed(Head(j.todo)),
         j.pc = "index" => Head(j.todo) \in sidecars' \/ rows'[Head(j.todo)].purged_at,
         indexed' \subseteq Package,
         \A p \in indexed' : p \in indexed \/ (Reviewed(p) /\ Reported(p) /\ ~Blocked(p))
  PROVE  IndexInv'
  <1>0. /\ job \in [Thread -> Job] /\ indexed \subseteq Package
        /\ \A s \in Thread : JobFits(job[s]) /\ JobSound(s)
        /\ StoreInv
    BY DEF IndexInv, IndexTypeOK, JobFits
  <1>1. /\ StoreInv' /\ StoreTypeOK'
        /\ \A p \in Package : /\ Reviewed(p) => Reviewed(p)' /\ rows'[p].blob_sha256 = rows[p].blob_sha256
                              /\ Reported(p) => Reported(p)'
    BY <1>0, StepKeepsStoreInv, StoreKeeps DEF StoreInv
  <1>2. job' \in [Thread -> Job] /\ \A s \in Thread : job'[s] = IF s = t THEN j ELSE job[s]
    BY <1>0 DEF JobFits
  <1>3. \A s \in Thread : JobFits(job'[s])
    BY <1>0, <1>2
  <1>4. ASSUME NEW q, JobFits(q), q.pc # "idle" PROVE Head(q.todo) \in Package
    <2>1. q.todo \in Todo /\ q.todo # <<>>
      BY <1>4 DEF JobFits, Job, Todo
    <2> QED BY <2>1, TodoNext
  <1>5. \A s \in Thread : JobSound(s)'
    <2> SUFFICES ASSUME NEW s \in Thread PROVE JobSound(s)'
      OBVIOUS
    <2>1. CASE s = t
      BY <1>1, <1>2, <1>4, <2>1 DEF JobSound, Current, Reviewed, Reported
    <2>2. CASE s # t
      <3>1. job'[s] = job[s] /\ (job[s].pc # "idle" => Head(job[s].todo) \in Package)
        BY <1>0, <1>2, <1>4, <2>2
      <3>2. JobSound(s)
        BY <1>0
      <3> QED BY <1>1, <3>1, <3>2 DEF JobSound, Current, Reviewed, Reported
    <2> QED BY <2>1, <2>2
  <1>6. ASSUME NEW p \in indexed'
        PROVE  Reviewed(p)' /\ Reported(p)' /\ ~Blocked(p)'
    <2>1. p \in Package /\ Reviewed(p) /\ Reported(p) /\ ~Blocked(p)
      BY <1>0 DEF IndexInv, SecretsNeverIndexed, OnlyReviewedIndexed, ReportBeforeIndex,
                  Reviewed, Reported
    <2> QED BY <1>1, <2>1 DEF Blocked
  <1>7. SecretsNeverIndexed' /\ OnlyReviewedIndexed' /\ ReportBeforeIndex'
    BY <1>6 DEF SecretsNeverIndexed, OnlyReviewedIndexed, ReportBeforeIndex, Reviewed, Reported
  <1> QED BY <1>1, <1>2, <1>3, <1>5, <1>7 DEF IndexInv, IndexTypeOK, JobFits

\* A request begins with a read or, after a purge, with the removal.
LEMMA RoutesKeep ==
  ASSUME IndexInv, NEW t \in Thread, Route(t)
  PROVE  IndexInv' /\ [StoreNext]_storeVars
  <1> DEFINE Begins(j) == job' = [job EXCEPT ![t] = j] /\ UNCHANGED indexed
  <1>a. ASSUME [StoreNext]_storeVars, NEW pc \in {"read", "remove"}, NEW q \in Todo, q # <<>>,
               Begins([pc |-> pc, todo |-> q])
        PROVE  IndexInv' /\ [StoreNext]_storeVars
    <2> DEFINE j == [pc |-> pc, todo |-> q]
    <2>1. JobFits(j) /\ j.pc \in {"read", "remove"}
      BY <1>a DEF JobFits, Job, Todo
    <2>2. job' = [job EXCEPT ![t] = j]
      BY <1>a
    <2>3. indexed' \subseteq Package /\ indexed' = indexed
      BY <1>a DEF IndexInv, IndexTypeOK
    <2> HIDE DEF j
    <2> QED BY <1>a, <2>1, <2>2, <2>3, RequestKeeps
  <1>1. ASSUME NEW p \in Package, NEW a \in Actor, NEW m \in Transitions, StatusRoute(t, p, m, a)
        PROVE  IndexInv' /\ [StoreNext]_storeVars
    <2>1. StoreNext
      BY <1>1 DEF StatusRoute, StoreNext
    <2> QED BY <1>a, <1>1, <2>1, TodoShape DEF StatusRoute
  <1>2. ASSUME NEW p \in Package, NEW a \in Actor, NEW s \in Package, SupersedeRoute(t, p, s, a)
        PROVE  IndexInv' /\ [StoreNext]_storeVars
    <2>1. <<"approved", "superseded">> \in Transitions
      BY DEF Transitions, Machine!LifecycleTransitions
    <2>2. \E m \in Transitions : SetStatus(p, m[1], m[2], a, TRUE)
      BY <1>2, <2>1 DEF SupersedeRoute
    <2>3. StoreNext
      BY <2>2 DEF StoreNext
    <2> QED BY <1>a, <1>2, <2>3, TodoShape DEF SupersedeRoute
  <1>3. ASSUME NEW p \in Package, NEW a \in Actor, PurgeRoute(t, p, a)
        PROVE  IndexInv' /\ [StoreNext]_storeVars
    <2>1. [StoreNext]_storeVars
      BY <1>3 DEF PurgeRoute, StoreNext
    <2> QED BY <1>a, <1>3, <2>1, TodoShape DEF PurgeRoute
  <1>4. ASSUME NEW p \in Package, AdminReindex(t, p)
        PROVE  IndexInv' /\ [StoreNext]_storeVars
    <2>1. [StoreNext]_storeVars
      BY <1>4 DEF AdminReindex, storeVars
    <2> QED BY <1>a, <1>4, <2>1, TodoShape DEF AdminReindex
  <1> QED BY <1>1, <1>2, <1>3, <1>4 DEF Route

\* reindex_package, step by step.
LEMMA ReindexKeeps ==
  ASSUME IndexInv, NEW t \in Thread, Reindex(t)
  PROVE  IndexInv' /\ [StoreNext]_storeVars
  <1> DEFINE j == job[t]  p == Current(t)
  <1>0. /\ job \in [Thread -> Job] /\ indexed \subseteq Package
        /\ j \in Job /\ JobFits(j) /\ JobSound(t)
    BY DEF IndexInv, IndexTypeOK, JobFits
  <1>1. j.pc # "idle" /\ j.todo \in Todo /\ j.todo # <<>>
    BY <1>0 DEF Reindex, ReadRecord, Extract, SaveReport, UpdateIndex, RemoveChunks, JobFits, Job, Todo
  <1>2. p \in Package /\ p = Head(j.todo)
    BY <1>1, TodoNext DEF Current
  \* The next step of this version.
  <1>a. ASSUME NEW pc \in {"extract", "report", "index", "remove"}, Goto(t, pc),
               [StoreNext]_storeVars, indexed' = indexed,
               pc # "remove" => Reviewed(p),
               pc = "index" => p \in sidecars' \/ rows'[p].purged_at
        PROVE  IndexInv'
    <2> DEFINE k == [j EXCEPT !.pc = pc]
    <2>1. job' = [job EXCEPT ![t] = k]
      BY <1>0, <1>a DEF Goto
    <2>2. JobFits(k) /\ k.pc = pc /\ k.todo = j.todo
      BY <1>0, <1>1 DEF JobFits, Job
    <2> HIDE DEF k
    <2> QED BY <1>0, <1>2, <1>a, <2>1, <2>2, RequestKeeps
  \* The end of the request.
  <1>b. ASSUME Fail(t), UNCHANGED <<storeVars, indexed>> PROVE IndexInv'
    <2>1. JobFits(IdleJob) /\ IdleJob.pc = "idle"
      BY TodoShape DEF JobFits, IdleJob, Job, Todo
    <2>2. [StoreNext]_storeVars /\ job' = [job EXCEPT ![t] = IdleJob] /\ indexed' = indexed
      BY <1>b DEF storeVars, Fail
    <2> QED BY <1>0, <2>1, <2>2, RequestKeeps
  \* The end of this version.
  <1>c. ASSUME Finish(t), UNCHANGED storeVars, indexed' \subseteq Package,
               \A q \in indexed' : q \in indexed \/ (Reviewed(q) /\ Reported(q) /\ ~Blocked(q))
        PROVE  IndexInv'
    <2>1. CASE Len(j.todo) > 1
      <3> DEFINE k == [pc |-> "read", todo |-> Tail(j.todo)]
      <3>1. Tail(j.todo) \in Todo /\ Tail(j.todo) # <<>>
        BY <1>1, <2>1, TodoNext
      <3>2. JobFits(k) /\ k.pc = "read"
        BY <3>1 DEF JobFits, Job, Todo
      <3>3. job' = [job EXCEPT ![t] = k]
        BY <1>c, <2>1 DEF Finish
      <3> HIDE DEF k
      <3> QED BY <1>c, <3>2, <3>3, RequestKeeps
    <2>2. CASE ~(Len(j.todo) > 1)
      <3>1. JobFits(IdleJob) /\ IdleJob.pc = "idle"
        BY TodoShape DEF JobFits, IdleJob, Job, Todo
      <3>2. job' = [job EXCEPT ![t] = IdleJob]
        BY <1>c, <2>2 DEF Finish
      <3> QED BY <1>c, <3>1, <3>2, RequestKeeps
    <2> QED BY <2>1, <2>2
  <1>3. CASE ReadRecord(t)
    <2>1. [StoreNext]_storeVars /\ indexed' = indexed
      BY <1>3 DEF ReadRecord, storeVars
    <2>2. CASE rows[p].status = "approved"
      BY <1>3, <1>a, <2>1, <2>2 DEF ReadRecord, Reviewed
    <2>3. CASE rows[p].status # "approved"
      BY <1>3, <1>a, <2>1, <2>3 DEF ReadRecord
    <2> QED BY <2>1, <2>2, <2>3
  <1>4. CASE Extract(t)
    <2>1. [StoreNext]_storeVars /\ indexed' = indexed /\ Reviewed(p)
      BY <1>0, <1>4 DEF Extract, storeVars, JobSound
    <2>2. CASE rows[p].blob_sha256 \in blobs
      BY <1>4, <1>a, <2>1, <2>2 DEF Extract
    <2>3. CASE rows[p].blob_sha256 \notin blobs
      BY <1>4, <1>b, <2>1, <2>3 DEF Extract, storeVars
    <2> QED BY <2>1, <2>2, <2>3
  <1>5. CASE SaveReport(t)
    <2>1. StoreNext
      BY <1>2, <1>5 DEF SaveReport, StoreNext
    <2>2. Reviewed(p) /\ p \in sidecars' /\ indexed' = indexed /\ Goto(t, "index")
      BY <1>0, <1>5 DEF SaveReport, WriteReport, JobSound
    <2> QED BY <1>a, <2>1, <2>2
  <1>6. CASE UpdateIndex(t)
    <2>1. Reviewed(p) /\ Reported(p) /\ UNCHANGED storeVars /\ Finish(t)
      BY <1>0, <1>6 DEF UpdateIndex, JobSound, storeVars
    <2>2. indexed' = IF Blocked(p) THEN indexed \ {p} ELSE indexed \cup {p}
      BY <1>6 DEF UpdateIndex
    <2> QED BY <1>0, <1>2, <1>c, <2>1, <2>2
  <1>7. CASE RemoveChunks(t)
    <2>1. UNCHANGED storeVars /\ Finish(t) /\ indexed' = indexed \ {p}
      BY <1>7 DEF RemoveChunks, storeVars
    <2> QED BY <1>0, <1>c, <2>1
  <1> QED BY <1>3, <1>4, <1>5, <1>6, <1>7 DEF Reindex

\* Every step keeps the invariant, and is a step of the store or none.
LEMMA IndexStepKeeps ==
  IndexInv /\ [IndexNext]_indexVars => IndexInv' /\ [StoreNext]_storeVars
  <1> SUFFICES ASSUME IndexInv, [IndexNext]_indexVars
               PROVE  IndexInv' /\ [StoreNext]_storeVars
    OBVIOUS
  \* A step that moves no request on.
  <1>a. ASSUME [StoreNext]_storeVars, UNCHANGED indexed,
               \A t \in Thread : job'[t] \in {job[t], IdleJob}, job' \in [Thread -> Job]
        PROVE  IndexInv'
    <2>1. /\ StoreInv' /\ StoreTypeOK' /\ indexed \subseteq Package
          /\ \A p \in Package : /\ Reviewed(p) => Reviewed(p)'
                                                  /\ rows'[p].blob_sha256 = rows[p].blob_sha256
                                /\ Reported(p) => Reported(p)'
      BY <1>a, StepKeepsStoreInv, StoreKeeps DEF IndexInv, IndexTypeOK, StoreInv
    <2>2. SecretsNeverIndexed' /\ OnlyReviewedIndexed' /\ ReportBeforeIndex'
      BY <1>a, <2>1 DEF IndexInv, SecretsNeverIndexed, OnlyReviewedIndexed, ReportBeforeIndex,
                        Reviewed, Reported, Blocked
    <2>3. \A t \in Thread : JobSound(t)' /\ (job'[t].pc = "idle" <=> job'[t].todo = <<>>)
      <3> SUFFICES ASSUME NEW t \in Thread
                   PROVE  JobSound(t)' /\ (job'[t].pc = "idle" <=> job'[t].todo = <<>>)
        OBVIOUS
      <3>1. CASE job'[t] = IdleJob
        BY <3>1 DEF JobSound, IdleJob
      <3>2. CASE job'[t] = job[t]
        <4>1. JobSound(t) /\ job[t] \in Job /\ (job[t].pc = "idle" <=> job[t].todo = <<>>)
          BY DEF IndexInv, IndexTypeOK
        <4>2. job[t].pc # "idle" => Current(t) \in Package
          BY <4>1, TodoNext DEF Current, Job, Todo
        <4> QED BY <2>1, <3>2, <4>1, <4>2 DEF JobSound, Current, Reviewed, Reported
      <3> QED BY <1>a, <3>1, <3>2
    <2> QED BY <1>a, <2>1, <2>2, <2>3 DEF IndexInv, IndexTypeOK
  <1>1. ASSUME NEW u \in Uploads, NEW a \in Actor, PublishRoute(u, a)
        PROVE  IndexInv' /\ [StoreNext]_storeVars
    <2>1. [StoreNext]_storeVars
      BY <1>1 DEF PublishRoute, StoreNext
    <2> QED BY <1>1, <1>a, <2>1 DEF PublishRoute, IndexInv, IndexTypeOK
  <1>2. ASSUME NEW t \in Thread, Route(t) \/ Reindex(t)
        PROVE  IndexInv' /\ [StoreNext]_storeVars
    BY <1>2, RoutesKeep, ReindexKeeps
  <1>3. CASE Restart
    <2>1. IdleJob \in Job
      BY TodoShape DEF IdleJob, Job, Todo
    <2>2. [StoreNext]_storeVars /\ UNCHANGED indexed
          /\ job' = [t \in Thread |-> IdleJob]
      BY <1>3 DEF Restart, storeVars
    <2> QED BY <1>a, <2>1, <2>2
  <1>4. ASSUME NEW p \in Package, PurgeRouteFails(p)
        PROVE  IndexInv' /\ [StoreNext]_storeVars
    <2>1. [StoreNext]_storeVars
      BY <1>4 DEF PurgeRouteFails, StoreNext
    <2> QED BY <1>4, <1>a, <2>1 DEF PurgeRouteFails, IndexInv, IndexTypeOK
  <1>5. CASE UNCHANGED indexVars
    BY <1>5, <1>a DEF indexVars, storeVars, IndexInv, IndexTypeOK
  <1> QED BY <1>1, <1>2, <1>3, <1>4, <1>5 DEF IndexNext, IndexStep

\* The invariant holds of the empty store with its empty index.
LEMMA IndexInitKeeps == IndexInit => IndexInv
  <1> SUFFICES ASSUME IndexInit PROVE IndexInv
    OBVIOUS
  <1>1. StoreInv /\ StoreTypeOK
    BY InitEstablishesStoreInv DEF IndexInit, StoreInv
  <1>2. IdleJob \in Job
    BY TodoShape DEF IdleJob, Job, Todo
  <1>3. \A t \in Thread : job[t] = IdleJob
    BY DEF IndexInit
  <1> QED BY <1>1, <1>2, <1>3
          DEF IndexInit, IndexInv, IndexTypeOK, JobSound, IdleJob, SecretsNeverIndexed,
              OnlyReviewedIndexed, ReportBeforeIndex

-----------------------------------------------------------------------------
(* One request at a time. *)

\* A publish neither approves a version nor touches an approved one.
LEMMA PublishKeepsApproved ==
  ASSUME IndexInv, NEW u \in Uploads, NEW a \in Actor, Publish(u, a), NEW p \in Package
  PROVE  rows'[p].status = "approved" <=> rows[p].status = "approved"
  <1>1. rows \in [Package -> Row] /\ u.pkg \in Package
    BY StoreAssumption DEF IndexInv, IndexTypeOK, StoreTypeOK, UploadType
  <1>2. rows[u.pkg].status = "absent" /\ rows'[u.pkg].status = "draft"
    BY <1>1 DEF Publish, Published, DraftRow
  <1>3. p # u.pkg => rows'[p] = rows[p]
    BY <1>1 DEF Publish
  <1> QED BY <1>2, <1>3

\* A request begins with the removal only of a version that is purged by then.
LEMMA RouteStart ==
  ASSUME IndexInv, NEW t \in Thread, Route(t)
  PROVE  /\ job'[t].pc \in {"read", "remove"}
         /\ job'[t].pc = "remove" => rows'[Current(t)'].status # "approved"
  <1>0. /\ job \in [Thread -> Job] /\ rows \in [Package -> Row]
        /\ \A p \in Package : rows[p].purged_at <=> rows[p].status = "purged"
    BY DEF IndexInv, IndexTypeOK, StoreInv, StoreTypeOK, TombstonesConsistent
  <1>1. ASSUME NEW p \in Package, NEW a \in Actor, PurgeRoute(t, p, a)
        PROVE  job'[t].pc = "remove" /\ rows'[Current(t)'].status # "approved"
    <2>1. job'[t] = [pc |-> "remove", todo |-> <<p>>]
      BY <1>0, <1>1 DEF PurgeRoute
    <2>2. Current(t)' = p
      BY <2>1, TodoShape DEF Current
    <2>3. rows'[p].status = "purged"
      BY <1>0, <1>1 DEF PurgeRoute, Purge, Row, storeVars
    <2> QED BY <2>1, <2>2, <2>3
  <1>2. ASSUME NEW p \in Package, NEW a \in Actor,
               \/ \E m \in Transitions : StatusRoute(t, p, m, a)
               \/ \E s \in Package : SupersedeRoute(t, p, s, a)
               \/ AdminReindex(t, p)
        PROVE  job'[t].pc = "read"
    <2>1. \E q : job' = [job EXCEPT ![t] = [pc |-> "read", todo |-> q]]
      BY <1>2, Zenon DEF StatusRoute, SupersedeRoute, AdminReindex
    <2> QED BY <1>0, <2>1
  <1> QED BY <1>1, <1>2 DEF Route

\* The request that moves on has read the status of what it goes on with.
LEMMA ReindexKnows ==
  ASSUME IndexInv, NEW t \in Thread, Reindex(t), StatusKnown(t)
  PROVE  StatusKnown(t)'
  <1>0. job \in [Thread -> Job] /\ job[t] \in Job
    BY DEF IndexInv, IndexTypeOK
  <1>1. rows' = rows
    BY DEF Reindex, ReadRecord, Extract, SaveReport, WriteReport, UpdateIndex, RemoveChunks
  <1>2. ASSUME NEW pc, Goto(t, pc), pc # "remove" => rows[Current(t)].status = "approved",
               pc = "remove" => rows[Current(t)].status # "approved"
        PROVE  StatusKnown(t)'
    <2>1. job'[t].pc = pc /\ job'[t].todo = job[t].todo
      BY <1>0, <1>2 DEF Goto, Job
    <2> QED BY <1>1, <1>2, <2>1 DEF StatusKnown, Current
  <1>3. ASSUME job'[t].pc \in {"idle", "read"} PROVE StatusKnown(t)'
    BY <1>3 DEF StatusKnown
  <1>4. Finish(t) \/ Fail(t) => job'[t].pc \in {"idle", "read"}
    BY <1>0 DEF Finish, Fail, IdleJob
  <1>5. CASE ReadRecord(t)
    BY <1>2, <1>5 DEF ReadRecord
  <1>6. CASE Extract(t)
    BY <1>2, <1>3, <1>4, <1>6 DEF Extract, StatusKnown
  <1>7. CASE SaveReport(t)
    BY <1>2, <1>7 DEF SaveReport, StatusKnown
  <1>8. CASE UpdateIndex(t) \/ RemoveChunks(t)
    BY <1>3, <1>4, <1>8 DEF UpdateIndex, RemoveChunks
  <1> QED BY <1>5, <1>6, <1>7, <1>8 DEF Reindex

\* Every step keeps what a lone request knows.
LEMMA AloneStep == IndexInv /\ AloneInv /\ [IndexNext]_indexVars => AloneInv'
  <1> SUFFICES ASSUME IndexInv, AloneInv, [IndexNext]_indexVars, ~overlapped'
               PROVE  /\ \A t, u \in Thread : t # u => job'[t] = IdleJob \/ job'[u] = IdleJob
                      /\ \A t \in Thread : StatusKnown(t)'
    BY DEF AloneInv
  <1>0. job \in [Thread -> Job] /\ \A t \in Thread : job[t].pc = "idle" <=> job[t].todo = <<>>
    BY DEF IndexInv, IndexTypeOK
  <1>a. ASSUME NEW t \in Thread, job'[t] = IdleJob PROVE StatusKnown(t)'
    BY <1>a DEF StatusKnown, IdleJob
  <1>1. CASE UNCHANGED indexVars
    BY <1>1 DEF indexVars, AloneInv, StatusKnown, Current
  <1>2. CASE IndexNext
    <2>1. /\ ~overlapped
          /\ \A t, u \in Thread : t # u => job'[t] = IdleJob \/ job'[u] = IdleJob
      BY <1>2 DEF IndexNext
    <2>2. /\ \A t, u \in Thread : t # u => job[t] = IdleJob \/ job[u] = IdleJob
          /\ \A t \in Thread : StatusKnown(t)
      BY <2>1 DEF AloneInv
    <2> SUFFICES ASSUME NEW t \in Thread PROVE StatusKnown(t)'
      BY <2>1
    <2>3. ASSUME NEW v \in Uploads, NEW a \in Actor, PublishRoute(v, a) PROVE StatusKnown(t)'
      <3>1. job[t].pc # "idle" => Current(t) \in Package
        BY <1>0, TodoNext DEF Current, Job, Todo
      <3>2. job' = job /\ Current(t)' = Current(t)
        BY <2>3 DEF PublishRoute, Current
      <3>3. job[t].pc # "idle" =>
              (rows'[Current(t)].status = "approved" <=> rows[Current(t)].status = "approved")
        <4>1. CASE Publish(v, a)
          BY <3>1, <4>1, PublishKeepsApproved
        <4>2. CASE PublishFails(v)
          BY <4>2 DEF PublishFails
        <4> QED BY <2>3, <4>1, <4>2 DEF PublishRoute
      <3> QED BY <2>2, <3>2, <3>3 DEF StatusKnown
    <2>4. ASSUME NEW u \in Thread, Route(u) PROVE StatusKnown(t)'
      <3>1. CASE u = t
        BY <2>4, <3>1, RouteStart DEF StatusKnown
      <3>2. CASE u # t
        BY <1>a, <2>1, <2>4, <3>2, RouteStart DEF IdleJob
      <3> QED BY <3>1, <3>2
    <2>5. ASSUME NEW u \in Thread, Reindex(u) PROVE StatusKnown(t)'
      <3>1. CASE u = t
        BY <2>2, <2>5, <3>1, ReindexKnows
      <3>2. CASE u # t
        <4>1. job[u] # IdleJob
          BY <2>5 DEF Reindex, ReadRecord, Extract, SaveReport, UpdateIndex, RemoveChunks, IdleJob
        <4>2. job[t] = IdleJob /\ job'[t] = job[t]
          BY <1>0, <2>2, <2>5, <3>2, <4>1
          DEF Reindex, ReadRecord, Extract, SaveReport, UpdateIndex, RemoveChunks, Goto, Fail, Finish
        <4> QED BY <1>a, <4>2
      <3> QED BY <3>1, <3>2
    <2>6. CASE Restart
      BY <1>a, <2>6 DEF Restart
    <2>7. ASSUME NEW p \in Package, PurgeRouteFails(p) PROVE StatusKnown(t)'
      BY <2>2, <2>7 DEF PurgeRouteFails, PurgeFails, StatusKnown, Current
    <2> QED BY <1>2, <2>3, <2>4, <2>5, <2>6, <2>7 DEF IndexNext, IndexStep
  <1> QED BY <1>1, <1>2

-----------------------------------------------------------------------------
(* The theorems. *)

\* The index and the requests in flight are sound in every reachable state.
THEOREM IndexInvariant == IndexSpec => []IndexInv
  <1>1. IndexInv /\ [IndexNext]_indexVars => IndexInv'
    BY IndexStepKeeps
  <1> QED BY <1>1, IndexInitKeeps, PTL DEF IndexSpec

\* The type invariant of the index and of the requests in flight.
THEOREM IndexTyping == IndexSpec => []IndexTypeOK
  <1>1. IndexInv => IndexTypeOK
    BY DEF IndexInv
  <1> QED BY <1>1, IndexInvariant, PTL

\* Fail closed: content with a secret finding is never searchable.
THEOREM SecretsStayOut == IndexSpec => []SecretsNeverIndexed
  <1>1. IndexInv => SecretsNeverIndexed
    BY DEF IndexInv
  <1> QED BY <1>1, IndexInvariant, PTL

\* Content that has not been through review is never searchable.
THEOREM IndexedIsReviewed == IndexSpec => []OnlyReviewedIndexed
  <1>1. IndexInv => OnlyReviewedIndexed
    BY DEF IndexInv
  <1> QED BY <1>1, IndexInvariant, PTL

\* An indexed version has its redaction report, unless a purge took it.
THEOREM IndexedIsReported == IndexSpec => []ReportBeforeIndex
  <1>1. IndexInv => ReportBeforeIndex
    BY DEF IndexInv
  <1> QED BY <1>1, IndexInvariant, PTL

\* With the hook, the routes and restarts around it, the store is still the
\* package store: every theorem about StoreSpec holds here too.
THEOREM IndexKeepsStore == IndexSpec => StoreSpec
  <1>1. IndexInit => StoreInit
    BY DEF IndexInit
  <1>2. IndexInv /\ [IndexNext]_indexVars => [StoreNext]_storeVars
    BY IndexStepKeeps
  <1> QED BY <1>1, <1>2, IndexInvariant, PTL DEF IndexSpec, StoreSpec

\* So indexing beside the routes, with its sidecars and its retries, leaves the
\* blobs exact, the published contents alone and the statuses to their machine.
THEOREM IndexKeepsContents ==
  IndexSpec => []BlobsAreExactlyLive /\ PublishedImmutable /\ ImplementsStatusMachine
  BY IndexKeepsStore, BlobsExact, PublishedNeverRewritten, StoreImplementsMachine, PTL

\* With requests one at a time, a re-index that runs to its end leaves its
\* version exact: searchable if and only if approved and not blocked.
THEOREM ReindexLeavesExact == IndexSpec => ReindexIsExact
  <1>1. IndexInit => AloneInv
    BY DEF IndexInit, AloneInv, StatusKnown, IdleJob
  <1>2. IndexInv /\ AloneInv /\ [IndexNext]_indexVars =>
          [~overlapped' =>
             \A t \in Thread, p \in Package :
               (UpdateIndex(t) \/ RemoveChunks(t)) /\ p = Current(t) => Exact(p)']_indexVars
    <2> SUFFICES ASSUME IndexInv, AloneInv, IndexNext, ~overlapped',
                        NEW t \in Thread, NEW p \in Package,
                        UpdateIndex(t) \/ RemoveChunks(t), p = Current(t)
                 PROVE  Exact(p)'
      OBVIOUS
    <2>1. StatusKnown(t)
      BY DEF IndexNext, AloneInv
    <2>2. rows' = rows
      BY DEF UpdateIndex, RemoveChunks
    <2>3. CASE UpdateIndex(t)
      BY <2>1, <2>2, <2>3 DEF UpdateIndex, StatusKnown, Exact, Blocked
    <2>4. CASE RemoveChunks(t)
      BY <2>1, <2>2, <2>4 DEF RemoveChunks, StatusKnown, Exact, Blocked
    <2> QED BY <2>3, <2>4
  <1>3. IndexInv /\ AloneInv /\ [IndexNext]_indexVars => AloneInv'
    BY AloneStep
  <1> QED BY <1>1, <1>2, <1>3, IndexInvariant, PTL DEF IndexSpec, ReindexIsExact
=============================================================================
