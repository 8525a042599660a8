------------------------ MODULE PackageWorkflowProofs ------------------------
(***************************************************************************)
(* Proofs about PackageWorkflow: the workflows implement the store, so     *)
(* every store invariant survives any interleaving of requests and any     *)
(* restart; and review decisions are independent of the analyst.           *)
(***************************************************************************)
EXTENDS PackageWorkflow, PackageStoreProofs

\* What a request in flight carries: arguments of the right kind, and a
\* transition that one of the two tables allows.
WellFormed(r) ==
  /\ r \in Request
  /\ r.pc # "idle" => r.pkg \in Package /\ r.actor \in Actor
  /\ r.pc \in {"gate", "successor", "set_status"} => <<r.from, r.to>> \in Transitions
  /\ r.pc \in {"successor", "link"} => r.succ \in Package
  /\ r.pc \in {"gate", "set_status"} /\ r.to = "superseded" => r.succ \in Package

RequestsWellFormed == \A t \in Thread : WellFormed(req[t])

WorkflowInv == StoreInv /\ req \in [Thread -> Request] /\ RequestsWellFormed

\* An idle thread is well formed.
LEMMA IdleWellFormed == WellFormed(Idle)
  BY DEF WellFormed, Idle, Request, Machine!Status

\* Writing a well-formed request into one thread keeps all of them so.
LEMMA AssignWellFormed ==
  ASSUME WorkflowInv, NEW t \in Thread, NEW r, WellFormed(r),
         req' = [req EXCEPT ![t] = r]
  PROVE  req' \in [Thread -> Request] /\ RequestsWellFormed'
  <1>1. r \in Request
    BY DEF WellFormed
  <1>2. req' \in [Thread -> Request]
    BY <1>1 DEF WorkflowInv
  <1>3. \A u \in Thread : req'[u] = IF u = t THEN r ELSE req[u]
    BY DEF WorkflowInv
  <1> QED BY <1>2, <1>3 DEF WorkflowInv, RequestsWellFormed, WellFormed

\* What Call builds is well formed.
LEMMA CallWellFormed ==
  ASSUME NEW pc \in {"gate", "successor", "set_status", "hold", "purge"},
         NEW p \in Package, NEW s \in Package \cup {NoPackage},
         NEW from \in Machine!Status, NEW to \in Machine!Status,
         NEW a \in Actor, NEW reason \in BOOLEAN,
         pc \in {"gate", "successor", "set_status"} => <<from, to>> \in Transitions,
         pc = "successor" => s \in Package,
         pc \in {"gate", "set_status"} /\ to = "superseded" => s \in Package
  PROVE  WellFormed(Call(pc, p, s, from, to, a, reason))
  BY DEF WellFormed, Call, Request

\* Moving a well-formed request forward to `pc` keeps it well formed when the
\* tables' pair is already established.
LEMMA GotoWellFormed ==
  ASSUME NEW r, WellFormed(r), r.pc \in {"gate", "successor", "set_status"},
         NEW pc \in {"set_status", "link"},
         pc = "link" => r.succ \in Package,
         r.to = "superseded" => r.succ \in Package
  PROVE  WellFormed([r EXCEPT !.pc = pc])
  <1>1. r \in Request
    BY DEF WellFormed
  <1> QED BY <1>1 DEF WellFormed, Request

\* No review transition leads to "superseded", so review requests need no successor.
LEMMA ReviewTableFacts ==
  ASSUME NEW from, NEW to, <<from, to>> \in Machine!ReviewTransitions
  PROVE  from \in Machine!Status /\ to \in Machine!Status /\ to # "superseded"
         /\ <<from, to>> \in Transitions
  BY DEF Machine!ReviewTransitions, Machine!Status, Transitions

\* Reading the record and checking policy changes no store state and leaves a
\* well-formed request.
LEMMA BeginStep ==
  ASSUME WorkflowInv, NEW t \in Thread, Begin(t)
  PROVE  UNCHANGED storeVars /\ req' \in [Thread -> Request] /\ RequestsWellFormed'
  <1>0. PICK p \in Package, a \in Actor, reason \in BOOLEAN :
          \/ \E to \in Machine!Status : Transition(t, p, to, a, reason)
          \/ \E s \in Package : Supersede(t, p, s, a, reason)
          \/ Recall(t, p, a, reason)
          \/ Restore(t, p, a, reason)
          \/ \E hold \in BOOLEAN : Hold(t, p, a, hold, reason)
          \/ PurgePackage(t, p, a)
    BY DEF Begin
  <1>s. "absent" \in Machine!Status /\ "approved" \in Machine!Status
        /\ "superseded" \in Machine!Status /\ "recalled" \in Machine!Status
    BY DEF Machine!Status
  <1>1. ASSUME NEW to \in Machine!Status, Transition(t, p, to, a, reason)
        PROVE  UNCHANGED storeVars /\ req' \in [Thread -> Request] /\ RequestsWellFormed'
    <2> DEFINE pc == IF to = "in_review" /\ GateBeforeReview THEN "gate" ELSE "set_status"
    <2>1. /\ rows[p].status \in Machine!Status
          /\ <<rows[p].status, to>> \in Transitions
          /\ to # "superseded"
      BY <1>1, ReviewTableFacts DEF Transition
    <2>2. WellFormed(Call(pc, p, NoPackage, rows[p].status, to, a, reason))
      BY <2>1, CallWellFormed
    <2> QED BY <1>1, <2>2, AssignWellFormed DEF Transition
  <1>2. ASSUME NEW s \in Package, Supersede(t, p, s, a, reason)
        PROVE  UNCHANGED storeVars /\ req' \in [Thread -> Request] /\ RequestsWellFormed'
    <2>1. <<"approved", "superseded">> \in Transitions
      BY DEF Transitions, Machine!LifecycleTransitions
    <2>2. WellFormed(Call("successor", p, s, "approved", "superseded", a, reason))
      BY <2>1, <1>s, CallWellFormed
    <2> QED BY <1>2, <2>2, AssignWellFormed DEF Supersede
  <1>3. ASSUME Recall(t, p, a, reason)
        PROVE  UNCHANGED storeVars /\ req' \in [Thread -> Request] /\ RequestsWellFormed'
    <2>1. <<"approved", "recalled">> \in Transitions
      BY DEF Transitions, Machine!LifecycleTransitions
    <2>2. WellFormed(Call("set_status", p, NoPackage, "approved", "recalled", a, reason))
      BY <2>1, <1>s, CallWellFormed
    <2> QED BY <1>3, <2>2, AssignWellFormed DEF Recall
  <1>4. ASSUME Restore(t, p, a, reason)
        PROVE  UNCHANGED storeVars /\ req' \in [Thread -> Request] /\ RequestsWellFormed'
    <2>1. <<rows[p].status, "approved">> \in Transitions /\ rows[p].status \in Machine!Status
      BY <1>4 DEF Restore, Transitions, Machine!LifecycleTransitions, Machine!Status
    <2>2. WellFormed(Call("set_status", p, NoPackage, rows[p].status, "approved", a, reason))
      BY <2>1, <1>s, CallWellFormed
    <2> QED BY <1>4, <2>2, AssignWellFormed DEF Restore
  <1>5. ASSUME NEW hold \in BOOLEAN, Hold(t, p, a, hold, reason)
        PROVE  UNCHANGED storeVars /\ req' \in [Thread -> Request] /\ RequestsWellFormed'
    <2> DEFINE c == Call("hold", p, NoPackage, "absent", "absent", a, FALSE)
    <2>1. WellFormed(c) /\ c.pc = "hold"
      BY <1>s, CallWellFormed DEF Call
    <2>2. WellFormed([c EXCEPT !.hold = hold])
      BY <2>1 DEF WellFormed, Request, Call
    <2> QED BY <1>5, <2>2, AssignWellFormed DEF Hold
  <1>6. ASSUME PurgePackage(t, p, a)
        PROVE  UNCHANGED storeVars /\ req' \in [Thread -> Request] /\ RequestsWellFormed'
    <2>1. WellFormed(Call("purge", p, NoPackage, "absent", "absent", a, FALSE))
      BY <1>s, CallWellFormed
    <2> QED BY <1>6, <2>1, AssignWellFormed DEF PurgePackage
  <1> QED BY <1>0, <1>1, <1>2, <1>3, <1>4, <1>5, <1>6

\* Ending a request leaves the thread idle.
LEMMA DoneStep ==
  ASSUME WorkflowInv, NEW t \in Thread, Done(t)
  PROVE  req' \in [Thread -> Request] /\ RequestsWellFormed'
  BY IdleWellFormed, AssignWellFormed DEF Done

\* Every call a request makes is one store action, or leaves the store alone.
LEMMA ContinueStep ==
  ASSUME WorkflowInv, NEW t \in Thread, Continue(t)
  PROVE  /\ StoreNext \/ UNCHANGED storeVars
         /\ req' \in [Thread -> Request] /\ RequestsWellFormed'
  <1> DEFINE r == req[t]
  <1>0. WellFormed(r) /\ r \in Request
    BY DEF WorkflowInv, RequestsWellFormed
  <1>g. ASSUME NEW pc, Goto(t, pc) PROVE req' = [req EXCEPT ![t] = [r EXCEPT !.pc = pc]]
    BY <1>g DEF Goto
  <1>1. CASE RerunGate(t)
    <2>1. r.pc = "gate" /\ UNCHANGED storeVars /\ (Goto(t, "set_status") \/ Done(t))
      BY <1>1 DEF RerunGate
    <2>2. r.to = "superseded" => r.succ \in Package
      BY <2>1, <1>0 DEF WellFormed
    <2> QED BY <1>0, <1>g, <2>1, <2>2, DoneStep, GotoWellFormed, AssignWellFormed
  <1>2. CASE CheckSuccessor(t)
    <2>1. r.pc = "successor" /\ UNCHANGED storeVars /\ (Goto(t, "set_status") \/ Done(t))
      BY <1>2 DEF CheckSuccessor
    <2>2. r.succ \in Package
      BY <2>1, <1>0 DEF WellFormed
    <2> QED BY <1>0, <1>g, <2>1, <2>2, DoneStep, GotoWellFormed, AssignWellFormed
  <1>3. CASE CallSetStatus(t)
    <2>1. /\ r.pc = "set_status" /\ r.pkg \in Package /\ r.actor \in Actor
          /\ <<r.from, r.to>> \in Transitions /\ r.reason \in BOOLEAN
          /\ r.to = "superseded" => r.succ \in Package
      BY <1>0, <1>3 DEF CallSetStatus, WellFormed, Request
    <2>2. \/ SetStatus(r.pkg, r.from, r.to, r.actor, r.reason)
          \/ UNCHANGED storeVars
      BY <1>3 DEF CallSetStatus
    <2>3. SetStatus(r.pkg, r.from, r.to, r.actor, r.reason) => StoreNext
      <3> DEFINE m == <<r.from, r.to>>
      <3>1. m \in Transitions /\ m[1] = r.from /\ m[2] = r.to
        BY <2>1
      <3> HIDE DEF m
      <3> QED BY <2>1, <3>1 DEF StoreNext
    <2>4. (Goto(t, "link") /\ r.to = "superseded") \/ Done(t)
      BY <1>3 DEF CallSetStatus
    <2>5. req' \in [Thread -> Request] /\ RequestsWellFormed'
      BY <1>0, <1>g, <2>1, <2>4, DoneStep, GotoWellFormed, AssignWellFormed
    <2> QED BY <2>2, <2>3, <2>5
  <1>4. CASE CallLinkReplaces(t)
    <2>1. r.succ \in Package /\ r.pkg \in Package
      BY <1>0, <1>4 DEF CallLinkReplaces, WellFormed
    <2> QED BY <1>4, <2>1, DoneStep DEF CallLinkReplaces, StoreNext
  <1>5. CASE CallSetLegalHold(t)
    <2>1. r.pkg \in Package /\ r.hold \in BOOLEAN
      BY <1>0, <1>5 DEF CallSetLegalHold, WellFormed, Request
    <2> QED BY <1>5, <2>1, DoneStep DEF CallSetLegalHold, StoreNext
  <1>6. CASE CallPurge(t)
    <2>1. r.pkg \in Package /\ r.actor \in Actor
      BY <1>0, <1>6 DEF CallPurge, WellFormed
    <2> QED BY <1>6, <2>1, DoneStep DEF CallPurge, StoreNext
  <1> QED BY <1>1, <1>2, <1>3, <1>4, <1>5, <1>6 DEF Continue

\* No step leaves the workflow invariant, and every step is a store step.
LEMMA WorkflowStep ==
  WorkflowInv /\ [Next]_vars => WorkflowInv' /\ [StoreNext]_storeVars
  <1> SUFFICES ASSUME WorkflowInv, [Next]_vars
               PROVE  WorkflowInv' /\ [StoreNext]_storeVars
    OBVIOUS
  <1>k. ASSUME StoreNext \/ UNCHANGED storeVars
        PROVE  StoreInv' /\ [StoreNext]_storeVars
    BY <1>k, StepKeepsStoreInv DEF WorkflowInv
  <1>1. ASSUME NEW u \in Uploads, NEW a \in Actor, PublishPackage(u, a)
        PROVE  WorkflowInv' /\ [StoreNext]_storeVars
    <2>1. StoreNext
      BY <1>1 DEF PublishPackage, StoreNext
    <2>2. req' \in [Thread -> Request] /\ RequestsWellFormed'
      BY <1>1 DEF PublishPackage, WorkflowInv, RequestsWellFormed, WellFormed
    <2> QED BY <1>k, <2>1, <2>2 DEF WorkflowInv
  <1>2. ASSUME NEW t \in Thread, Begin(t) PROVE WorkflowInv' /\ [StoreNext]_storeVars
    BY <1>2, <1>k, BeginStep DEF WorkflowInv
  <1>3. ASSUME NEW t \in Thread, Continue(t) PROVE WorkflowInv' /\ [StoreNext]_storeVars
    BY <1>3, <1>k, ContinueStep DEF WorkflowInv
  <1>4. CASE Restart
    <2>1. UNCHANGED storeVars /\ req' = [t \in Thread |-> Idle]
      BY <1>4 DEF Restart
    <2>2. req' \in [Thread -> Request] /\ RequestsWellFormed'
      BY <2>1, IdleWellFormed DEF RequestsWellFormed, WellFormed
    <2> QED BY <1>k, <2>1, <2>2 DEF WorkflowInv
  <1>5. CASE UNCHANGED vars
    <2>1. UNCHANGED storeVars /\ UNCHANGED req
      BY <1>5 DEF vars, storeVars
    <2>2. req' \in [Thread -> Request] /\ RequestsWellFormed'
      BY <2>1 DEF WorkflowInv, RequestsWellFormed, WellFormed
    <2> QED BY <1>k, <2>1, <2>2 DEF WorkflowInv
  <1>6. ASSUME NEW t \in Thread, Raise(t) PROVE WorkflowInv' /\ [StoreNext]_storeVars
    <2>1. UNCHANGED storeVars /\ Done(t)
      BY <1>6 DEF Raise
    <2>2. req' \in [Thread -> Request] /\ RequestsWellFormed'
      BY <2>1, DoneStep DEF WorkflowInv
    <2> QED BY <1>k, <2>1, <2>2 DEF WorkflowInv
  <1> QED BY <1>1, <1>2, <1>3, <1>4, <1>5, <1>6 DEF Next

\* The invariant holds initially.
LEMMA WorkflowInitInv == Init => WorkflowInv
  BY InitEstablishesStoreInv, IdleWellFormed
  DEF Init, WorkflowInv, RequestsWellFormed, WellFormed

\* The workflow invariant: the store's invariants and well-formed requests.
THEOREM WorkflowInvariant == Spec => []WorkflowInv
  <1>1. WorkflowInv /\ [Next]_vars => WorkflowInv'
    BY WorkflowStep
  <1> QED BY <1>1, WorkflowInitInv, PTL DEF Spec

\* Type correctness of the workflows and the store they share.
THEOREM WorkflowTyping == Spec => []TypeOK
  <1>1. WorkflowInv => TypeOK
    BY DEF WorkflowInv, StoreInv, TypeOK
  <1> QED BY <1>1, WorkflowInvariant, PTL

\* Review and lifecycle requests, interleaved and restarted in any way, only
\* ever use the store as StoreNext allows: so every theorem about StoreSpec
\* (exact blobs, tombstones, the audit trail, the status machine) holds of them.
THEOREM WorkflowImplementsStore == Spec => ImplementsStore
  <1>1. Init => StoreInit
    BY DEF Init
  <1>2. WorkflowInv /\ [Next]_vars => [StoreNext]_storeVars
    BY WorkflowStep
  <1> QED BY <1>1, <1>2, WorkflowInvariant, PTL DEF Spec, StoreSpec, ImplementsStore

\* So the routes of the two workflows, however they interleave and wherever the
\* process restarts, keep the blobs exact, rewrite nothing that was published
\* and move statuses as the standard's machine says.
THEOREM WorkflowsKeepStore ==
  Spec => []BlobsAreExactlyLive /\ PublishedImmutable /\ ImplementsStatusMachine
  BY WorkflowImplementsStore, BlobsExact, PublishedNeverRewritten, StoreImplementsMachine, PTL
     DEF ImplementsStore

-----------------------------------------------------------------------------
\* A store step purges a version only when it is neither approved nor held.
LEMMA StorePurgeStep ==
  ASSUME StoreInv, [StoreNext]_storeVars, NEW p \in Package,
         ~rows[p].purged_at, rows'[p].purged_at
  PROVE  rows[p].status # "approved" /\ ~rows[p].legal_hold
  <1> USE DEF StoreInv, StoreTypeOK, Row
  <1>1. ASSUME NEW u \in Uploads, NEW a \in Actor, Publish(u, a) PROVE FALSE
    BY <1>1, StoreAssumption DEF Publish, DraftRow, UploadType
  <1>2. ASSUME NEW q \in Package, NEW m \in Transitions, NEW a \in Actor,
               NEW r \in BOOLEAN, SetStatus(q, m[1], m[2], a, r)
        PROVE FALSE
    BY <1>2 DEF SetStatus
  <1>3. ASSUME NEW q \in Package,
               \/ \E s \in Package : LinkReplaces(q, s)
               \/ \E hold \in BOOLEAN : SetLegalHold(q, hold)
        PROVE FALSE
    BY <1>3 DEF LinkReplaces, SetLegalHold
  <1>4. ASSUME NEW q \in Package, NEW a \in Actor, Purge(q, a)
        PROVE rows[p].status # "approved" /\ ~rows[p].legal_hold
    <2>1. q = p
      BY <1>4 DEF Purge
    <2> QED BY <1>4, <2>1 DEF Purge, Purgeable
  <1>5. ASSUME \/ \E q \in Package : WriteReport(q) \/ PurgeFails(q)
               \/ \E u \in Uploads : PublishFails(u)
        PROVE FALSE
    BY <1>5 DEF WriteReport, PublishFails, PurgeFails
  <1>6. CASE UNCHANGED storeVars
    BY <1>6 DEF storeVars
  <1> QED BY <1>1, <1>2, <1>3, <1>4, <1>5, <1>6 DEF StoreNext

\* However requests interleave, purge never destroys an approved or a held
\* version: the re-check under the store's lock is what makes it so.
THEOREM PurgeIsSafe == Spec => PurgeSparesProtected
  <1>1. WorkflowInv /\ [Next]_vars =>
          [\A p \in Package : ~rows[p].purged_at /\ rows'[p].purged_at =>
             rows[p].status # "approved" /\ ~rows[p].legal_hold]_vars
    BY WorkflowStep, StorePurgeStep DEF WorkflowInv
  <1> QED BY <1>1, WorkflowInvariant, PTL DEF Spec, PurgeSparesProtected

-----------------------------------------------------------------------------
\* Who may decide the review of version p.
Entitled(p, a) ==
  /\ HasRole(a, "reviewer")
  /\ AllowSelfReview \/ HasRole(a, "admin") \/ rows[p].analyst_id # a

\* A decision that has passed CheckDecide and is not yet committed.
Deciding(r) ==
  /\ r.pc \in {"gate", "successor", "set_status"}
  /\ r.from = "in_review"
  /\ r.to \in {"approved", "rejected"}

IndependentOf(p) ==
  trail[p].from = "in_review" /\ trail[p].to \in {"approved", "rejected"} =>
    trail[p].actor \in Actor /\ Entitled(p, trail[p].actor)

DecisionsEntitled ==
  \A t \in Thread : Deciding(req[t]) =>
    Published(req[t].pkg) /\ Entitled(req[t].pkg, req[t].actor)

\* The strengthening: what CheckDecide saw is still true when the row moves,
\* because a published row's analyst can only be blanked by purge.
ReviewInv == (\A p \in Package : IndependentOf(p)) /\ DecisionsEntitled

\* publish and purge are the only writers of analyst_id.
LEMMA AnalystStable ==
  ASSUME StoreInv, [StoreNext]_storeVars, NEW p \in Package, Published(p)
  PROVE  Published(p)' /\ rows'[p].analyst_id \in {rows[p].analyst_id, NoActor}
  <1> USE DEF StoreInv, StoreTypeOK, Row
  <1>0. Published(p)'
    BY StepKeepsPublished DEF Published
  <1>1. ASSUME NEW u \in Uploads, NEW a \in Actor, Publish(u, a)
        PROVE rows'[p].analyst_id = rows[p].analyst_id
    BY <1>1, StoreAssumption DEF Publish, UploadType
  <1>2. ASSUME NEW q \in Package, NEW m \in Transitions, NEW a \in Actor,
               NEW r \in BOOLEAN, SetStatus(q, m[1], m[2], a, r)
        PROVE rows'[p].analyst_id = rows[p].analyst_id
    BY <1>2 DEF SetStatus
  <1>3. ASSUME NEW q \in Package,
               \/ \E s \in Package : LinkReplaces(q, s)
               \/ \E hold \in BOOLEAN : SetLegalHold(q, hold)
        PROVE rows'[p].analyst_id = rows[p].analyst_id
    BY <1>3 DEF LinkReplaces, SetLegalHold
  <1>4. ASSUME NEW q \in Package, NEW a \in Actor, Purge(q, a)
        PROVE rows'[p].analyst_id \in {rows[p].analyst_id, NoActor}
    BY <1>4 DEF Purge
  <1>5. ASSUME \/ \E q \in Package : WriteReport(q) \/ PurgeFails(q)
               \/ \E u \in Uploads : PublishFails(u)
        PROVE rows'[p].analyst_id = rows[p].analyst_id
    BY <1>5 DEF WriteReport, PublishFails, PurgeFails
  <1>6. ASSUME UNCHANGED storeVars PROVE rows'[p].analyst_id = rows[p].analyst_id
    BY <1>6 DEF storeVars
  <1> QED BY <1>0, <1>1, <1>2, <1>3, <1>4, <1>5, <1>6 DEF StoreNext

\* An entitlement survives any store step.
LEMMA EntitledStable ==
  ASSUME StoreInv, [StoreNext]_storeVars, NEW p \in Package, Published(p),
         NEW a \in Actor, Entitled(p, a)
  PROVE  Published(p)' /\ Entitled(p, a)'
  <1>1. Published(p)' /\ rows'[p].analyst_id \in {rows[p].analyst_id, NoActor}
    BY AnalystStable
  <1>2. NoActor # a
    BY StoreAssumption
  <1>3. AllowSelfReview \/ HasRole(a, "admin") \/ rows'[p].analyst_id # a
    BY <1>1, <1>2 DEF Entitled
  <1> QED BY <1>1, <1>3 DEF Entitled, HasRole

\* Every request is a decision only if its actor was found entitled.
EntitledRequest(r) == Deciding(r) => Published(r.pkg) /\ Entitled(r.pkg, r.actor)

\* What Begin stores in the thread is an entitled decision or none at all.
LEMMA BeginRequest ==
  ASSUME WorkflowInv, NEW t \in Thread, Begin(t)
  PROVE  \E r : req' = [req EXCEPT ![t] = r] /\ EntitledRequest(r)
  <1> USE DEF EntitledRequest, Deciding
  <1>1. PICK p \in Package, a \in Actor, reason \in BOOLEAN :
        \/ \E to \in Machine!Status : Transition(t, p, to, a, reason)
        \/ \E s \in Package : Supersede(t, p, s, a, reason)
        \/ Recall(t, p, a, reason)
        \/ Restore(t, p, a, reason)
        \/ \E hold \in BOOLEAN : Hold(t, p, a, hold, reason)
        \/ PurgePackage(t, p, a)
    BY DEF Begin
  <1>2. ASSUME NEW to \in Machine!Status, Transition(t, p, to, a, reason)
        PROVE  \E r : req' = [req EXCEPT ![t] = r] /\ EntitledRequest(r)
    <2> DEFINE c == Call(IF to = "in_review" /\ GateBeforeReview THEN "gate" ELSE "set_status",
                         p, NoPackage, rows[p].status, to, a, reason)
    <2>1. req' = [req EXCEPT ![t] = c]
      BY <1>2 DEF Transition
    <2>2. c.pkg = p /\ c.actor = a /\ c.to = to
      BY DEF Call
    <2>3. Published(p) /\ (to \in {"approved", "rejected"} => Entitled(p, a))
      BY <1>2 DEF Transition, ReviewPolicyAllows, CheckDecide, Entitled
    <2> HIDE DEF c
    <2> QED BY <2>1, <2>2, <2>3
  <1>3. ASSUME NEW s \in Package, Supersede(t, p, s, a, reason)
        PROVE  \E r : req' = [req EXCEPT ![t] = r] /\ EntitledRequest(r)
    <2> DEFINE c == Call("successor", p, s, "approved", "superseded", a, reason)
    <2>1. req' = [req EXCEPT ![t] = c]
      BY <1>3 DEF Supersede
    <2>2. c.to = "superseded"
      BY DEF Call
    <2> HIDE DEF c
    <2> QED BY <2>1, <2>2
  <1>4. ASSUME Recall(t, p, a, reason)
        PROVE  \E r : req' = [req EXCEPT ![t] = r] /\ EntitledRequest(r)
    <2> DEFINE c == Call("set_status", p, NoPackage, "approved", "recalled", a, reason)
    <2>1. req' = [req EXCEPT ![t] = c]
      BY <1>4 DEF Recall
    <2>2. c.to = "recalled"
      BY DEF Call
    <2> HIDE DEF c
    <2> QED BY <2>1, <2>2
  <1>5. ASSUME Restore(t, p, a, reason)
        PROVE  \E r : req' = [req EXCEPT ![t] = r] /\ EntitledRequest(r)
    <2> DEFINE c == Call("set_status", p, NoPackage, rows[p].status, "approved", a, reason)
    <2>1. req' = [req EXCEPT ![t] = c] /\ rows[p].status # "in_review"
      BY <1>5 DEF Restore
    <2>2. c.from = rows[p].status
      BY DEF Call
    <2> HIDE DEF c
    <2> QED BY <2>1, <2>2
  <1>6. ASSUME NEW hold \in BOOLEAN, Hold(t, p, a, hold, reason)
        PROVE  \E r : req' = [req EXCEPT ![t] = r] /\ EntitledRequest(r)
    <2> DEFINE c == [Call("hold", p, NoPackage, "absent", "absent", a, FALSE) EXCEPT !.hold = hold]
    <2>1. req' = [req EXCEPT ![t] = c]
      BY <1>6 DEF Hold
    <2>2. c.pc = "hold"
      BY DEF Call
    <2> HIDE DEF c
    <2> QED BY <2>1, <2>2
  <1>7. ASSUME PurgePackage(t, p, a)
        PROVE  \E r : req' = [req EXCEPT ![t] = r] /\ EntitledRequest(r)
    <2> DEFINE c == Call("purge", p, NoPackage, "absent", "absent", a, FALSE)
    <2>1. req' = [req EXCEPT ![t] = c]
      BY <1>7 DEF PurgePackage
    <2>2. c.pc = "purge"
      BY DEF Call
    <2> HIDE DEF c
    <2> QED BY <2>1, <2>2
  <1> QED BY <1>1, <1>2, <1>3, <1>4, <1>5, <1>6, <1>7

\* A request only becomes a decision after CheckDecide has run on its package.
LEMMA BeginEntitled ==
  ASSUME WorkflowInv, DecisionsEntitled, NEW t \in Thread, Begin(t)
  PROVE  DecisionsEntitled'
  <1>1. UNCHANGED storeVars
    BY BeginStep
  <1>2. PICK r : req' = [req EXCEPT ![t] = r] /\ EntitledRequest(r)
    BY BeginRequest
  <1>3. \A u \in Thread : req'[u] = IF u = t THEN r ELSE req[u]
    BY <1>2 DEF WorkflowInv
  <1>4. rows' = rows
    BY <1>1 DEF storeVars
  <1>5. \A u \in Thread : EntitledRequest(req'[u])
    BY <1>2, <1>3 DEF DecisionsEntitled, EntitledRequest
  <1> QED BY <1>4, <1>5 DEF EntitledRequest, DecisionsEntitled, Published, Entitled

\* Moving a request on, or ending it, creates no new decision.
LEMMA ContinueEntitled ==
  ASSUME WorkflowInv, DecisionsEntitled, NEW t \in Thread, Continue(t)
  PROVE  DecisionsEntitled'
  <1>0. [StoreNext]_storeVars
    BY ContinueStep
  <1>1. ASSUME NEW u \in Thread, Deciding(req'[u])
        PROVE  /\ Deciding(req[u])
               /\ req'[u].pkg = req[u].pkg /\ req'[u].actor = req[u].actor
    <2>1. \/ Goto(t, "set_status") /\ req[t].pc \in {"gate", "successor"}
          \/ Goto(t, "link")
          \/ Done(t)
      BY DEF Continue, RerunGate, CheckSuccessor, CallSetStatus, CallLinkReplaces,
             CallSetLegalHold, CallPurge
    <2>2. CASE Goto(t, "set_status") /\ req[t].pc \in {"gate", "successor"}
      BY <1>1, <2>2 DEF Goto, WorkflowInv, Request, Deciding
    <2>3. CASE Goto(t, "link")
      BY <1>1, <2>3 DEF Goto, WorkflowInv, Request, Deciding
    <2>4. CASE Done(t)
      BY <1>1, <2>4 DEF Done, WorkflowInv, Idle, Deciding
    <2> QED BY <2>1, <2>2, <2>3, <2>4
  <1>2. ASSUME NEW u \in Thread, Deciding(req'[u])
        PROVE  (Published(req[u].pkg) /\ Entitled(req[u].pkg, req[u].actor))'
    <2> DEFINE p == req[u].pkg
               a == req[u].actor
    <2>1. Deciding(req[u]) /\ req'[u].pkg = p /\ req'[u].actor = a
      BY <1>1, <1>2
    <2>2. p \in Package /\ a \in Actor
      BY <2>1 DEF Deciding, WorkflowInv, RequestsWellFormed, WellFormed
    <2>3. Published(p) /\ Entitled(p, a)
      BY <2>1 DEF DecisionsEntitled
    <2> HIDE DEF p, a
    <2>4. rows'[p].status # "absent"
      BY <1>0, <2>2, <2>3, EntitledStable DEF WorkflowInv, Published
    <2>5. HasRole(a, "reviewer")
          /\ (AllowSelfReview \/ HasRole(a, "admin") \/ rows'[p].analyst_id # a)
      BY <1>0, <2>2, <2>3, EntitledStable DEF WorkflowInv, Entitled, HasRole
    <2> QED BY <2>1, <2>4, <2>5 DEF Published, Entitled, HasRole
  <1> QED BY <1>2 DEF DecisionsEntitled, Deciding

\* A step that leaves the newest status row of p alone keeps a decision on it
\* independent: the row's analyst may only have been blanked.
LEMMA DecisionStable ==
  ASSUME StoreInv, [StoreNext]_storeVars, NEW p \in Package,
         trail'[p] = trail[p], IndependentOf(p)
  PROVE  IndependentOf(p)'
  <1> SUFFICES ASSUME trail[p].from = "in_review", trail[p].to \in {"approved", "rejected"}
               PROVE  /\ trail[p].actor \in Actor
                      /\ Entitled(p, trail[p].actor)'
    BY DEF IndependentOf
  <1>1. Entitled(p, trail[p].actor) /\ trail[p].actor \in Actor
    BY DEF IndependentOf
  <1>2. Published(p)
    BY DEF Published, StoreInv, TrailExplainsStatus
  <1>3. rows'[p].analyst_id \in {rows[p].analyst_id, NoActor}
    BY <1>2, AnalystStable
  <1>4. trail[p].actor # NoActor
    BY <1>1, StoreAssumption
  <1> QED BY <1>1, <1>3, <1>4 DEF Entitled, HasRole

\* The store calls that do write a status row leave an independent decision:
\* set_status writes the one CheckDecide allowed, publish and purge write others.
LEMMA StepKeepsIndependence ==
  ASSUME WorkflowInv, ReviewInv, [Next]_vars, NEW p \in Package
  PROVE  IndependentOf(p)'
  <1>0. StoreInv /\ [StoreNext]_storeVars
    BY WorkflowStep DEF WorkflowInv
  <1>a. trail'[p] = trail[p] => IndependentOf(p)'
    BY <1>0, DecisionStable DEF ReviewInv
  <1>1. ASSUME NEW u \in Uploads, NEW a \in Actor, PublishPackage(u, a)
        PROVE  IndependentOf(p)'
    <2>1. trail'[p] = trail[p] \/ trail'[p].from = "absent"
      BY <1>0, <1>1, StoreAssumption
      DEF PublishPackage, Publish, PublishFails, StoreInv, StoreTypeOK, UploadType
    <2> QED BY <1>a, <2>1 DEF IndependentOf
  <1>2. ASSUME NEW t \in Thread, CallSetStatus(t)
        PROVE  IndependentOf(p)'
    <2> DEFINE r == req[t]
    <2>1. r.pc = "set_status" /\ r.pkg \in Package /\ r.actor \in Actor
      BY <1>2 DEF CallSetStatus, WorkflowInv, RequestsWellFormed, WellFormed
    <2>2. CASE SetStatus(r.pkg, r.from, r.to, r.actor, r.reason)
      <3>1. /\ rows'[p].analyst_id = rows[p].analyst_id
            /\ trail'[p] = IF p = r.pkg
                           THEN [from |-> r.from, to |-> r.to, actor |-> r.actor,
                                 reason |-> r.reason]
                           ELSE trail[p]
        BY <1>0, <2>1, <2>2 DEF SetStatus, StoreInv, StoreTypeOK, Row
      <3>2. CASE p = r.pkg
        <4>1. /\ trail'[p].from = r.from /\ trail'[p].to = r.to
              /\ trail'[p].actor = r.actor
          BY <3>1, <3>2
        <4>2. r.from = "in_review" /\ r.to \in {"approved", "rejected"} => Entitled(p, r.actor)
          BY <2>1, <3>2 DEF ReviewInv, DecisionsEntitled, Deciding
        <4> HIDE DEF r
        <4> QED BY <2>1, <3>1, <4>1, <4>2 DEF IndependentOf, Entitled, HasRole
      <3>3. CASE p # r.pkg
        BY <1>a, <3>1, <3>3
      <3> QED BY <3>2, <3>3
    <2>3. CASE UNCHANGED storeVars
      BY <1>a, <2>3 DEF storeVars
    <2> QED BY <1>2, <2>2, <2>3 DEF CallSetStatus
  <1>3. ASSUME NEW t \in Thread, CallPurge(t)
        PROVE  IndependentOf(p)'
    <2>1. trail'[p] = trail[p] \/ trail'[p].to = "purged"
      BY <1>0, <1>3 DEF CallPurge, Purge, PurgeFails, storeVars, StoreInv, StoreTypeOK
    <2> QED BY <1>a, <2>1 DEF IndependentOf
  <1>4. ASSUME NEW t \in Thread,
               \/ RerunGate(t) \/ CheckSuccessor(t)
               \/ CallLinkReplaces(t) \/ CallSetLegalHold(t)
        PROVE  IndependentOf(p)'
    <2>1. trail' = trail
      BY <1>4 DEF RerunGate, CheckSuccessor, CallLinkReplaces, CallSetLegalHold,
                  LinkReplaces, SetLegalHold, storeVars
    <2> QED BY <1>a, <2>1
  <1>5. ASSUME NEW t \in Thread, Begin(t) PROVE IndependentOf(p)'
    BY <1>5, <1>a, BeginStep DEF storeVars
  <1>6. CASE Restart \/ (\E t \in Thread : Raise(t)) \/ UNCHANGED vars
    BY <1>6, <1>a DEF Restart, Raise, vars, storeVars
  <1> QED BY <1>1, <1>2, <1>3, <1>4, <1>5, <1>6 DEF Next, Continue

\* The strengthened invariant is inductive.
LEMMA ReviewStep == WorkflowInv /\ ReviewInv /\ [Next]_vars => ReviewInv'
  <1> SUFFICES ASSUME WorkflowInv, ReviewInv, [Next]_vars PROVE ReviewInv'
    OBVIOUS
  <1>1. DecisionsEntitled
    BY DEF ReviewInv
  <1>2. ASSUME NEW u \in Uploads, NEW a \in Actor, PublishPackage(u, a)
        PROVE  DecisionsEntitled'
    <2>1. ASSUME NEW t \in Thread, Deciding(req[t])
          PROVE  (Published(req[t].pkg) /\ Entitled(req[t].pkg, req[t].actor))'
      <3>1. Published(req[t].pkg) /\ Entitled(req[t].pkg, req[t].actor)
        BY <1>1, <2>1 DEF DecisionsEntitled
      <3>2. req' = req /\ rows'[req[t].pkg] = rows[req[t].pkg]
        <4>1. CASE Publish(u, a)
          BY <1>2, <3>1, <4>1, StoreAssumption
          DEF PublishPackage, Publish, WorkflowInv, StoreInv, StoreTypeOK
        <4>2. CASE PublishFails(u)
          BY <1>2, <4>2 DEF PublishPackage, PublishFails
        <4> QED BY <1>2, <4>1, <4>2 DEF PublishPackage
      <3> QED BY <3>1, <3>2 DEF Published, Entitled, HasRole
    <2>2. req' = req
      BY <1>2 DEF PublishPackage
    <2> QED BY <2>1, <2>2 DEF DecisionsEntitled, Deciding
  <1>3. ASSUME Restart PROVE DecisionsEntitled'
    BY <1>3 DEF Restart, DecisionsEntitled, Deciding, Idle
  <1>4. ASSUME UNCHANGED vars PROVE DecisionsEntitled'
    BY <1>1, <1>4 DEF vars, DecisionsEntitled, Deciding, Published, Entitled, HasRole
  <1>5. ASSUME NEW t \in Thread, Begin(t) \/ Continue(t) PROVE DecisionsEntitled'
    BY <1>1, <1>5, BeginEntitled, ContinueEntitled
  <1>6. ASSUME NEW t \in Thread, Raise(t) PROVE DecisionsEntitled'
    <2>1. UNCHANGED storeVars /\ \A v \in Thread : req'[v] = IF v = t THEN Idle ELSE req[v]
      BY <1>6 DEF Raise, Done, WorkflowInv
    <2> QED BY <1>1, <2>1
            DEF storeVars, DecisionsEntitled, Deciding, Idle, Published, Entitled, HasRole
  <1>7. DecisionsEntitled'
    BY <1>2, <1>3, <1>4, <1>5, <1>6 DEF Next
  <1> QED BY <1>7, StepKeepsIndependence DEF ReviewInv

\* Nobody reviews their own package (outside the admin and allow_self_review
\* overrides), however stale the copy of the record that was checked.
THEOREM ReviewIsIndependent == Spec => []IndependentReview
  <1>1. Init => ReviewInv
    BY DEF Init, StoreInit, ReviewInv, IndependentOf, DecisionsEntitled, Deciding, Idle
  <1>2. ReviewInv => IndependentReview
    BY DEF ReviewInv, IndependentOf, Entitled, IndependentReview
  <1> QED BY <1>1, <1>2, ReviewStep, WorkflowInvariant, PTL DEF Spec

-----------------------------------------------------------------------------
(***************************************************************************)
(* What the checks of a request established, in a form that the steps of   *)
(* other threads cannot undo: statuses after approval stay after approval, *)
(* content and roles do not change, and an analyst is blanked only by the  *)
(* purge that makes the request's own swap fail.  `table` is the packages  *)
(* table before or after a step.                                           *)
(***************************************************************************)
AfterApproval(table, p) == table[p].status \in PostApproval

\* The actor may make the move the request carries.
MoveAuthorised(table, r) ==
  /\ r.to = "in_review" => HasRole(r.actor, "analyst")
  /\ r.to \in {"rejected", "superseded", "recalled"} => HasRole(r.actor, "reviewer")
  /\ r.to \in {"rejected", "recalled"} => r.reason
  /\ r.from \in {"recalled", "superseded"} => HasRole(r.actor, "admin")
  /\ r.to = "draft" =>
       table[r.pkg].status = "purged" \/ CheckPullback(table[r.pkg], r.actor)

\* The gate has passed on the content that is about to enter review.
GateSatisfied(table, r) ==
  GateBeforeReview /\ r.pc = "set_status" /\ r.to = "in_review" =>
    table[r.pkg].blob_sha256 \in GatePass

\* The two ends of the link a supersede will write.
LinkPrepared(table, r) ==
  /\ r.pc = "successor" => r.succ # r.pkg /\ r.to = "superseded"
  /\ r.pc = "set_status" /\ r.to = "superseded" =>
       r.succ # r.pkg /\ AfterApproval(table, r.succ)
  /\ r.pc = "link" =>
       r.succ # r.pkg /\ AfterApproval(table, r.succ) /\ AfterApproval(table, r.pkg)

Promise(table, r) ==
  /\ r.pc # "idle" => table[r.pkg].status # "absent"
  /\ r.pc \in {"gate", "successor", "set_status"} => MoveAuthorised(table, r)
  /\ r.pc = "gate" => r.to = "in_review"
  /\ r.pc = "purge" => HasRole(r.actor, "admin")
  /\ GateSatisfied(table, r)
  /\ LinkPrepared(table, r)

PromisesKept == \A t \in Thread : Promise(rows, req[t])

\* Content that entered review has passed the gate, and it never changes.
GatedContent(p) ==
  GateBeforeReview /\ rows[p].status \notin {"absent", "draft", "purged"} =>
    rows[p].blob_sha256 \in GatePass

LinkSound(s) ==
  rows[s].replaces # NoPackage =>
    /\ rows[s].replaces # s
    /\ AfterApproval(rows, rows[s].replaces)
    /\ AfterApproval(rows, s)

RecordSound(p) == (Published(p) => AuthorisedBy(p)) /\ GatedContent(p) /\ LinkSound(p)

HistoryInv == PromisesKept /\ \A p \in Package : RecordSound(p)

\* What a store step may do to a published row, as far as promises go.
LEMMA PublishedRowStep ==
  ASSUME StoreInv, [StoreNext]_storeVars, NEW p \in Package, rows[p].status # "absent"
  PROVE  /\ rows'[p].status # "absent"
         /\ rows'[p].blob_sha256 = rows[p].blob_sha256
         /\ rows[p].status = "purged" => rows'[p].status = "purged"
         /\ \/ rows'[p].analyst_id = rows[p].analyst_id
            \/ rows'[p].status = "purged"
         /\ AfterApproval(rows, p) => AfterApproval(rows', p)
  <1> USE DEF StoreInv, StoreTypeOK, Row, AfterApproval
  <1>1. ASSUME NEW u \in Uploads, NEW a \in Actor, Publish(u, a)
        PROVE rows'[p] = rows[p]
    BY <1>1, StoreAssumption DEF Publish, Published, UploadType
  <1>2. ASSUME NEW q \in Package, NEW m \in Transitions, NEW a \in Actor,
               NEW b \in BOOLEAN, SetStatus(q, m[1], m[2], a, b)
        PROVE  /\ rows'[p].status # "absent"
               /\ rows'[p].blob_sha256 = rows[p].blob_sha256
               /\ rows[p].status = "purged" => rows'[p].status = "purged"
               /\ rows'[p].analyst_id = rows[p].analyst_id
               /\ AfterApproval(rows, p) => AfterApproval(rows', p)
    <2>1. m[1] # "purged" /\ m[2] \notin {"absent", "purged"}
      BY TransitionEnds
    <2>2. m[1] \in PostApproval => m[2] \in PostApproval
      BY DEF Transitions, Machine!ReviewTransitions, Machine!LifecycleTransitions, PostApproval
    <2> QED BY <1>2, <2>1, <2>2 DEF SetStatus
  <1>3. ASSUME NEW q \in Package,
               \/ \E s \in Package : LinkReplaces(q, s)
               \/ \E hold \in BOOLEAN : SetLegalHold(q, hold)
        PROVE  /\ rows'[p].status = rows[p].status
               /\ rows'[p].blob_sha256 = rows[p].blob_sha256
               /\ rows'[p].analyst_id = rows[p].analyst_id
    BY <1>3 DEF LinkReplaces, SetLegalHold
  <1>4. ASSUME NEW q \in Package, NEW a \in Actor, Purge(q, a)
        PROVE  /\ rows'[p].blob_sha256 = rows[p].blob_sha256
               /\ rows'[p] = rows[p] \/ rows'[p].status = "purged"
    BY <1>4 DEF Purge
  <1>5. ASSUME \/ \E q \in Package : WriteReport(q) \/ PurgeFails(q)
               \/ \E u \in Uploads : PublishFails(u)
        PROVE rows'[p] = rows[p]
    BY <1>5 DEF WriteReport, PublishFails, PurgeFails
  <1>6. CASE UNCHANGED storeVars
    BY <1>6 DEF storeVars
  <1>7. "purged" \in PostApproval
    BY DEF PostApproval
  <1> QED BY <1>1, <1>2, <1>3, <1>4, <1>5, <1>6, <1>7 DEF StoreNext

\* No store step breaks a promise.
LEMMA PromiseStable ==
  ASSUME StoreInv, [StoreNext]_storeVars, NEW r, WellFormed(r), Promise(rows, r)
  PROVE  Promise(rows', r)
  <1>1. CASE r.pc = "idle"
    BY <1>1 DEF Promise, MoveAuthorised, GateSatisfied, LinkPrepared
  <1>2. CASE r.pc # "idle"
    <2>1. r.pkg \in Package /\ rows[r.pkg].status # "absent"
      BY <1>2 DEF WellFormed, Promise
    <2>2. /\ rows'[r.pkg].status # "absent"
          /\ rows'[r.pkg].blob_sha256 = rows[r.pkg].blob_sha256
          /\ rows[r.pkg].status = "purged" => rows'[r.pkg].status = "purged"
          /\ \/ rows'[r.pkg].analyst_id = rows[r.pkg].analyst_id
             \/ rows'[r.pkg].status = "purged"
          /\ AfterApproval(rows, r.pkg) => AfterApproval(rows', r.pkg)
      BY <2>1, PublishedRowStep
    <2>3. r.succ \in Package /\ AfterApproval(rows, r.succ) => AfterApproval(rows', r.succ)
      BY PublishedRowStep DEF AfterApproval, PostApproval
    <2>4. r.pc \in {"gate", "successor", "set_status"} => MoveAuthorised(rows', r)
      BY <2>2 DEF Promise, MoveAuthorised, CheckPullback
    <2>5. GateSatisfied(rows', r)
      BY <2>2 DEF Promise, GateSatisfied
    <2>6. LinkPrepared(rows', r)
      BY <2>2, <2>3 DEF Promise, LinkPrepared, WellFormed
    <2> QED BY <2>2, <2>4, <2>5, <2>6 DEF Promise
  <1> QED BY <1>1, <1>2


\* Who has passed the check of a reviewing operation.
LEMMA ReviewerRole ==
  ASSUME NEW a, ReviewerOrAdmin(a)
  PROVE  HasRole(a, "reviewer")
  BY DEF ReviewerOrAdmin, HasRole

\* An idle thread has promised nothing.
LEMMA IdlePromise == ASSUME NEW table PROVE Promise(table, Idle)
  BY DEF Promise, Idle, GateSatisfied, LinkPrepared

\* Every workflow operation promises what it has checked on the row it read.
LEMMA BeginPromise ==
  ASSUME WorkflowInv, NEW t \in Thread, Begin(t)
  PROVE  \E r : req' = [req EXCEPT ![t] = r] /\ Promise(rows, r)
  <1> USE DEF Promise, MoveAuthorised, GateSatisfied, LinkPrepared
  <1>1. PICK p \in Package, a \in Actor, reason \in BOOLEAN :
        \/ \E to \in Machine!Status : Transition(t, p, to, a, reason)
        \/ \E s \in Package : Supersede(t, p, s, a, reason)
        \/ Recall(t, p, a, reason)
        \/ Restore(t, p, a, reason)
        \/ \E hold \in BOOLEAN : Hold(t, p, a, hold, reason)
        \/ PurgePackage(t, p, a)
    BY DEF Begin
  <1>2. ASSUME NEW to \in Machine!Status, Transition(t, p, to, a, reason)
        PROVE  \E r : req' = [req EXCEPT ![t] = r] /\ Promise(rows, r)
    <2> DEFINE pc == IF to = "in_review" /\ GateBeforeReview THEN "gate" ELSE "set_status"
               c == Call(pc, p, NoPackage, rows[p].status, to, a, reason)
    <2>1. req' = [req EXCEPT ![t] = c]
      BY <1>2 DEF Transition
    <2>2. /\ c.pc = pc /\ c.pkg = p /\ c.actor = a /\ c.from = rows[p].status
          /\ c.to = to /\ c.reason = reason
      BY DEF Call
    <2>3. /\ rows[p].status # "absent" /\ to # "superseded" /\ to # "recalled"
          /\ rows[p].status \notin {"recalled", "superseded"}
      BY <1>2 DEF Transition, Published, Machine!ReviewTransitions
    <2>4. /\ to = "in_review" => HasRole(a, "analyst")
          /\ to = "rejected" => HasRole(a, "reviewer") /\ reason
          /\ to = "draft" => CheckPullback(rows[p], a)
      BY <1>2 DEF Transition, ReviewPolicyAllows, CheckSubmit, CheckDecide
    <2>5. /\ pc = "gate" => to = "in_review"
          /\ pc = "set_status" /\ GateBeforeReview => to # "in_review"
          /\ pc \in {"gate", "set_status"}
      OBVIOUS
    <2> HIDE DEF c, pc
    <2> QED BY <2>1, <2>2, <2>3, <2>4, <2>5
  <1>3. ASSUME NEW s \in Package, Supersede(t, p, s, a, reason)
        PROVE  \E r : req' = [req EXCEPT ![t] = r] /\ Promise(rows, r)
    <2> DEFINE c == Call("successor", p, s, "approved", "superseded", a, reason)
    <2>1. req' = [req EXCEPT ![t] = c]
      BY <1>3 DEF Supersede
    <2>2. /\ c.pc = "successor" /\ c.pkg = p /\ c.succ = s /\ c.actor = a
          /\ c.from = "approved" /\ c.to = "superseded"
      BY DEF Call
    <2>3. rows[p].status # "absent" /\ s # p /\ HasRole(a, "reviewer")
      BY <1>3, ReviewerRole DEF Supersede, Published
    <2> HIDE DEF c
    <2> QED BY <2>1, <2>2, <2>3
  <1>4. ASSUME Recall(t, p, a, reason)
        PROVE  \E r : req' = [req EXCEPT ![t] = r] /\ Promise(rows, r)
    <2> DEFINE c == Call("set_status", p, NoPackage, "approved", "recalled", a, reason)
    <2>1. req' = [req EXCEPT ![t] = c]
      BY <1>4 DEF Recall
    <2>2. /\ c.pc = "set_status" /\ c.pkg = p /\ c.actor = a /\ c.reason = reason
          /\ c.from = "approved" /\ c.to = "recalled"
      BY DEF Call
    <2>3. rows[p].status # "absent" /\ HasRole(a, "reviewer") /\ reason
      BY <1>4, ReviewerRole DEF Recall, Published
    <2> HIDE DEF c
    <2> QED BY <2>1, <2>2, <2>3
  <1>5. ASSUME Restore(t, p, a, reason)
        PROVE  \E r : req' = [req EXCEPT ![t] = r] /\ Promise(rows, r)
    <2> DEFINE c == Call("set_status", p, NoPackage, rows[p].status, "approved", a, reason)
    <2>1. req' = [req EXCEPT ![t] = c]
      BY <1>5 DEF Restore
    <2>2. c.pc = "set_status" /\ c.pkg = p /\ c.actor = a /\ c.to = "approved"
      BY DEF Call
    <2>3. rows[p].status # "absent" /\ HasRole(a, "admin")
      BY <1>5 DEF Restore, Published
    <2> HIDE DEF c
    <2> QED BY <2>1, <2>2, <2>3
  <1>6. ASSUME NEW hold \in BOOLEAN, Hold(t, p, a, hold, reason)
        PROVE  \E r : req' = [req EXCEPT ![t] = r] /\ Promise(rows, r)
    <2> DEFINE c == [Call("hold", p, NoPackage, "absent", "absent", a, FALSE) EXCEPT !.hold = hold]
    <2>1. req' = [req EXCEPT ![t] = c] /\ rows[p].status # "absent"
      BY <1>6 DEF Hold, Published
    <2>2. c.pc = "hold" /\ c.pkg = p
      BY DEF Call
    <2> HIDE DEF c
    <2> QED BY <2>1, <2>2
  <1>7. ASSUME PurgePackage(t, p, a)
        PROVE  \E r : req' = [req EXCEPT ![t] = r] /\ Promise(rows, r)
    <2> DEFINE c == Call("purge", p, NoPackage, "absent", "absent", a, FALSE)
    <2>1. req' = [req EXCEPT ![t] = c] /\ rows[p].status # "absent" /\ HasRole(a, "admin")
      BY <1>7 DEF PurgePackage, Published
    <2>2. c.pc = "purge" /\ c.pkg = p /\ c.actor = a
      BY DEF Call
    <2> HIDE DEF c
    <2> QED BY <2>1, <2>2
  <1> QED BY <1>1, <1>2, <1>3, <1>4, <1>5, <1>6, <1>7

\* A request that goes on keeps its promises and makes the next ones: the gate
\* passed, the successor is approved, the predecessor is superseded.
LEMMA ContinuePromise ==
  ASSUME WorkflowInv, PromisesKept, NEW t \in Thread, Continue(t)
  PROVE  \E r : req' = [req EXCEPT ![t] = r] /\ Promise(rows', r)
  <1> DEFINE r == req[t]
             moved(pc) == [r EXCEPT !.pc = pc]
  <1>0. WellFormed(r) /\ r \in Request /\ Promise(rows, r)
    BY DEF WorkflowInv, RequestsWellFormed, PromisesKept
  <1>1. StoreInv /\ [StoreNext]_storeVars
    BY ContinueStep DEF WorkflowInv
  <1>2. Promise(rows', r)
    BY <1>0, <1>1, PromiseStable
  <1>3. ASSUME Done(t) PROVE \E s : req' = [req EXCEPT ![t] = s] /\ Promise(rows', s)
    BY <1>3, IdlePromise DEF Done
  <1>4. \A pc : /\ moved(pc).pc = pc /\ moved(pc).pkg = r.pkg /\ moved(pc).succ = r.succ
                /\ moved(pc).from = r.from /\ moved(pc).to = r.to
                /\ moved(pc).actor = r.actor /\ moved(pc).reason = r.reason
    BY <1>0 DEF Request
  <1>5. \A pc : Goto(t, pc) => req' = [req EXCEPT ![t] = moved(pc)]
    BY DEF Goto
  <1> HIDE DEF moved
  <1> USE DEF Promise, MoveAuthorised, GateSatisfied, LinkPrepared
  <1>6. CASE RerunGate(t)
    <2>1. /\ r.pc = "gate" /\ rows' = rows
          /\ \/ rows[r.pkg].blob_sha256 \in GatePass /\ Goto(t, "set_status")
             \/ Done(t)
      BY <1>6 DEF RerunGate, storeVars
    <2>2. CASE rows[r.pkg].blob_sha256 \in GatePass /\ Goto(t, "set_status")
      <3>1. Promise(rows', moved("set_status"))
        BY <1>2, <1>4, <2>1, <2>2
      <3> QED BY <1>5, <2>2, <3>1
    <2> QED BY <1>3, <2>1, <2>2
  <1>7. CASE CheckSuccessor(t)
    <2>1. /\ r.pc = "successor" /\ rows' = rows
          /\ \/ rows[r.succ].status = "approved" /\ Goto(t, "set_status")
             \/ Done(t)
      BY <1>7 DEF CheckSuccessor, storeVars
    <2>2. CASE rows[r.succ].status = "approved" /\ Goto(t, "set_status")
      <3>1. Promise(rows', moved("set_status"))
        BY <1>2, <1>4, <2>1, <2>2 DEF AfterApproval, PostApproval
      <3> QED BY <1>5, <2>2, <3>1
    <2> QED BY <1>3, <2>1, <2>2
  <1>8. CASE CallSetStatus(t)
    <2>1. \/ /\ r.pc = "set_status" /\ r.to = "superseded"
             /\ SetStatus(r.pkg, r.from, r.to, r.actor, r.reason) /\ Goto(t, "link")
          \/ Done(t)
      BY <1>8 DEF CallSetStatus
    <2>2. CASE /\ r.pc = "set_status" /\ r.to = "superseded"
               /\ SetStatus(r.pkg, r.from, r.to, r.actor, r.reason) /\ Goto(t, "link")
      <3>1. r.pkg \in Package
        BY <1>0, <2>2 DEF WellFormed
      <3>2. rows'[r.pkg].status = "superseded"
        BY <2>2, <3>1 DEF SetStatus, WorkflowInv, StoreInv, StoreTypeOK, Row
      <3>3. Promise(rows', moved("link"))
        BY <1>2, <1>4, <2>2, <3>2 DEF AfterApproval, PostApproval
      <3> QED BY <1>5, <2>2, <3>3
    <2> QED BY <1>3, <2>1, <2>2
  <1>9. CASE CallLinkReplaces(t) \/ CallSetLegalHold(t) \/ CallPurge(t)
    BY <1>3, <1>9 DEF CallLinkReplaces, CallSetLegalHold, CallPurge
  <1> QED BY <1>6, <1>7, <1>8, <1>9 DEF Continue

\* No step of any thread breaks a promise.
LEMMA PromisesStep == WorkflowInv /\ PromisesKept /\ [Next]_vars => PromisesKept'
  <1> SUFFICES ASSUME WorkflowInv, PromisesKept, [Next]_vars PROVE PromisesKept'
    OBVIOUS
  <1>0. StoreInv /\ [StoreNext]_storeVars
    BY WorkflowStep DEF WorkflowInv
  <1>1. \A u \in Thread : Promise(rows', req[u])
    BY <1>0, PromiseStable DEF WorkflowInv, RequestsWellFormed, PromisesKept
  <1>2. ASSUME NEW t \in Thread, \E r : req' = [req EXCEPT ![t] = r] /\ Promise(rows', r)
        PROVE  PromisesKept'
    <2>1. PICK r : req' = [req EXCEPT ![t] = r] /\ Promise(rows', r)
      BY <1>2
    <2>2. \A u \in Thread : req'[u] = IF u = t THEN r ELSE req[u]
      BY <2>1 DEF WorkflowInv
    <2>3. \A u \in Thread : Promise(rows', req'[u])
      BY <1>1, <2>1, <2>2
    <2> QED BY <2>3 DEF PromisesKept
  <1>3. ASSUME req' = req PROVE PromisesKept'
    BY <1>1, <1>3 DEF PromisesKept
  <1>4. ASSUME NEW t \in Thread, Begin(t) PROVE PromisesKept'
    <2>1. rows' = rows
      BY <1>4, BeginStep DEF storeVars
    <2> QED BY <1>2, <1>4, <2>1, BeginPromise
  <1>5. ASSUME NEW t \in Thread, Continue(t) PROVE PromisesKept'
    BY <1>2, <1>5, ContinuePromise
  <1>6. CASE Restart
    <2>1. \A u \in Thread : Promise(rows', req'[u])
      BY <1>6, IdlePromise DEF Restart
    <2> QED BY <2>1 DEF PromisesKept
  <1>7. ASSUME NEW t \in Thread, Raise(t) PROVE PromisesKept'
    BY <1>2, <1>7, IdlePromise DEF Raise, Done
  <1> QED BY <1>3, <1>4, <1>5, <1>6, <1>7 DEF Next, PublishPackage, vars

\* A row whose status history and link a step leaves alone stays sound.
LEMMA RecordStable ==
  ASSUME StoreInv, [StoreNext]_storeVars, NEW p \in Package, RecordSound(p),
         trail'[p] = trail[p], rows'[p].replaces = rows[p].replaces
  PROVE  RecordSound(p)'
  <1>1. StoreInv'
    BY StepKeepsStoreInv
  <1>2. rows'[p].status = rows[p].status
    BY <1>1 DEF StoreInv, TrailExplainsStatus
  <1>3. Published(p) => /\ rows'[p].blob_sha256 = rows[p].blob_sha256
                        /\ rows'[p].analyst_id = rows[p].analyst_id
    <2> SUFFICES ASSUME Published(p)
                 PROVE  /\ rows'[p].blob_sha256 = rows[p].blob_sha256
                        /\ rows'[p].analyst_id = rows[p].analyst_id
      OBVIOUS
    <2>1. /\ rows'[p].blob_sha256 = rows[p].blob_sha256
          /\ rows'[p].analyst_id = rows[p].analyst_id \/ rows'[p].status = "purged"
      BY PublishedRowStep DEF Published
    <2>2. rows'[p].status = "purged" => rows'[p].analyst_id = rows[p].analyst_id
      BY <1>1, <1>2 DEF StoreInv, TombstonesConsistent
    <2> QED BY <2>1, <2>2
  <1>4. (Published(p) => AuthorisedBy(p))'
    <2> SUFFICES ASSUME rows'[p].status # "absent" PROVE AuthorisedBy(p)'
      BY DEF Published
    <2>1. AuthorisedBy(p)
      BY <1>2 DEF RecordSound, Published
    <2>2. rows'[p].analyst_id = rows[p].analyst_id
      BY <1>2, <1>3 DEF Published
    <2> QED BY <2>1, <2>2 DEF AuthorisedBy, CheckPullback, HasRole
  <1>5. GatedContent(p)'
    BY <1>2, <1>3 DEF RecordSound, GatedContent, Published
  <1>6. LinkSound(p)'
    <2> DEFINE q == rows[p].replaces
    <2>1. CASE q = NoPackage
      BY <2>1 DEF LinkSound
    <2>2. CASE q # NoPackage
      <3>1. q # p /\ AfterApproval(rows, q) /\ AfterApproval(rows, p)
        BY <2>2 DEF RecordSound, LinkSound
      <3>2. q \in Package
        BY <2>2 DEF StoreInv, StoreTypeOK, Row
      <3>3. AfterApproval(rows', q) /\ AfterApproval(rows', p)
        BY <3>1, <3>2, PublishedRowStep DEF AfterApproval, PostApproval
      <3> QED BY <3>1, <3>3 DEF LinkSound, AfterApproval
    <2> QED BY <2>1, <2>2
  <1> QED BY <1>4, <1>5, <1>6 DEF RecordSound

\* What set_status writes is what the request promised.
LEMMA SetStatusRecord ==
  ASSUME WorkflowInv, HistoryInv, NEW t \in Thread, CallSetStatus(t),
         NEW p \in Package
  PROVE  RecordSound(p)'
  <1> DEFINE r == req[t]
  <1>0. StoreInv /\ [StoreNext]_storeVars /\ RecordSound(p)
    BY ContinueStep DEF WorkflowInv, Continue, HistoryInv
  <1>1. /\ r.pc = "set_status" /\ r.pkg \in Package
        /\ <<r.from, r.to>> \in Transitions /\ Promise(rows, r)
    BY DEF CallSetStatus, WorkflowInv, RequestsWellFormed, WellFormed, HistoryInv, PromisesKept
  <1>2. CASE UNCHANGED storeVars
    BY <1>0, <1>2, RecordStable DEF storeVars
  <1>3. CASE SetStatus(r.pkg, r.from, r.to, r.actor, r.reason)
    <2>1. /\ rows'[p].replaces = rows[p].replaces
          /\ rows'[p].analyst_id = rows[p].analyst_id
          /\ rows'[p].blob_sha256 = rows[p].blob_sha256
          /\ p = r.pkg => /\ rows[p].status = r.from /\ rows'[p].status = r.to
                          /\ trail'[p].from = r.from /\ trail'[p].to = r.to
                          /\ trail'[p].actor = r.actor /\ trail'[p].reason = r.reason
          /\ p # r.pkg => trail'[p] = trail[p]
      BY <1>0, <1>1, <1>3 DEF SetStatus, StoreInv, StoreTypeOK, Row
    <2>2. CASE p # r.pkg
      BY <1>0, <2>1, <2>2, RecordStable
    <2>3. CASE p = r.pkg
      <3>1. MoveAuthorised(rows, r) /\ GateSatisfied(rows, r)
        BY <1>1 DEF Promise
      <3>2. /\ r.from \notin {"absent", "purged"}
            /\ r.to \notin {"absent", "purged"}
            /\ r.from = "draft" => r.to = "in_review"
        BY <1>1 DEF Transitions, Machine!ReviewTransitions, Machine!LifecycleTransitions
      <3>3. AuthorisedBy(p)'
        BY <2>1, <2>3, <3>1, <3>2 DEF AuthorisedBy, MoveAuthorised, CheckPullback, HasRole
      <3>4. GatedContent(p)'
        BY <1>0, <1>1, <2>1, <2>3, <3>1, <3>2 DEF RecordSound, GatedContent, GateSatisfied
      <3>5. LinkSound(p)'
        <4> DEFINE q == rows[p].replaces
        <4>1. CASE q = NoPackage
          BY <2>1, <4>1 DEF LinkSound
        <4>2. CASE q # NoPackage
          <5>1. q # p /\ AfterApproval(rows, q) /\ AfterApproval(rows, p) /\ q \in Package
            BY <1>0, <4>2 DEF RecordSound, LinkSound, StoreInv, StoreTypeOK, Row
          <5>2. AfterApproval(rows', q) /\ AfterApproval(rows', p)
            BY <1>0, <5>1, PublishedRowStep DEF AfterApproval, PostApproval
          <5> QED BY <2>1, <5>1, <5>2 DEF LinkSound, AfterApproval
        <4> QED BY <4>1, <4>2
      <3> QED BY <3>3, <3>4, <3>5 DEF RecordSound
    <2> QED BY <2>2, <2>3
  <1> QED BY <1>2, <1>3 DEF CallSetStatus

\* What link_replaces writes is what the request promised.
LEMMA LinkRecord ==
  ASSUME WorkflowInv, HistoryInv, NEW t \in Thread, CallLinkReplaces(t),
         NEW p \in Package
  PROVE  RecordSound(p)'
  <1> DEFINE r == req[t]
  <1>0. StoreInv /\ [StoreNext]_storeVars /\ RecordSound(p)
    BY ContinueStep DEF WorkflowInv, Continue, HistoryInv
  <1>1. /\ r.pc = "link" /\ r.succ \in Package /\ r.pkg \in Package
        /\ LinkReplaces(r.succ, r.pkg) /\ Promise(rows, r)
    BY DEF CallLinkReplaces, WorkflowInv, RequestsWellFormed, WellFormed, HistoryInv, PromisesKept
  <1>2. /\ trail' = trail
        /\ rows'[p].replaces = IF p = r.succ THEN r.pkg ELSE rows[p].replaces
        /\ \A q \in Package : /\ rows'[q].status = rows[q].status
                              /\ rows'[q].blob_sha256 = rows[q].blob_sha256
                              /\ rows'[q].analyst_id = rows[q].analyst_id
    BY <1>0, <1>1 DEF LinkReplaces, StoreInv, StoreTypeOK, Row
  <1>3. CASE p # r.succ
    BY <1>0, <1>2, <1>3, RecordStable
  <1>4. CASE p = r.succ
    <2>1. r.succ # r.pkg /\ AfterApproval(rows, r.succ) /\ AfterApproval(rows, r.pkg)
      BY <1>1 DEF Promise, LinkPrepared
    <2>2. LinkSound(p)'
      BY <1>1, <1>2, <1>4, <2>1 DEF LinkSound, AfterApproval
    <2>3. (Published(p) => AuthorisedBy(p))' /\ GatedContent(p)'
      BY <1>0, <1>2 DEF RecordSound, Published, AuthorisedBy, CheckPullback, HasRole, GatedContent
    <2> QED BY <2>2, <2>3 DEF RecordSound
  <1> QED BY <1>3, <1>4

\* The row purge leaves was purged by an admin; its links stay among versions
\* that have been approved.
LEMMA PurgeRecord ==
  ASSUME WorkflowInv, HistoryInv, NEW t \in Thread, CallPurge(t),
         NEW p \in Package
  PROVE  RecordSound(p)'
  <1> DEFINE r == req[t]
  <1>0. StoreInv /\ [StoreNext]_storeVars /\ RecordSound(p)
    BY ContinueStep DEF WorkflowInv, Continue, HistoryInv
  <1>1. /\ r.pkg \in Package /\ HasRole(r.actor, "admin")
    BY DEF CallPurge, WorkflowInv, RequestsWellFormed, WellFormed, HistoryInv, PromisesKept, Promise
  <1>2. CASE UNCHANGED storeVars
    BY <1>0, <1>2, RecordStable DEF storeVars
  <1>3. CASE Purge(r.pkg, r.actor)
    <2>1. /\ rows'[p].replaces = rows[p].replaces
          /\ p = r.pkg => /\ rows'[p].status = "purged"
                          /\ trail'[p].to = "purged" /\ trail'[p].actor = r.actor
          /\ p # r.pkg => trail'[p] = trail[p]
      BY <1>0, <1>1, <1>3 DEF Purge, StoreInv, StoreTypeOK, Row
    <2>2. CASE p # r.pkg
      BY <1>0, <2>1, <2>2, RecordStable
    <2>3. CASE p = r.pkg
      <3>1. AuthorisedBy(p)'
        BY <1>1, <2>1, <2>3 DEF AuthorisedBy, HasRole
      <3>2. GatedContent(p)'
        BY <2>1, <2>3 DEF GatedContent
      <3>3. LinkSound(p)'
        <4> DEFINE q == rows[p].replaces
        <4>1. CASE q = NoPackage
          BY <2>1, <4>1 DEF LinkSound
        <4>2. CASE q # NoPackage
          <5>1. q # p /\ AfterApproval(rows, q) /\ AfterApproval(rows, p) /\ q \in Package
            BY <1>0, <4>2 DEF RecordSound, LinkSound, StoreInv, StoreTypeOK, Row
          <5>2. AfterApproval(rows', q) /\ AfterApproval(rows', p)
            BY <1>0, <5>1, PublishedRowStep DEF AfterApproval, PostApproval
          <5> QED BY <2>1, <5>1, <5>2 DEF LinkSound, AfterApproval
        <4> QED BY <4>1, <4>2
      <3> QED BY <3>1, <3>2, <3>3 DEF RecordSound
    <2> QED BY <2>2, <2>3
  <1>4. CASE PurgeFails(r.pkg)
    BY <1>0, <1>4, RecordStable DEF PurgeFails
  <1> QED BY <1>2, <1>3, <1>4 DEF CallPurge

\* A new row is a draft without a link, and nobody's decision.
LEMMA PublishRecord ==
  ASSUME WorkflowInv, HistoryInv, NEW u \in Uploads, NEW a \in Actor,
         PublishPackage(u, a), NEW p \in Package
  PROVE  RecordSound(p)'
  <1>0. StoreInv /\ [StoreNext]_storeVars /\ RecordSound(p)
    BY DEF WorkflowInv, HistoryInv, PublishPackage, StoreNext
  <1>1. u.pkg \in Package
    BY StoreAssumption DEF UploadType
  <1>2. \/ UNCHANGED <<rows, trail>>
        \/ IF p = u.pkg
           THEN /\ rows'[p].status = "draft" /\ rows'[p].replaces = NoPackage
                /\ trail'[p].to = "draft" /\ trail'[p].from = "absent"
           ELSE rows'[p] = rows[p] /\ trail'[p] = trail[p]
    BY <1>0, <1>1 DEF PublishPackage, Publish, PublishFails, DraftRow, StoreInv, StoreTypeOK
  <1>3. CASE trail'[p] = trail[p] /\ rows'[p] = rows[p]
    BY <1>0, <1>3, RecordStable
  <1>4. CASE rows'[p].status = "draft" /\ rows'[p].replaces = NoPackage
             /\ trail'[p].to = "draft" /\ trail'[p].from = "absent"
    BY <1>4 DEF RecordSound, AuthorisedBy, GatedContent, LinkSound
  <1> QED BY <1>2, <1>3, <1>4

\* The strengthened invariant is inductive.
LEMMA HistoryStep == WorkflowInv /\ HistoryInv /\ [Next]_vars => HistoryInv'
  <1> SUFFICES ASSUME WorkflowInv, HistoryInv, [Next]_vars, NEW p \in Package
               PROVE  RecordSound(p)'
    BY PromisesStep DEF HistoryInv
  <1>0. StoreInv /\ [StoreNext]_storeVars /\ RecordSound(p)
    BY WorkflowStep DEF WorkflowInv, HistoryInv
  <1>1. ASSUME NEW u \in Uploads, NEW a \in Actor, PublishPackage(u, a)
        PROVE  RecordSound(p)'
    BY <1>1, PublishRecord
  <1>2. ASSUME NEW t \in Thread, CallSetStatus(t) PROVE RecordSound(p)'
    BY <1>2, SetStatusRecord
  <1>3. ASSUME NEW t \in Thread, CallLinkReplaces(t) PROVE RecordSound(p)'
    BY <1>3, LinkRecord
  <1>4. ASSUME NEW t \in Thread, CallPurge(t) PROVE RecordSound(p)'
    BY <1>4, PurgeRecord
  <1>5. ASSUME NEW t \in Thread, CallSetLegalHold(t) PROVE RecordSound(p)'
    <2>1. trail'[p] = trail[p] /\ rows'[p].replaces = rows[p].replaces
      BY <1>0, <1>5 DEF CallSetLegalHold, SetLegalHold, StoreInv, StoreTypeOK, Row
    <2> QED BY <1>0, <2>1, RecordStable
  <1>6. ASSUME UNCHANGED storeVars PROVE RecordSound(p)'
    BY <1>0, <1>6, RecordStable DEF storeVars
  <1>7. ASSUME NEW t \in Thread, Begin(t) \/ RerunGate(t) \/ CheckSuccessor(t) \/ Raise(t)
        PROVE  UNCHANGED storeVars
    BY <1>7, BeginStep DEF RerunGate, CheckSuccessor, Raise
  <1> QED BY <1>1, <1>2, <1>3, <1>4, <1>5, <1>6, <1>7 DEF Next, Continue, Restart, vars, storeVars

\* What the requests of any number of threads promise, and what every row and
\* its newest audit row record, in every reachable state.
THEOREM HistoryInvariant == Spec => []HistoryInv
  <1>1. Init => HistoryInv
    <2> SUFFICES ASSUME Init PROVE HistoryInv
      OBVIOUS
    <2>1. PromisesKept
      BY IdlePromise DEF Init, PromisesKept
    <2>2. \A p \in Package : RecordSound(p)
      BY DEF Init, StoreInit, RecordSound, Published, GatedContent, LinkSound
    <2> QED BY <2>1, <2>2 DEF HistoryInv
  <1> QED BY <1>1, HistoryStep, WorkflowInvariant, PTL DEF Spec

\* Every recorded move was made by somebody entitled to it, with a reason where
\* one is required (the CHECKs of ReviewWorkflow and LifecycleWorkflow).
THEOREM HistoryIsAuthorised == Spec => []HistoryAuthorised
  <1>1. HistoryInv => HistoryAuthorised
    BY DEF HistoryInv, RecordSound, HistoryAuthorised
  <1> QED BY <1>1, HistoryInvariant, PTL

\* With gate_before_review on, content that fails the gate never gets past draft.
THEOREM ReviewedContentIsGated == Spec => []ReviewedContentPassedGate
  <1>1. HistoryInv => ReviewedContentPassedGate
    BY DEF HistoryInv, RecordSound, GatedContent, ReviewedContentPassedGate
  <1> QED BY <1>1, HistoryInvariant, PTL

\* A supersede link joins two different versions that have both been approved.
THEOREM LinksAreSound == Spec => []SupersedeLinksSound
  <1>1. HistoryInv => SupersedeLinksSound
    BY DEF HistoryInv, RecordSound, LinkSound, AfterApproval, SupersedeLinksSound
  <1> QED BY <1>1, HistoryInvariant, PTL

-----------------------------------------------------------------------------
\* The audit trail of the store is connected under every workflow: each status
\* row starts where the last one ended.
THEOREM TrailIsConnected == Spec => TrailConnected
  <1>1. StoreInv /\ [StoreNext]_storeVars =>
          [\A p \in Package : trail'[p] # trail[p] => trail'[p].from = trail[p].to]_storeVars
    <2> SUFFICES ASSUME StoreInv, StoreNext, NEW p \in Package, trail'[p] # trail[p]
                 PROVE  trail'[p].from = trail[p].to
      OBVIOUS
    <2> USE DEF StoreInv, StoreTypeOK, TrailExplainsStatus
    <2>1. ASSUME NEW u \in Uploads, NEW a \in Actor, Publish(u, a)
          PROVE  trail'[p].from = trail[p].to
      BY <2>1, StoreAssumption DEF Publish, Published, UploadType
    <2>2. ASSUME NEW q \in Package, NEW m \in Transitions, NEW a \in Actor,
                 NEW b \in BOOLEAN, SetStatus(q, m[1], m[2], a, b)
          PROVE  trail'[p].from = trail[p].to
      BY <2>2 DEF SetStatus
    <2>3. ASSUME NEW q \in Package, NEW a \in Actor, Purge(q, a)
          PROVE  trail'[p].from = trail[p].to
      BY <2>3 DEF Purge
    <2> QED BY <2>1, <2>2, <2>3
            DEF StoreNext, LinkReplaces, SetLegalHold, WriteReport, PublishFails, PurgeFails
  <1>2. WorkflowInv /\ [Next]_vars => StoreInv /\ [StoreNext]_storeVars
    BY WorkflowStep DEF WorkflowInv
  <1> QED BY <1>1, <1>2, WorkflowInvariant, PTL DEF Spec, TrailConnected
=============================================================================
