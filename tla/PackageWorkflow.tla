--------------------------- MODULE PackageWorkflow ---------------------------
(***************************************************************************)
(* ap_review.ReviewWorkflow and ap_lifecycle.LifecycleWorkflow over one    *)
(* PackageStore, called from the worker threads of the API process.  A     *)
(* workflow method reads the record, checks policy on that copy, and only  *)
(* then calls the store: between those calls other threads run.  A request *)
(* is the local state of such a call; a refused call changes nothing and   *)
(* is not a step.  A restart of the process forgets the requests in        *)
(* flight; what the store committed stays.  The gate's verdict on given    *)
(* bytes is fixed here: the registry it also reads does not change.        *)
(***************************************************************************)
EXTENDS PackageStore

CONSTANTS
  Thread,
  Roles,              \* [Actor -> SUBSET Role]
  GatePass,           \* contents that pass ap-gate check against the registry
  GateBeforeReview,   \* ReviewPolicy.gate_before_review
  AllowSelfReview,    \* ReviewPolicy.allow_self_review
  MayFail             \* whether publish and purge may raise half-way (bound of the instance)

Role == {"analyst", "reviewer", "team_reader", "company_reader",
         "standard_approver", "admin"}

ASSUME WorkflowAssumption ==
  /\ Roles \in [Actor -> SUBSET Role]
  /\ GatePass \subseteq Blob
  /\ GateBeforeReview \in BOOLEAN
  /\ AllowSelfReview \in BOOLEAN
  /\ MayFail \in BOOLEAN

VARIABLE req          \* [Thread -> Request]

vars == <<rows, blobs, sidecars, trail, abandoned, doomed, req>>

\* Identity.has_role: admin holds every role.
HasRole(a, role) == role \in Roles[a] \/ "admin" \in Roles[a]

Request ==
  [pc     : {"idle", "gate", "successor", "set_status", "link", "hold", "purge"},
   pkg    : Package \cup {NoPackage},
   succ   : Package \cup {NoPackage},
   from   : Machine!Status,
   to     : Machine!Status,
   actor  : Actor \cup {NoActor},
   reason : BOOLEAN,
   hold   : BOOLEAN]

Idle == [pc |-> "idle", pkg |-> NoPackage, succ |-> NoPackage,
         from |-> "absent", to |-> "absent", actor |-> NoActor, reason |-> FALSE,
         hold |-> FALSE]

\* A request that has passed its policy checks and will call the store at pc.
Call(pc, p, s, from, to, a, reason) ==
  [pc |-> pc, pkg |-> p, succ |-> s, from |-> from, to |-> to,
   actor |-> a, reason |-> reason, hold |-> FALSE]

Goto(t, pc) == req' = [req EXCEPT ![t].pc = pc]
Done(t) == req' = [req EXCEPT ![t] = Idle]

Init == StoreInit /\ req = [t \in Thread |-> Idle]

-----------------------------------------------------------------------------
(* Policy, evaluated on the record the workflow has just read. *)

CheckSubmit(a) == HasRole(a, "analyst")

\* Mutant of CheckDecide: nobody compares the reviewer with the analyst.
CheckDecideAnyReviewer(row, a, to, reason) ==
  HasRole(a, "reviewer") /\ (to = "rejected" => reason)

CheckDecide(row, a, to, reason) ==
  /\ HasRole(a, "reviewer")
  /\ \/ AllowSelfReview
     \/ HasRole(a, "admin")
     \/ row.analyst_id # a
  /\ to = "rejected" => reason

CheckPullback(row, a) == HasRole(a, "admin") \/ row.analyst_id = a

ReviewPolicyAllows(row, a, to, reason) ==
  \/ to = "in_review" /\ CheckSubmit(a)
  \/ to \in {"approved", "rejected"} /\ CheckDecide(row, a, to, reason)
  \/ to = "draft" /\ CheckPullback(row, a)

ReviewerOrAdmin(a) == HasRole(a, "reviewer") \/ HasRole(a, "admin")

-----------------------------------------------------------------------------
(* POST /packages and /packages/upload: analysts only, one locked call. *)
PublishPackage(u, a) ==
  /\ HasRole(a, "analyst")
  /\ Publish(u, a) \/ (MayFail /\ PublishFails(u))
  /\ UNCHANGED req

\* Mutant of Transition: the (from, to) pair is not looked up.
TransitionAnywhere(t, p, to, a, reason) ==
  /\ req[t].pc = "idle"
  /\ Published(p)
  /\ ReviewPolicyAllows(rows[p], a, to, reason)
  /\ req' = [req EXCEPT ![t] =
       Call("set_status", p, NoPackage, rows[p].status, to, a, reason)]
  /\ UNCHANGED storeVars

(* ReviewWorkflow.transition up to the gate re-run or the store call. *)
Transition(t, p, to, a, reason) ==
  /\ req[t].pc = "idle"
  /\ Published(p)
  /\ <<rows[p].status, to>> \in Machine!ReviewTransitions
  /\ ReviewPolicyAllows(rows[p], a, to, reason)
  /\ req' = [req EXCEPT ![t] =
       Call(IF to = "in_review" /\ GateBeforeReview THEN "gate" ELSE "set_status",
            p, NoPackage, rows[p].status, to, a, reason)]
  /\ UNCHANGED storeVars

\* Mutant of RerunGate: the report is not looked at.
RerunGateIgnored(t) ==
  /\ req[t].pc = "gate"
  /\ Goto(t, "set_status")
  /\ UNCHANGED storeVars

(* _rerun_gate: extracts the stored bytes (missing bytes end the request    *)
(* with an error) and runs the gate on them, outside the store's lock.      *)
RerunGate(t) ==
  /\ req[t].pc = "gate"
  /\ IF rows[req[t].pkg].blob_sha256 \in blobs \cap GatePass
     THEN Goto(t, "set_status")
     ELSE Done(t)
  /\ UNCHANGED storeVars

(* LifecycleWorkflow.supersede, first half: the predecessor's record. *)
Supersede(t, p, s, a, reason) ==
  /\ req[t].pc = "idle"
  /\ Published(p)
  /\ <<rows[p].status, "superseded">> \in Machine!LifecycleTransitions
  /\ ReviewerOrAdmin(a)
  /\ s # p
  /\ req' = [req EXCEPT ![t] =
       Call("successor", p, s, "approved", "superseded", a, reason)]
  /\ UNCHANGED storeVars

\* Mutant of CheckSuccessor: any published version may succeed.
CheckSuccessorAny(t) ==
  /\ req[t].pc = "successor"
  /\ IF Published(req[t].succ)
     THEN Goto(t, "set_status")
     ELSE Done(t)
  /\ UNCHANGED storeVars

(* ... second half: a separate read of the successor's record. *)
CheckSuccessor(t) ==
  /\ req[t].pc = "successor"
  /\ IF rows[req[t].succ].status = "approved"
     THEN Goto(t, "set_status")
     ELSE Done(t)
  /\ UNCHANGED storeVars

Recall(t, p, a, reason) ==
  /\ req[t].pc = "idle"
  /\ Published(p)
  /\ <<rows[p].status, "recalled">> \in Machine!LifecycleTransitions
  /\ ReviewerOrAdmin(a)
  /\ reason
  /\ req' = [req EXCEPT ![t] =
       Call("set_status", p, NoPackage, "approved", "recalled", a, reason)]
  /\ UNCHANGED storeVars

\* Mutant of Restore: reviewers may restore.
RestoreByReviewer(t, p, a, reason) ==
  /\ req[t].pc = "idle"
  /\ rows[p].status \in {"recalled", "superseded"}
  /\ ReviewerOrAdmin(a)
  /\ req' = [req EXCEPT ![t] =
       Call("set_status", p, NoPackage, rows[p].status, "approved", a, reason)]
  /\ UNCHANGED storeVars

Restore(t, p, a, reason) ==
  /\ req[t].pc = "idle"
  /\ Published(p)
  /\ rows[p].status \in {"recalled", "superseded"}
  /\ HasRole(a, "admin")
  /\ req' = [req EXCEPT ![t] =
       Call("set_status", p, NoPackage, rows[p].status, "approved", a, reason)]
  /\ UNCHANGED storeVars

(* The store call both workflows end in.  A lost race raises StoreError.    *)
(* supersede goes on to link_replaces, a second transaction.                *)
CallSetStatus(t) ==
  LET r == req[t] IN
  /\ r.pc = "set_status"
  /\ \/ /\ SetStatus(r.pkg, r.from, r.to, r.actor, r.reason)
        /\ IF r.to = "superseded" THEN Goto(t, "link") ELSE Done(t)
     \/ /\ rows[r.pkg].status # r.from
        /\ Done(t)
        /\ UNCHANGED storeVars

CallLinkReplaces(t) ==
  /\ req[t].pc = "link"
  /\ LinkReplaces(req[t].succ, req[t].pkg)
  /\ Done(t)

(* LifecycleWorkflow.set_legal_hold: admins; a reason is needed to set.     *)
Hold(t, p, a, hold, reason) ==
  /\ req[t].pc = "idle"
  /\ Published(p)
  /\ HasRole(a, "admin")
  /\ hold => reason
  /\ req' = [req EXCEPT ![t] =
       [Call("hold", p, NoPackage, "absent", "absent", a, FALSE) EXCEPT !.hold = hold]]
  /\ UNCHANGED storeVars

CallSetLegalHold(t) ==
  /\ req[t].pc = "hold"
  /\ SetLegalHold(req[t].pkg, req[t].hold)
  /\ Done(t)

(* LifecycleWorkflow.purge: the workflow's own, possibly stale, checks.     *)
PurgePackage(t, p, a) ==
  /\ req[t].pc = "idle"
  /\ Published(p)
  /\ HasRole(a, "admin")
  /\ rows[p].status # "approved"
  /\ ~rows[p].legal_hold
  /\ req' = [req EXCEPT ![t] = Call("purge", p, NoPackage, "absent", "absent", a, FALSE)]
  /\ UNCHANGED storeVars

(* PackageStore.purge: purges, raises half-way, returns early on a tombstone, *)
(* or refuses.                                                                *)
CallPurge(t) ==
  /\ req[t].pc = "purge"
  /\ \/ Purge(req[t].pkg, req[t].actor)
     \/ MayFail /\ PurgeFails(req[t].pkg)
     \/ ~Purgeable(req[t].pkg) /\ UNCHANGED storeVars
  /\ Done(t)

(* A request raises (a locked database, unreadable bytes) and is answered with *)
(* an error: its remaining calls, supersede's link among them, never come.     *)
Raise(t) ==
  /\ req[t].pc # "idle"
  /\ Done(t)
  /\ UNCHANGED storeVars

(* The API process dies and restarts; sqlite keeps what was committed. *)
Restart ==
  /\ \E t \in Thread : req[t] # Idle
  /\ req' = [t \in Thread |-> Idle]
  /\ UNCHANGED storeVars

Begin(t) ==
  \E p \in Package, a \in Actor, reason \in BOOLEAN :
    \/ \E to \in Machine!Status : Transition(t, p, to, a, reason)
    \/ \E s \in Package : Supersede(t, p, s, a, reason)
    \/ Recall(t, p, a, reason)
    \/ Restore(t, p, a, reason)
    \/ \E hold \in BOOLEAN : Hold(t, p, a, hold, reason)
    \/ PurgePackage(t, p, a)

Continue(t) ==
  \/ RerunGate(t)
  \/ CheckSuccessor(t)
  \/ CallSetStatus(t)
  \/ CallLinkReplaces(t)
  \/ CallSetLegalHold(t)
  \/ CallPurge(t)

Next ==
  \/ \E u \in Uploads, a \in Actor : PublishPackage(u, a)
  \/ \E t \in Thread : Begin(t) \/ Continue(t) \/ Raise(t)
  \/ Restart

Spec == Init /\ [][Next]_vars

-----------------------------------------------------------------------------
(* Type invariant: the store's, plus well-formed requests. *)
TypeOK == StoreTypeOK /\ req \in [Thread -> Request]

(* The newest status row of every version was written by somebody entitled   *)
(* to that move, with a reason where one is required, although the checks    *)
(* ran on a copy read earlier and other threads moved the row meanwhile.     *)
AuthorisedBy(p) ==
  LET d == trail[p] IN
  /\ d.to = "in_review" => HasRole(d.actor, "analyst")
  /\ d.to \in {"rejected", "superseded", "recalled"} => HasRole(d.actor, "reviewer")
  /\ d.to \in {"rejected", "recalled"} => d.reason
  /\ d.from \in {"recalled", "superseded"} => HasRole(d.actor, "admin")
  /\ d.to = "purged" => HasRole(d.actor, "admin")
  /\ d.to = "draft" /\ d.from # "absent" => CheckPullback(rows[p], d.actor)

HistoryAuthorised == \A p \in Package : Published(p) => AuthorisedBy(p)

(* A version that review approved (and not an admin's restore) was approved  *)
(* by a reviewer who is not its analyst, unless an admin or the              *)
(* allow_self_review knob overrode that.                                     *)
IndependentReview ==
  \A p \in Package :
    trail[p].from = "in_review" /\ trail[p].to \in {"approved", "rejected"} =>
      /\ HasRole(trail[p].actor, "reviewer")
      /\ \/ AllowSelfReview
         \/ HasRole(trail[p].actor, "admin")
         \/ rows[p].analyst_id # trail[p].actor

(* With gate_before_review on, nothing past draft ever has content that      *)
(* fails the gate: the gate runs on the stored bytes, outside the lock, and  *)
(* the status moves only later.                                              *)
ReviewedContentPassedGate ==
  GateBeforeReview =>
    \A p \in Package :
      rows[p].status \notin {"absent", "draft", "purged"} => rows[p].blob_sha256 \in GatePass

(* purge never destroys an approved or a held version, although the          *)
(* workflow's checks are stale when the store purges.                        *)
PurgeSparesProtected ==
  [][\A p \in Package : ~rows[p].purged_at /\ rows'[p].purged_at =>
        rows[p].status # "approved" /\ ~rows[p].legal_hold]_vars

\* The statuses a version can have once it has been approved.
PostApproval == {"approved", "superseded", "recalled", "purged"}

(* A supersede link joins two different versions that have both been         *)
(* approved: their records are read in two lock sections, the link is        *)
(* written in a transaction of its own, and both versions move meanwhile.    *)
SupersedeLinksSound ==
  \A s \in Package :
    LET p == rows[s].replaces IN
    p # NoPackage =>
      /\ p # s
      /\ rows[p].status \in PostApproval
      /\ rows[s].status \in PostApproval

(* Every workflow step is a store step allowed by StoreNext. *)
ImplementsStore == StoreSpec
=============================================================================
