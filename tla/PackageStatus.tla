---------------------------- MODULE PackageStatus ----------------------------
(***************************************************************************)
(* What the package corpus promises about the `status` column, whoever the *)
(* caller is: the union of the review state machine (ap_review) and the    *)
(* lifecycle state machine (ap_lifecycle) layered on top of it, plus       *)
(* publish and purge.  PackageStore is shown to implement this             *)
(* specification.                                                          *)
(***************************************************************************)

CONSTANT Package           \* the (package_id, package_version) keys

VARIABLE status            \* [Package -> Status]

\* "absent" stands for "no row"; the others are the values of packages.status.
Status == {"absent", "draft", "in_review", "approved", "rejected",
           "superseded", "recalled", "purged"}

\* ap_review.workflow.TRANSITIONS
ReviewTransitions ==
  {<<"draft", "in_review">>, <<"in_review", "approved">>,
   <<"in_review", "rejected">>, <<"in_review", "draft">>,
   <<"rejected", "draft">>}

\* ap_lifecycle.workflow.TRANSITIONS
LifecycleTransitions ==
  {<<"approved", "superseded">>, <<"approved", "recalled">>,
   <<"recalled", "approved">>, <<"superseded", "approved">>}

-----------------------------------------------------------------------------
StatusInit == status = [p \in Package |-> "absent"]

Publishes(p) ==
  /\ status[p] = "absent"
  /\ status' = [status EXCEPT ![p] = "draft"]

Moves(p) ==
  \E m \in ReviewTransitions \cup LifecycleTransitions :
    /\ status[p] = m[1]
    /\ status' = [status EXCEPT ![p] = m[2]]

Purges(p) ==
  /\ status[p] \notin {"absent", "approved", "purged"}
  /\ status' = [status EXCEPT ![p] = "purged"]

StatusNext == \E p \in Package : Publishes(p) \/ Moves(p) \/ Purges(p)

StatusSpec == StatusInit /\ [][StatusNext]_status
=============================================================================
