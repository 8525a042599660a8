-------------------------- MODULE MCPackageWorkflow --------------------------
(* Instances of PackageWorkflow: `ana` is an analyst who also holds the       *)
(* reviewer role (so that self-review is possible), `rev` a reviewer, `adm`   *)
(* an admin.                                                                  *)
EXTENDS PackageWorkflow, TLC

CONSTANTS p1, p2, b1, b2, ana, rev, adm, t1, t2

MCRoles ==
  [a \in Actor |-> CASE a = ana -> {"analyst", "reviewer"}
                     [] a = rev -> {"reviewer"}
                     [] a = adm -> {"admin"}]

\* One key, two candidate contents: b1 passes the gate, b2 does not.
MCReviewUploads ==
  {[pkg |-> p1, blob |-> b, analyst |-> ana] : b \in {b1, b2}}

\* Two versions, of the same bytes or of different ones.
MCLifecycleUploads ==
  {[pkg |-> p, blob |-> b, analyst |-> NoActor] : p \in {p1, p2}, b \in {b1, b2}}

(* Bound: once a publish or a purge has failed half-way, requests run alone  *)
(* and only to purge.  What they leave is about bytes, which nothing else    *)
(* touches.                                                                  *)
MCFailuresApart ==
  abandoned \cup doomed # {} =>
    \E t \in Thread :
      req[t].pc \in {"idle", "purge"} /\ \A u \in Thread \ {t} : req[u] = Idle

\* The two versions have the same uploads, the threads and the two contents are
\* alike; every property of the runs that use this is a safety property.
MCSymmetry == Permutations({p1, p2}) \cup Permutations({t1, t2}) \cup Permutations({b1, b2})
=============================================================================
