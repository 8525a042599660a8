------------------------- MODULE MCProposalWorkflow --------------------------
(* Two declarative proposals for one profile and one code proposal.          *)
EXTENDS ProposalWorkflow, TLC

CONSTANTS c1, c2, x, y, t1, t2, add, change, check, app

MCSeed == [codes |-> {}, other |-> x]

MCDiffOf ==
  [p \in Declarative |->
     IF p = add THEN [kind |-> "reason_code_add", code |-> c1]
     ELSE [kind |-> "profile_change", after |-> y]]

MCEdited == {[kind |-> "profile_change", after |-> x]}

(* Bound: the code proposal is created when the requests about the others    *)
(* are over.  Its requests share nothing with theirs, so a behaviour in which *)
(* they overlap has the same outcome as one in which its own come last.       *)
MCCodeLast ==
  proposals[check].status # "none" =>
    \A t \in Thread : dec[t].proposal \in {check, NoProposal}

MCSymmetry == Permutations({t1, t2})
=============================================================================
