------------------------------- MODULE MCPlanner -------------------------------
(* Three packages in pages of two: one calls itself approved and has a       *)
(* waiver, one is pinned to version 1, one may be approved late.             *)
EXTENDS Planner

CONSTANTS data, newcode, api1, api2, timer

MCRules == [known |-> TRUE, listed |-> TRUE, codes |-> {data, Other}, otherText |-> TRUE,
            reasonText |-> FALSE, agentDraft |-> FALSE]

MCRow == [field |-> "cell", code |-> newcode, text |-> TRUE, draft |-> TRUE, shape |-> TRUE]

MCClean ==
  [version |-> 2, standard |-> TRUE, fields |-> TRUE, eligibility |-> TRUE,
   qa |-> "in_review", waivers |-> {}, dirs |-> {"outputs", "labels", "qa"},
   guideline |-> "there", cardAtRoot |-> FALSE,
   inputs |-> {[external |-> TRUE, ref |-> TRUE, file |-> "unset", hashDiffers |-> FALSE]},
   engines |-> {[declared |-> TRUE, file |-> "unset"]}, outputs |-> {"there"},
   labels |-> [k \in LabelKey |-> "there"], malformed |-> {}, rows |-> {MCRow}, role |-> FALSE]

MCFactsOf == <<
  [MCClean EXCEPT !.role = TRUE, !.waivers = {"agent_draft_present"},
                  !.rows = {[MCRow EXCEPT !.draft = FALSE], [MCRow EXCEPT !.code = Other]}],
  [MCClean EXCEPT !.role = TRUE, !.qa = "approved", !.waivers = {"labels_row_shape"},
                  !.rows = {[MCRow EXCEPT !.shape = FALSE, !.draft = FALSE]}],
  [MCClean EXCEPT !.version = 1, !.role = TRUE,
                  !.rows = {[MCRow EXCEPT !.code = data, !.draft = FALSE]}] >>

\* The late one comes first in the listing.
MCInit ==
  /\ Init
  /\ approved = Package \ {1}
  /\ configured = "unset" <=> live = <<>>
  /\ proposals = <<>> <=> live = <<>>
  /\ proposals # <<>> => proposals[1].diff = TrainingFile

MCSpec == MCInit /\ [][Next]_vars

\* Bounds: what follows once two dry-runs have overlapped is not explored, nor
\* the purge of a package that was never approved.
MCDryRunsApart == ~entangled
MCPurgesMatter == 1 \notin purged

(* Bound: a queue of three, longer than the page, with a proposal made by    *)
(* hand, is explored with sweeps only.                                       *)
MCQueueApart ==
  IF \E i \in DOMAIN proposals : proposals[i].diff \in ByHand
  THEN made.moves = 0 /\ \A t \in Thread : call[t].op \in {"none", "sweep"}
  ELSE Len(proposals) < MaxProposals

MCSymmetry == Permutations({api1, api2})
=============================================================================
