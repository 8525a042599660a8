-------------------------- MODULE ProposalWorkflow ---------------------------
(***************************************************************************)
(* ap_proposals: ProposalWorkflow.decide and record_dry_run over one       *)
(* ProposalStore and the profile registry, in the worker threads of the    *)
(* API process.  Approving a declarative proposal (profile_change,         *)
(* reason_code_add) writes the registry first and moves the proposal's     *)
(* status afterwards: two storage back ends, ordered but not one           *)
(* transaction.  Approving a code proposal (standard_change, check_add)    *)
(* exports a spec file first.  Refused calls change nothing and are not    *)
(* steps; notifications change nothing here.                               *)
(***************************************************************************)
EXTENDS ProfileRegistry

CONSTANTS
  Proposal,
  Declarative,       \* the proposals of a declarative kind
  DiffOf,            \* [Declarative -> Diff], the stored diff_json
  EditedDiffs,       \* diffs an approver may substitute (approve-with-edits)
  Actor, Approver,   \* identities; those with the standard_approver (or admin) role
  RequireDryRun,     \* ProposalPolicy.require_dry_run_for_declarative
  NoProposal

ASSUME ProposalAssumption ==
  /\ Declarative \subseteq Proposal
  /\ DiffOf \in [Declarative -> Promise!Diff]
  /\ EditedDiffs \subseteq Promise!Diff
  /\ Approver \subseteq Actor
  /\ RequireDryRun \in BOOLEAN
  /\ NoProposal \notin Proposal

VARIABLES
  proposals,     \* the proposals table
  specs,         \* proposals with a file under proposal_specs
  dec            \* [Thread -> Request]

vars == <<registryVars, proposals, specs, dec>>

ProposalStatus == {"none", "pending_hitl", "approved", "rejected", "withdrawn"}

\* dry_run: dry_run_json is recorded; edited: edited_diff_json is, and diff is what it holds.
ProposalRow ==
  [status : ProposalStatus, dry_run : BOOLEAN, applied_version : 0..MaxVersion,
   edited : BOOLEAN, diff : Promise!Diff, spec : BOOLEAN]

\* edited_diff_json or, when there was no edit, diff_json.
EffectiveDiff(p, d, edited) == IF edited THEN d ELSE DiffOf[p]

Request ==
  [pc : {"idle", "apply", "export", "commit", "record"},
   proposal : Proposal \cup {NoProposal}, to : ProposalStatus,
   diff : Promise!Diff, edited : BOOLEAN, version : 0..MaxVersion]

IdleRequest == [pc |-> "idle", proposal |-> NoProposal, to |-> "none",
                diff |-> NoDiff, edited |-> FALSE, version |-> 0]

Init ==
  /\ RegistryInit
  /\ proposals = [p \in Proposal |->
                    [status |-> "none", dry_run |-> FALSE, applied_version |-> 0,
                     edited |-> FALSE, diff |-> NoDiff, spec |-> FALSE]]
  /\ specs = {}
  /\ dec = [t \in Thread |-> IdleRequest]

-----------------------------------------------------------------------------
Create(p) ==
  /\ proposals[p].status = "none"
  /\ proposals' = [proposals EXCEPT ![p].status = "pending_hitl"]
  /\ UNCHANGED <<registryVars, specs, dec>>

(* record_dry_run, first half: the corpus scan.  Nothing looks at the       *)
(* proposal's status, here or below.                                        *)
DryRun(t, p) ==
  /\ dec[t].pc = "idle"
  /\ p \in Declarative
  /\ proposals[p].status # "none"
  /\ dec' = [dec EXCEPT ![t] = [IdleRequest EXCEPT
               !.pc = "record", !.proposal = p]]
  /\ UNCHANGED <<registryVars, proposals, specs>>

RecordDryRun(t) ==
  /\ dec[t].pc = "record"
  /\ proposals' = [proposals EXCEPT ![dec[t].proposal].dry_run = TRUE]
  /\ dec' = [dec EXCEPT ![t] = IdleRequest]
  /\ UNCHANGED <<registryVars, specs>>

-----------------------------------------------------------------------------
(* decide *)

\* What every decision checks on the record it has read.
MayDecide(t, p, to, a) ==
  /\ dec[t].pc = "idle"
  /\ proposals[p].status = "pending_hitl"
  /\ to \in {"approved", "rejected"} => a \in Approver

\* A rejection (with a reason) or a withdrawal has no apply step.
DecideAgainst(t, p, to, a) ==
  /\ to \in {"rejected", "withdrawn"}
  /\ MayDecide(t, p, to, a)
  /\ dec' = [dec EXCEPT ![t] = [IdleRequest EXCEPT
               !.pc = "commit", !.proposal = p, !.to = to]]
  /\ UNCHANGED <<registryVars, proposals, specs>>

\* Starts apply_declarative in this thread; an edit must be a diff of the same kind.
ApproveDeclarative(t, p, a, edited, d) ==
  /\ MayDecide(t, p, "approved", a)
  /\ p \in Declarative
  /\ edited => d.kind = DiffOf[p].kind
  /\ RequireDryRun => proposals[p].dry_run
  /\ Apply(t, EffectiveDiff(p, d, edited))
  /\ dec' = [dec EXCEPT ![t] = [IdleRequest EXCEPT
               !.pc = "apply", !.proposal = p, !.to = "approved",
               !.diff = EffectiveDiff(p, d, edited), !.edited = edited]]
  /\ UNCHANGED <<proposals, specs>>

ApproveCode(t, p, a) ==
  /\ MayDecide(t, p, "approved", a)
  /\ p \in Proposal \ Declarative
  /\ dec' = [dec EXCEPT ![t] = [IdleRequest EXCEPT
               !.pc = "export", !.proposal = p, !.to = "approved"]]
  /\ UNCHANGED <<registryVars, proposals, specs>>

\* One file operation of apply_declarative, under way in this thread, done or failed.
ApplyStep(t) ==
  /\ dec[t].pc = "apply"
  /\ Step(t) \/ FileError(t)
  /\ UNCHANGED <<proposals, specs, dec>>

\* Mutant of AfterApply: a ProposalApplyError is swallowed.
AfterApplySwallows(t) ==
  /\ dec[t].pc = "apply"
  /\ dec' = [dec EXCEPT ![t].pc = "commit", ![t].version = call[t].new]
  /\ Return(t)
  /\ UNCHANGED <<proposals, specs>>

\* The new version, or an error: then nothing below runs.
AfterApply(t) ==
  /\ dec[t].pc = "apply"
  /\ dec' = [dec EXCEPT ![t] = IF call[t].pc = "done"
               THEN [@ EXCEPT !.pc = "commit", !.version = call[t].new]
               ELSE IdleRequest]
  /\ Return(t)
  /\ UNCHANGED <<proposals, specs>>

ExportSpec(t) ==
  /\ dec[t].pc = "export"
  /\ specs' = specs \cup {dec[t].proposal}
  /\ dec' = [dec EXCEPT ![t].pc = "commit"]
  /\ UNCHANGED <<registryVars, proposals>>

\* The columns of the UPDATE.
Decided(r) ==
  [proposals[r.proposal] EXCEPT
     !.status = r.to, !.edited = r.edited, !.diff = r.diff, !.applied_version = r.version,
     !.spec = r.to = "approved" /\ r.proposal \notin Declarative]

\* Mutant of SetStatus: no status in the WHERE clause.
SetStatusUnchecked(t) ==
  /\ dec[t].pc = "commit"
  /\ proposals' = [proposals EXCEPT ![dec[t].proposal] = Decided(dec[t])]
  /\ dec' = [dec EXCEPT ![t] = IdleRequest]
  /\ UNCHANGED <<registryVars, specs>>

\* ProposalStore.set_status: compare-and-swap from pending_hitl, or StoreError.
SetStatus(t) ==
  /\ dec[t].pc = "commit"
  /\ proposals' = IF proposals[dec[t].proposal].status = "pending_hitl"
                  THEN [proposals EXCEPT ![dec[t].proposal] = Decided(dec[t])]
                  ELSE proposals
  /\ dec' = [dec EXCEPT ![t] = IdleRequest]
  /\ UNCHANGED <<registryVars, specs>>

\* The spec file, the UPDATE or the dry-run raises: the request ends there.
RequestFails(t) ==
  /\ MayBreak
  /\ dec[t].pc \in {"export", "commit", "record"}
  /\ dec' = [dec EXCEPT ![t] = IdleRequest]
  /\ UNCHANGED <<registryVars, proposals, specs>>

\* The API process dies: requests and applies in flight are gone.
Restart ==
  /\ MayBreak
  /\ \E t \in Thread : dec[t] # IdleRequest
  /\ dec' = [t \in Thread |-> IdleRequest]
  /\ call' = [t \in Thread |-> IdleCall]
  /\ UNCHANGED <<dirs, pointer, pointerTmp, changelog, proposals, specs>>

Decide(t) ==
  \E p \in Proposal, a \in Actor :
    \/ \E to \in {"rejected", "withdrawn"} : DecideAgainst(t, p, to, a)
    \/ ApproveDeclarative(t, p, a, FALSE, NoDiff)
    \/ \E d \in EditedDiffs : ApproveDeclarative(t, p, a, TRUE, d)
    \/ ApproveCode(t, p, a)

Next ==
  \/ \E p \in Proposal : Create(p)
  \/ \E t \in Thread :
       \/ \E p \in Proposal : DryRun(t, p)
       \/ RecordDryRun(t)
       \/ Decide(t)
       \/ ApplyStep(t) \/ AfterApply(t) \/ ExportSpec(t) \/ SetStatus(t)
       \/ RequestFails(t)
  \/ Restart

Spec == Init /\ [][Next]_vars

-----------------------------------------------------------------------------
(* Type invariant. *)
TypeOK ==
  /\ RegistryTypeOK
  /\ proposals \in [Proposal -> ProposalRow]
  /\ specs \subseteq Proposal
  /\ dec \in [Thread -> Request]

\* The content of version v reflects diff d.
Reflects(v, d) ==
  IF d.kind = "reason_code_add" THEN d.code \in dirs[v].codes ELSE dirs[v].other = d.after

(* "never approved but silently unapplied": an approved declarative proposal *)
(* names a released version that holds its diff, or the very edit its row    *)
(* records, and an approved code proposal has its spec on disk, whatever     *)
(* raced with it, failed, or died between the two stores.                    *)
ApprovedIsApplied ==
  \A p \in Proposal : proposals[p].status = "approved" =>
    IF p \in Declarative
    THEN /\ proposals[p].applied_version \in 1..pointer
         /\ ~proposals[p].edited => proposals[p].diff = DiffOf[p]
         /\ Reflects(proposals[p].applied_version, proposals[p].diff)
    ELSE p \in specs /\ proposals[p].spec

(* No two approvals claim the same released version. *)
VersionsNotShared ==
  \A p, q \in Proposal :
    /\ proposals[p].status = "approved" /\ proposals[q].status = "approved"
    /\ proposals[p].applied_version = proposals[q].applied_version
    /\ p \in Declarative /\ q \in Declarative
    => p = q

(* A decision is final: two decisions that both read pending_hitl never both *)
(* take effect.                                                              *)
DecisionsFinal ==
  [][\A p \in Proposal : proposals[p].status \notin {"none", "pending_hitl"} =>
       /\ proposals'[p].status = proposals[p].status
       /\ proposals'[p].applied_version = proposals[p].applied_version]_vars

(* "one atomic outcome": between requests, every version released after the  *)
(* seed belongs to an approved proposal.                                     *)
ReleasesAreApproved ==
  (\A t \in Thread : dec[t].pc = "idle") =>
    \A v \in 2..pointer : \E p \in Declarative :
      proposals[p].status = "approved" /\ proposals[p].applied_version = v
=============================================================================
