------------------------------ MODULE PackageGate ------------------------------
(***************************************************************************)
(* ap_gate: the checks of one package directory.  A package is the facts   *)
(* the checks look at; a profile version is the rules its files hold.  The *)
(* order of run_all is kept: the simple checks, the waivers, the check     *)
(* that sees the others' outcomes, the waivers again.                      *)
(* One profile, which the repository has a default for; messages are left  *)
(* out, and outcomes are pass, skip, fail (required), advisory (a fail     *)
(* that blocks nothing) and waived (a fail turned into a pass).            *)
(***************************************************************************)
EXTENDS Naturals, TLC

CONSTANTS
  Code,        \* reason codes
  Other,       \* OTHER, the one that may ask for a text
  RepoRules,   \* profiles/<name>: the vendored default
  FailClosed   \* AP_GATE_FAIL_CLOSED_UNKNOWN_PROFILE_VERSION

LabelKey == {"overrides_path", "judgments_path", "truths_applied_path"}

\* What resolve_contained and is_file make of a path in the manifest.
File == {"unset", "outside", "missing", "empty", "there"}
OnDisk(f) == f \in {"empty", "there"}

SimpleCheck == {"must_fields", "standard_version", "layout_dirs", "guideline_exists",
  "output_contract_files", "inputs_pinned", "engines_pinned", "labels_paths",
  "labels_jsonl_parse", "labels_row_shape", "reason_codes_known", "qa_status_enum",
  "training_eligibility_present", "agent_draft_present", "no_unlabeled_diff"}
MetaCheck == "qa_approved_implies_pass"
CheckId == SimpleCheck \cup {MetaCheck}

Row == [field : {"cell", "split"}, code : Code, text : BOOLEAN, draft : BOOLEAN, shape : BOOLEAN]

PackageFacts ==
  [version : Nat,                        \* "<name>/<version>"; 0: a bare name
   standard : BOOLEAN, fields : BOOLEAN, eligibility : BOOLEAN,
   qa : {"draft", "in_review", "approved", "rejected", "odd"}, waivers : SUBSET CheckId,
   dirs : SUBSET {"inputs", "outputs", "labels", "qa"}, guideline : File, cardAtRoot : BOOLEAN,
   inputs : SUBSET [external : BOOLEAN, ref : BOOLEAN, file : File, hashDiffers : BOOLEAN],
   engines : SUBSET [declared : BOOLEAN, file : File],
   outputs : SUBSET File,
   labels : [LabelKey -> File], malformed : SUBSET LabelKey,
   rows : SUBSET Row, role : BOOLEAN]

\* The profile files; listed: there is a reason_codes.json, known: the version is registered.
Rules == [known : BOOLEAN, listed : BOOLEAN, codes : SUBSET Code, otherText : BOOLEAN,
          reasonText : BOOLEAN, agentDraft : BOOLEAN]

ASSUME GateAssumption ==
  /\ Other \in Code /\ FailClosed \in BOOLEAN
  /\ RepoRules \in Rules /\ RepoRules.known

-----------------------------------------------------------------------------
(* The registry first, when one is configured and the manifest names a      *)
(* version; then fail closed, or the repository's default.                  *)
UnknownVersion == [RepoRules EXCEPT !.known = FALSE]

LoadProfileFiles(p, configured, registry) ==
  IF ~configured \/ p.version = 0 THEN RepoRules
  ELSE IF p.version \in DOMAIN registry THEN registry[p.version]
  ELSE IF FailClosed THEN UnknownVersion ELSE RepoRules

-----------------------------------------------------------------------------
Ok(b) == IF b THEN "pass" ELSE "fail"

MustFields(p) == IF p.standard THEN Ok(p.fields) ELSE "skip"
StandardVersion(p) == Ok(p.standard)
QaStatusEnum(p) == Ok(p.qa # "odd")
TrainingEligibilityPresent(p) == Ok(p.eligibility)

LayoutDirs(p) ==
  Ok(/\ {"outputs", "labels", "qa"} \subseteq p.dirs
     /\ "inputs" \in p.dirs \/ \A i \in p.inputs : i.external)

GuidelineExists(p) == Ok(IF p.guideline = "unset" THEN p.cardAtRoot ELSE OnDisk(p.guideline))

InputsPinned(p) ==
  Ok(\A i \in p.inputs : IF i.external THEN i.ref ELSE OnDisk(i.file) /\ ~i.hashDiffers)

EnginesPinned(p) == Ok(\A e \in p.engines : e.declared /\ (e.file = "unset" \/ OnDisk(e.file)))

OutputContractFiles(p) == Ok(\A f \in p.outputs : f = "there")

LabelsPaths(p) == Ok(\A k \in LabelKey : OnDisk(p.labels[k]))
LabelsJsonlParse(p) == Ok(\A k \in p.malformed : ~OnDisk(p.labels[k]))

HasOverrides(p) == OnDisk(p.labels["overrides_path"])

\* _iter_override_rows: the rows of the file that parse.
OverrideRows(p) == IF p.labels["overrides_path"] = "there" THEN p.rows ELSE {}

ReasonCodesKnown(p, rules) ==
  IF ~rules.known THEN "fail"
  ELSE IF ~rules.listed \/ ~HasOverrides(p) THEN "skip"
  ELSE Ok(\A r \in OverrideRows(p) :
            r.code \in rules.codes /\ (r.code = Other /\ rules.otherText => r.text))

LabelsRowShape(p, rules) ==
  IF ~HasOverrides(p) THEN "skip"
  ELSE Ok(rules.known /\ \A r \in OverrideRows(p) : r.shape /\ (rules.reasonText => r.text))

\* Blocks only where the profile opted in, and never because the version is unknown.
AgentDraftPresent(p, rules) ==
  IF ~p.role \/ ~HasOverrides(p) THEN "skip"
  ELSE IF rules.known /\ \A r \in OverrideRows(p) : r.draft THEN "pass"
  ELSE IF rules.known /\ rules.agentDraft THEN "fail" ELSE "advisory"

SimpleOutcomes(p, rules) ==
  [id \in SimpleCheck |->
    CASE id = "must_fields" -> MustFields(p)
      [] id = "standard_version" -> StandardVersion(p)
      [] id = "layout_dirs" -> LayoutDirs(p)
      [] id = "guideline_exists" -> GuidelineExists(p)
      [] id = "output_contract_files" -> OutputContractFiles(p)
      [] id = "inputs_pinned" -> InputsPinned(p)
      [] id = "engines_pinned" -> EnginesPinned(p)
      [] id = "labels_paths" -> LabelsPaths(p)
      [] id = "labels_jsonl_parse" -> LabelsJsonlParse(p)
      [] id = "labels_row_shape" -> LabelsRowShape(p, rules)
      [] id = "reason_codes_known" -> ReasonCodesKnown(p, rules)
      [] id = "qa_status_enum" -> QaStatusEnum(p)
      [] id = "training_eligibility_present" -> TrainingEligibilityPresent(p)
      [] id = "agent_draft_present" -> AgentDraftPresent(p, rules)
      [] id = "no_unlabeled_diff" -> "skip"]

-----------------------------------------------------------------------------
ApplyWaivers(p, outcomes) ==
  [id \in DOMAIN outcomes |->
    IF id \in p.waivers /\ outcomes[id] \in {"fail", "advisory"} THEN "waived" ELSE outcomes[id]]

\* blocks_overall_pass, over all outcomes.
Passes(outcomes) == \A id \in DOMAIN outcomes : outcomes[id] # "fail"

\* It sees the fresh outcomes of the others, never the manifest's record of them.
QaApprovedImpliesPass(p, outcomes) ==
  IF p.qa # "approved" THEN "skip" ELSE Ok(Passes(outcomes))

\* The outcomes of the simple checks, and the meta check's on top of them.
WithMeta(p, first) ==
  [id \in CheckId |-> IF id = MetaCheck THEN QaApprovedImpliesPass(p, first) ELSE first[id]]

\* Mutant of RunAll: one round of waivers, at the end.
RunAllWaivedLast(p, rules) ==
  LET first == SimpleOutcomes(p, rules) IN
  ApplyWaivers(p, WithMeta(p, first))

RunAll(p, rules) ==
  LET first == ApplyWaivers(p, SimpleOutcomes(p, rules)) IN
  ApplyWaivers(p, WithMeta(p, first))

(* What the gate is for, said without its order: a package passes when every *)
(* required check that fails on it is waived by name.                        *)
IsSound(p, rules) ==
  \A id \in SimpleCheck : SimpleOutcomes(p, rules)[id] = "fail" => id \in p.waivers
=============================================================================
