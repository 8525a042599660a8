-------------------------------- MODULE Planner --------------------------------
(***************************************************************************)
(* ap_planner_bot at work: sweeps, dashboard recomputes, dry-runs and the  *)
(* gate, in the threads of the API process and in the weekly timer's       *)
(* process.  They share the approved corpus, which the workflows change    *)
(* under a scan, the proposals, the trend file, the profile registry and,  *)
(* within the API process, the variable AP_STANDARD_REGISTRY_ROOT that a   *)
(* dry-run points at one registry or the other around each package.        *)
(* One gate reads the variable once here.                                  *)
(***************************************************************************)
EXTENDS PlannerDetectors, SequencesExt

CONSTANTS
  Thread,        \* API worker threads and the timer
  Timer,         \* the ones that run in the timer's process
  PageSize,      \* of the scan's listing, 50 in the code
  ListLimit,     \* proposals a page of their list holds at most, 200 in the code
  TrainingFile,  \* training_grade.json, the target of a profile_change
  Drafts,        \* diffs the language model comes up with
  ByHand,        \* diffs that people propose
  MaxCalls, MaxProposals, MaxMoves, MaxVersion   \* bounds

ASSUME PlannerAssumption ==
  /\ Timer \subseteq Thread
  /\ PageSize \in Nat \ {0} /\ ListLimit \in Nat \ {0}
  /\ Drafts \cup ByHand \subseteq Code \cup {TrainingFile}
  /\ Thread \cap {"unset", "live"} = {}
  /\ {MaxCalls, MaxProposals, MaxMoves, MaxVersion} \subseteq Nat

VARIABLES
  approved, purged,   \* packages by status; the others are in some other status
  live,               \* the registry's versions, the last one current
  env,                \* the variable, in the API process
  configured,         \* what it was at start-up
  scratch,            \* per thread, the scratch registry of its dry-run
  call,               \* per thread, what it is doing
  trend,              \* analytics/snapshots.jsonl, oldest first: numbers of the runs
  proposals,
  made,               \* [calls, runs, moves]: counted, and bounded
  raced,              \* history: runs whose row was lost to, or out of order with, another append
  entangled           \* history: two dry-runs of the API process have overlapped

vars == <<approved, purged, live, env, configured, scratch, call, trend, proposals, made, raced, entangled>>

\* A proposal's diff is the code it adds, or the training file it makes stricter.
Diff == Code \cup {TrainingFile}
Changed(rules, d) ==
  IF d = TrainingFile THEN [rules EXCEPT !.agentDraft = TRUE]
  ELSE [rules EXCEPT !.codes = @ \cup {d}, !.listed = TRUE]

\* Unseeded, a profile reads as the repository's default and becomes version 1.
Current == IF live = <<>> THEN RepoRules ELSE Last(live)
CurrentVersion == IF live = <<>> THEN 1 ELSE Len(live)

NoRegistry == [v \in {} |-> RepoRules]
Idle == [op |-> "none", pc |-> "none", page |-> 0, fetched |-> <<>>, more |-> FALSE,
         root |-> "none", saved |-> "none", seen |-> <<>>, before |-> <<>>,
         run |-> 0, read |-> <<>>, todo |-> 0, diff |-> TrainingFile, ruledOut |-> {},
         proposal |-> 0, change |-> RepoRules, version |-> 0,
         alone |-> TRUE, steady |-> {}, left |-> FALSE, released |-> FALSE]

\* A proposal just made, and the earlier ones it was not compared with.
New(d, unseen) == [diff |-> d, open |-> TRUE, dryRun |-> FALSE, unseen |-> unseen]

Init ==
  /\ approved \in SUBSET Package /\ purged = {}
  /\ live \in {<<>>} \cup {<<RepoRules, Changed(RepoRules, c)>> : c \in Code \ RepoRules.codes}
  /\ configured \in {"unset", "live"} /\ env = configured
  /\ scratch = [t \in Thread |-> NoRegistry]
  /\ call = [t \in Thread |-> Idle]
  /\ trend = <<>>
  /\ proposals \in {<<>>} \cup {<<New(d, {})>> : d \in Drafts}
  /\ made = [calls |-> 0, runs |-> 0, moves |-> 0]
  /\ raced = {} /\ entangled = FALSE

-----------------------------------------------------------------------------
\* The variable as the thread's process has it, and the registry it leads to.
Env(t) == IF t \in Timer THEN configured ELSE env
Registry(root) == CASE root = "unset" -> NoRegistry [] root = "live" -> live [] OTHER -> scratch[root]
GateRules(t, p) == LoadProfileFiles(FactsOf[p], Env(t) # "unset", Registry(Env(t)))

DryRunning == {t \in Thread : call[t].op = "dry_run"}

\* A call with some of its fields set: @@ of TLC, which has no definition to prove from.
Onto(r, c) == [f \in DOMAIN r \cup DOMAIN c |-> IF f \in DOMAIN r THEN r[f] ELSE c[f]]

Begins(t, op, rest) ==
  /\ call[t].op = "none" /\ made.calls < MaxCalls
  /\ made' = [made EXCEPT !.calls = @ + 1]
  /\ LET mine == Onto(rest, [Idle EXCEPT !.op = op, !.steady = approved,
                                !.alone = t \in Timer \/ (DryRunning = {} /\ ~entangled)])
     IN call' = [u \in Thread |->
          IF u = t THEN mine
          ELSE IF op = "dry_run" /\ u \notin Timer THEN [call[u] EXCEPT !.alone = FALSE]
          ELSE call[u]]
  /\ entangled' = (entangled \/ (op = "dry_run" /\ DryRunning # {}))
  /\ UNCHANGED <<approved, purged, live, env, configured, scratch, trend, proposals, raced>>

Set(t, r) == call' = [call EXCEPT ![t] = Onto(r, @)]
Ends(t) == call' = [call EXCEPT ![t] = Idle]

ToScan(root) == [pc |-> "fetch", page |-> 0, fetched |-> <<>>, seen |-> <<>>, root |-> root]

StandardSweep(t) == Begins(t, "sweep", ToScan("none"))
DashboardRecompute(t) == t \notin Timer /\ Begins(t, "recompute", ToScan("none"))

\* POST /packages/validate, publish-time and console gate reports: one package.
ValidatePackage(t) ==
  /\ t \notin Timer
  /\ \E p \in Package \ purged :
       Begins(t, "validate", [pc |-> "report", seen |->
         <<[pkg |-> p, rules |-> GateRules(t, p), root |-> Env(t)]>>])

\* record_dry_run: the record is read, whatever its status, and the change computed on the current version.
StartDryRun(t) ==
  /\ t \notin Timer
  /\ \E i \in DOMAIN proposals :
       Begins(t, "dry_run", Onto([proposal |-> i, diff |-> proposals[i].diff,
         change |-> Changed(Current, proposals[i].diff)], ToScan("live")))

-----------------------------------------------------------------------------
(* The corpus scan: page by page, each package extracted and gated before   *)
(* the next page is listed.                                                 *)
\* The k-th of the approved packages has k - 1 of them before it.
Rank(p) == Cardinality({q \in approved : q < p})
Listing == [k \in 1..Cardinality(approved) |-> CHOOSE p \in approved : Rank(p) = k - 1]

Page(n) ==
  LET last == n * PageSize + PageSize
  IN  SubSeq(Listing, n * PageSize + 1, IF last <= Len(Listing) THEN last ELSE Len(Listing))

\* Mutant of FetchPage: a full page is taken for the last one.
FetchPageOnce(t) ==
  /\ call[t].pc = "fetch"
  /\ LET items == Page(call[t].page) IN
     Set(t, IF items = <<>> THEN [pc |-> "scanned"]
            ELSE [pc |-> "scan", fetched |-> items, page |-> call[t].page + 1, more |-> FALSE])
  /\ UNCHANGED <<approved, purged, live, env, configured, scratch, trend, proposals, made, raced, entangled>>

FetchPage(t) ==
  /\ call[t].pc = "fetch"
  /\ LET items == Page(call[t].page) IN
     Set(t, IF items = <<>> THEN [pc |-> "scanned"]
            ELSE [pc |-> "scan", fetched |-> items, page |-> call[t].page + 1, more |-> Len(items) = PageSize])
  /\ UNCHANGED <<approved, purged, live, env, configured, scratch, trend, proposals, made, raced, entangled>>

\* One package done.
Advance(t) ==
  [fetched |-> Tail(call[t].fetched),
   pc |-> IF Len(call[t].fetched) > 1 THEN "scan" ELSE IF call[t].more THEN "fetch" ELSE "scanned"]

Scan(t) ==
  LET p == Head(call[t].fetched)
  IN  Append(call[t].seen, [pkg |-> p, rules |-> GateRules(t, p), root |-> Env(t)])

\* scan_package without a root of its own.
ScanPackage(t) ==
  /\ call[t].pc = "scan" /\ call[t].root = "none"
  /\ Head(call[t].fetched) \notin purged
  /\ Set(t, Onto(Advance(t), [seen |-> Scan(t)]))
  /\ UNCHANGED <<approved, purged, live, env, configured, scratch, trend, proposals, made, raced, entangled>>

\* extract has no bytes for a tombstone: StoreError ends the whole call.
ScanFails(t) ==
  /\ call[t].pc = "scan"
  /\ Head(call[t].fetched) \in purged
  /\ Ends(t)
  /\ scratch' = [scratch EXCEPT ![t] = NoRegistry]
  /\ UNCHANGED <<approved, purged, live, env, configured, trend, proposals, made, raced, entangled>>

\* _registry_root_override: the variable is set, the gate runs, the variable is put back.
RootOf(t) == IF call[t].root = "live" THEN "live" ELSE t

Override(t) ==
  /\ call[t].pc = "scan" /\ call[t].root # "none"
  /\ Head(call[t].fetched) \notin purged
  /\ env' = RootOf(t)
  /\ Set(t, [pc |-> "gate", saved |-> env])
  /\ UNCHANGED <<approved, purged, live, configured, scratch, trend, proposals, made, raced, entangled>>

RunGate(t) ==
  /\ call[t].pc = "gate"
  /\ Set(t, [pc |-> "restore", seen |-> Scan(t)])
  /\ UNCHANGED <<approved, purged, live, env, configured, scratch, trend, proposals, made, raced, entangled>>

\* Mutant of Restore: the variable is popped, whatever it was.
RestorePops(t) ==
  /\ call[t].pc = "restore"
  /\ env' = "unset"
  /\ Set(t, Advance(t))
  /\ UNCHANGED <<approved, purged, live, configured, scratch, trend, proposals, made, raced, entangled>>

Restore(t) ==
  /\ call[t].pc = "restore"
  /\ env' = call[t].saved
  /\ Set(t, Advance(t))
  /\ UNCHANGED <<approved, purged, live, configured, scratch, trend, proposals, made, raced, entangled>>

-----------------------------------------------------------------------------
(* dry_run: the baseline is through; the proposed file is laid over the      *)
(* files of what is the current version by now, in a scratch registry that   *)
(* has that one version.                                                     *)
Overlaid(t) ==
  IF call[t].diff = TrainingFile THEN [Current EXCEPT !.agentDraft = call[t].change.agentDraft]
  ELSE [Current EXCEPT !.codes = call[t].change.codes, !.listed = call[t].change.listed]

SeedScratch(t) ==
  /\ call[t].op = "dry_run" /\ call[t].pc = "scanned" /\ call[t].root = "live"
  /\ scratch' = [scratch EXCEPT ![t] = [v \in {CurrentVersion} |-> Overlaid(t)]]
  /\ Set(t, Onto([before |-> call[t].seen, version |-> CurrentVersion], ToScan("scratch")))
  /\ UNCHANGED <<approved, purged, live, env, configured, trend, proposals, made, raced, entangled>>

\* The scratch directory is gone before the two scans are compared.
RemoveScratch(t) ==
  /\ call[t].op = "dry_run" /\ call[t].pc = "scanned" /\ call[t].root = "scratch"
  /\ scratch' = [scratch EXCEPT ![t] = NoRegistry]
  /\ Set(t, [pc |-> "record"])
  /\ UNCHANGED <<approved, purged, live, env, configured, trend, proposals, made, raced, entangled>>

Good(s) == Passes(OutcomesOf(s))

\* _diff: of a package scanned twice, the later proposed scan counts.
NewlyFailing(before, after) ==
  {before[i].pkg : i \in {j \in DOMAIN before :
     /\ Good(before[j])
     /\ \E k \in DOMAIN after :
          /\ after[k].pkg = before[j].pkg /\ ~Good(after[k])
          /\ \A l \in DOMAIN after : l > k => after[l].pkg # after[k].pkg}}

\* The result is written whatever became of the proposal meanwhile.
RecordDryRun(t) ==
  /\ call[t].pc = "record"
  /\ proposals' = [proposals EXCEPT ![call[t].proposal].dryRun = TRUE]
  /\ Ends(t)
  /\ UNCHANGED <<approved, purged, live, env, configured, scratch, trend, made, raced, entangled>>

-----------------------------------------------------------------------------
\* build_snapshot, with its time stamp; the other runs between theirs and the file race with it.
Appending == {t \in Thread : call[t].pc \in {"append", "replace"}}

BuildSnapshot(t) ==
  /\ call[t].op \in {"sweep", "recompute"} /\ call[t].pc = "scanned"
  /\ made' = [made EXCEPT !.runs = @ + 1]
  /\ Set(t, [pc |-> "append", run |-> made'.runs])
  /\ raced' = raced \cup (IF Appending = {} THEN {} ELSE {made'.runs} \cup {call[u].run : u \in Appending})
  /\ UNCHANGED <<approved, purged, live, env, configured, scratch, trend, proposals, entangled>>

\* Mutant of ReadTrend: the file's rows are not carried over.
ReadTrendNot(t) ==
  /\ call[t].pc = "append"
  /\ Set(t, [pc |-> "replace", read |-> <<>>])
  /\ UNCHANGED <<approved, purged, live, env, configured, scratch, trend, proposals, made, raced, entangled>>

\* append_snapshot: the whole file is read, and later replaced by what was read and a row.
ReadTrend(t) ==
  /\ call[t].pc = "append"
  /\ Set(t, [pc |-> "replace", read |-> trend])
  /\ UNCHANGED <<approved, purged, live, env, configured, scratch, trend, proposals, made, raced, entangled>>

ReplaceTrend(t) ==
  /\ call[t].pc = "replace"
  /\ trend' = Append(call[t].read, call[t].run)
  /\ IF call[t].op = "recompute" THEN Ends(t)
     ELSE Set(t, [pc |-> "draft", run |-> 0, read |-> <<>>, seen |-> <<>>,
                  todo |-> Cardinality(RunAllDetectors(call[t].seen))])
  /\ UNCHANGED <<approved, purged, live, env, configured, scratch, proposals, made, raced, entangled>>

-----------------------------------------------------------------------------
(* draft_for_finding, one finding after the other.  No evidence in scope, an *)
(* error or a refusal of the language model, an invalid diff: discarded.     *)
Discards(t) == Set(t, [pc |-> "draft", todo |-> call[t].todo - 1])

\* Bound: proposals there are, and those about to be.
Room == Len(proposals) + Cardinality({u \in Thread : call[u].pc \in {"check", "create"}}) < MaxProposals

DraftProposal(t) ==
  /\ call[t].pc = "draft" /\ call[t].todo > 0
  /\ \/ Discards(t)
     \/ /\ Room
        /\ \E d \in Drafts : Set(t, [pc |-> "check", diff |-> d])
  /\ UNCHANGED <<approved, purged, live, env, configured, scratch, trend, proposals, made, raced, entangled>>

SameKind(d, e) == d = TrainingFile <=> e = TrainingFile

\* Mutant of OpenOfKind: the listing is of proposals that are decided.
DecidedOfKind(d) == {i \in DOMAIN proposals : ~proposals[i].open /\ SameKind(proposals[i].diff, d)}

\* Open proposals with the kind of a diff.
OpenOfKind(d) == {i \in DOMAIN proposals : proposals[i].open /\ SameKind(proposals[i].diff, d)}

\* One page of them: newest first, by time stamps of whole seconds, which leave open who is on it.
Pages(d) ==
  IF Cardinality(OpenOfKind(d)) <= ListLimit THEN {OpenOfKind(d)}
  ELSE {page \in SUBSET OpenOfKind(d) : Cardinality(page) = ListLimit}

HasOpenDuplicate(page, d) == \E i \in page : proposals[i].diff = d

CheckDuplicate(t) ==
  /\ call[t].pc = "check"
  /\ \E page \in Pages(call[t].diff) :
       IF HasOpenDuplicate(page, call[t].diff) THEN Discards(t)
       ELSE Set(t, [pc |-> "create",
                    ruledOut |-> DOMAIN proposals \ (OpenOfKind(call[t].diff) \ page)])
  /\ UNCHANGED <<approved, purged, live, env, configured, scratch, trend, proposals, made, raced, entangled>>

CreateProposal(t) ==
  /\ call[t].pc = "create"
  /\ proposals' = Append(proposals, New(call[t].diff, DOMAIN proposals \ call[t].ruledOut))
  /\ Discards(t)
  /\ UNCHANGED <<approved, purged, live, env, configured, scratch, trend, made, raced, entangled>>

\* POST /proposals: nobody looks for duplicates.
CreateByHand(d) ==
  /\ Room
  /\ proposals' = Append(proposals, New(d, DOMAIN proposals))
  /\ UNCHANGED <<approved, purged, live, env, configured, scratch, call, trend, made, raced, entangled>>

\* A sweep without findings left, or the gate's report, is answered.
Return(t) ==
  /\ call[t].pc = "report" \/ (call[t].pc = "draft" /\ call[t].todo = 0)
  /\ Ends(t)
  /\ UNCHANGED <<approved, purged, live, env, configured, scratch, trend, proposals, made, raced, entangled>>

-----------------------------------------------------------------------------
(* What the workflows do meanwhile: ProposalWorkflow decides, the review and *)
(* lifecycle workflows move packages.                                        *)
Decide(i) ==
  /\ proposals[i].open
  /\ proposals' = [proposals EXCEPT ![i].open = FALSE]
  /\ \/ UNCHANGED <<live, call>>
     \/ /\ proposals[i].dryRun /\ CurrentVersion < MaxVersion
        /\ live' = (IF live = <<>> THEN <<RepoRules>> ELSE live) \o <<Changed(Current, proposals[i].diff)>>
        /\ call' = [t \in Thread |-> IF call[t].op = "none" THEN call[t] ELSE [call[t] EXCEPT !.released = TRUE]]
  /\ UNCHANGED <<approved, purged, env, configured, scratch, trend, made, raced, entangled>>

SetStatus(p) ==
  /\ p \notin purged /\ made.moves < MaxMoves
  /\ made' = [made EXCEPT !.moves = @ + 1]
  /\ approved' = IF p \in approved THEN approved \ {p} ELSE approved \cup {p}
  /\ call' = IF p \notin approved THEN call
             ELSE [t \in Thread |-> IF call[t].op = "none" THEN call[t]
                                    ELSE [call[t] EXCEPT !.steady = @ \ {p}, !.left = TRUE]]
  /\ UNCHANGED <<purged, live, env, configured, scratch, trend, proposals, raced, entangled>>

Purge(p) ==
  /\ p \notin approved \cup purged
  /\ purged' = purged \cup {p}
  /\ UNCHANGED <<approved, live, env, configured, scratch, call, trend, proposals, made, raced, entangled>>

Step(t) ==
  \/ StandardSweep(t) \/ DashboardRecompute(t) \/ ValidatePackage(t) \/ StartDryRun(t)
  \/ FetchPage(t) \/ ScanPackage(t) \/ ScanFails(t) \/ Override(t) \/ RunGate(t) \/ Restore(t)
  \/ SeedScratch(t) \/ RemoveScratch(t) \/ RecordDryRun(t)
  \/ BuildSnapshot(t) \/ ReadTrend(t) \/ ReplaceTrend(t)
  \/ DraftProposal(t) \/ CheckDuplicate(t) \/ CreateProposal(t) \/ Return(t)

Meanwhile ==
  \/ \E d \in ByHand : CreateByHand(d)
  \/ \E i \in DOMAIN proposals : Decide(i)
  \/ \E p \in Package : SetStatus(p) \/ Purge(p)

Next == (\E t \in Thread : Step(t)) \/ Meanwhile

Spec == Init /\ [][Next]_vars

-----------------------------------------------------------------------------
(* Every gate resolves profiles against the root meant for it - the process's *)
(* own, or the registry a dry-run names - unless another dry-run of the       *)
(* process was under way, or two of them once overlapped; and the variable is *)
(* back to what it was when no dry-run runs.                                  *)
GatesSeeTheirRoot ==
  /\ \A t \in Thread : call[t].alone =>
       \A i \in DOMAIN call[t].seen :
         call[t].seen[i].root = IF call[t].root = "none" THEN configured ELSE RootOf(t)
  /\ DryRunning = {} /\ ~entangled => env = configured

(* What a dry-run reports as newly failing among the packages of the version  *)
(* it evaluates are exactly those that every failing required check of is     *)
(* waived today and would not be if the version read as proposed - for a      *)
(* dry-run on its own, with no release and no withdrawal meanwhile.           *)
DryRunForetells ==
  \A t \in Thread :
    call[t].pc = "record" /\ call[t].alone /\ ~call[t].left /\ ~call[t].released =>
      {p \in NewlyFailing(call[t].before, call[t].seen) \cap call[t].steady : FactsOf[p].version = call[t].version} =
      {p \in call[t].steady :
         /\ FactsOf[p].version = call[t].version
         /\ IsSound(FactsOf[p], LoadProfileFiles(FactsOf[p], TRUE, live))
         /\ ~IsSound(FactsOf[p], Changed(Current, call[t].diff))}

(* A scan misses no package that was approved all the while, as long as none  *)
(* left that status: the listing is cut into pages that later pages shift     *)
(* under, and a newly approved package may only repeat another.               *)
ScansCoverTheCorpus ==
  \A t \in Thread : call[t].pc = "scanned" /\ ~call[t].left => call[t].steady \subseteq Scanned(call[t].seen)

(* "append_snapshot never edits or drops a prior row, so the trend series is  *)
(* exactly the run history", oldest first - for runs whose appends did not    *)
(* overlap, in whichever process they were.                                   *)
TrendIsRunHistory ==
  /\ \A r \in 1..made.runs :
       \/ r \in raced \/ \E i \in DOMAIN trend : trend[i] = r
       \/ \E t \in Appending : call[t].run = r
  /\ \A i, j \in DOMAIN trend : i < j => trend[i] < trend[j] \/ {trend[i], trend[j]} \subseteq raced

(* "weekly sweeps must not spam the queue with repeats of a finding that      *)
(* already has an open proposal": two open proposals have one target only if  *)
(* the later one was made by hand, or was checked before the earlier was      *)
(* there, or when more proposals of their kind were open than a page lists    *)
(* and the earlier was not on the page.                                       *)
OneOpenProposalPerTarget ==
  \A i, j \in DOMAIN proposals :
    i < j /\ proposals[i].open /\ proposals[j].open /\ proposals[i].diff = proposals[j].diff =>
      i \in proposals[j].unseen
=============================================================================
