# TLA+ models of fathm (analysis-package)

fathm stores versioned *analysis packages*, moves them through human review and
a lifecycle, keeps a search index of the approved ones, and evolves its own
quality standard through reviewed *proposals*. This directory models the parts
of it that keep state under concurrency and crashes, checks them with TLC and
proves the main results with TLAPS. All source paths below are relative to
`src/src/`.

## 1. Inventory

### Processes

| process | what runs in it |
|---|---|
| `fathm-api` (`ap_api`, `ap_console`) | one process, synchronous handlers in a thread pool; the threads share one `PackageStore`, `IndexStore`, `AuthStore`, `ProposalStore`, each a sqlite connection behind its own `RLock` |
| agents (`ap_agent_tools`, `ap_mcp` local mode) | processes that open the same store root with a `PackageStore` of their own; they publish and submit for review |
| `fathm-chat-telegram` (`ap_chat`) | poll loop that forwards questions to the API |
| `fathm-planner-sweep` (`ap_planner_bot`) | weekly one-shot: scans the corpus, drafts proposals |
| `ap-auth` (`ap_auth/cli.py`) | administrator's command line on the auth database |

### Components, their state, their operations, what makes them correct

| component | state | operations | correct when |
|---|---|---|---|
| package store, `ap_store/store.py` | `packages`, `package_audit`, settings | publish, set_status, link_replaces, set_legal_hold, purge | published content is immutable; statuses follow the machine; the trail explains the status; tombstones are final |
| blob store, `ap_store/blobstore.py` | content-addressed files, `.tmp` files | put, delete | every live row has its bytes, no bytes outlive their rows |
| review workflow, `ap_review/workflow.py` | none (reads, checks, compare-and-swap) | transition | independent review, gate before review, roles, reasons |
| lifecycle workflow, `ap_lifecycle/workflow.py` | none | supersede, recall, restore, set_legal_hold, purge | links are sound, purge spares approved and held versions |
| search index, `ap_index` | chunks per version | index_package, remove_package, reindex_package | exactly the approved, unblocked versions are searchable |
| redaction, `ap_redact` | sidecar report per version | redact_package, write_report | fail closed on a secret; report before index |
| profile registry, `ap_registry` | version directories, pointer, changelog per profile | ensure_seeded, bump_version | versions immutable, pointer valid, releases atomic |
| proposals, `ap_proposals` | `proposals`, audit, spec files | create, decide, record_dry_run | decisions final; approved implies applied |
| API and console, `ap_api`, `ap_console` | sessions only | routes that call the above in order | each route makes all the calls its status move needs |
| authentication, `ap_auth` | users, tokens and sessions | create, enable, disable, set_roles, issue, revoke, expire | a disabled user holds nothing; an admin always remains |
| team bot access, `ap_console/admin_routes.py`, `ap_chat/identity_map.py` | the allowlist file, the bot's copy of it | provision, revoke, reload on miss | no live account the console cannot reach; revoked means refused |
| gate, `ap_gate` | profile cache, an environment variable | run_all, waivers, profile resolution | a package passes exactly when every failing required check is waived |
| planner, `ap_planner_bot` | trend file, scratch registries, the environment variable | sweep, recompute, dry_run, detectors | scans cover the corpus, a dry-run foretells the gate, the trend is the run history, no duplicate drafts |
| chat, `ap_chat` | offset file | poll, save, handle, reply | each update handled at most once, none lost silently, the loop never stops for good |
| manager bot, `ap_manager_bot` | one tool loop per question | answer | citations only of what was retrieved and may be seen |

### How they interact

A route of the API reads a record through a workflow, the workflow checks policy
on that copy and calls the store; the route then calls
`reindex_after_transition`, which reads the store again, extracts and redacts
the bytes, writes the sidecar and finally the index. Approving a declarative
proposal writes the registry's files and then the proposal's row. No two of
these stores share a transaction, and every lock is per store and per process.

### What is hard here

Policy checked on a stale copy; two-transaction operations; two databases
ordered but not atomic; file operations between a check and a commit; several
processes on one store root or one user database, for which the `RLock` does
nothing; process-global state that one request changes under another; files read
whole and replaced later; acknowledging before handling; a process that dies
between any two of these. `PROJECT.json` lists each as a hazard at its line.

## 2. Modules

| module | models | granularity of a step |
|---|---|---|
| `PackageStatus` | what the store promises about a version's status column | a status move |
| `PackageStore` | `PackageStore`'s table, blobs, sidecars, audit trail | a method body under `self._lock` |
| `PackageWorkflow` | `ReviewWorkflow` and `LifecycleWorkflow` in worker threads, over `PackageStore` | a read of a record with its policy check, a gate run, a store call |
| `CorpusIndex` | routes, `reindex_package`, index and sidecars, over `PackageStore` | a lock section or file operation |
| `StoreFiles` | `publish` and `purge` inside, several processes | a file operation or a transaction |
| `RegistrySpec` | what the profile registry promises about the live profile | a seed or a whole release |
| `ProfileRegistry` | `ensure_seeded`, `bump_version` under `apply_declarative`, without locks | a file operation |
| `ProposalWorkflow` | `ProposalWorkflow` and `ProposalStore`, over `ProfileRegistry` | a read with its checks, an apply step, a transaction |
| `AuthStore` | users and tokens, for API threads and `ap-auth` processes | a lock section; the last-admin guard and its write apart |
| `TeamBot` | provision and revoke over `AuthStore` and the allowlist, the bot's copy | a store call, a read or a replace of the file |
| `ManagerBot` | one `POST /chat/manager` | a completion with the tool calls in it |
| `ChatRunner` | the Telegram poll loop, over `ManagerBot` | a call to Telegram, a write of the offset, a message |
| `PackageGate` | the checks, waivers and profile resolution (operators) | |
| `PlannerDetectors` | the detectors on one scan (operators), over `PackageGate` | |
| `Planner` | sweeps, recomputes, gates and dry-runs in threads and the timer | a page, a package, a read or write of shared state |
| `MC...` | instances for TLC, and history variables where only a run needs them | |
| `PackageStoreProofs`, `PackageWorkflowProofs` | theorems about the store and the workflows | |
| `CorpusIndexProofs`, `StoreFilesProofs` | theorems about the index and the files | |
| `RegistryProofs` | theorems about `ProfileRegistry` and `ProposalWorkflow` | |
| `TeamBotProofs`, `ChatRunnerProofs`, `PlannerProofs` | theorems about `TeamBot` with `AuthStore`, `ChatRunner` with `ManagerBot`, `Planner` | |

### State and actions against the code

* **PackageStore.** `rows` is the `packages` table, of which the columns that
  decide something are kept (`status`, `blob_sha256`, the analyst, `legal_hold`,
  `purged_at`, `replaces`); an absent row is status `"absent"`. `blobs` and
  `sidecars` are the files under the store root, `trail` the newest row of
  `package_audit` that records a status (legal-hold rows do not). `Publish`,
  `SetStatus`, `LinkReplaces`, `SetLegalHold`, `Purge` are the methods of these
  names; `WriteReport` is `ap_redact.report.write_report`, which takes no lock.
  Calls that change nothing (an identical publish, a refused guard) are not steps.
  publish and purge may also raise half-way: `PublishFails` after the blob was put
  (`store.py:150-168`: the gate, the owners lookup, the INSERT) leaves it without a row,
  `PurgeFails` after the bytes were unlinked leaves a row without bytes. The history
  variables `abandoned` and `doomed` are these contents and these versions.
* **PackageWorkflow.** `req[t]` is the local state of a worker thread between
  its read and its store calls. `Transition`, `Supersede`, `Recall`, `Restore`,
  `Hold`, `PurgePackage` read and check; `RerunGate`, `CheckSuccessor`,
  `CallSetStatus`, `CallLinkReplaces`, `CallSetLegalHold`, `CallPurge` go on.
  `Raise` ends one request with an error between two of its calls, `Restart` forgets
  every request. `GatePass` stands for the gate.
* **CorpusIndex.** `indexed` is the set of versions with chunks; `job[t]` is what a
  thread still has to re-index. `StatusRoute`, `SupersedeRoute`, `PurgeRoute` and
  `AdminReindex` are the routes up to the store's commit, `ReadRecord`, `Extract`,
  `SaveReport`, `UpdateIndex`, `RemoveChunks` the body of `reindex_package`. Status
  moves are taken straight from `PackageStore` because `PackageWorkflow` implements
  it. `PurgeRouteFails` is a purge that raises, after which the route does not get
  to the removal of the chunks. `SecretBlob` stands for the scanner. `overlapped`
  and `restarted` are history.
* **StoreFiles.** `op[i]` is the operation process `i` is inside: at most one,
  because of the `RLock`. publish is `PublishBegin`, `Put`, `Replace`, `Insert`;
  purge is `PurgeBegin`, `CountReferences`, `Unlink`, `Commit`. The guards are
  SELECTs before the transaction, so other processes commit in between. `BreakOff`
  ends an operation at any of its steps, because the process dies or because a call
  raises: an OSError, a check that cannot read a file, a locked database.
  `doomed`, `abandoned` and `overlapped` are history variables: the versions whose
  purge has reached the file, the contents a publish has left without a row and nobody
  has taken over since, and whether operations of two processes were ever under way at once.
* **ProfileRegistry.** `dirs`, `pointer`, `pointerTmp`, `changelog` are the files of
  one profile; `call[t]` is an `apply_declarative` in flight. Version `k` stands for
  `0.k`. The exists check and the rename of a version directory are two steps; the
  rename is refused when the target has files in it, and succeeds on an empty
  directory, which is what a profile without a repo tree (`SeedsFiles = FALSE`) is
  seeded with. `FileError` is an OSError of any file operation: the call ends with
  an error and undoes nothing, so after the flip the version is live although its
  changelog row is missing, and between rename and flip the profile is wedged, as
  after a crash. Two files of a profile are kept apart: the reason codes, which a
  `reason_code_add` edits, and another one, which a `profile_change` replaces.
* **ProposalWorkflow.** `decide` is `DecideAgainst`, `ApproveDeclarative` or
  `ApproveCode`, then `ApplyStep`s of the registry and `AfterApply`, or
  `ExportSpec`, then `SetStatus`, the compare-and-swap; `RequestFails` ends a request
  that raises in the export, the commit or the recording. The row keeps the effective
  diff that the decision recorded. `record_dry_run` is `DryRun` and `RecordDryRun`.
* **AuthStore.** `users` and `tokens` are the two tables; `call[t]` is the
  statement a thread is about to run, `holder` the API's `RLock`, which a
  command line does not see. `set_disabled(u, True)` is `Disable` (guard) and
  `WriteDisable`; `set_roles` is `SetRoles` and `WriteRoles`; `_issue_token` is
  `Login`, `ServiceToken` or `CheckEnabled`, and `InsertToken`, as its two lock
  sections. Roles are `{admin}` or a set without it. `overlapped` and a token's
  `late` and `purpose` are history.
* **TeamBot.** `Provision` creates the user, then `CheckEnabled`, `InsertToken`,
  `AddEntry` and `ReplaceFile`; a failing step goes through `Failed` to the
  rollback, `GuardDisable` and `WriteDisable`. `Revoke` reads the entry, goes
  through the same disable and then `RemoveEntry` and `ReplaceFile`. `cache` is
  `IdentityAllowlist._entries` in the bot.
* **ManagerBot.** `chat.citable` is the request's citation registry; the tools
  add to it what the index holds in the asker's scope at that moment,
  `ProvideAnswer` keeps what is in it. The model is external and answers anything.
* **ChatRunner.** `loop` is where `run_forever` is and what is left of the batch;
  `offset` the file (0: none or torn), `confirmed` what Telegram has been told to
  forget. The process may fail to start (`StartFails`): `TelegramPlatform.__init__`
  calls getMe once, without a retry, and a malformed allowlist is fatal too.
  `starts` counts the starts of the present interval of the unit; at `StartBurst` of
  them systemd gives up (`GiveUp`, the loop is `"failed"` for good) and after
  `IntervalPasses` they no longer count. `SaveOffsetFails` is an OSError of the
  offset's write, which the loop takes for a failed poll and polls again. `outcome`
  is history: what became of each update.
* **PackageGate.** A package is a record of the facts the checks look at: paths
  as what `resolve_contained` and `is_file` make of them, JSON schemas as whether
  they hold, override rows as the columns that are tested. A profile version is a
  record of what its files say. `SimpleOutcomes`, `ApplyWaivers`,
  `QaApprovedImpliesPass` and `RunAll` keep the order of `run_all`; `IsSound` is
  the reference, without the order.
* **Planner.** `call[t]` is a run in thread `t`: `FetchPage`, then `ScanPackage` per
  package, or `Override`, `RunGate`, `Restore` where a registry root is given; a
  sweep goes on with `BuildSnapshot`, `ReadTrend`, `ReplaceTrend`, `DraftProposal`,
  `CheckDuplicate`, `CreateProposal` (the duplicate check reads one page, `Pages`,
  of the open proposals of the draft's kind, at most `ListLimit` of them), a dry-run
  with `SeedScratch`, a second scan, `RemoveScratch`, `RecordDryRun`. `env` is
  `AP_STANDARD_REGISTRY_ROOT` in the API process; the timer has its own.
  `CreateByHand` is `POST /proposals`, which checks nothing. `Decide`, `SetStatus`
  and `Purge` stand for the workflows of the other modules, of which only the effect
  on the corpus and the registry is kept.

## 3. Runs

| run | question | bounds |
|---|---|---|
| `workflow_review` | does policy checked on a stale copy hold of what is committed, and is every request step a store step? | 1 version, 2 candidate contents, 3 actors, 2 threads |
| `workflow_lifecycle` | are blobs exact also where calls fail, rows immutable, the trail connected, links sound and purges safe under racing requests, and does the status follow `PackageStatus`? | 2 versions, 2 contents they may share, 1 admin, 2 threads |
| `index` | is the index safe under races, restarts and calls that raise, exact after a re-index without races, and does an approval reach it? | 2 versions, one clean and one with a secret, 2 threads |
| `files` | do bytes survive, rows stay and files stay accounted for, with two processes and operations that break off? | 2 versions, 2 contents, 2 processes |
| `registry` | are releases atomic and immutable without a lock, whatever dies or fails, and does every apply end? | 2 threads, versions up to `MaxVersion` = 5 |
| `proposals` | is an approved proposal applied with the diff its row records, once, for good, whatever dies or fails? | 2 declarative proposals and 1 code proposal, 2 threads, `MaxVersion` = 4 |
| `team_bot` | does an admin remain, is a disabled user empty-handed, and do provision and revoke leave no token behind? | 3 users, 2 tokens, 1 Telegram id, 2 API threads, 1 command line |
| `chat` | is every message met, at most once, and does an answer cite only what the asker may see? | 4 updates (one without a mention, one from a stranger), 2 crashes, 2 starts an interval, 2 packages, 3 turns |
| `planner` | do scans, gates, dry-runs, the trend and drafting stay right beside each other? | 3 packages in pages of 2, 2 calls among 2 API threads and the timer, 1 status move and the purges it allows, 3 proposals, of which 1 is listed a page, 3 versions |

Two threads (or processes) are where every race of this code happens: each is a
check of one request overtaken by a step of another. Two versions are needed for
sharing bytes and for supersede links. Two contents tell identical from
different bytes, passing from failing, clean from secret. `MaxVersion` leaves
room for a seed, two concurrent releases and the ones that follow; `Apply` is
guarded so that calls already in flight find a version, so the bound never
blocks a call that has begun. `MayFail` (store, workflows, index) and `MayBreak` (files,
registry, proposals) say whether calls raise and, for `MayBreak`, threads die; they are
TRUE in every passing run. `MCFailuresApart` bounds `workflow_lifecycle`: once a publish or
a purge has failed half-way, requests run alone and only to purge. What a failure
leaves is about bytes, which only publish and purge touch, and each of them is one
step of the store. Runs that disable deadlock checking (`registry`, `proposals`,
`planner`) do so because everything may have been decided, released or called.

`MCCodeLast` bounds `proposals`: the code proposal is created when no request about the
others is under way. Its requests share no variable with theirs (they touch neither the
registry nor another row), so their steps commute and a behaviour in which they overlap has
the same rows at its end. Its own two threads still race.

Symmetry is used only in runs without temporal properties that need fairness.

Three users are two admins who act on each other and a new one; the second token
is the one that is issued while the first is revoked. `MCNoMishap` bounds
`team_bot`: what follows once a crash, an overlap of two team bot requests or an
overlap of two guarded sections of different processes has happened is not
explored, because its properties promise nothing there (see the disagreements
below). Four updates are enough for a batch, a redelivered batch and messages on
both sides of it; two crashes for a crash while a redelivery is handled. `StartBurst` is
2 instead of the unit's 10: the last start of the interval and one before it are all the
model tells apart.

`planner` starts (`MCInit`) with one package not approved and the other two
approved, and either an unseeded registry without proposals, or two versions, the
variable set, and an open proposal. The three packages have a waived failing
check each way round: one calls itself approved, which is the case the order of
waivers is about, and one is pinned to version 1, which the scratch registry of a
dry-run does not have. Three packages in pages of two are what makes a second
page; two calls of three threads what makes every pair of operations overlap.
`MCDryRunsApart` does not explore what follows once two dry-runs have overlapped,
of which the properties promise nothing. `MCPurgesMatter` leaves out the
purge of the package nobody approved, which no scan has in hand. `ListLimit`
is 1, 200 in the code: with the second open proposal of a kind a page no longer holds
all of them, as the code's does with the 201st. `ByHand` is what people propose
beside the sweeps; `MCQueueApart` explores a queue with such a proposal, and only
that one up to three proposals, with sweeps only and no status moves. `Thread`,
`MaxCalls`, `MaxProposals`, `MaxMoves` and `MaxVersion` are the other bounds.

History variables (`overlapped`, `restarted`, `abandoned`, `doomed`, `disturbed`, `raced`,
`entangled`, `late`, `outcome`, `alone`, `steady`, `unseen` and the like) only
observe: they let one run state what holds in every behaviour and what holds
while requests or operations do not overlap.

Every property of every passing run is shown to depend on the code by a mutant,
defined beside the action it changes.

### Runs that find a violation

| run | what happens | what is documented |
|---|---|---|
| `index_race` | a re-index that read `approved` writes the index after a recall and its own re-index: the recalled version stays searchable with nothing in flight | `ap_manager_bot/scoping.py:6` |
| `registry_wedged` | a crash or a failed write between the rename of a version directory and the pointer flip: every later apply computes the same version and is refused | `ap_registry/profile_registry.py:165` |
| `chat_dropped_batch` | a transport error of `POST /chat/manager` ends the batch: the other messages, acknowledged already, are gone | `ap_chat/runner.py:31`: the asker is told that the assistant is unavailable |

### Other disagreements, seen while modelling

Three have instances that can be run by hand and that TLC finds violated:

* `MCFilesSharedBlobRace.cfg`, `BytesSurvive`: another process publishes the same
  bytes between purge's reference count and its unlink, and a live row loses its
  blob (`ap_store/store.py:390`).
* `MCRegistrySeedRace.cfg`, `SeedingIsIdempotent`: two first touches of a profile
  without a repo tree; the late seeder's rename succeeds on the empty directory
  and the pointer goes back to 0.1 (`ap_registry/profile_registry.py:125`).
* `MCProposalsOrphanRelease.cfg`, `ReleasesAreApproved`: the loser of the
  compare-and-swap has already released a version, which stays live with no
  approved proposal (`ap_proposals/store.py:178`).

The others are read off the models:

* `supersede` checks the successor before it commits on the predecessor, so a
  recall in between leaves a superseded version without an approved successor; a
  legal hold can be set on a tombstone; a dry-run can be recorded on a decided
  proposal.
* The last-admin guard and its write are one step for the API's threads only: an
  `ap-auth disable` beside a console request can leave no enabled admin.
* A second provision of one Telegram id leaves the first token valid, and the bot
  goes on using its copy of it: a just-provisioned sender is answered under the
  older account until the bot restarts.
* The rollback of a provision is refused when the new user is by then the last
  enabled admin; the account stays.
* Two dry-runs that overlap in the API process restore each other's value of
  `AP_STANDARD_REGISTRY_ROOT`, which can be left at a scratch directory that is
  gone (`ap_planner_bot/scan.py:49` assumes calls that do not overlap).
* A dry-run evaluates "the same version number every currently-approved package
  already declares" (`ap_planner_bot/dry_run.py:101`): packages pinned to another
  version read the repository's default in the second scan, and may count as
  moved although nothing about them changes.
* The reason-code detectors ask for the profile without a version and so read the
  repository's default: a code that was approved into the registry is flagged again.
* "weekly sweeps must not spam the queue" (`ap_planner_bot/service.py:184`): the check lists
  one page of at most 200 proposals of the kind (`ap_proposals/store.py:148`). With more
  open ones a finding that has an open proposal can be drafted again, and a proposal made
  by `POST /proposals` is compared with nothing.
* A publish that raises after its blob was put (`store.py:147`) leaves the blob. Nothing
  sweeps it; it is removed when the same bytes are published and purged later.
* The poll loop retries a failed getUpdates, but not the getMe of its start. A bot
  that crashes while Telegram is out of reach starts in vain every few seconds. With
  the unit's `StartLimitBurst` of 10 in 300 s it is failed after about a minute and
  stays so until somebody resets it. Where systemd reads these two settings only in
  `[Unit]` (the file has them in `[Service]`), its default of 5 starts in 10 s is
  not reached with the unit's `RestartSec`, and the restarts go on. `IntervalPasses`
  leaves both open. The documentation speaks only of failed polls, so no run claims
  a violation: `EveryUpdateMet` excepts a unit that was given up.
* Two appends to the trend file at once lose a row or put rows out of order; a
  withdrawal during a scan can make the next page skip a package; a purge during
  one ends it with `StoreError`.

## 4. Fairness

`CorpusIndex` and `ProfileRegistry` state weak fairness of the steps of a call
that has begun: a worker thread that is inside a handler is scheduled until the
handler returns, and nothing in those bodies waits for another thread except an
`RLock` that is held for one step. Nothing forces a request to be made, and a
restart is never fair.

`ChatRunner` states weak fairness of the loop's own steps (its calls have time
outs, and its sleep is at most a minute) and of the completion under way (the
number of turns is bounded, the model's client has a time out), and strong
fairness of a successful `Start`, `getUpdates` and `SaveOffset`: Telegram may be
unreachable, the allowlist malformed or the disk full again and again, but not for ever.
It does not help a unit that systemd has given up, because no start is enabled there.
Crashes, failures, the passing of the start interval and new messages are never fair. No
other module needs fairness: their properties are safety properties.

## 5. Proofs

Each proof module EXTENDS the module it is about and proves, for every value of
the constants that meets the assumptions, what the runs check on one instance.
The form is the same throughout: an inductive invariant, that it holds
initially, one step per action that keeps it, and the property as a consequence.
Every safety invariant and action property that a run passes is proved; only the
liveness properties named at the end of this section are not.

| module | proved | assumed |
|---|---|---|
| `PackageStoreProofs` | types, `BlobsAreExactlyLive`, `PublishedImmutable`, `ImplementsStatusMachine` | `StoreAssumption` |
| `PackageWorkflowProofs` | types, `ImplementsStore`, `PurgeSparesProtected`, `IndependentReview`, `HistoryAuthorised`, `ReviewedContentPassedGate`, `SupersedeLinksSound`, `TrailConnected`; the store's theorems under the workflows' `Spec` | and `WorkflowAssumption` |
| `CorpusIndexProofs` | types, `SecretsNeverIndexed`, `OnlyReviewedIndexed`, `ReportBeforeIndex`, `ReindexIsExact`, that `IndexSpec` implements `StoreSpec`, and the store's theorems under it | `StoreAssumption`, `IndexAssumption` |
| `StoreFilesProofs` | types, `BytesSurviveAlone`, `NoStrayFiles`, `CommittedContentStays`, `ImplementsStatusMachine` | `FilesAssumption` |
| `RegistryProofs` | types, `OneReleaserAtATime`, `ChangelogTruthful`, `VersionsImmutable`, `ReleasesAreAtomic`, `ApprovedIsApplied`, `VersionsNotShared`, `DecisionsFinal`; the registry's theorems under the workflow's `Spec` | `RegistryAssumption`, `ProposalAssumption`, and `SeedsFiles` where said below |
| `TeamBotProofs` | types, `AnAdminRemains`, `DisabledHoldsNothing`, `NoUnreachableAccount`, `RevokedIsRefused` | `AuthAssumption` |
| `ChatRunnerProofs` | types, `AtMostOnce`, `ForgottenIsAccounted`, `AnswersCiteVisible` | `ManagerAssumption`, `ChatAssumption` |
| `PlannerProofs` | types, that `RunAll` passes exactly when `IsSound` holds, `GatesSeeTheirRoot`, `TrendIsRunHistory`, `OneOpenProposalPerTarget`, `ScansCoverTheCorpus`, `DryRunForetells` | `PlannerAssumption` and those of the modules it extends |

The assumptions say that the null values are not values, that a table of roles or
senders is a function with the right range, that switches are Boolean and bounds
are numbers, that the API's threads are not the command lines, and that a
deployment begins with an administrator. None of them bounds a set. The packages
of `Planner` are a finite set, since ranks are counted in it, and no thread
has the name of one of the two registry roots that are not a dry-run's.

**Store and workflows.** `StoreInv` is the type invariant, blob exactness and the
facts about rows that it needs: `TombstonesConsistent` (`purged_at` and the status
`purged` go together) and `TrailExplainsStatus` (the trail ends in the present
status). `BlobsAreExactlyLive` says which contents the store holds: those of live
rows and the `abandoned` ones, and a live row without its bytes is one that a failed
purge has `doomed`. Purge removes a file because no *live* row shares it, so
exactness is what carries over a step. The workflows are proved over any number of
threads: every step is a store step or leaves the store alone, so the store's
invariant comes for free. What makes the other theorems inductive is a fact about
requests in flight. For `IndependentReview` it is that the analyst read with the
policy check is still the analyst when the swap succeeds, because only publish and
purge write it, and neither leaves the row in the status the swap expects.
`HistoryInv` has one `Promise` per place a request can be at: what the checks it has
passed say of the row *if* the compare-and-swap will still succeed, and what cannot
be undone otherwise (a version once approved is approved, superseded, recalled or
purged for good; published bytes are the same bytes).

**Search index.** `IndexInv` holds, besides the properties, what a thread past
`ReadRecord` still knows: the version it read as approved is *reviewed*, which no
step of the store takes back, its contents are the ones it scanned, and after
`SaveReport` the sidecar is there unless the version was purged. A re-index may
act on a stale status, and that is why nothing stronger than `OnlyReviewedIndexed`
holds when requests overlap (`index_race`). While they do not, `AloneInv` says
that the status a request has read is still the status of its version: only
a publish can come between, and it touches no version that has a row. With it a
re-index that ends leaves the index exact.

**Files.** `FilesInv` says what is so whatever overlaps: an operation knows its
version and its blob, and a purge in flight is of a version that nobody can have
approved since, because only the API's process approves, and it is inside the purge.
It is what the refinement of `PackageStatus` rests on: purge's UPDATE names no
status. With it `NoStrayFiles` needs no condition: a file that an operation brings
or leaves is the one of the row it commits, or of the publish about to insert it, or
becomes `abandoned`, and the one step that unlinks takes it off both. TLC finds no
violation of the refinement on the instance of `files` either, but no run repeats
it. `AloneInv` says what a lone operation knows (its .tmp file is there, its
reference count is exact, the row is still absent), up to the first overlap, and it
may break off at any step.

**Registry and proposals.** The version directory is the lock: `ReleaseInv` says
that directories run without a gap up to the live version and at most one further,
that a call between its rename and its flip is the one of that next version, alone,
and holds what it read with its diff applied, and that a call before its rename has
read the live version or one that is gone, in which case the rename will be refused.
With it each step maps to a release, a seed or a stutter of `RegistrySpec`.
`ApprovalInv` adds the requests: each waits for the registry call it made, a version
is claimed by one request or one approved proposal (`ClaimsDisjoint`), and a claim
in flight holds the diff that the row will record. A failing file operation leaves
the files as a crash of that thread does, so it adds a case to each step lemma and
none to the invariant. The theorems about releases take `SeedsFiles` as their
hypothesis, the case of a profile that the repository has files of: for one without,
a second seeder's rename succeeds on the empty directory and the statements are
false (`MCRegistrySeedRace.cfg`). Every step of the workflow is a step of the
registry or leaves it alone (`RegistryMoves`), so the same step lemmas prove the
registry's properties of the composition (`ApprovalsReleaseAtomically`). The types
and `DecisionsFinal` need no hypothesis.

**Authentication and team bot.** `AdminInv`: until guarded sections of two
processes overlap, at most one thread is in one, and whoever is past the
guard of an operation that takes an admin away has left another enabled one.
`AccessInv`: until two team bot requests overlap or one dies, there is at most one, the
file it is about to write is the present one with one entry changed, every live
bot token is *reachable* (it has its entry, or the request in flight handles it, or
a second provision replaced it), and the bot's copy of an entry is the entry, or
its token is dead or was replaced.

**Chat.** `OnceInv` says where the batch in memory is towards the two offsets:
an update that met its fate is below one of them, so that no later poll hands it out
again; what is in memory is above what was dealt with; what both sides forgot is
dealt with or in memory. The least update of a batch exists by well-founded
induction over the naturals (`LeastExists`, from `WellFoundedInduction`).
`RequestInv` says of the request that what it may cite was indexed while it
ran and is in the asker's scope.

**Planner.** Six invariants that use each other in this order. `Shapes` are the
fields of calls and the tables. `QueueInv`: a checked draft has no open proposal
of its target among those it is `ruledOut` to repeat, which are all there were but the ones
of its kind that the page left out. `TrendInv`: of two appends under way both are
raced; a lone one has read every unraced row there is. `RootsInv`: until two
dry-runs overlap, the one there is knows what the variable was and is, and a call
that is marked alone has found, and leaves, no dry-run but its own.

`CoverInv` is about pages. The listing is a bijection from ranks to approved
packages (`ListingIsTheCorpus`; a package of each rank exists because no two have
the same and there are as many ranks as packages), and pages cut it by rank. While
nothing leaves, a package's rank never falls (`RankGrows`): one that is published
meanwhile is listed before it, or after it.
So a package that was there from the start, and that the pages fetched so far do
not reach, has a rank beyond them; what they reach was scanned or is in the page
at hand; and a short page means that no rank is left. A publication may shift a
package into the next page, where it is met a second time, and this does no harm.
A withdrawal would shift one out, which is why the property excludes it.

`ForetellInv` is about the two scans of a dry-run that is alone, with no release
since it began: its change is made on the version that is current, the rows of
its first scan were gated with the live rules and those of the second with the
live rules under the change, which its scratch registry holds. Both scans cover
the corpus by `CoverInv`, and a package that was met twice counts by its last row
(`LastRow`, by well-founded induction over the naturals), as in the code's
dictionaries. With `GateIsSound`, what the two scans call passing is what
`IsSound` says of the rules, and the recorded difference, on the packages of the version
the dry-run evaluates, is the one `DryRunForetells` states.
`GateIsSound` itself is about the operators of `PackageGate`, for any facts and
any rules: the two rounds of waivers around the check that sees the other
outcomes are what makes a waived failure harmless and nothing else.

Only model-checked, and why: `ApprovalReachesIndex`, `ApplyEnds` and
`EveryUpdateMet` are liveness under fairness, for which ENABLED would have to be
proved about. What the `violation` runs check is false, so there is nothing to prove.

## 6. Not modelled, and why

Text, templates, charts and HTTP parsing; the redaction patterns and the tar format,
pure functions of bytes that appear as sets of contents; the schemas of manifests
and diffs, which appear as whether they hold; full-text ranking; the settings table,
a single row without interaction (`set_retention_days` accepts a zero that the
console refuses); the order of rows published within one second, which sqlite leaves
open; the gate's cache of registry files (`ap_gate/profiles.py:123`), which keeps
files of versions that exist, never the absence of one, and cannot be stale because
a version is never rewritten; passwords and their change, CSRF, audit rows of the
user store; the proposal notifier, whose errors are swallowed; editing of a draft
directory by `ap_agent_tools`, files nobody shares; the demo seeding scripts.

Simplified within what is modelled:

* `GatePass` is a fixed set of contents. `run_all` also reads the registry root, so
  the outcome of a gate may change between two runs. `ReviewedContentPassedGate` is
  about the run that the transition made; what a release changes is the subject of
  `Planner`.
* A `profile_change` replaces one file other than the reason codes. One that replaces
  `reason_codes.json` or deletes a file is applied by the same steps.
* An `edited_diff` with the approval of a code proposal is dropped: only its
  specification is exported.
* A version that yields no chunks counts as indexed, although nothing of it can be found.
* A changelog row is appended or not. A half-written one is not modelled.

Hazards for which no property is stated, because the code promises nothing there or
does the wrong thing knowingly (each has a note in `PROJECT.json`): supersede's link
that never comes; a dry-run recorded after the decision; a token issued after its
user was disabled; an update of the allowlist lost between two requests; a gate
beside a dry-run; two appends to the trend at once. The models contain them all, and
the properties next to them name them as exceptions.

## 7. Plan

1. The index over `PackageWorkflow` instead of over the store's methods, and
   `ap-auth` password changes.
2. The console's upload route and draft editing by agents.
