# Snowcat: TLA+ models

Snowcat keeps a durable queue of repository work in SQLite, hands it to workers
(coding agents) over MCP under time-limited leases, lets operators decide from a
web surface or a command line, and runs timers that compare what workers
reported with GitHub. A second SQLite database, the control plane, follows an
organization's Core repository and its GitHub installation, and decides which
repositories may be worked on at all.

This directory models both, checks the models with TLC on small instances, and
proves with TLAPS, for every value of the constants, the properties everything
else rests on. `PROJECT.json` maps each definition to the lines it models, and
lists components, runs, mutants, findings, hazards and theorems.

## Inventory

| Component | State | Operations | What is hard | What makes it correct |
|---|---|---|---|---|
| Work queue (`src/src/queue/store.ts`) | `work_items`, `work_events`, `repositories` | claim, heartbeat, complete, block, release; approve, defer, note, prioritize, reject, requeue, releaseLease, cancel; enqueue*, replaceProposedPredecessors; sweeps' writes | late calls with superseded tokens, lapse against reclaim, decisions from old pages | one current lease per item; exactly one end per attempt; terminal rows stay terminal; no decision from an outdated form |
| Delivery contracts (`store.ts`, `follow-up-intent.ts`) | none | contractProblem, assertSubset, derivedContract | chains of follow-ups | authority only shrinks; nothing undeliverable is stored |
| Ledger views (`store.ts`) | none (reads `work_events`) | attempts, churningItems, eventsSince, metricsWindow | bounded windows over an unbounded history | the window says what the history says |
| Review gate (`pull-request-review.ts`, `pull-request-lifecycle.ts`, `artifact-verification.ts`, `mcp/server.ts`) | stored observations, review records, the pull request on GitHub | refresh, retire, select, plan a round, act on a verdict, mark ready, compensate | every await of GitHub; two passes at once; crashes; people pushing | a released head passed its own review; nothing waits silently |
| Cure sweep (`pull-request-cure.ts`, `mcp/server.ts`) | cure records | read health, enqueue cure roots, compare patches at completion | as the review gate; one candidate's failure | one cure per decayed head; completions are mechanical |
| Feeder (`seeds.ts`, `programs.ts`, `github-issues.ts`, `internal-dependencies.ts`) | discovery roots, streaks in the ledger, imported proposals | enqueueInactiveRootBatch, import of issues and their edges | cooldowns at their boundary; pages and edges read before awaits | at most one open lineage per program; no double import; no rewriting of admitted work |
| Policy and eligibility (`policy-authority.ts`, `eligibility.ts`) | reads the control plane | hooks called in admission and claim | a verdict that is stale when used | no claim for an ineligible repository |
| Core synchronization (`control/store.ts`, `core/*`) | snapshots, activations, poll lease, checks, overrides | claimCorePoll, completeCorePoll, activate, rollback, reject, override, prune | lapse of the poll lease, clock going back, restart between fetch and activation | one active snapshot; authority is continuous; readiness rests on evidence |
| GitHub deliveries (`control/store.ts`, `github/*`) | receipts, audited deliveries, checkpoints, gaps, repairs; the audit lease and schedule | record a delivery, audit, advance the boundary, open and repair gaps | lost, repeated and reordered webhooks; a list that changes while it is walked | coverage is never claimed over a gap, and goes on past one only by its repair |
| Repositories (`control/store.ts`, `repository/*`) | authority, identities, surfaces, enrollments, installations, holds | materialize, reconcile, enroll, hold, clear | facts that refer to earlier facts; awaits between commands | the history verifies; held work resumes only under an unchanged authority |
| Control database (`control/store.ts`, `control/cli.ts`) | transactions, projections, operational state, backups | every command; prune, rebuild, repair; backup, verify, stage a restore | copies taken while others write; restores behind what was reported | a sequence names one transaction for good; projections verify |
| MCP server and tokens (`mcp/*`) | `mcp_tokens` | mint, verify, revoke; tool scopes | a token revoked during a session | no call outside the token's scope |
| Surface (`surface/*`) | none of its own | pages, forms, event stream | pages are old when submitted | see the queue |
| Registry, validator, encoding, migrations, access, job health | schema and files | pure functions or I/O | – | see below |

Components interact through the two databases and through GitHub. The queue
store is called by the MCP server (workers), the surface and the command line
(operators) and the timers (sweeps, feeder); these are separate processes, so
every interleaving of transactions is possible. The control plane reaches the
queue through the two hooks (policy authority at admission, eligibility at
claim) and through what the feeder reads of it.

## Modules

The queue:

* `WorkContract` – operators only: the rules of `contractProblem`, attenuation
  (`assertSubset`), the inherited binding, `derivedContract`, and which reports
  a completion accepts.
* `WorkQueue` – the queue's state machine. Each public mutation of the store is
  one `BEGIN IMMEDIATE` transaction and so one action. Variables: `now`,
  `enabled` (repositories), `item` (work_items; the immutable columns are the
  constant `Definition[i]`), `ledger` (the lifecycle events), `grants` (every
  claim ever answered; a token is an index into it) and `forms` (what each
  operator session has on its screen). Workers may present any token that was
  ever handed out, operators any form rendered earlier. A lease is released by an
  `operator:` or `policy:` principal ("operator") or by a `member:` one, as the
  surface does in Access mode; the backoff counts what its SQL counts, the releases
  of workers and of members.
* `LedgerViews` – `attempts` and `churningItems` computed the way the code does,
  over windows, against definitions over the full history.
* `FencedWork` – the abstract specification of exclusive work: numbered grants,
  one current grant per item, a newer one supersedes, only the current holder
  finishes, finished is final. `WorkQueue` implements it (`FencedSpec`).

What the timers run against the queue and GitHub; everything between two awaits
of GitHub is one step, and what a process read before an await is in its local
state and may be stale after it:

* `ReviewGate` – one draft pull request of a review-gated repository, the passes
  over it (`sweep[s]`), the workers on its review and fix items, and GitHub.
  `seen` is the newest stored observation and whether a report of the pull request
  is held (its artifact unverified, or its handoff unverified or rejected), `work`
  the review and fix items keyed by head, `released` the heads of `artifact.ready`
  events, `attention` the head last reported for a human. A held report keeps the
  draft out of the pass until a later refresh lifts it (`SelectPullRequest`,
  `RecordObservation`). A pass runs after the cure sweep of the same process, whose
  exception ends it (`CureThrows`).
* `PullRequestCure` – the cure sweep (`cureSweep[s]`) over the reported and the
  listed pull requests, the cure roots in the order of their creation
  (`cures`), and the calls that complete one (a call is `calling`, `comparing`
  or `passed` between its reads and its transaction).
* `MaintenanceFeeder` – the discovery roots of one repository, the streak of
  answers that found nothing and the window it earns, and the batches
  (`feeder[f]`) that plan from the control plane in one step and seed in another.
* `IssueImport` – GitHub's listing of labelled issues, the pages of an import
  (`importer[m]`), the proposals and their edges, decisions in between, and the
  recorded observation.

The control plane:

* `ControlRegistry` – operators only: what the payload validators of the
  registry admit of the facts that the next two modules append.
* `Enrollment` – authority, identity, surfaces, enrollment, holds and
  installations as one `log` of facts, each naming the facts it rests on;
  reconcile passes (`pass[p]`) with their awaits; every reading operator takes
  the length of the log it reads, so what the verification recomputes "as of" a
  transaction is the same operator at an earlier length.
* `SourceCoverage` – webhooks (`HttpStatus`, normalization, receipts), audited
  deliveries, and the chain of checkpoints, gaps and repairs, as one `log` too.
* `DeliveryAudit` – controllers that share the audit lease, walk GitHub's list
  page by page while it changes, and schedule the next audit.
* `CoreControl` – how the control plane follows Core: the poll lease (`poll`),
  synchronizations by pollers and by the `activate` command (`proc[p]`, cut at
  the two awaits of Git and at each store call), snapshots, retained checks and
  overrides, and `coreAdmissionReadiness` over them. A snapshot, a check and an
  override are named by their transaction sequence; the newest snapshot is the
  active one. `Throws` is any exception of a store or Git call before an outcome
  exists, `Stops` a process that dies or whose completion is refused.
* `ControlDatabase` – the database as a file: transactions, pruned places,
  operational state, projections, backups with their manifests, verification and
  staged restore, damage, and what people outside were told.

`MCWorkQueue`, `MCSweeps`, `MCPullRequestCure`, `MCEnrollment`,
`MCCoreControl`, `MCCoreStories` and `MCControlPlane` are instances for TLC;
`MCSweeps` and `MCControlPlane` hold machines that share no state, and a
behaviour belongs to one of them (`part`). The theorems and their lemmas
are in `WorkQueueProofs`, and on top of it `WorkQueueFencingProofs`; in
`PullRequestProofs` (about `PullRequestCure` and `ReviewGate`),
`IssueImportProofs`, `CoreControlProofs`, `EnrollmentProofs`,
`GitHubDeliveryProofs` (about `DeliveryAudit` and `SourceCoverage`) and
`ControlDatabaseProofs`.

Definitions whose comment begins with "Fault:" are plausible mistakes in the
definition below them. No specification uses them; each exists to confirm that
a property notices the mistake.

### Abstractions and assumptions

* In the queue and its timers all processes read one host clock that does not go
  back; time is a counter and several transactions may share an instant, as
  milliseconds do. In the control plane the clock may be set back; every
  transaction refuses one behind the watermark.
* Tokens are random UUIDs that never repeat; digests do not collide.
* Rows written before execution targets were declared (no `execution_target`)
  are not modelled: every definition has a target.
* A transaction that the policy hook refuses is a step not taken; the
  eligibility hook's answer is an arbitrary set of repositories per claim.
* The delivery of a completed item's artifacts is one value, `pending` or
  `delivered`, chosen when GitHub is asked; a later observation may change it in
  both directions. Reports of issues, commits or nothing leave nothing pending.
* In the review gate a verdict is one of six classes, by what a pass tells
  apart: `pass`, `unable`, `tree` (tree blockers only), `mixed`,
  `description-new` and `description-outstanding` (ADR-0067, ADR-0071). GitHub
  is modelled from how the code uses it.
* In the cure a pull request is decayed or not, whatever the signals; a patch is
  a number, 0 when its identity cannot be computed; a URL has one spelling.
* In the feeder a lineage is its root and whether anything below it is open; in
  the import an issue is its number and the lines of its body that may name
  others. A repository has finitely many issues, and its listing is in the order
  of their numbers, which is that of their creation; a page is the issues of
  `PageSize` successive ranks.
* In `CoreControl` a commit stands for its validated catalog: `Valid`,
  `Declares`, `Retains`, `GoalMoves` and `Ancestry` say what the validator, the
  retention rules and Git answer about it. The configured ref may name any
  commit at any fetch, as after a force push. A failure after the commit is
  known counts as an invalid candidate, as in `inspectCoreCandidate`. All
  pollers use one healthy interval. Operators give the sequence they just read;
  with an older one a command throws, and a repeated command returns its
  receipt, neither of which changes anything. The suppression test and the write
  after it are one step: between them another process could only add the same
  rejection.
* Every command of the control plane verifies the whole history before it does
  anything. The models have no guard for that: that no reachable history fails
  it is an invariant (`HistoryVerified`, `CoreHistoryVerified`,
  `OverridesReverify`), and where it does not hold that is a finding.
* In `Enrollment` readiness is a switch, as `CoreControl` has it; the outputs of
  one transaction are one entry of the log. In `SourceCoverage` enrollment is
  one fact, as `Enrollment` has it, and the callers of the coverage commands
  pass whatever they believe. Three assumptions say which inputs exist at all: a
  catalog is of declarations that passed the repository schema
  (`DeclarationAssumption`), an answer of GitHub and the tree of a checkout have
  the fields the code reads of them (`GitHubAssumption`), and a payload whose
  state and merged flag do not parse is no request (`RequestAssumption`): the
  parser throws on it before any command runs. In `DeliveryAudit` an instant is the number of
  deliveries made before it, and a deadline the time left until then, the instant
  GitHub asked to be left alone until included: it counts from the failed attempt
  and so runs on until the report (`Aged`).
* In `ControlDatabase` the two projections are one, and the pruning of check
  detail (see `CoreControl`) keeps the newest check. An operator restores with
  the highest sequence that anybody outside has seen, a backup's manifest
  included.

## Runs

| Run | Checks | Shows |
|---|---|---|
| `lease` | `TypeOK`, `LeaseRowSound`, `AttemptsFenced`, `ChurnBounded`, `ViewsFaithful`, `NoStaleIntent`, `FencedSpec` | exclusive work, backoff, views and decisions from old forms on one contended item |
| `lineage_gate` | `ContractsSound`, `ClaimPicksBest` | authority over two generations of follow-ups, nothing undeliverable proposed or leased; the two-query claim selects as one walk would |
| `sweeps` | `SweepsTypeOK`, `ReleasedHeadsPassed`, `NoReadyUnreviewedHead`, `OneCurePerHead`, `CompletionsMechanical`, `ImportsSound`, `FeedsByCooldown` | two review passes, two cure sweeps, two imports, the feeder |
| `review_live` | `DraftsGetAttention` | one review pass after another, one fault, reports held back, cure sweeps that throw |
| `core` | `TypeOK`, `DeclarationsRetained`, `CoreHistoryVerified`, `AuthorityIsContinuous`, `ReadyIsEvidenced`, `TimesFollowSequence`, `SuppressionLosesNothing`, `HardFailureStands`, `PruneChangesNoAnswer` | overlapping poll runs, lapsed leases, rollbacks during a fetch, commits that drop declarations; readiness under outages and divergence, repeated rejections, overrides, prunes, processes that die between their awaits, and clock changes |
| `enrollment` | `TypeOK`, `HistoryVerified`, `ResumesIffUnchanged`, `GoodRepositoriesEnroll` | reconcile passes over two repositories against everything that may change meanwhile |
| `control_plane` | `ControlPlaneTypeOK`, `HistoryVerified`, `AcceptedIsRecorded`, `CoverageSound`, `NormalizersAgree`, `NothingToldIsLost`, `ProjectionsVerify`, `BoundaryIsEvidenced`, `ScheduleRespected`, `AuditPartRecurs` | deliveries and their coverage; the audit and its schedule; backups, restores, prunes and damage of the database |
| `review_crash`, `cure_abort`, `core_prune`, `core_rollback`, `backoff_member` | one property each | what the code does otherwise, see Findings |

**Bounds.** `lease`: one item suffices, because leases, backoff and views of
different items share only the grant counter; two workers are the least that
contend and are interchangeable (symmetry); three instants and a lease of one
unit make lapse, reclaim and the exact boundary happen, three grants let a token
be superseded and its successor lapse too, and one operator session may hold an
outdated form against two workers. What happens to a finished item is followed
while fewer than three grants were made (`ShortTails`). `backoff_member` needs one
worker, two claims and a form. `lineage_gate` has two stories, of which a
behaviour tells one (`OneStory`): a parent, a child, a grandchild and two
proposals that must be refused at every level (too much authority, undeliverable
work); or a predecessor, its gated successor and an ungated rival, which differ
by age or by priority but not by both. The code's backoff limit, 3 releases in
30 minutes, becomes 1 or 2 releases in 1 or 2 units; the counting is the same.

`sweeps`: two heads (the reviewed one and one push) and two passes; one pull
request, reported and listed, with two sweeps and one failure (two only while
nothing has failed, opted out or ended, and only the first cure is worked on:
`Limited`, `Overlapping`; review passes overlap only while the pull request is
open); three roots of one program, a base window of 1 and a cap of 3, so
that the second doubling is cut off and an override of 4 is not; three issues,
one of them a pull request, two edges at most, three pages of one, two imports. While
another part is told, no report is held.
`review_live` needs two rounds so that a fix is created, with one fault: a crash, a
lapse, an unanswered or a rejecting call, or a fix that is reported while GitHub
does not answer. A report may be held from the beginning besides, and a cure sweep
may throw any number of times.

The Core runs use two instants, with a lease, an interval and a maximum
staleness of one unit and no retention beyond the current instant, so that
lapse, staleness, expiry and pruning happen at their exact boundary; the commits
are a line `a`, `b` and a divergent `x`. Five or six transactions suffice for
the longest scenarios (activate, check, override, roll back and forth); the
finding of `core_prune` takes seven. `Events` names the commands and failures of
an instance; between them the runs have all. `core` tells two stories: two runs of
the timer with every failure, rollbacks and other transactions, over all three
commits; or one `activate` after another, with overrides, rollbacks and prunes over
`a` and `b`, and the failures that readiness tells apart, in which a command may
die between the activation of a second snapshot and its check (`Dies`). After three transactions
the first goes on only with a second snapshot, after four the second only with that
or an override (`Bounded`, `Eventful`).

`enrollment`: anything may happen to repository 1, three times, while repository
2 is in order; three changes suffice for a hold that is imposed, released and
imposed again, or for an outage that begins and ends during a pass.
`control_plane`: two delivery identities and bodies, requests and audited deliveries that differ
in each thing a normalizer looks at, eight transactions, enough for an audited
delivery to be checkpointed, a gap to be opened over it and repaired; two
controllers, pages of one, a budget of two pages and three deliveries, so that a
list too long for the budget, an expiry during a walk and an overtaken run all
happen, with one fault. Run identities are named in the order of their first use
(`RunsInOrder`), which is a symmetry reduction by hand. The database part has
one path, five transactions and one accident, enough for a backup, a lost report
after it and a restore; with two paths and four transactions the same properties
hold too.

`MaxTime`, `MaxGrants`, `MaxHeads`, `MaxFaults`, `Reportable`, `MaxPushes`,
`MaxCureFaults`, `FeedTime`, `MaxRoots`, `MaxEvents`, `MaxGitHub`,
`MaxDecisions`, `MaxSeq`, `MaxRuns`, `Events`, `MaxMinted`, `MaxOpState`,
`MaxAccidents`, `MaxChanges`, `MaxLog` and `MaxDeliveries` bound the models
only; all other constants are parameters of the code.

Deadlock is checked in the review runs only: elsewhere clocks, claims, pushes
and transactions are bounded, and a system with nothing left to do rests.

**Fairness.** `review_live`: weak fairness of each pass (the timer starts one
after another, and every GitHub call has a time limit) and of the worker holding
an item (it completes or blocks, or its lease lapses and the item is claimed
again). Nothing is assumed of people: they need not push, close or merge, and a
blocked item may stay blocked. That a pass reaches the gate at all is no matter of
scheduling, as the cure sweep before it may throw every time (finding 2);
`DraftsGetAttention` therefore has the hypothesis `CureLetsThrough`, that a pass
which keeps arriving at the end of the cure sweep gets past it in the end. Of a
refresh the model assumes that it asks about the draft, which holds while fewer
than its limit of completed items come before it. A draft that is held
up counts as attended, since the surface's inbox lists it
(`surface/inbox.ts:147-220`). `cure_abort`: weak fairness of the sweep's steps,
for the same reason. `enrollment`: weak fairness of the steps of the pass that
the Core poll starts again and again, and of the return of readiness; other
processes and GitHub's answers may disturb it any way, as often as the bound
allows. `control_plane`: weak fairness of each controller's claim, fetch, report and
restart (a service the host restarts), of time and of a clock that is set right
again; nothing is assumed of deliveries or of the list.

## Findings

Each is a run that TLC must find violated.

1. `review_crash` – ADR-0065 says a ready pull request never carries an
   unreviewed head; a pass that dies between marking and re-reading leaves one.
2. `cure_abort` – a decayed pull request that was reported in a repository which
   has opted out since makes `enqueueCureRoot` throw out of the sweep, so no
   pass reaches the candidates behind it, the foreign listing or the review
   pass, although rule 42 of the work queue demands a cure for every decayed
   head. The other candidates are cured once that pull request heals or ends.
3. `core_prune` – the prune keeps, of every stale-source override, the check it
   names as latest, but not the one its `lastValidatedAt` was computed from;
   once that is gone every later command fails on "Core stale-source override
   lineage mismatch".
4. `core_rollback` – a rollback to a commit that was just inspected does not ask
   for the retention of verification profiles that an automatic activation
   does; one with other bytes at a retained path is stored, and every later
   command fails on "Core snapshot history changed verification profile".

5. `backoff_member` – rule 69 and ADR-0072 say that an operator's lease release
   does not count toward the backoff; the count excludes the actors `operator:`
   and `policy:` only, while in Access mode the surface releases leases as
   `member:<email>`. `OnlyWorkersDecline` fails: one worker's release and one
   member's keep the item back as two declines would. The prefixes are those ADR-0072
   itself names, and workers over HTTP are `member:` principals as well, so what
   tells the two apart would have to be something else. The count itself agrees with
   the claim, the forecast and `churningItems` (`ChurnBounded`, `ViewsFaithful`).

Also seen, without a run:

* ADR-0065 says no two automated actors work one pull request at once; a blocked
  review that is requeued during a pass's await of the patch digest
  (`pull-request-review.ts:309`) leaves two reviews in flight. Nothing is
  released wrongly by that.
* The comment on `betterClaimCandidate` promises ties in id order, "exactly the
  SQL ordering"; the SQL has no id key.
* ADR-0060 says a command is refused when the item changed since it was
  rendered; a change within the same millisecond that keeps the status is not
  noticed. `NoStaleIntent` states what does hold.
* The readiness specification of Core says a successful validation advances the
  last validation time even when continuity fails; a suppressed rejection does
  not. The polling specification asks for that: the two disagree, and the code
  follows the second.
* A continuity rejection decided before a rollback to that very commit and
  recorded after it blocks readiness until the next poll.
* `auditContracts` suggests `cancel` for queued items, which `cancel` refuses.
* Completed rounds can outnumber `MAX_REVIEW_ROUNDS` when a review is completed
  while its pull request is closed. A pull request that a person reopens is
  never looked at again: a closed observation is terminal for the refresh.
* Cure sources are keyed by the URL as reported: two spellings of one slug give
  two cures of one head. `https://GitHub.com/...` passes the verification but not
  `validateCure`, which throws out of the sweep as in finding 2. A pull request
  reported under a repository's former name is never cured. The head and the
  patch digest of a cure are read in different awaits.
* `assertCureCompletion` accepts a pull request that was closed without a merge
  unread; rule 44 excepts only merged ones.
* The no-finding streak is read by `created_at`: a clock set back between two
  seeds reorders it.
* An issue that closes between two pages of an import shifts the listing, so an
  open issue is missed although the import says it is complete; the next import
  finds it. Overlapping imports may write older edges over newer ones.
* `seed-dogfood --enrolled` has no guard per repository: one that opts out in
  between ends the run for those behind it.
* `resolveSurface` answers with a regular file at an intermediate component,
  where the surface specification speaks of the path.
* A webhook whose pull request has a branch name ending in `.lock`, or with a
  character outside the store's pattern, passes the normalization and is refused
  by the store, so GitHub is answered 503 on every attempt where the
  specification asks for 422. Its instants must be of one ISO form.
* A webhook of a repository answers 409 between a new snapshot and the next
  reconciliation, where the kernel's document calls it observable.
* A content gap ends by repairs of the deliveries it names, and a delivery with a
  direct receipt cannot be repaired (`control/store.ts:2375`): if GitHub delivers
  one of them again by webhook before it is repaired, the gap stays. No document
  promises otherwise, and that a gap can be repaired is not checked.
* A list of deliveries longer than the page budget is never audited, and a walk
  that outlasts the audit lease is always lost.
* The accepted forms of an SSH URL of Core differ between `core/git-source.ts`
  and the store.
* The restore runbook stops the timers and MCP clients but not the surface's
  service: writes from the board between staging and restart are lost, and their
  sequences are given out again. For the same reason `NothingToldIsLost` counts a
  backup's manifest among the reports: the sequence asked of a restore must not
  be below one that any manifest has shown.

## Proofs

Each module of proofs EXTENDS the module it is about and assumes nothing but that
module's named assumptions on its constants (`DatabaseAssumption` and so on),
which TLC evaluates in the runs. Unless said otherwise a theorem holds for every
value of the constants: any number of items, workers, pollers, pulls, controllers
and paths, and whatever the bounds.

**`WorkQueueProofs`** (run `lease`). `TypeCorrect`, `LeasesSound`,
`IntentNeverStale` and `IntentsAreAccepted`. `LeaseRowSound` is inductive together
with the types; `RowSound` is its part about one row, so that a step that writes
one row is shown to keep that one. `NoStaleIntent` needs more: `FormsSound` says
that the clock is never behind a row's `updatedAt`, and that a form which a later
write has overtaken shows a smaller `updatedAt` than the row; the lemma `StampStep`
shows that every mutation of the store stamps what it writes.

**`WorkQueueFencingProofs`** (runs `lease`, `lineage_gate`). The lemma `Effects`
says once what a step may do to leases: nothing (`Idles`), bring rows into being
(`Opens`), grant one (`Leases`), end one (`Ends`), or requeue or withdraw work that
nobody holds (`Settles`). The rest is by these five kinds. `AttemptsAreFenced`
rests on `HistoryFenced`, which adds to the property that no event ends in the
future and that an open attempt was opened by the worker that owns the row.
`ImplementsFencedWork` is the refinement of `FencedWork` under the mapping in
`WorkQueue`; each kind of step is an abstract action or a stutter.
`ChurnStaysBounded` is not inductive as it stands: `RoomToRelease` adds that a
claimed item has room for one more release, which is what the guard of the claim
is for, and time only takes releases out of the window. It is about the releases
the code counts, members' lease releases included; that these are all of workers is
false (finding 5). `ClaimsPickTheBest` needs
no history: coming before in the claim order is a strict weak order (`ClaimOrder`),
so the better of the two queries' first rows is first of both (`MergeIsFirst`).

The second half is about lineage (run `lineage_gate`): `ContractsStaySound`, over
lineages of any depth and shape. Every step writes lineage only into rows it
creates (`LineageEffects`); the invariant `LineageBounded` holds a row's contract
and its place below a root together, and a ceiling within a ceiling is within the
outer one, so that what a child may do is bounded by its root although
`assertSubset` compares it with its parent.

`BlockResultsStayKept` proves the third conjunct of `ViewsFaithful`: however often
an item is blocked and requeued, its `work.blocked` events are its current result
and `previousResults`. `ResultsCounted` adds what requeue relies on, that a blocked
row always carries a result to move, and that an item which does not exist has
none; only `Block` appends a blocked event, and it appends one (`BlocksAppend`).

**`PullRequestProofs`** (run `sweeps`). About the cure: `CureTypeCorrect`, `OneCure` and
`CompletionsStayMechanical`. Every step changes GitHub, enqueues one cure or moves
one (`CureEffect`). A cure is enqueued only where its source is unknown at that
very step, whatever the sweep read before, which is why `OneCurePerHead` survives
the awaits. For the completions the invariant adds `SinceExists`: what a running
call remembers is a head that exists, so that the patch it compares lies between
its beginning and now; heads are only added, and an ended pull request stays ended.

About the review gate: `GateTypeCorrect`, `ReleasesArePassed` and
`ReadyHeadsAreReviewed`. No step touches a completed review (`VerdictsKept`), so
that a pass which has found its head's review passed is right about it however
long it waits; `LocalSound` says which of its steps come after that. `Covered`
says that as long as nothing has failed, a mark which stands at an unreviewed head
has a pass that will take it back: one that marked an older head than it found, or
one that is already converting. `ReadyHeadsAreReviewed` therefore has the
hypothesis `faults = 0`, for any number of passes and pushes, held reports and
throwing cure sweeps; `sweeps` checks it under that bound. With a fault the
property is false, which is finding 1 (`review_crash`): a pass that dies between
the mark and the conversion leaves nobody to cover for it. `ReleasesArePassed` has
no hypothesis.

**`CoreControlProofs`** (run `core`). Nine theorems from one
invariant: `TypeOK`; `Ordered` (each kind of record has a newest one, and only
one); `ProcsSound` (what a synchronization knows of its candidate by where it is:
it validated, and it descends from the snapshot it was verified against);
`RecordsSound` (nothing is numbered or dated past the last transaction, and numbers
order the dates) and `OverridesSound` (an override is younger than its snapshot,
and the check it cites is kept). Every step is one of a few writes (`StoreStep`).
`TimesAgree`, `ReadinessEvidenced`, `SuppressionSafe` and `DeclarationsKept` follow
as invariants, `ActivationsAreContinuous`, `HardFailuresStand` and
`PruneIsInvisible` as properties of every step. `HistoryAccepted` has a hypothesis
of its own, `ContentsFixed`: no two commits hold different bytes of a profile
version under one path. Without it the statement is false, which is finding 4
(`core_rollback`); the commits of `core` satisfy it.

**`IssueImportProofs`** (run `sweeps`). `ImportTypes` and `ImportsAreSound`, for
any finite set of issues, any page size and page budget and any number of
imports. `ProposalsSound` is inductive with the types: a proposal is of an issue
that had none at the very step that wrote it, and both the enqueue and the
replacement write edges that some body of the issue stated (`ParseIs` bounds
them). `FoundSound` and `RefsSound` say what an import carries across its awaits:
candidates of distinct issues, and, while it replaces edges, a row of the issue
it is about. What is not inductive is that a complete import missed nothing:
`QuietSound` adds that before page `n` an import during which nothing moved has
found every issue of a rank the earlier pages cover. Pages partition the listing
by rank (`OrderedIs`), and a page that is not full has no rank after it
(`LastPage`, by counting), from which a complete import has them all. A change on
GitHub ends the quiet of every running import.

**`EnrollmentProofs`** (run `enrollment`). `EnrollmentTypes`, `EnrollmentVerifies`
and `ResumptionIsExact`, for any repositories, catalogs, answers and contents and
any number of passes. That the newest transaction verifies is inductive only with
all that it refers to: `LogInv` says of every transaction that it is `Sound`, which
means that it verifies as of its own sequence, that the contract of its kind
admits it, and that it is what its handler makes of the facts it names (`Made`).
Readings as of a sequence do not change when the log grows (`SameReading`), so a
transaction once sound stays so. `PassSound` says what each stage of a pass may
count on after an await: that the transactions it names are there and of the kind
it needs, not that they are still the newest. Those that must be the newest are
compared again in the transaction, and that comparison is what
`EnrollmentVerifies` uses. An idempotency key names the facts a record rests on,
so two records under one key would be one (`KeysDiffer`). `ResumptionIsExact` then
compares the context digest's fields with snapshot, answer and probe:
two contexts that agree have the same facts behind them, because each fact is a
function of what it was made of.

**`GitHubDeliveryProofs`** (run `control_plane`). About the audit: the invariant `AuditInv` says of
every walk in progress (`WalkSound`) that it has read all that is listed between
its cursor and the instant it was attempted, and of a complete one all that is
listed up to that instant: the list may lose entries at its end and gain at its
beginning, neither of which breaks that. `BoundaryStaysEvidenced` follows at the
report. For `ScheduleStaysRespected` the invariant adds that the time GitHub asked
for is never longer than the time until the next audit (`asked <= wait`), which
needs that a complete walk asks for nothing; what a walk was asked passes with the
time until it reports (`AgedSound`).

About the coverage, for any repositories, requests, audited deliveries and
histories: `CoverageTypes`, `CoverageVerified`, `AcceptedDeliveriesRecorded`,
`CoveredIsCovered` and `ReadingsAgree`. Again every transaction is sound as of its
own sequence (`EntrySound`) and stays so. `CoverageSound` is not inductive without
`GapsEndCoverage`: a gap that nobody has repaired is its repository's only one and
begins where the coverage of the repository ends, so that the next checkpoint is
refused and only a repair can go on from there. An audited delivery that counts as
evidence for a repair was recorded after the gap (`Evidence`), whichever runs did
so. `ReadingsAgree` has a part about every request, whatever the history, which
follows from the three readings' definitions, and one about the audits on record.

**`ControlDatabaseProofs`** (run `control_plane`). The invariant `DatabaseInv`: the
history of every backup with a manifest is the beginning of the history of the
database in use and ends with a transaction that was told; the staged copy is such
a beginning and not shorter than anything told (`StagedHasAll`, what
`verifyBackup`'s minimum is for); all identities in use were given out once. Of two
beginnings of one history the shorter begins the longer, so that the other backups
still fit after a restore, however many there are. `ToldStaysTrue` follows. For
`ProjectionsStayVerified`, every database there is, copied, staged or live,
carries `Verifies`: a commit appends above what a projection was built from, and a
prune builds it anew in the same transaction.

Only model-checked: liveness (`DraftsGetAttention`, `GoodRepositoriesEnroll`,
`AuditPartRecurs`), which is out of the prover's reach with all of ENABLED;
the two conjuncts of `ViewsFaithful` about `attempts` and `churningItems`, which fold
over histories, and what a fold computes needs induction over data; `FeedsByCooldown`, as the
window doubles with the streak and no backend reasons about powers; and
`SweepsTypeOK` and `ControlPlaneTypeOK` as they stand, which say that the story a
behaviour tells keeps its types: the components' own are theorems, of all
components but `MaintenanceFeeder`.

Two things the proofs showed about the models. `CASE` arms whose guards overlap
let TLA+ choose either arm; where the code is a chain of early returns the models
now say `IF ... ELSE IF`, so that the first guard decides (`Status`, `Outcome`,
`Refusal` and others; TLC had always taken the first arm, so no run changed). And
`GitHubAssumption`, `RequestAssumption` and `DeclarationAssumption` were implicit
in the inputs the runs enumerate.

## Not modelled

* Tokens of the MCP server and their scopes, `renameRepository`, the per-repository
  settings that no sweep here reads, `eventsSince` and the metrics window.
* The internal-dependency and settings sweeps, and `policy-authority.ts`, which
  compiles documents of unbounded text.
* The parsing and validation of Core documents (`core/validator.ts`), canonical
  encodings, and the registry's validators of payloads that no model writes.
* Git, HTTP, page layout, migrations (DDL in one transaction), the queue's backup
  (a file copy), access tokens and job health: I/O or read-only statistics.

## Plan

1. `Tokens` (mint, verify, revoke, scopes) and `renameRepository` against claims
   in flight.
2. `ArtifactRefresh`: the per-artifact merge against `recordPullRequestReady`.
3. The composition of `Enrollment` and `WorkQueue` over the eligibility hook,
   and of `SourceCoverage` and `DeliveryAudit` over the boundary.
4. Proofs: the types of the feeder, and that its streak is the answers' trailing
   run of nothings, which is the part of `FeedsByCooldown` without powers.
