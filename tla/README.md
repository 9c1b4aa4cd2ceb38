# Renovate in TLA+

Renovate looks for newer releases of a repository's dependencies and keeps, for
each group of upgrades, one *update branch* and one pull request. It keeps them
from run to run, while the base branches move, new releases appear and people
push to the same repository. This directory holds TLA+ models of the part of
Renovate where that gets hard, the TLC configurations that check them, and
proofs that TLAPS checks. Paths are relative to the repository's `lib/`.

## 1. The system

| part | state it keeps | operations | interacts through |
| --- | --- | --- | --- |
| global worker (`workers/global`) | list of repositories, commit limit of the process | one run per repository, one after the other | calls `renovateRepository` |
| repository run (`workers/repository/index.ts`, `process/`) | the configuration of the run | init, extract, look up, update, save; one retry after an automerge | everything below |
| git client (`util/git/index.ts`) | `branchCommits` (what `git ls-remote` showed), `branchIsModified`, `currentBranch(Sha)`, the clone, its remote-tracking refs and its HEAD | `initRepo`, `syncGit`, `checkoutBranch`, `isBranchModified`, `isBranchBehindBase`, `isBranchConflicted`, `prepareCommit`, `pushCommit`, `fetchCommit`, `mergeBranch`, `deleteBranch` | the remote repository, which others push to |
| branch answers (`util/git/*-cache.ts`, `set-branch-commit.ts`, `workers/repository/cache.ts`) | `getCache().branches`, `getCache().gitConflicts` | cached answers keyed by shas | read and written by the git client and by `writeUpdates` |
| repository cache (`util/cache/repository`) | a file (or S3 object) per repository | load, save, reset | outlives the run |
| `writeUpdates` (`process/write.ts`) | the list of branches, limits | `syncBranchState`, `canSkipBranchUpdateCheck`, `processBranch` per branch, fingerprints | git client, cache |
| `processBranch` (`update/branch`) | `reuseExistingBranch`, `isConflicted`, `forceCommit` | edited check, rebase decision, update of files, commit, automerge, PR | git client, platform |
| PR and automerge (`update/pr`, `update/branch/automerge.ts`) | PRs of the platform, limits | `ensurePr`, `checkAutoMerge`, `tryBranchAutomerge` | platform, limits |
| closing and pruning (`check-existing.ts`, `handle-existing.ts`, `finalise/prune.ts`) | closed PRs | ignore, delete, autoclose, reopen | platform, people |
| dashboard (`dependency-dashboard.ts`, issues of `platform/github/index.ts`) | an issue with a box per branch; `dependencyDashboardChecks` of the run | read at the start, act on ticks, rewrite at the end | people, who tick meanwhile |
| onboarding (`onboarding/branch`, `onboarding/pr`, `init/merge.ts`) | its branch and PR, `cache.configFileName` | is the repository onboarded? create, rebase, ask, prune | people, git client, repository cache |
| lookup (`process/lookup`, `versioning/npm`) | none; its answers are merged into the package file it reads | current version, filters, buckets, new values, rollbacks | registry, people who merge |
| GitHub's PR list (`platform/github/pr.ts`, `api-cache.ts`) | a copy of all PRs, kept across runs | list the news, reconcile, own writes | repository cache, GitHub |
| other platforms (`modules/platform`) | PR lists of a run | REST calls | network |
| HTTP (`util/http`, `util/promises.ts`, `util/cache/memory`) | remembered promises, queues per host | request, paginate | network, all lookups at once |
| GraphQL lists (`util/github/graphql`, `util/http/github.ts`) | page sizes, one of them kept across runs | paginate, shrink, grow | network |
| datasources, managers, presets, templates, package cache | none that lasts, or an expiry | parsing and look-ups | pure functions or I/O |

What makes it hard:

* **Three looks at the remote.** `ls-remote` at the start, a clone at the first
  use of git, a push per branch. A person may push between any two of them.
* **Answers that outlive the run.** "Has somebody edited it?", "is it behind its
  base?", "does it conflict?" are asked of git once and then taken from the
  cache as long as the shas match. A wrong or wrongly keyed answer misleads
  later runs, and no later run notices.
* **Crashes.** A run ends at any call; the push is done but the cache is not
  saved.
* **Steps that fail alone.** Most errors of one branch are swallowed and become
  that branch's result; what the cache records for it then matters.
* **Several actors on a PR or an issue**: people, other bots, the platform's
  merge, limits. A run reads at its start and rewrites at its end.
* **Copies with a date.** The PR list is brought up to date by the newest changes
  only; what the run writes itself is one of them.
* **Shared answers.** Lookups run together, share promises and a queue; an answer
  that failed is an answer, too.
* **Loops over runs.** What one run offers is merged and is the input of the next.

What must hold, by component: cached answers are true whenever they are used;
a person's edit is not overwritten; a branch that is kept as it is fits its
base; a branch whose update is skipped is up to date; every branch gets to its
current release in the end; limits are kept; what is merged was tested with what
was merged before, into its own base; upgrades to be automerged are in the end.
The copy of the PR list comes to be GitHub's; a PR a person closed is not opened
once more; a box that is ticked is acted on and not lost; nothing is updated before
somebody agreed to onboard; merging updates ends and never downgrades; a list
received in pages is complete and bounded; nobody waits for ever.

## 2. Modules

| module | component | composed with |
| --- | --- | --- |
| `BranchUpdate`, `BranchUpdateProofs` | update branches, their content: git client, cached answers, `processBranch` to the commit | `WriteUpdates`, through `processBranch` |
| `WriteUpdates`, `WriteUpdatesProofs` | all branches of a run: limits, PRs, merges, retry, pruning | |
| `GithubPrs`, `GithubPrsProofs` | the list of pull requests of the GitHub platform, and its cache file | implements `PrView` (refinement) |
| `PrView` | what that list promises: the abstract specification | |
| `Requests`, `RequestsProofs` | HTTP requests of a run: promises, queue, pages | `MCRequests` |
| `GraphqlPages`, `GraphqlPagesProofs` | two ways to list by GraphQL, and the page size that is kept | `MCRequests` |
| `Dashboard`, `DashboardProofs` | the Dependency Dashboard, across runs | |
| `Lookup`, `LookupProofs` | which updates a dependency is offered, and what merging them does | |
| `Onboarding`, `OnboardingProofs` | the onboarding branch and PR, across runs | |

Each specification has an `MC` module for its small instance, and a module of proofs for every
instance. `RequestsProofs` also proves what the composition in `MCRequests` promises.

`BranchUpdate` models the run, the git client, the branch answers, the cache on
disk, `writeUpdates` and `processBranch` up to the recorded commit: how the content
of a branch is decided. `MCBranchUpdate` gives it small instances.

`WriteUpdates` models what is done with several branches: the limits, PRs, merges,
the retry of a run, pruning. Of the content of a branch it keeps the release, the
author and the base commit. `MCWriteUpdates` gives it small instances.

The two modules meet in `processBranch`: `CheckEdited`, `DecideReuse`, `PushWithLease`
of the one are `PrEdited`, `KeepBranch`, `CommitBranch` of the other, here without what
comes after the commit. Of the cached answers `WriteUpdates` has the one about edits
(`saved`), because branches are deleted and merged on it; whether a branch is behind
its base it asks of the clone, and what a saved answer about that may do is the
subject of `BranchUpdate`.

### `BranchUpdate`: state

A commit is `<<ref, n>>`, the n-th commit ever made on that ref, so that shas
are never reused; base branches share a root commit. Of a commit's content the
model keeps what decisions depend on: its author, the base branch and base
commit its history reaches (`base`, `onto`), the release it proposes (`want`),
whether a person's edit is below it (`edited`), and its parent.

| variable | code |
| --- | --- |
| `commits`, `remote`, `want`, `baseOf`, `rebaseWhen` | the world: objects and heads of the remote, the newest release, resolved options |
| `disk` | the saved repository cache |
| `snapshot` | `config.branchCommits` |
| `cloned`, `origin` | `gitInitialized`, remote-tracking refs |
| `current` | `config.currentBranch`; `currentBranchSha` is `origin[current]` |
| `headOn` | HEAD of the clone: a base branch, or the commit prepared for a branch |
| `memModified` | `config.branchIsModified` |
| `branches`, `conflicts` | `getCache().branches`, `getCache().gitConflicts` |
| `todo`, `work`, `fingerprints` | the loop of `writeUpdates`, the locals of `processBranch`, `branch.branchFingerprint` |

### `BranchUpdate`: actions

A run is `InitRepo`, `Extract`, then for every branch, in any order,
`StartBranch` (`syncBranchState`, `canSkipBranchUpdateCheck`), `CheckEdited`
(`isBranchModified` and the returns that depend on it), one of `DecideByUser`,
`RebaseNever`, `DecideReuse` (`shouldReuseExistingBranch`), then `SkipUpdate` or
`UpdateFiles` (checkout, file updates, `isBranchConflicted`, `prepareCommit`),
then `PushWithLease`, or `PushByApi` and `FetchCommit`, and `RecordCommit`
(`setCachedConflictResult`, `setBranchNewCommit`); at last `SetBranchCache`
(`generateBranchCache` for every branch) and `SaveCache`. `EarlyReturn`,
`UpdateFails` and `PushFails` are the returns and swallowed errors in between,
`Abort` an error nobody swallows, or a killed process, at any step. The steps
are cut where another actor's push can make a difference: each looks at the
remote at most once.

`currentBranch` and HEAD are not the same. `checkoutBranch` sets both; `prepareCommit`
(`git checkout -B`, `util/git/index.ts:925`) leaves HEAD on the commit it made, and
`currentBranch` on the base. `isBranchConflicted` checks the base out only if
`currentBranch` is another (`:729`), so it may merge the branch into the commit of the
branch processed before: `MergedInto` is what HEAD then is, `GitConflict` what git may
say of it, and `HeadAfterMerge` where HEAD is left. An answer keeps, as history, what
HEAD was (`over`).

`CheckEdited` and `SetBranchCache` also have git fail to name the author of a commit
(`:669-673`), which makes the branch count as edited.

The world moves in between, at any moment: `BaseMoves`, `UserPush` (by a person or
an ignored author, with or without merging the base), `UserDelete` (if `Deletes`); and between runs
`NewRelease`, `Reconfigure` (another base branch or another `rebaseWhen`) and
`LoseCache`. Releases and configuration change between runs only, because a
run reads them before it processes branches: a later change is one for the next run.

### `BranchUpdate`: what is abstracted

* What extraction, look-ups and file updates compute is one number, the release
  (`want`). A reused branch is updated iff its release differs; `HasDiff`
  compares content. Groups with `update-lockfile` mixed with other range
  strategies (`reuse.ts:104-126`), which are never reused, are left out.
* `rebaseWhen=auto` is resolved to one of the other values.
* Whether a base branch is checked out by extraction depends on the cached
  extract: `Extract` lets any base branch be the last one that was.
* People only add commits to an update branch, or delete it. They do not move it
  back to an older commit. Only one Renovate works on a repository at a time.
* No base branch contains a commit of an update branch: merges are the subject of
  `WriteUpdates`.
* An update branch conflicts with its base if it lacks one of `ConflictCommits`, which no
  other update branch makes up for: two of them do not make the same change to the lines
  that such a commit changed. So a commit prepared for another branch conflicts wherever
  its base does, and maybe also where the base does not.
* Extracting, limits, schedules, labels and stability days are the one early
  return `EarlyReturn`; the renaming of a branch by `branchPrefixOld`, which comes before
  them, is left out. PRs appear only as requests for a rebase and as "an old
  PR that ended on this very head".

### `WriteUpdates`: state

| variable | code |
| --- | --- |
| `base`, `head`, `made`, `checks`, `prs` | the world: base branches as the number of their commits, heads of update branches and how many commits they ever had, the status of a head, the newest PR of each branch |
| `rel`, `proposed`, `fresh` | the world: the release an upgrade stands at, the upgrades the configuration asks for, PRs created in this hour |
| `phase`, `attempt` | where `renovateRepository` is; `canRetry` |
| `snapshot`, `cloned`, `origin`, `originBase`, `current`, `edited` | the git client, as in `BranchUpdate` |
| `prList` | `config.prList` of the GitHub platform |
| `left` | `max - current` of each limit in `workers/global/limits.ts` |
| `list`, `todo`, `work` | the branches of the attempt, those left of the loop (or of pruning), the one in `processBranch` |
| `saved` | `isModified` of the saved cache: the head an answer is about, whose author it is |
| `merged`, `committed` | history, read by properties only |

### `WriteUpdates`: actions

An attempt is `InitRepo`, `Extract`, `SetLimits` (`getPrsRemaining`,
`getBranchesRemaining`), then for every branch, in any order, `StartBranch`, the
returns `HandlePr` (closed or merged PR), `SkipOverLimit`, `PrEdited`, or
`KeepBranch` or `CommitBranch`; then `tryBranchAutomerge` (`NoBranchAutomerge`,
`MergeBranch`, `MergeBranchFails`), `ensurePr` (`WithoutPr`, `WithExistingPr`,
`CreatePr`, `LoseAnswer`, `NoPrCreated`, `CreateFails`) and `checkAutoMerge`
(`MergePr`, `NoMerge`); then `EndWrite` (`setBranchCache`, `saveCache`), and `PruneBranch`
or `SkipPrune` for every branch without an upgrade, and `EndRun`. A merge stops the loop
(`StopAfterMerge`); in the first attempt it leads to the second, which keeps the
count of commits and nothing else. `EarlyReturn`, `RepositoryChanged` and `Killed`
are the other ways out. `getBranchPr` reopens an autoclosed PR, in `SetLimits` and
in `StartBranch`.

The world: `BaseMoves`, `ChecksEnd`, `UserPush`, `UserCloses`, `UserMerges`,
`HourPasses` at any moment, `Withdraw`, `Return` and `Release` between runs.

Whether a branch is edited is answered as in `getCachedModifiedResult`
(`util/git/index.ts:633-645`): from memory; from the answer an earlier run saved about the
head that the run's *list* shows (`Cached`), whatever head the clone has; else by git, from
the clone. `EndWrite` saves the answers of the branches of the run. An answer that is filed
under another head than the one it is about is saved as none, because neither the
list nor a reopened PR shows that head again. Pruning has no use for saved answers:
`setBranchCache` has replaced the entries by those of the run's branches, and a branch
to be pruned is none of them (`finaliseRepo` comes after it), so there git is asked.

What is abstracted: conflicts, and cached answers about the base; git that fails to name an
author; requests on the dashboard, approval of PRs, comments, dry runs, GitHub's
own automerge. `rebaseWhen` is `auto`. Commits are pushed with git. An autoclosed
PR is younger than the seven days in which it is reopened, a person's closing is
of the newest PR, and a branch has no other open PR. `pruneBranchAfterAutomerge`
is on. A failed request while pruning ends like `Killed`, with the branch left; what
`pruneStaleBranches` does to one branch, `updatePr` and `deleteBranch`, is one step. The
status of a head is the one of the moment; the code remembers some answers of the run.

### `GithubPrs` and `PrView`

A pull request is its last change (`ver`, for `updated_at`), state and branch. Copies are
functions over the numbers: `server` is what GitHub has, `disk` the cache file, `mem` the run's
`pullRequestsCache`, `prList` is `config.prList`, whose order (newest first, own new ones at the
end: `appended`) is the relation `Precedes`. A run is `BeginRun` (`initRepoCache`: the file,
none, or one it resets), `BeginListing`, then either `ListPage` again and again (a page of the
newest changes, reconciled item by item, until the last item of a page is known) or, with nothing
cached, the pages of one paginated request, `pending` being those still to come and `received`
what came: `FirstPage`, `OtherPage` in any order, and `AllPages`; then writes of its own
(`CreatePr`, `UpdatePr`, `MergePr`, `ReopenPr`), each of which goes into `prList` and `mem` by
`CachePr`, except when the labels of a new PR fail (`LoseCreated`), then `Save` and, after it
as in the code, `AutoclosePr` (`pruneStaleBranches`). That closes, and gives a title that
ends with "- autoclosed", the PR that the run's list has as open, whatever people did to it
since: one they closed becomes `autoclosed`, which a later run reopens, and one they merged
`retitled`, which no later run finds by its title.
`EndRun` is the end or an error at any time. People change and open PRs between any two steps,
also between two pages.

`PrView` knows of one number per PR, and of a listing only that it begins, learns
something that is true, and ends with everything known that did not change since
and was not `exempt`. `GithubPrs!View` maps `server`, `mem` and `hidden` to it, and
`ImplementsView` is the refinement, pages, reconciliation and own writes included.
What is `exempt` are the code's three gaps, stated exactly:

* a PR that GitHub changed *before* another that the copy already has at its latest version
  (`HiddenIn`). A listing goes by date and stops at the first page whose last item is known; a
  run's own write is known, and is at the top;
* with nothing cached, what is beyond the pages a first listing asks for (`Limit`, `Beyond`);
* a PR that a change by somebody else moved over the border of pages while the listing lasted
  (`Shift`, `MissedBy`): a page of the first listing that was received already, or one a later
  listing has behind it.

Abstracted: titles other than "autoclosed", everything of a PR that no decision of the
list reads, `updated_at` of equal value, drafts; `lastModified`, which the code writes and never
reads. A run saves after it listed: one that asks for no PR until it prunes (no hourly limit, no
branch to process, `finalise/index.ts:17`, `24`) saves what it loaded, as `EndRun` does. People do not change a
PR's branch.

### `Requests` and `GraphqlPages`

`Requests`: callers (`Main`, and lookups that run at the same time) ask for URLs of one
host. `Ask` is `Http.request` up to its first `await`: look into `memory`, put what is
new into the host's queue (`tasks`; the first `Limit` are running), remember the promise.
`Answer` settles one; `Return` is the `await`. `List` and `OtherPages` are a list of
pages, whose first page says how many there are. `ResetCaches` and `InitializeCaches`
begin a run. Promises nobody can reach any more are used again.

`GraphqlPages`: `TagsPage` and `TagsShrink` are `doPaginatedQuery` and
`doShrinkableQuery`; `IssuesPage`, `IssuesShrink`, `EndIssues` are `queryRepoField`
with `getGraphqlPageSize` and `setGraphqlPageSize`, and `ADayPasses` the 24 hours of
that record. GitHub may say that there is a next page and not where
(`GivesCursors = FALSE`). A page of issues without `pageInfo` (`util/http/github.ts:451`) is
left out, since every query with pages asks for it.

The two parts share nothing but the network; `MCRequests` runs either of them, and a
variable says which.

### `Dashboard`

A branch is in one of the stages its box can show (waiting for approval, limited, with
an open PR, with a closed one), and its box shows one of these or, after an error, `"retry"`.
A run is `ListIssues`, `FindIssue` (`readDashboardBody`),
`ProcessBranch` in order, with what a tick makes it do, or `FailBranch`, an error that becomes the
result of the branch (`update/branch/index.ts:693`) before or after it was updated, `Refresh` (the second look of
`ensureDependencyDashboard`, past the memory), and `ensureIssue`: `CloseDuplicate`,
`Write` or `Create`; or `ensureIssueClosing`: `CloseDashboard`, `Closed`. Which issue is the dashboard
depends on the order GitHub lists them in, by update: `later` says for each number which issues
were updated after it, `order` is that order when the run listed, and `IsChosen` is the issue
`ensureIssue` and `findIssue` take. `Automerge` ends
the loop and starts the run again once, as `Forget` with all that is remembered. `Abort`
and `RequestFails` are errors. `memory` is the remembered GET, because `ensureIssue` reads
the body through it and must not see boxes ticked after `Refresh`: it would keep the old
text. People tick a box or the box for all of a kind, close and reopen at any moment.

`owed` is history: the ticks nobody acted on yet. A tick leaves it when a run acts on it
and when its branch changes so that nobody asks any more (also when the run closes the
dashboard because the branch is gone, `CloseDashboard`). Otherwise it leaves it in five
ways, each of which loses a tick in the code, and each of which is stated by what happened and
not by the tick's absence:

1. a rewrite of the issue did not see it: it was made in the time between the last
   look and the rewrite, one or two requests long (`late`);
2. the rewrite gives its branch a box of another kind, since carrying ticks over goes by
   the text of the box (`dependency-dashboard.ts:414-434`);
3. its branch failed in the run that read the tick: the tick is not acted on, and the box that
   is written is another one and not ticked (`FailedAsked`; `:276-287`, `423-425`);
4. it is on a duplicate that `ensureIssue` closes (`github/index.ts:1052-1056`), which is not the
   issue the run read (`CloseDuplicate`). That the run may close the issue it did read, with
   what was ticked there, is not excluded, and `TicksKept` would show it;
5. a person closes the issue.

### `Lookup`

A version is a number (2.1.0 is 2101, 2.1.0-beta is 2100), a value in the package file a
version or carets joined by `||`. `Updates` is `lookupUpdates` as one operator over the
registry, the value, the locked version and the configuration; a run (`Look`) offers it,
and `MergeOne` puts one into the package file, maybe after the registry changed again.
The registry publishes, withdraws, deprecates, tags and lets releases age.

Abstracted: npm's versioning only, without major 0; other operators than `^`; `auto`, which is
one of the strategies that are modelled; digests, `followTag`, replacements. A prerelease is
compared with the lowest version of a range alone (`IsLessThanRange`; semver's `ltr` also
rejects one inside the bounds that the range does not match). The early
return for a registry without releases (`lookup/index.ts:112-118`) is left out: with `rollbackPrs`
off the model may still offer to pin a locked version then. What gets locked is computed at the
merge, as if the lock file were made again then.

### `Onboarding`

`world` is the default branch (with or without a configuration), the onboarding branch
(whose commit, on which commit of the default branch), its PRs. A run is `BeginRun`,
`CheckName`, `LookForConfig`, `CheckClosed` (`isOnboarded`), then `Rebase` or `Create` (or
`Reopen`, in `getBranchPr`), `CheckOut`, `EnsurePr`; or, if onboarded, `MergeConfig` and
`UpdateRepo`; then `SaveCache`, and `PruneUpdates` or `PruneOnboarding` with `DeleteBranch`.
`Changed`, `ConfigGone`, `NothingToDo`, `CreatePrFails` are its errors, and `Killed` any.
People merge, close, rename and edit, move the default branch with and without a
configuration, and open PRs of their own from that branch.

Abstracted: the platform is GitHub and commits are pushed with git; the file in the
onboarding branch is always the same; update branches are one fact; no forks, no dry runs.
People add commits to the branch or delete it. Requests that are remembered within a run are
asked anew (`MergeConfig` after `CheckName`), so the model has more ways to fail than the
code; a clone before `LookForConfig` (`semanticCommits=auto`), a reopening that fails between
its two requests (`github/index.ts:716-737`), a second look for an autoclosed PR in
`EnsurePr`, and transient errors that count as a missing file (`check.ts:85`) are left out.

## 3. Properties and runs

| property | kind | what it says |
| --- | --- | --- |
| `TypeOK` | invariant | types of memory, both caches and the remote |
| `UnmodifiedIsTrue` | invariant | no answer "not modified" is about a head that a person pushed |
| `UsableBehindIsTrue` | invariant | a saved "is behind" the next run would use is true (one base branch) |
| `UsableConflictIsTrue` | invariant | a conflict answer that would be used is true, unless git merged into something else than the base: "conflicted" over a commit prepared for another branch, or any answer over another base that HEAD had stayed on |
| `ReusedIsCurrent` | invariant | a branch that is kept merges into its base (unless git answered over another base), and contains it if `rebaseWhen` says so (`behind-base-branch`: one base branch) |
| `SkippedIsUpToDate` | invariant | a branch whose update is skipped has its current release (one base branch, no early returns) |
| `SeenEditsKept` | action | a push that replaces a person's commit was asked for, or the run's `ls-remote` did not show that commit |
| `Converges` | liveness | if runs go on ending normally, every branch settles at its current release |

| property of `WriteUpdates` | kind | what it says |
| --- | --- | --- |
| `TypeOK` | invariant | types; the branch in `processBranch` is one of the attempt's and not still to do |
| `WithinLimits` | action | a PR the run opens is not one too many, concurrently or for this hour, and neither is a branch it creates |
| `CommitsLimited` | invariant | a process pushes no more commits than allowed, over both attempts |
| `MergesFollow` | action | what is merged contains what Renovate merged into that base before (one base branch) |
| `MergesIntoOwnBase` | action | what is merged goes to the base branch of its upgrades |
| `SeenEditsNotDeleted` | action | a person's commit that the run's list of branches shows is deleted only if its PR was closed, or ended on that commit |
| `AutomergesHappen` | liveness | if runs go on ending, every upgrade to be automerged is merged, or left to people, or waits for room in a limit that branches left to people use up |

| property of the other modules | kind | what it says |
| --- | --- | --- |
| `GithubPrs.ListMatchesCache` | invariant | the list of a run is what its persistent cache holds |
| `GithubPrs.OnlyOwnWritesHide` | action | after a listing only the run's own writes hide changes of others from later listings; a listing leaves what the three gaps above explain |
| `GithubPrs.ClosedNotRecreated` | action | a PR closed or merged before the listing is not opened once more, unless pruning gave it the title of an autoclosed one |
| `GithubPrs.ImplementsView` | refinement | every behaviour is one of `PrView` |
| `GithubPrs.ChangesArrive` | liveness | again and again the saved copy has every change but hidden ones |
| `Requests.SentOnce` | invariant | a run sends a GET once, however many ask at the same time |
| `Requests.ReadsForward` | action | what the main thread reads of a URL does not go back in time |
| `Requests.CallsReturn` | liveness | every call returns |
| `Requests.FailuresForgotten` | liveness | a failed promise answers no request of a later run |
| `GraphqlPages.ListedInFull` | invariant | a list has each item once, in order, but for what limits cut off |
| `GraphqlPages.ListsBounded` | invariant | what is received is bounded even if GitHub names no cursor |
| `GraphqlPages.SizeRecovers` | liveness | the page size comes back to the largest |
| `Dashboard.TicksKept` | invariant | a tick nobody acted on is still on the open issue, but for the five ways to lose it of section 2 |
| `Dashboard.TicksAnswered` | liveness | again and again no tick waits: each was acted on, or lost in one of these ways |
| `Dashboard.OneDashboard` | liveness | in the end at most one dashboard is open |
| `Lookup.Settles` | liveness | merging what is offered comes to an end |
| `Lookup.NeverDown` | action | a merge installs nothing older or less stable; its premises are discussed below |
| `Lookup.StrictDoesNotFlap` | action | with `internalChecksFilter=strict` what a bucket is offered does not go down while releases are only added and the current version cannot |
| `Onboarding.PeopleDecide` | action | nothing is updated before somebody agreed; what was closed is not asked again |
| `Onboarding.SeenEditsKept` | action | while its PR is open, an edit that the run's clone has is kept |
| `Onboarding.Settles` | liveness | onboarding ends: renovated, disabled, or an up-to-date PR waits |

| run | expected | what it shows |
| --- | --- | --- |
| `BranchUpdate_behind` | pass | answers about edits and being behind, and edits themselves, with one base branch that moves twice, `rebaseWhen=behind-base-branch`, faults, crashes, lost caches |
| `BranchUpdate_bases` | pass | conflict answers of two branches, which share HEAD, are kept apart when branches are moved between two bases and commits go through the API |
| `BranchUpdate_converge` | pass | liveness under fairness, with `never` and `behind-base-branch`, and that skipping is right |
| `WriteUpdates_limits` | pass | three branches compete for one PR, one PR per hour and two branches; one of them is of an alert and knows no limit; upgrades come and go, people close PRs, answers are lost |
| `WriteUpdates_automerge` | pass | one upgrade is automerged as a branch, one as a PR, one commit per process; people push and merge; faults anywhere; answers about edits saved by earlier runs |
| `WriteUpdates_converge` | pass | liveness under fairness, where everything is limited to one and checks may fail |
| `WriteUpdates_base` | violation of `MergesIntoOwnBase` | the update of a branch of another base is skipped, and the branch merged into the default base |
| `GithubPrs_sync` | pass | one run after the other lists, writes, saves or fails while people change PRs; refinement of `PrView` |
| `Requests` | pass | a main thread and a lookup on a queue of one slot, one failure; lists in shrinking pages |
| `Dashboard` | pass | three branches, two ticks at any moment, one failure of a request, of a branch or of the run, one event, a restart after an automerge |
| `Lookup` | pass | nine configurations over six versions, two events of the registry, merges at any moment |
| `Onboarding` | pass | five settings of the bot, five events of people, clocks and crashes |

The limits hold of the steps of a run, and only of PRs the platform answered for: a
PR whose creation failed after it was opened (`LoseAnswer`) is counted nowhere until
the next attempt, and people reopen and propose as they like between runs. The
commit limit holds for pushes of update branches; merges are counted and not checked,
commits through the API are not counted (not modelled).

**Known disagreements.** `WriteUpdates_base` is the one that a run holds, and
`PROJECT.json` "findings" quotes the lines. The others were met while modelling and
explain the premises of the properties that do hold; each could be shown by a run of the
instance named, with the property named:

* A push by a person between `ls-remote` and the clone is overwritten: the answer "not
  modified" is older than the lease (`util/git/index.ts:637-644`, `1044`). So
  `SeenEditsKept` is about what `ls-remote` showed. `docs/usage/updating-rebasing.md:25`
  says that an edit stops all updates.
* With several base branches `isBranchBehindBase` asks git about the base checked out
  last and stores the answer for the branch's own (`util/git/index.ts:605-612`). So
  `UsableBehindIsTrue` is checked and proved with one base branch, and the part of
  `ReusedIsCurrent` about `behind-base-branch` too. For the same reason `MergesFollow` fails
  with two: a branch that is up to date with the base checked out last is kept, and merged
  into its own without what was merged there before (TLC finds it).
* A lost cache and an early return record a fingerprint for a branch that was never
  looked at (`process/write.ts:144-147`). So `SkippedIsUpToDate` is checked and proved without
  early returns (with them TLC violates it), and with one base branch: a branch
  whose base was changed may record a fingerprint in a run that leaves it as it is, and is
  skipped in the next one (TLC finds that, too).
* `isBranchConflicted` may merge a branch into the commit prepared for the branch before, and the
  answer is stored for the base (`util/git/index.ts:727-733`, `925`). It is then "conflicted"
  where there is no conflict, is believed until the base or the branch moves, and makes
  a run rebase a branch that needed no rebase. TLC finds it in the instance of
  `BranchUpdate_bases` as soon as `UsableConflictIsTrue` does not except it.
* If the branch is gone from the clone there is no merge to abort, the clean-up fails, and HEAD
  stays on the base branch that was checked out for the question while `currentBranch` is the other
  (`util/git/index.ts:742-755`). What is asked next about that other base is answered over the
  wrong one, both ways. It seldom comes to that: such a branch is said to conflict, is updated, and
  the update checks its base out. It takes two bases, one branch that is deleted between
  `ls-remote` and the clone and is kept nevertheless (edited, overridden, its update skipped),
  and another one after it. No run has all of that, so that this exception is enough
  is shown by the proof alone.
* A commit of a person's that the clone shows and the list does not may be deleted. The list
  shows a head about which the last run saved "not modified"; that answer is taken, since it is
  looked up by the list's head (`util/git/index.ts:636-645`), and a 502 of `createPr` deletes the
  branch (`update/pr/index.ts:384-389`), the new commit with it. The lease protects the commit
  from a push, nothing protects it from the deletion. Likewise when an old PR of the branch ended
  on the head that the list shows: `processBranch` overrides whatever was pushed since
  (`update/branch/index.ts:248-276`). So `SeenEditsNotDeleted` is about what the list shows; with the
  clone's head in its place TLC violates it.
* A PR that a person merges after the run listed it, in the run that prunes its branch, gets the
  title of an autoclosed one (`finalise/prune.ts:55-63`). No later run finds it by its title, and
  opens it once more if the upgrade is proposed again; one that a person closes meanwhile is
  reopened. So `ClosedNotRecreated` excepts both.
* Ticks on the dashboard are lost in the ways 1 to 4 of section 2; 2 includes a tick on a
  branch whose box was that of an error, made while the next run went on: once that run has
  updated the branch, its box is another one.
* `AutomergesHappen` excepts upgrades for which limits leave no room: a branch that a person
  edited, or whose checks fail, counts as long as it is there.
* With `platformCommit` a person's commit fetched after the API call is recorded as
  Renovate's own (`util/git/index.ts:1073-1077`). So `UnmodifiedIsTrue` is about git pushes.
* `getBranchPr` reopens an autoclosed PR whatever the limit (`github/index.ts:686-733`). So
  `WithinLimits` is about PRs that are opened.
* A run's own write to the PR list hides older changes by others from the next listings
  (`api-cache.ts:64`, `31-33`). So `ClosedNotRecreated` and `ChangesArrive` except `hidden`.
* A PR that somebody's change moves from a page to come to one that was received, while a
  listing lasts, is missed: without `Shift` TLC shows it for a first listing of three pages and
  for a later one that asks for a second page. It is `hidden`, too.
* Versions may go down where `NeverDown` has a premise. Each was found by TLC on a larger
  instance than the one of the run: a pin or one more caret computed for the newest
  version of a range that has another newest one when it is merged; `replace`, which puts
  one caret in the place of several; an installed version that was deprecated; unstable versions
  somebody asked for. An offer may flap in spite of `strict` where `StrictDoesNotFlap`
  has one: the current version of `bump` is the lowest of the range, which a release of an
  older line lowers; a deprecated one is current only for want of others.
* "Rebase all" ticked during a run is lost when the issue is rewritten: only boxes of
  branches are carried over (`dependency-dashboard.ts:414-434`). So `RebaseAllInRun` is FALSE.
* With `requireConfig=optional` and `onboarding=false` the cached name of a configuration
  file that was removed is never forgotten, because `isOnboarded` returns before it looks
  (`onboarding/branch/check.ts:57`), and `detectRepoFileConfig` fails on GitHub's 404 in every
  run from then on (`init/merge.ts:53`). `docs/usage/self-hosted-configuration.md:674` has such
  a repository "processed regardless of config file presence". So `MCOptions` leaves it out.

**Bounds of `BranchUpdate`.** Branches share the clone, its HEAD, `current` and the answers per
base branch. `BranchUpdate_bases` has two, so that one is asked about while HEAD is the
commit prepared for the other, and two bases, between which both are moved; there the first
base moves once (`OneMove`), to a commit that conflicts, each branch is pushed to once
(`MaxCommits = 1`), and nobody else pushes or deletes. The other runs have one branch: what
they are about is kept per branch, and with one base `current` does not change. In
`BranchUpdate_behind` the base moves twice (`TwoMoves`), so that an answer may be about an older, the
present and a conflicting base commit (the second one conflicts); `MaxCommits = 3` is a commit of
Renovate's, one by a person or another, and a further one on top, the shortest
history in which an answer can outlive two changes. In `BranchUpdate_converge`, `MaxWant = 2` is one
release beyond the first. Runs are not bounded: any number of them interleave with these
changes. A push needs room for one more commit, so a run at the bound may only
abort there; `Abort` is in every instance, and `BranchUpdate_converge` is
arranged (no people but for deletions, one base commit, `MaxCommits = 3`) so that the bound is
not what settles a branch.

**Bounds of `WriteUpdates`.** Two branches are what a merge of one and a limit used
up by another need; `WriteUpdates_limits` has three, so that an alert may use up what two
others compete for. Limits are 1 (two branches there), the smallest that can
be both met and exceeded. `MaxMade` bounds the commits of a branch: 3 allow a branch to be
withdrawn and proposed again twice, 2 allow one of Renovate's and a person's
(or a rebase); `Withdraw` and `Release` leave room for the commit they call for, so the
bound does not stop a run. In `WriteUpdates_converge` no branch gets to six commits, and
9 are allowed; the base moves by itself up to three commits. Checks end green
or red there, green in `WriteUpdates_automerge`, where a red one would only lead to a
PR as other ways do, and not at all in `WriteUpdates_limits`, where nothing is merged: that the
limits hold with automerge, through the retry, is what the theorem adds. Symmetry is used between the branches
without an alert, in a run without liveness.

**Bounds of the others.** `GithubPrs`: four PRs, up to two of them of somebody else, five changes,
and one PR per page, so that as few PRs as there are take up the three pages of the first
listing (`PageLimit = 3`: a third page is asked for together with the second, in any order, and
a fourth PR is beyond the limit) and a later one asks for a second and a third page. A
change between two pages, a page that ends on a known PR above an unknown one and a
listing that stops at once all happen. `Requests`: two URLs, a slot
of one, three calls a run and one failure let a lookup and a list wait for each other's promises.
`GraphqlPages`: six items in pages of five, two, one, with four errors: each size shrinks to
the smallest and past it. `Dashboard`: three branches are what a box for three PRs needs, two
numbers a duplicate; one failure and two ticks meet in any order: a branch fails in the run that
read its tick, and in the next one a tick made since meets its `"retry"` box. `Lookup`: two minor
versions, two majors, one prerelease, a range of two carets after a widening; two
events are a release and its withdrawal. `Onboarding`: five events are, e.g., closing,
renaming, deleting, moving and a crash; runs are not bounded.

**Fairness.** In `BranchUpdate` and `WriteUpdates`, `FairSpec` asks for `WF_vars(Run)`: Renovate is started again and
again, and a process that runs takes its next step. Nothing is assumed of
people or of crashes. A run that crashes every time proves nothing, so `Converges`
has "infinitely many runs save their cache" as its premise, and "the
configuration is at last left alone"; releases are finite by `MaxWant`. `WriteUpdates` also asks that checks end
and hours pass, which is what CI and clocks do; the premise of `AutomergesHappen` is
that infinitely many runs end.

In the other modules failures are bounded, so no premise is needed: a run that is started
goes on (`WF_vars(Work)` of `Dashboard` and `Onboarding`, where one run follows another), what
the host was asked it answers or fails (`Requests`), days pass and issues are listed again
(`GraphqlPages`; strongly fair, because a listing under way disables both), releases age and
people merge (`Lookup`: it is about what merging leads to). `GithubPrs` asks that a listing
that stays in its phase takes a step again and again (`ListingFairness`), which is weaker
than fairness of each page, and that a run that saved ends. `Lookup` may stop: its run does
not check for deadlock.

## 4. Proofs

TLAPS checks that every safety property of the passing runs, invariant or action property, and
the refinement of `PrView` hold for all values of the constants: any number of branches, base
branches, PRs, issues, URLs, versions, and any bounds. Nothing is assumed but the named
`ASSUME`s of the modules (types of constants, finiteness of the branches, null values that
are no values), which TLC evaluates on every run, and the hypotheses in this table, which
are there because TLC violates the property without them:

| theorem | hypothesis | without it |
| --- | --- | --- |
| `BranchUpdateProofs!EditsNotForgotten`, `SeenEditsAreKept` | `PlatformCommit = FALSE` | a person's commit is recorded as Renovate's own |
| `BranchUpdateProofs!UsableBehindsAreTrue` | `SingleBase` | the answer is about another base branch |
| `BranchUpdateProofs!ReusedAreCurrent` | `SingleBase`, or no `behind-base-branch` | the same |
| `BranchUpdateProofs!SkippedAreUpToDate` | `SingleBase`, no early returns (`~Faults`) | a fingerprint for a branch left as it was |
| `WriteUpdatesProofs!MergesFollowOneBase` | `SingleBase` | kept for being up to date with another base |
| `DashboardProofs!TicksStay` | `~RebaseAllInRun` | the box for all is not carried over |

`RequestsProofs!GetsSentOnce`, `NeverReadsBack` are about `Requests!Spec`, the other three theorems
about the composition `MCRequests!MCSpec`. All others are about the `Spec` of their module.

Each proof has the same shape: an inductive invariant, stated as a conjunction of named parts;
a lemma per part and action, or group of actions; `Init => IInv`, `IInv /\ [Next]_vars => IInv'`,
`IInv => Inv`, put together by PTL. What the parts say, and why the property needs them:

**`BranchUpdateProofs`.** `TypeInv` adds to `TypeOK` that every sha in memory, in the clone and in
both caches is that of a commit that was made (`ShasKnown`, `EntriesKnown`), and that `work`,
`todo` and the branch's entry go together (`InProcess`); without these `CommitAt(origin[br])` has
no type. Most steps need only `Forward`: heads never return to an older commit and
commits never change, so an answer about a sha stays one.

* `EditInv` (`UnmodifiedIsTrue`, `SeenEditsKept`). `Superseded`: if the clone's head of a branch
  differs from the one `ls-remote` showed, so does the remote's. An answer computed from
  the clone is stored under the sha of `ls-remote`; this is why that does no harm. `Checked`: a
  branch past the edited check, and not overridden, has "not modified" in memory.
* `CacheInv` (`UsableConflictIsTrue`). A run sees a base branch move one way (`BasesInv`); what it
  pushed is on the base commit of its clone (`PushedInv`); "no conflict" holds for the base
  commit it is stored with, "conflicted" as long as that base has not moved and if HEAD was the base
  (`ConflictsInv`). "No conflict" over a commit prepared for another branch is as good as over the
  base, because that commit stands on the base asked about. Nothing is said of an answer
  given over another base.
  A commit is recorded as free of conflicts with a base sha it was not made on, the one of
  `ls-remote`: it contains a younger one.
* `BehindInv` (`UsableBehindIsTrue`): the same for being behind, where both directions of the
  answer have their own condition. `ReusedInv` (`ReusedIsCurrent`) needs both.
* `SkipInv` (`SkippedIsUpToDate`). `PrintInv`: a fingerprint vouches for a commit, that it has the
  release of the fingerprint, or that it was left alone as edited or because of
  `rebaseWhen=never`; said separately of the file, of an entry not yet reached, of the branch
  in hand, and of what is about to be saved. `AnsweredInv`, `WantInv`, `HandInv` carry this
  through `processBranch`.

**`WriteUpdatesProofs`.** `IInv` relates the loop, the clone and what is known of edits: a branch still,
or again, at the commit of the run's list was there when the run cloned (`CloneInv`); edits are
learnt in the pass over the branch (`EditInv`), from the saved answer about the list's head or from
the clone; so a branch kept to the end of that pass is not a person's by the list or not by the
clone, or is overridden (`PassInv`), and if the list still shows the head, both are that head; what is pushed and what is left stay together
within the limit, over both attempts (`CommitInv`). `CommitsLimited` and `SeenEditsNotDeleted` follow.
`LInv` (`WithinLimits`): what is left of each limit and what is there already, counted as the run
counts it, stay within the limit (`PrsInv`, `HourInv`, `BranchesInv`); a PR the run does not
know of, because its answer was lost, has a title of its own (`TitleInv`), so the run is not at
`ensurePr` with it. `MInv` (`MergesFollow`): until a merge ends the loop the clone is not older
than the merges (`BaseInv`), others only add to branches (`OntoInv`), and the branch in hand, if it
may be merged, stands on what was merged (`FollowInv`).

**`GithubPrsProofs`.** `CopyInv`: copies hold only what GitHub had, and what it still has if the version
says so. `ListingInv` says how far a listing got: above the page to ask for next, every
unchanged PR of Renovate's is known, and no known one is on that page or below it and above one
that is not known (`PagesRead`); of a first listing, every PR is received or on a page to come
(`PagesReceived`); what breaks this is in `hidden`. So a page that ends with a known PR
ends the listing without a loss, which is all `PrView` asks (`ImplementsPrView` goes action by
action: initial states, then a step or a stutter for each). `ClosedNotRecreated` and
`OnlyOwnWritesHide` use the same invariant.

**`RequestsProofs`.** A request not answered is in the queue, once, and somebody waits for it
(`QueueInv`), so its promise is not reused (`UseInv`); a URL the memory has no promise for was not
asked for (`OnceInv`); what the main thread waits for is what the caches remember, and none of
that is older than what it saw (`ReadInv`). **`GraphqlPagesProofs`**: what was received are the first
items, as many as the cursor says, unless a page came without its cursor (`ReadInv`), and it is
bounded by the pages or by what is still wanted (`BoundInv`). `MCRequests` is shown to implement the
specification of either part, and the theorems carry over.

**`DashboardProofs`.** A run rewrites the issue from what it remembers of it. Up to the last look a
tick nobody acted on is on the issue and is no check of the run (`ProcessInv`); from then on a
tick that is not in the remembered body came after that look, unless it is on another issue, its
box changes its kind or its branch failed (`EnsureInv`); the dashboard it found is open on its list,
is the one `ensureIssue` chooses and so no duplicate it closes (`FoundInv`); it closes the last one
only when no branch is left (`CloseInv`); and if it found none, nothing is ticked on what was
listed (`UnfoundInv`).

**`OnboardingProofs`.** A run that looks for an agreement misses none (`AgreeInv`). As long as its PR list
has no open PR of its own there is none, and nobody decided about one (`ListInv`): the list is
read once, but only Renovate opens these PRs. A branch that `ls-remote` did not know was not there
when the run began, and its clone has none (`SeenInv`).

**`LookupProofs`.** Versions are numbers of four digits; the lemmas on digits say how majors, minors,
carets and `Max` go together, and that a new value allows its version (`NewValueAllows`).
`OfferInv`: until a merge each offer is a rollback, a pin, or the new value for a newer
version than the one the dependency was at, which is still the current one if nothing changed.
`NeverDown` is then a matter of what the carets of the new value match: pinned, moved, widened and
kept ranges, with and without a lock file, each have a lemma. `StrictInv`: what was offered under
`strict` stays published, checked and of its bucket through additions, and the current version
only rises (`AdditionsRaiseCurrent`); so a later pick from that bucket is no older, and if the
release has meanwhile left the bucket, what is in the bucket now is newer (`BucketsRise`).

**Only model-checked**: the liveness properties (`Converges`, `AutomergesHappen`, `ChangesArrive`, `TicksAnswered`,
`OneDashboard`, `CallsReturn`, `FailuresForgotten`, `SizeRecovers` and both `Settles`), because
liveness under fairness and ENABLED are out of the prover's reach; and `MergesIntoOwnBase`,
which is violated. No module declares a RECURSIVE operator.

## 5. Plan

What could still be proved, in this order:

1. What liveness rests on and is no liveness itself: that a run always has a next step until it
   ends, and the ranking of `Lookup.Settles` (each merge makes one of finitely many things
   newer).
2. `MergesFollow` and `ReusedIsCurrent` with several base branches under the weaker hypothesis that
   the base checked out last is the branch's own.
3. `SkippedIsUpToDate` with early returns that come after the fingerprint is known.

## 6. Not modelled

* **Datasources**, and the way several registries of one package are merged: I/O and parsing;
  a registry is an input of `Lookup`. The package cache is a map with an expiry.
* **Managers, other versionings, presets, configuration, migration, templates, changelogs,
  logging**: pure text processing or I/O with no state shared between steps. These are most of
  the repository's lines, and a model of them would be a transliteration.
* **Grouping, flattening and sorting of updates**: pure functions without an interesting
  invariant; their result is an input of `BranchUpdate`, `WriteUpdates` and `Dashboard`.
* **Configuration migration's branch and PR**: the steps of `Onboarding` without its questions.
* **Other platforms**: REST adapters around the same git client.
* **Submodules, private keys and `refs/renovate/*`**: no decision depends on them.
* **Schedules, stability days of a branch, labels, approvals, comments**: early returns of
  `processBranch`, in `BranchUpdate` and `WriteUpdates` one nondeterministic step each.
* Retries inside `got`, the back-off of git (`util/git/index.ts:100`) and abort signals.

`PROJECT.json` lists every part with its status.
