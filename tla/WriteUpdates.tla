---------------------------- MODULE WriteUpdates ----------------------------
(***************************************************************************)
(* One Renovate process opens, automerges and prunes the branches and pull *)
(* requests of a repository, within the limits its configuration sets,     *)
(* while checks finish and people push, merge and close.                   *)
(*                                                                         *)
(* A process renovates the repository once, and once more if the first     *)
(* attempt automerged something.  An attempt lists the branches there are  *)
(* (snapshot, git ls-remote), clones when it first needs to (origin),      *)
(* lists the pull requests (prList), counts what is left of each limit,    *)
(* and takes the proposed branches one after the other.  How a branch's    *)
(* content is decided and cached is the subject of BranchUpdate.           *)
(***************************************************************************)
EXTENDS Integers, FiniteSets

CONSTANTS
    Branches, Bases, DefaultBase,
    BaseOf,           \* per branch, the base branch of its upgrades
    Automerge,        \* per branch, "none" or an automergeType: "pr", "branch"
    Alerts,           \* branches of vulnerability alerts: no limit stops them
    NoHead,           \* the head of a branch that does not exist
    NoWork,           \* no branch is being processed
    PrCreation,       \* "immediate", "not-pending" or "status-success"
    PrLimit, BranchLimit, HourlyLimit,  \* per repository; 0 is no limit
    CommitLimit,      \* prCommitsPerRunLimit; 0 is no limit
    Faults,           \* early returns, failed requests and killed processes happen
    LostAnswers,      \* a request of createPr fails after the one that opens the PR
    People,           \* what people do: "push", "merge", "close", "withdraw", "release"
    CheckResults,     \* how checks may end
    MaxMoves, MaxMade, MaxPushed, MaxRel   \* bounds: a base's commits, a branch's, people's, releases

ASSUME ConstantsAssumption ==
    /\ DefaultBase \in Bases /\ Branches \cap Bases = {} /\ IsFiniteSet(Branches)
    /\ BaseOf \in [Branches -> Bases]
    /\ Automerge \in [Branches -> {"none", "pr", "branch"}]
    /\ Alerts \subseteq Branches
    /\ PrCreation \in {"immediate", "not-pending", "status-success"}
    /\ PrLimit \in Nat /\ BranchLimit \in Nat /\ HourlyLimit \in Nat /\ CommitLimit \in Nat
    /\ Faults \in BOOLEAN /\ LostAnswers \in BOOLEAN
    /\ CheckResults \subseteq {"green", "red"}
    /\ MaxMoves \in Nat /\ MaxMade \in Nat /\ MaxPushed \in Nat /\ MaxRel \in Nat \ {0}

\* the n-th commit made on a branch, on top of the commit onto of its base
Head == [n : Nat, by : {"renovate", "user"}, onto : Nat, rel : Nat]
\* a branch's newest pull request: the release in its title (0: another
\* title), the head it ended on
Pr == [state : {"none", "open", "closed", "merged", "autoclosed"}, rel : Nat,
       head : Head \cup {NoHead}]
Work == [br : Branches, stage : {"check", "automerge", "pr", "merge"},
         existed : BOOLEAN, forcePr : BOOLEAN]
ASSUME NullsAssumption == NoHead \notin Head /\ NoWork \notin Work

VARIABLES
    base,       \* the remote: base branches, as the number of their commits
    head,       \* the remote: heads of the update branches
    made,       \* per branch, how many commits it ever had
    checks,     \* per branch, the status of its head
    prs,        \* per branch, its newest pull request
    rel,        \* per branch, the release its upgrade stands at
    proposed,   \* branches whose upgrades the configuration and registries ask for
    fresh,      \* pull requests created since the hour began, if HourlyLimit asks
    phase,      \* idle, extract, limits, write, prune; again: the retry is due
    attempt,    \* canRetry is attempt = 1
    snapshot,   \* config.branchCommits
    cloned,     \* gitInitialized
    origin,     \* the remote-tracking refs of update branches
    originBase, \* the remote-tracking refs of base branches
    current,    \* config.currentBranch
    edited,     \* config.branchIsModified
    prList,     \* config.prList of the platform
    left,       \* max - current of each limit
    list,       \* the branches of this attempt
    todo,       \* those not yet processed; in prune, those not yet pruned
    work,       \* the branch in processBranch
    saved,      \* per branch, the commit whose author the saved repository cache holds
    merged,     \* history: per base, the commit of Renovate's last merge
    committed   \* history: commits this process pushed to branches without an alert

remoteVars == <<base, head, made, checks, prs>>
worldVars == <<remoteVars, rel, proposed, fresh>>
gitVars == <<snapshot, cloned, origin, originBase, current, edited>>
runVars == <<phase, attempt, gitVars, prList, left, list, todo, work>>
keptVars == <<saved, merged, committed>>
vars == <<worldVars, runVars, keptVars>>

NoPr == [state |-> "none", rel |-> 0, head |-> NoHead]
NoHeads == [br \in Branches |-> NoHead]
NoPrs == [br \in Branches |-> NoPr]
NoLimit == 99
MinOf(a, b) == IF a <= b THEN a ELSE b
Remaining(max, count) == IF max >= count THEN max - count ELSE 0

-----------------------------------------------------------------------------
(* The world *)

BaseMoves(b) ==
    /\ base[b] < MaxMoves
    /\ base' = [base EXCEPT ![b] = @ + 1]
    /\ UNCHANGED <<head, made, checks, prs, rel, proposed, fresh, runVars, keptVars>>

ChecksEnd(br, result) ==
    /\ head[br] # NoHead /\ checks[br] = "yellow"
    /\ checks' = [checks EXCEPT ![br] = result]
    /\ UNCHANGED <<base, head, made, prs, rel, proposed, fresh, runVars, keptVars>>

UserPush(br) ==
    /\ "push" \in People /\ head[br] # NoHead /\ made[br] < MaxPushed
    /\ made' = [made EXCEPT ![br] = @ + 1]
    /\ head' = [head EXCEPT ![br] = [@ EXCEPT !.n = made'[br], !.by = "user"]]
    /\ checks' = [checks EXCEPT ![br] = "yellow"]
    /\ UNCHANGED <<base, prs, rel, proposed, fresh, runVars, keptVars>>

UserCloses(br) ==
    /\ "close" \in People /\ prs[br].state = "open"
    /\ prs' = [prs EXCEPT ![br] = [@ EXCEPT !.state = "closed", !.head = head[br]]]
    /\ UNCHANGED <<base, head, made, checks, rel, proposed, fresh, runVars, keptVars>>

\* the branch may be deleted with the merge; its upgrade is no longer proposed
UserMerges(br, delete) ==
    /\ "merge" \in People /\ prs[br].state = "open" /\ head[br] # NoHead
    /\ prs' = [prs EXCEPT ![br] = [@ EXCEPT !.state = "merged", !.head = head[br]]]
    /\ base' = [base EXCEPT ![BaseOf[br]] = @ + 1]
    /\ head' = IF delete THEN [head EXCEPT ![br] = NoHead] ELSE head
    /\ proposed' = proposed \ {br}
    /\ UNCHANGED <<made, checks, rel, fresh, runVars, keptVars>>

\* An attempt reads configuration and releases once, so these are between runs;
\* MaxMade leaves room for the commit they may call for.
Withdraw(br) ==
    /\ "withdraw" \in People /\ phase = "idle" /\ br \in proposed
    /\ made[br] < MaxMade - 1
    /\ proposed' = proposed \ {br}
    /\ UNCHANGED <<remoteVars, rel, fresh, runVars, keptVars>>

Return(br) ==
    /\ "withdraw" \in People /\ phase = "idle" /\ br \notin proposed /\ prs[br].state # "merged"
    /\ proposed' = proposed \cup {br}
    /\ UNCHANGED <<remoteVars, rel, fresh, runVars, keptVars>>

Release(br) ==
    /\ "release" \in People /\ phase = "idle" /\ rel[br] < MaxRel
    /\ made[br] < MaxMade - 1
    /\ rel' = [rel EXCEPT ![br] = @ + 1]
    /\ proposed' = proposed \cup {br}
    /\ UNCHANGED <<remoteVars, fresh, runVars, keptVars>>

HourPasses ==
    /\ fresh > 0
    /\ fresh' = 0
    /\ UNCHANGED <<remoteVars, rel, proposed, runVars, keptVars>>

-----------------------------------------------------------------------------
(* An attempt starts *)

InitRepo ==
    /\ phase \in {"idle", "again"}
    /\ attempt' = IF phase = "idle" THEN 1 ELSE 2
    /\ phase' = "extract"
    /\ snapshot' = head
    /\ left' = IF phase = "again" THEN left
               ELSE [left EXCEPT !.commits = IF CommitLimit = 0 THEN NoLimit ELSE CommitLimit]
    /\ committed' = IF phase = "again" THEN committed ELSE 0
    /\ UNCHANGED <<worldVars, cloned, origin, originBase, current, edited, prList, list, todo, work, saved, merged>>

AttemptOverMidBranch ==    \* mutant
    /\ snapshot' = NoHeads /\ cloned' = FALSE /\ origin' = NoHeads
    /\ originBase' = [b \in Bases |-> 0] /\ current' = DefaultBase
    /\ edited' = [br \in Branches |-> "unset"]
    /\ prList' = NoPrs /\ list' = {} /\ todo' = {} /\ UNCHANGED work

\* the memory of an attempt is not read after it
AttemptOver ==
    /\ snapshot' = NoHeads /\ cloned' = FALSE /\ origin' = NoHeads
    /\ originBase' = [b \in Bases |-> 0] /\ current' = DefaultBase
    /\ edited' = [br \in Branches |-> "unset"]
    /\ prList' = NoPrs /\ list' = {} /\ todo' = {} /\ work' = NoWork

RunOver ==
    /\ phase' = "idle" /\ attempt' = 1 /\ committed' = 0
    /\ left' = [prs |-> 0, branches |-> 0, commits |-> 0]
    /\ AttemptOver

Abort ==
    /\ phase # "idle" /\ RunOver
    /\ UNCHANGED <<worldVars, saved, merged>>

Killed == Faults /\ Abort

\* syncGit
Fetched == IF cloned THEN origin ELSE head
FetchedBase == IF cloned THEN originBase ELSE base
SyncGit == cloned' = TRUE /\ origin' = Fetched /\ originBase' = FetchedBase

Extract ==
    /\ phase = "extract" /\ phase' = "limits"
    /\ list' = proposed
    /\ \/ UNCHANGED <<cloned, origin, originBase, current>>
       \/ SyncGit /\ current' \in Bases
    /\ UNCHANGED <<worldVars, attempt, snapshot, edited, prList, left, todo, work, keptVars>>

Exists(br) == snapshot[br] # NoHead
Open(list_, br) == list_[br].state = "open"

\* getBranchPr: an autoclosed pull request of a branch that is gone from the
\* remote is reopened on the commit it had
Reopened(known, br) == known[br].state = "autoclosed" /\ head[br] = NoHead
ReopenPrs(known, S) ==
    LET again == {br \in S : Reopened(known, br)}
    IN /\ head' = [br \in Branches |-> IF br \in again THEN prs[br].head ELSE head[br]]
       /\ prs' = [br \in Branches |-> IF br \in again THEN [prs[br] EXCEPT !.state = "open"] ELSE prs[br]]
       /\ prList' = [br \in Branches |-> IF br \in again THEN prs'[br] ELSE known[br]]

PrHourlyRemainingOfOpen ==    \* mutant
    IF HourlyLimit = 0 THEN NoLimit
    ELSE Remaining(HourlyLimit, MinOf(fresh, Cardinality({br \in Branches : Open(prs, br)})))

\* getPrHourlyRemaining: pull requests of this hour, whatever became of them
PrHourlyRemaining ==
    IF HourlyLimit = 0 THEN NoLimit ELSE Remaining(HourlyLimit, fresh)

\* getConcurrentPrsRemaining: open pull requests of the branches of this attempt
ConcurrentPrsRemaining(known) ==
    IF PrLimit = 0 THEN NoLimit
    ELSE Remaining(PrLimit, Cardinality({br \in list : Open(known, br)}))

\* getConcurrentBranchesRemaining
ConcurrentBranchesRemaining ==
    IF BranchLimit = 0 THEN NoLimit
    ELSE Remaining(BranchLimit, Cardinality({br \in list : Exists(br)}))

\* the start of writeUpdates
SetLimits ==
    /\ phase = "limits" /\ phase' = "write" /\ todo' = list
    /\ ReopenPrs(prs, IF PrLimit = 0 THEN {} ELSE list)
    /\ left' = [left EXCEPT
          !.prs = MinOf(PrHourlyRemaining, ConcurrentPrsRemaining(prList')),
          !.branches = MinOf(PrHourlyRemaining, ConcurrentBranchesRemaining)]
    /\ UNCHANGED <<base, made, checks, rel, proposed, fresh, attempt, gitVars, list, work, keptVars>>

-----------------------------------------------------------------------------
(* processBranch: may this branch be worked on? *)

At(br, stage) == work # NoWork /\ work.br = br /\ work.stage = stage
Goto(stage, forcePr) == work' = [work EXCEPT !.stage = stage, !.forcePr = forcePr]

LimitReachedLate(key) == left[key] < 0    \* mutant

\* isLimitReached
LimitReached(key) == left[key] <= 0

CountBranchIfPr(l, heads) ==    \* mutant
    IF ~work.existed /\ heads[work.br] # NoHead /\ Open(prList, work.br)
    THEN [l EXCEPT !.branches = @ - 1] ELSE l

\* writeUpdates counts a branch that has come into existence
CountBranch(l, heads) ==
    IF ~work.existed /\ heads[work.br] # NoHead THEN [l EXCEPT !.branches = @ - 1] ELSE l

\* processBranch returns to writeUpdates, which sees these branches
Leave(heads) == work' = NoWork /\ left' = CountBranch(left, heads)

StartBranch(br) ==
    /\ phase = "write" /\ work = NoWork /\ br \in todo
    /\ todo' = todo \ {br}
    /\ ReopenPrs(prList, {br})
    /\ work' = [br |-> br, stage |-> "check", existed |-> Exists(br), forcePr |-> FALSE]
    /\ UNCHANGED <<base, made, checks, rel, proposed, fresh, phase, attempt, gitVars, left, list, keptVars>>

\* prAlreadyExisted: a closed or merged pull request with this very title
AlreadyExisted(br) == prList[br].state \in {"closed", "merged"} /\ prList[br].rel = rel[br]

Delete(br) ==
    /\ cloned' = TRUE /\ originBase' = FetchedBase
    /\ head' = [head EXCEPT ![br] = NoHead]
    /\ origin' = [Fetched EXCEPT ![br] = NoHead]
    /\ snapshot' = [snapshot EXCEPT ![br] = NoHead]

\* handlepr: the branch of a closed pull request is deleted
HandlePr(br) ==
    /\ At(br, "check") /\ AlreadyExisted(br)
    /\ IF prList[br].state = "closed" /\ Exists(br) THEN Delete(br)
       ELSE UNCHANGED <<head, snapshot, cloned, origin, originBase>>
    /\ Leave(snapshot')
    /\ UNCHANGED <<base, made, checks, prs, rel, proposed, fresh, phase, attempt, current, edited,
                   prList, list, todo, keptVars>>

OverLimit(br) ==
    /\ br \notin Alerts
    /\ \/ ~Exists(br) /\ LimitReached("branches")
       \/ CommitLimit # 0 /\ LimitReached("commits")

SkipOverLimit(br) ==
    /\ At(br, "check") /\ ~AlreadyExisted(br) /\ OverLimit(br)
    /\ Leave(snapshot)
    /\ UNCHANGED <<worldVars, phase, attempt, gitVars, prList, list, todo, keptVars>>

\* needs approval, pending checks, a stop label, the schedule, stability days;
\* or an error that becomes the branch's result
EarlyReturn(br) ==
    /\ Faults /\ work # NoWork /\ work.br = br
    /\ Leave(snapshot)
    /\ UNCHANGED <<worldVars, phase, attempt, gitVars, prList, list, todo, keptVars>>

-----------------------------------------------------------------------------
(* processBranch: the branch's content *)

Proceeds(br) == At(br, "check") /\ ~AlreadyExisted(br) /\ ~OverLimit(br)

CachedOfAnyHead(br) == snapshot[br] # NoHead /\ saved[br] # NoHead    \* mutant

\* getCachedModifiedResult: the saved answer is about the head the list shows
Cached(br) == snapshot[br] # NoHead /\ saved[br] = snapshot[br]

\* isBranchModified: memory, the saved answer, then the author of the head git has
Modified(br) ==
    IF edited[br] # "unset" THEN edited[br] = "yes"
    ELSE IF Cached(br) THEN saved[br].by = "user" ELSE Fetched[br].by = "user"
Known(br) == edited[br] # "unset" \/ Cached(br) \/ Fetched[br] # NoHead
AskGit(br) == IF edited[br] = "unset" /\ ~Cached(br) THEN SyncGit
              ELSE UNCHANGED <<cloned, origin, originBase>>
Remember(br) == edited' = [edited EXCEPT ![br] = IF Modified(br) THEN "yes" ELSE "no"]

\* an old pull request that ended on this head lets the run override an edit
Override(br) == ~Open(prList, br) /\ prList[br].state # "none" /\ prList[br].head = snapshot[br]

PrEdited(br) ==
    /\ Proceeds(br) /\ Exists(br) /\ Known(br) /\ Modified(br) /\ ~Override(br)
    /\ AskGit(br) /\ Remember(br)
    /\ Leave(snapshot)
    /\ UNCHANGED <<worldVars, phase, attempt, snapshot, current, prList, list, todo, keptVars>>

\* the history of head h of br reaches commit n of base b; bases share commit 0
Contains(br, h, b, n) == n = 0 \/ (b = BaseOf[br] /\ n <= h.onto)

UpToDateOnce(br) == Fetched[br] # NoHead /\ Fetched[br].rel = rel[br]    \* mutant

\* shouldReuseExistingBranch with rebaseWhen=auto, and no file to update: a
\* branch to be automerged also has to contain the CURRENT base branch
UpToDate(br) ==
    /\ Fetched[br] # NoHead /\ Fetched[br].rel = rel[br]
    /\ \/ Automerge[br] = "none" \/ Modified(br)
       \/ Contains(br, Fetched[br], current, FetchedBase[current])

MayUpdate(br) == Proceeds(br) /\ (Exists(br) => Known(br) /\ (Modified(br) => Override(br)))

\* The branch is good as it is.  The base branch is not even checked out if the
\* branch's fingerprint is that of the last run (skip).
KeepBranch(br, skip) ==
    /\ MayUpdate(br) /\ Exists(br) /\ UpToDate(br)
    /\ SyncGit /\ Remember(br)
    /\ current' = IF skip THEN current ELSE BaseOf[br]
    /\ Goto("automerge", FALSE)
    /\ UNCHANGED <<worldVars, phase, attempt, snapshot, prList, left, list, todo, keptVars>>

Made(br) == [n |-> made[br] + 1, by |-> "renovate", onto |-> FetchedBase[BaseOf[br]], rel |-> rel[br]]

CountCommit(l) == [l EXCEPT !.commits = @ - 1]

\* A new commit replaces the branch, with the clone's head as the lease.
NeedsCommit(br) == MayUpdate(br) /\ (Exists(br) => ~UpToDate(br))
LeaseHolds(br) == head[br] = Fetched[br]

CommitBranch(br) ==
    /\ NeedsCommit(br) /\ LeaseHolds(br) /\ made[br] < MaxMade
    /\ cloned' = TRUE /\ originBase' = FetchedBase /\ current' = BaseOf[br]
    /\ made' = [made EXCEPT ![br] = @ + 1]
    /\ head' = [head EXCEPT ![br] = Made(br)]
    /\ checks' = [checks EXCEPT ![br] = "yellow"]
    /\ origin' = [Fetched EXCEPT ![br] = Made(br)]
    /\ snapshot' = [snapshot EXCEPT ![br] = Made(br)]
    /\ edited' = [edited EXCEPT ![br] = "no"]
    /\ committed' = IF br \in Alerts THEN committed ELSE committed + 1
    /\ LET l == CountCommit(left)
       IN IF PrCreation # "immediate"
          THEN work' = NoWork /\ left' = CountBranch(l, snapshot')
          ELSE Goto(IF work.existed THEN "automerge" ELSE "pr", FALSE) /\ left' = l
    /\ UNCHANGED <<base, prs, rel, proposed, fresh, phase, attempt, prList, list, todo, saved, merged>>

\* A branch that is gone from the clone or, when its status is asked for, from
\* the remote (404), or a lease that does not hold, is
\* REPOSITORY_CHANGED.
RepositoryChanged(br) ==
    /\ \/ Proceeds(br) /\ Exists(br) /\ ~Known(br)
       \/ /\ At(br, "automerge") /\ Automerge[br] = "branch" /\ ~Open(prList, br)
          /\ head[br] = NoHead
       \/ NeedsCommit(br) /\ ~LeaseHolds(br)
    /\ Abort

-----------------------------------------------------------------------------
(* tryBranchAutomerge *)

\* The merged branch is deleted, whatever its head is by now; processBranch stops
\* the loop, and renovateRepository tries once more.
StopAfterMerge(br, known) ==
    /\ head' = [head EXCEPT ![br] = NoHead]
    /\ \/ attempt = 1 /\ phase' = "again" /\ AttemptOver
       \/ /\ attempt = 2 /\ UNCHANGED phase
          /\ cloned' = TRUE /\ originBase' = FetchedBase
          /\ origin' = [Fetched EXCEPT ![br] = NoHead]
          /\ snapshot' = [snapshot EXCEPT ![br] = NoHead]
          /\ prList' = known /\ todo' = {} /\ work' = NoWork
          /\ UNCHANGED <<current, edited, list>>

NoBranchAutomerge(br) ==
    /\ At(br, "automerge")
    /\ \/ Automerge[br] # "branch" /\ Goto("pr", FALSE)
       \/ Automerge[br] = "branch" /\ Open(prList, br) /\ Goto("pr", TRUE)
       \/ /\ Automerge[br] = "branch" /\ ~Open(prList, br)
          /\ head[br] # NoHead /\ checks[br] # "green"
          /\ Goto("pr", checks[br] = "red")
    /\ UNCHANGED <<worldVars, phase, attempt, gitVars, prList, left, list, todo, keptVars>>

MergeReady(br) ==
    /\ At(br, "automerge") /\ Automerge[br] = "branch" /\ ~Open(prList, br)
    /\ head[br] # NoHead /\ checks[br] = "green"

\* mergeBranch: git merge --ff-only of the clone's head into the CURRENT base branch
FastForwards(br) ==
    /\ origin[br] # NoHead
    /\ Contains(br, origin[br], current, originBase[current])
    /\ base[current] = originBase[current]

\* The platform marks a pull request it has for the pushed commit merged.
MergeBranch(br) ==
    /\ MergeReady(br) /\ FastForwards(br)
    /\ base' = [base EXCEPT ![current] = @ + 1]
    /\ merged' = [merged EXCEPT ![current] = base'[current]]
    /\ prs' = [prs EXCEPT ![br].state = IF @ = "open" THEN "merged" ELSE @]
    /\ proposed' = IF current = BaseOf[br] THEN proposed \ {br} ELSE proposed
    /\ left' = CountCommit(left)
    /\ StopAfterMerge(br, prList)
    /\ UNCHANGED <<made, checks, rel, fresh, attempt, saved, committed>>

\* stale; or failed, if the branch cannot be checked out or is protected
MergeBranchFails(br, failed) ==
    /\ MergeReady(br)
    /\ ~FastForwards(br) \/ (Faults /\ failed)
    /\ origin[br] = NoHead => failed
    /\ Goto("pr", failed)
    /\ UNCHANGED <<worldVars, phase, attempt, gitVars, prList, left, list, todo, keptVars>>

-----------------------------------------------------------------------------
(* ensurePr *)

\* an open pull request is updated if need be; late: the branch has been pending
\* for prNotPendingHours
ForcePr(br, late) == work.forcePr \/ checks[br] = "red" \/ late

AwaitsTests(br, late) ==
    \/ PrCreation = "status-success" /\ checks[br] # "green"
    \/ /\ PrCreation = "not-pending" /\ ~Open(prList, br)
       /\ ~work.forcePr /\ checks[br] = "yellow" /\ ~late

AwaitsAutomerge(br, late) == Automerge[br] = "branch" /\ ~ForcePr(br, late)

WithoutPr(br) ==
    /\ At(br, "pr")
    /\ AwaitsAutomerge(br, FALSE) \/ AwaitsTests(br, FALSE)
    /\ Leave(snapshot)
    /\ UNCHANGED <<worldVars, phase, attempt, gitVars, prList, list, todo, keptVars>>

PassesGates(br) ==
    \E late \in {FALSE, Faults /\ checks[br] = "yellow"} :
        ~AwaitsAutomerge(br, late) /\ ~AwaitsTests(br, late)

\* updatePr gives the pull request the title of the release, and the list what it
\* has become
WithExistingPr(br) ==
    /\ At(br, "pr") /\ PassesGates(br) /\ Open(prList, br)
    /\ IF prList[br].rel = rel[br] THEN UNCHANGED <<prs, prList>>
       ELSE /\ prs' = [prs EXCEPT ![br].rel = rel[br]]
            /\ prList' = [prList EXCEPT ![br] = prs'[br]]
    /\ Goto("merge", work.forcePr)
    /\ UNCHANGED <<base, head, made, checks, rel, proposed, fresh, phase, attempt, gitVars, left,
                   list, todo, keptVars>>

MayCreatePr(br) == At(br, "pr") /\ PassesGates(br) /\ ~Open(prList, br)
RateLimited(br) == LimitReached("prs") /\ br \notin Alerts

CountPrNever(l) == l    \* mutant

\* incLimitedValue of PullRequests
CountPr(l) == [l EXCEPT !.prs = @ - 1]

OpenPr(br) ==
    /\ head[br] # NoHead /\ ~Open(prs, br)
    /\ prs' = [prs EXCEPT ![br] = [state |-> "open", rel |-> rel[br], head |-> NoHead]]
    /\ fresh' = IF HourlyLimit = 0 THEN fresh ELSE fresh + 1

CreatePr(br) ==
    /\ MayCreatePr(br) /\ ~RateLimited(br)
    /\ OpenPr(br)
    /\ prList' = [prList EXCEPT ![br] = prs'[br]]
    /\ left' = CountPr(left)
    /\ Goto("merge", work.forcePr)
    /\ UNCHANGED <<base, head, made, checks, rel, proposed, phase, attempt, gitVars, list, todo, keptVars>>

\* the pull request is opened, but addLabels fails: createPr throws, nothing is counted
LoseAnswer(br) ==
    /\ LostAnswers /\ MayCreatePr(br) /\ ~RateLimited(br)
    /\ OpenPr(br)
    /\ Leave(snapshot)
    /\ UNCHANGED <<base, head, made, checks, rel, proposed, phase, attempt, gitVars, prList, list, todo, keptVars>>

\* the limit is reached, the platform has one already, or the branch is gone
NoPrCreated(br) ==
    /\ MayCreatePr(br) /\ (RateLimited(br) \/ Open(prs, br) \/ head[br] = NoHead)
    /\ Leave(snapshot)
    /\ UNCHANGED <<worldVars, phase, attempt, gitVars, prList, list, todo, keptVars>>

\* 502: the branch is deleted
CreateFails(br) ==
    /\ Faults /\ MayCreatePr(br) /\ ~RateLimited(br)
    /\ Delete(br)
    /\ Leave(snapshot')
    /\ UNCHANGED <<base, made, checks, prs, rel, proposed, fresh, phase, attempt, current, edited,
                   prList, list, todo, keptVars>>

-----------------------------------------------------------------------------
(* checkAutoMerge: whatever the automergeType, a pull request that is green *)

MergePr(br) ==
    /\ At(br, "merge") /\ Automerge[br] # "none"
    /\ checks[br] = "green" /\ ~Modified(br)
    /\ Open(prs, br) /\ head[br] # NoHead
    /\ prs' = [prs EXCEPT ![br] = [@ EXCEPT !.state = "merged", !.head = head[br]]]
    /\ base' = [base EXCEPT ![BaseOf[br]] = @ + 1]
    /\ merged' = [merged EXCEPT ![BaseOf[br]] = base'[BaseOf[br]]]
    /\ proposed' = proposed \ {br}
    /\ StopAfterMerge(br, [prList EXCEPT ![br] = prs'[br]])
    /\ UNCHANGED <<made, checks, rel, fresh, attempt, left, saved, committed>>

\* Not green, modified, conflicted, off schedule, not mergeable, refused.
NoMerge(br) ==
    /\ At(br, "merge")
    /\ \/ Automerge[br] = "none" \/ checks[br] # "green" \/ Modified(br)
       \/ ~Open(prs, br) \/ head[br] = NoHead \/ Faults
    /\ Leave(snapshot)
    /\ UNCHANGED <<worldVars, phase, attempt, gitVars, prList, list, todo, keptVars>>

-----------------------------------------------------------------------------
(* finaliseRepo *)

\* generateBranchCache of what the run processed, and saveCache.  An answer
\* about another head than the one it is filed under is as good as none: neither
\* the list nor a reopened pull request shows that head again.
EndWrite(lost) ==
    /\ phase = "write" /\ work = NoWork /\ todo = {}
    /\ lost # {} => Faults
    /\ \/ SyncGit
       \/ /\ \A br \in list \ lost : Exists(br) => edited[br] # "unset" \/ Cached(br)
          /\ UNCHANGED <<cloned, origin, originBase>>
    /\ saved' = [br \in Branches |->
          IF br \in list \ lost /\ Fetched[br] = snapshot[br] THEN snapshot[br] ELSE NoHead]
    /\ phase' = "prune" /\ todo' = {br \in Branches : Exists(br)} \ list
    /\ UNCHANGED <<worldVars, attempt, snapshot, current, edited, prList, left, list, work,
                   merged, committed>>

MayPrune(br) == Known(br) /\ ~Modified(br)

\* cleanUpBranches: the branch of no upgrade is deleted.  Its pull request is
\* titled autoclosed, also if a person has closed or merged it since it was listed.
AutoClosed(br) ==
    CASE prs[br].state = "open" -> [prs[br] EXCEPT !.state = "autoclosed", !.head = head[br]]
      [] prs[br].state = "closed" -> [prs[br] EXCEPT !.state = "autoclosed"]
      [] prs[br].state = "merged" -> [prs[br] EXCEPT !.rel = 0]
      [] OTHER -> prs[br]

PruneBranch(br) ==
    /\ phase = "prune" /\ br \in todo /\ MayPrune(br)
    /\ Delete(br) /\ Remember(br) /\ todo' = todo \ {br}
    /\ prs' = IF Open(prList, br) THEN [prs EXCEPT ![br] = AutoClosed(br)] ELSE prs
    /\ UNCHANGED <<base, made, checks, rel, proposed, fresh, phase, attempt, current, prList, left,
                   list, work, keptVars>>

\* a modified branch is kept, one that is gone from the clone is left alone
SkipPrune(br) ==
    /\ phase = "prune" /\ br \in todo /\ ~MayPrune(br)
    /\ AskGit(br) /\ edited' = IF Known(br) THEN [edited EXCEPT ![br] = "yes"] ELSE edited
    /\ todo' = todo \ {br}
    /\ UNCHANGED <<worldVars, phase, attempt, snapshot, current, prList, left, list, work, keptVars>>

EndRun ==
    /\ phase = "prune" /\ todo = {}
    /\ RunOver
    /\ UNCHANGED <<worldVars, saved, merged>>

-----------------------------------------------------------------------------
Init ==
    /\ base = [b \in Bases |-> 0] /\ head = NoHeads
    /\ made = [br \in Branches |-> 0] /\ checks = [br \in Branches |-> "yellow"]
    /\ prs = NoPrs /\ rel = [br \in Branches |-> 1]
    /\ proposed = Branches /\ fresh = 0
    /\ phase = "idle" /\ attempt = 1
    /\ snapshot = NoHeads /\ cloned = FALSE /\ origin = NoHeads
    /\ originBase = [b \in Bases |-> 0] /\ current = DefaultBase
    /\ edited = [br \in Branches |-> "unset"]
    /\ prList = NoPrs /\ list = {} /\ todo = {} /\ work = NoWork
    /\ left = [prs |-> 0, branches |-> 0, commits |-> 0]
    /\ saved = NoHeads /\ merged = [b \in Bases |-> 0] /\ committed = 0

World ==
    \/ \E b \in Bases : BaseMoves(b)
    \/ \E br \in Branches, result \in CheckResults : ChecksEnd(br, result)
    \/ \E br \in Branches : UserPush(br) \/ UserCloses(br)
    \/ \E br \in Branches, delete \in BOOLEAN : UserMerges(br, delete)
    \/ \E br \in Branches : Withdraw(br) \/ Return(br) \/ Release(br)
    \/ HourPasses

ProcessBranch(br) ==
    \/ StartBranch(br) \/ HandlePr(br) \/ SkipOverLimit(br) \/ EarlyReturn(br)
    \/ PrEdited(br) \/ CommitBranch(br) \/ RepositoryChanged(br)
    \/ \E skip \in BOOLEAN : KeepBranch(br, skip)
    \/ NoBranchAutomerge(br) \/ MergeBranch(br)
    \/ \E failed \in BOOLEAN : MergeBranchFails(br, failed)
    \/ WithoutPr(br) \/ WithExistingPr(br)
    \/ CreatePr(br) \/ LoseAnswer(br) \/ NoPrCreated(br) \/ CreateFails(br)
    \/ MergePr(br) \/ NoMerge(br)

Run ==
    \/ InitRepo \/ Extract \/ SetLimits
    \/ \E br \in Branches : ProcessBranch(br)
    \/ \E lost \in SUBSET list : EndWrite(lost)
    \/ \E br \in Branches : PruneBranch(br) \/ SkipPrune(br)
    \/ EndRun

Next == World \/ Run \/ Killed

Spec == Init /\ [][Next]_vars

-----------------------------------------------------------------------------
(* Properties *)

\* Every variable has its type (workers/repository/process/write.ts).
TypeOK ==
    /\ base \in [Bases -> Nat] /\ originBase \in [Bases -> Nat] /\ merged \in [Bases -> Nat]
    /\ {head, snapshot, origin, saved} \subseteq [Branches -> Head \cup {NoHead}]
    /\ made \in [Branches -> Nat] /\ rel \in [Branches -> Nat]
    /\ checks \in [Branches -> {"yellow", "green", "red"}]
    /\ {prs, prList} \subseteq [Branches -> Pr]
    /\ {proposed, list, todo} \subseteq SUBSET Branches
    /\ fresh \in Nat /\ committed \in Nat /\ attempt \in {1, 2}
    /\ phase \in {"idle", "extract", "limits", "write", "prune", "again"}
    /\ cloned \in BOOLEAN /\ current \in Bases
    /\ edited \in [Branches -> {"unset", "yes", "no"}]
    /\ left \in [prs : Int, branches : Int, commits : Int]
    /\ work \in Work \cup {NoWork}
    /\ work # NoWork => phase = "write" /\ work.br \in list \ todo

\* the run opens a pull request of br that the limits apply to
Opens(br) == At(br, "pr") /\ ~Open(prs, br) /\ prs'[br].state = "open" /\ br \notin Alerts

\* a pull request whose creation's answer was lost is not in the run's list
Answered(br) == prs'[br].rel = prList'[br].rel

\* A pull request that the run opens is not one too many: with it, at most
\* PrLimit of the branches of this attempt have one that is open and that the
\* platform answered for (getConcurrentPrsRemaining, ensurePr, incLimitedValue).
OpensWithinLimit ==
    [][\A br \in Branches : Opens(br) /\ PrLimit # 0 =>
         Cardinality({b \in list : prs'[b].state = "open" /\ Answered(b)}) <= PrLimit]_vars

\* Nor is it one too many for this hour, whatever became of the hour's other
\* pull requests (getPrHourlyRemaining, ensurePr).
OpensWithinHour ==
    [][\A br \in Branches : Opens(br) /\ HourlyLimit # 0 =>
         fresh' - Cardinality({b \in Branches : ~Answered(b)}) <= HourlyLimit]_vars

\* A branch that the run creates is not one too many: with it, at most
\* BranchLimit of the branches of this attempt exist, for all the run knows
\* (getConcurrentBranchesRemaining, writeUpdates).
CreatesWithinLimit ==
    [][\A br \in Branches \ Alerts :
         At(br, "check") /\ ~Exists(br) /\ snapshot'[br] # NoHead /\ BranchLimit # 0 =>
         Cardinality({b \in list : snapshot'[b] # NoHead}) <= BranchLimit]_vars

\* What the run opens and creates is within all three limits.
WithinLimits == OpensWithinLimit /\ OpensWithinHour /\ CreatesWithinLimit

\* A process, in both of its attempts, pushes no more commits than allowed to
\* update branches without an alert (limitCommitsPerRun, pushCommit, processBranch).
CommitsLimited == CommitLimit # 0 => committed <= CommitLimit

\* the run merges br, as a pull request or a branch
Merges(br, b) == work # NoWork /\ work.br = br /\ merged'[b] # merged[b]
MergedHead(br) == IF At(br, "merge") THEN head[br] ELSE origin[br]

\* What the run merges contains everything that Renovate merged into that base
\* branch before, if there is one base branch: updates are never merged that were
\* not tested together (writeUpdates stops after a merge,
\* shouldReuseExistingBranch rebases).  With several, a branch is kept that
\* contains another base branch than its own.
MergesFollow ==
    [][\A br \in Branches, b \in Bases :
         Merges(br, b) => Contains(br, MergedHead(br), b, merged[b])]_vars

\* What the run merges goes to the base branch of its upgrades (mergeBranch).
MergesIntoOwnBase ==
    [][\A br \in Branches, b \in Bases : Merges(br, b) => b = BaseOf[br]]_vars

\* The run deletes a person's commit that its list of branches shows only if the
\* pull request was closed, or ended on that commit: the edit is overridden then
\* (cleanUpBranches, deleteBranch, processBranch's PrEdited returns).  That a
\* clone shows a commit does not save it: the saved answer about the commit the
\* list shows may be taken for one about it.
SeenEditsNotDeleted ==
    [][\A br \in Branches :
         /\ phase # "idle" /\ head[br] # NoHead /\ head[br].by = "user"
         /\ head'[br] = NoHead /\ base' = base
         /\ head[br] = snapshot[br]
         => prList[br].state = "closed" \/ prList[br].head = head[br]]_vars

-----------------------------------------------------------------------------
(* Liveness: Renovate is started again and again, checks end, time passes. *)
FairSpec ==
    /\ Spec /\ WF_vars(Run) /\ WF_vars(HourPasses)
    /\ \A br \in Branches : WF_vars(\E result \in CheckResults : ChecksEnd(br, result))

\* edited, its checks failed, or its pull request closed
LeftToPeople(br) ==
    \/ head[br] # NoHead /\ (head[br].by = "user" \/ checks[br] = "red")
    \/ prs[br].state = "closed"

\* branches that are left to people use up a limit
Crowded ==
    \/ PrLimit # 0 /\ Cardinality({br \in Branches : Open(prs, br) /\ LeftToPeople(br)}) >= PrLimit
    \/ /\ BranchLimit # 0
       /\ Cardinality({br \in Branches : head[br] # NoHead /\ LeftToPeople(br)}) >= BranchLimit

\* If runs keep ending, every proposed upgrade that is to be automerged is in
\* the end merged, or left to people, or kept waiting by branches that are
\* (writeUpdates, tryBranchAutomerge, checkAutoMerge).
AutomergesHappen ==
    []<><<EndRun>>_vars => <>[](\A br \in proposed : LeftToPeople(br) \/ Crowded)

=============================================================================
