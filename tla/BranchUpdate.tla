---------------------------- MODULE BranchUpdate ----------------------------
(***************************************************************************)
(* One Renovate instance keeps the update branches of one repository in    *)
(* step with their base branches, run after run, while people push to the  *)
(* same repository.                                                        *)
(*                                                                         *)
(* A run looks at the remote more than once: `git ls-remote` when it       *)
(* starts (snapshot), a clone the first time it needs commits (origin) and *)
(* a push with lease per branch.  Between those moments anybody may push.  *)
(* What a run learns about a branch is kept in the repository cache, which *)
(* outlives the run (disk) and is keyed by the shas of the snapshot.       *)
(*                                                                         *)
(* A sha is <<ref, n>>: the n-th commit ever made on that ref.  Base       *)
(* branches share their root commit.                                       *)
(***************************************************************************)
EXTENDS Integers, Sequences, FiniteSets

CONSTANTS
    Branches,        \* update branches, one per group of upgrades
    Bases,           \* base branches
    DefaultBase,     \* the default branch, current after a clone
    NoSha,           \* null, a ref that does not exist
    NoEntry,         \* a branch the repository cache does not know
    NoWork,          \* no branch is being processed
    RebaseModes,     \* the resolved values of rebaseWhen in use
    PlatformCommit,  \* commits are made through the platform's REST API
    Faults,          \* early returns and caught errors of processBranch happen
    Authors,         \* who else pushes: "user", "ignored" (gitIgnoredAuthors)
    Deletes,         \* people delete update branches
    ConflictCommits, \* base commits a branch conflicts with unless it has them
    MaxBase, MaxCommits, MaxWant   \* bounds: commits of each base, of a branch, releases

ASSUME ConstantsAssumption ==
    /\ DefaultBase \in Bases /\ Branches \cap Bases = {}
    /\ RebaseModes \subseteq {"behind-base-branch", "conflicted", "never"}
    /\ RebaseModes # {}
    /\ PlatformCommit \in BOOLEAN /\ Faults \in BOOLEAN /\ Deletes \in BOOLEAN
    /\ Authors \subseteq {"user", "ignored"}
    /\ MaxBase \in [Bases -> Nat] /\ MaxCommits \in Nat /\ MaxWant \in Nat \ {0}

Refs == Branches \cup Bases
Sha == (Refs \X Nat) \cup {NoSha}
Flags == {"yes", "no", "unset"}
Flag(b) == IF b THEN "yes" ELSE "no"

Commit == [author : {"renovate", "user", "ignored"}, base : Bases, onto : Nat,
           want : Nat, edited : BOOLEAN, parent : Sha]
\* a fingerprint is that of the branch's configuration; <<>> is undefined
NoPrint == <<>>
Prints == (Nat \X Bases \X RebaseModes) \cup {NoPrint}
Entry == [sha : Sha, baseBranch : Bases, baseSha : Sha, isModified : Flags,
          isBehindBase : Flags, fingerprint : Prints, parentSha : Sha]
Work == [br : Branches,
         stage : {"check", "decide", "update", "push", "fetch", "record"},
         skip : BOOLEAN, asked : BOOLEAN, override : BOOLEAN,
         reuse : BOOLEAN, conflicted : Flags, commit : Sha]
ASSUME NullsAssumption ==
    NoSha \notin Refs \X Nat /\ NoEntry \notin Entry /\ NoWork \notin Work

\* over is history: what HEAD was when git gave the answer
Conflicts == [Bases -> [target : Sha,
                        source : [Branches -> [sha : Sha, isConflicted : BOOLEAN, over : Refs]]]]

VARIABLES
    commits,     \* per branch, every commit ever made on it
    remote,      \* the heads of the remote repository
    want,        \* per branch, the release its upgrade stands at
    baseOf,      \* per branch, the base branch the configuration names
    rebaseWhen,  \* per branch, the resolved option
    disk,        \* the saved repository cache
    phase,       \* where the run is: idle, extract, write, save
    snapshot,    \* config.branchCommits: ls-remote, then the run's own pushes
    cloned,      \* gitInitialized
    origin,      \* the remote-tracking refs of the clone
    current,     \* config.currentBranch; currentBranchSha is origin[current]
    headOn,      \* git's HEAD: on a base branch, or on the last commit prepared for a branch
    memModified, \* config.branchIsModified
    branches,    \* getCache().branches
    conflicts,   \* getCache().gitConflicts
    todo,        \* branches writeUpdates has not reached
    work,        \* the branch in processBranch
    fingerprints \* branch.branchFingerprint of the branches processed so far

worldVars == <<commits, remote, want, baseOf, rebaseWhen>>
gitVars == <<snapshot, cloned, origin, current, headOn, memModified>>
cacheVars == <<branches, conflicts>>
loopVars == <<todo, work, fingerprints>>
runVars == <<phase, gitVars, cacheVars, loopVars>>
vars == <<worldVars, disk, runVars>>

Absent == [sha |-> NoSha, isConflicted |-> FALSE, over |-> DefaultBase]
EmptyBranches == [br \in Branches |-> NoEntry]
EmptyConflicts == [b \in Bases |-> [target |-> NoSha, source |-> [br \in Branches |-> Absent]]]
EmptyCache == [branches |-> EmptyBranches, conflicts |-> EmptyConflicts]
NoHeads == [r \in Refs |-> NoSha]

-----------------------------------------------------------------------------
(* Commits and what they contain *)

Root == <<DefaultBase, 0>>
BaseCommit(b, n) == IF n = 0 THEN Root ELSE <<b, n>>
CommitAt(sha) == commits[sha[1]][sha[2]]

\* the history of commit c reaches the base commit sha
Contains(c, sha) == sha[2] = 0 \/ (c.base = sha[1] /\ sha[2] <= c.onto)

\* git merge of head c into the base commit sha stops on a conflict
MergeConflicts(c, sha) ==
    \E n \in 1 .. sha[2] : <<sha[1], n>> \in ConflictCommits /\ ~Contains(c, <<sha[1], n>>)

\* the commit prepareCommit makes for br on the base branch of a clone
NewCommit(heads, br) ==
    LET parent == heads[baseOf[br]]
    IN [author |-> "renovate", base |-> baseOf[br], onto |-> parent[2],
        want |-> want[br], edited |-> FALSE, parent |-> parent]

HasDiffOfBase(c, d) == <<c.base, c.onto>> # <<d.base, d.onto>>    \* mutant

HasDiff(c, d) == c.author # "renovate" \/ <<c.base, c.onto, c.want>> # <<d.base, d.onto, d.want>>

-----------------------------------------------------------------------------
(* The world: base branches move, releases appear, people push *)

BaseMoves(b) ==
    /\ remote[b][2] < MaxBase[b]
    /\ remote' = [remote EXCEPT ![b] = BaseCommit(b, remote[b][2] + 1)]
    /\ UNCHANGED <<commits, want, baseOf, rebaseWhen, disk, runVars>>

\* a commit on top of an update branch; merge also brings the base's commits in
UserPush(br, author, merge) ==
    /\ remote[br] # NoSha /\ Len(commits[br]) < MaxCommits
    /\ LET c == CommitAt(remote[br])
           d == [c EXCEPT !.author = author, !.parent = remote[br],
                          !.edited = @ \/ author = "user",
                          !.onto = IF merge /\ remote[c.base][2] > @
                                   THEN remote[c.base][2] ELSE @]
       IN commits' = [commits EXCEPT ![br] = Append(@, d)]
    /\ remote' = [remote EXCEPT ![br] = <<br, Len(commits[br]) + 1>>]
    /\ UNCHANGED <<want, baseOf, rebaseWhen, disk, runVars>>

UserDelete(br) ==
    /\ Deletes /\ remote[br] # NoSha
    /\ remote' = [remote EXCEPT ![br] = NoSha]
    /\ UNCHANGED <<commits, want, baseOf, rebaseWhen, disk, runVars>>

\* A run reads releases and configuration once, before it processes branches:
\* a change during a run is a change after it.
NewRelease(br) ==
    /\ phase = "idle" /\ want[br] < MaxWant
    /\ want' = [want EXCEPT ![br] = @ + 1]
    /\ UNCHANGED <<commits, remote, baseOf, rebaseWhen, disk, runVars>>

Reconfigure(br, b, mode) ==
    /\ phase = "idle" /\ <<b, mode>> # <<baseOf[br], rebaseWhen[br]>>
    /\ baseOf' = [baseOf EXCEPT ![br] = b]
    /\ rebaseWhen' = [rebaseWhen EXCEPT ![br] = mode]
    /\ UNCHANGED <<commits, remote, want, disk, runVars>>

\* the cache file is missing, of another revision, or reset
LoseCache ==
    /\ phase = "idle" /\ disk # EmptyCache
    /\ disk' = EmptyCache
    /\ UNCHANGED <<worldVars, runVars>>

-----------------------------------------------------------------------------
(* The run starts: ls-remote and the saved cache *)

\* Between runs nothing of the run's memory is read again: it is reset here.
RunOver ==
    /\ phase' = "idle" /\ snapshot' = NoHeads /\ cloned' = FALSE
    /\ origin' = NoHeads /\ current' = DefaultBase /\ headOn' = DefaultBase
    /\ memModified' = [br \in Branches |-> "unset"]
    /\ branches' = EmptyBranches /\ conflicts' = EmptyConflicts
    /\ todo' = {} /\ work' = NoWork /\ fingerprints' = [br \in Branches |-> NoPrint]

InitRepo ==
    /\ phase = "idle"
    /\ phase' = "extract"
    /\ snapshot' = remote
    /\ branches' = disk.branches /\ conflicts' = disk.conflicts
    /\ UNCHANGED <<worldVars, disk, cloned, origin, current, headOn, memModified, loopVars>>

\* An error that processBranch, or the run around it, does not swallow, or a
\* killed process: handleError ends the run and the cache is not saved.
Abort ==
    /\ phase # "idle"
    /\ RunOver
    /\ UNCHANGED <<worldVars, disk>>

\* syncGit: the first use of the clone fetches whatever the remote has then
Fetched == IF cloned THEN origin ELSE remote
SyncGit == cloned' = TRUE /\ origin' = Fetched

\* checkoutBranch
Checkout(b) == current' = b /\ headOn' = b

\* extract, for every base branch: one whose extraction is cached is not
\* checked out, so any base branch may be the last one that was.
Extract ==
    /\ phase = "extract"
    /\ phase' = "write" /\ todo' = Branches
    /\ \/ UNCHANGED <<cloned, origin, current, headOn>>
       \/ SyncGit /\ \E b \in Bases : Checkout(b)
    /\ UNCHANGED <<worldVars, disk, snapshot, memModified, cacheVars, work, fingerprints>>

-----------------------------------------------------------------------------
(* The cached answers and their keys *)

Exists(br) == snapshot[br] # NoSha
BaseSha(br) == snapshot[baseOf[br]]

\* what syncBranchState lets an entry keep; the first of each pair is a mutant
KeepModifiedOfAnySha(e, br) == e.baseBranch = baseOf[br]
KeepModified(e, br) == e.sha = snapshot[br] /\ e.baseBranch = baseOf[br]
KeepBehindOfAnyBase(e, br) == e.sha = snapshot[br]
KeepBehind(e, br) == e.sha = snapshot[br] /\ e.baseSha = BaseSha(br)

\* syncBranchState: the entry of br, cleared of what the snapshot outdates
Synced(br) ==
    LET minimal == [sha |-> snapshot[br], baseBranch |-> baseOf[br], baseSha |-> BaseSha(br),
                    isModified |-> "unset", isBehindBase |-> "unset",
                    fingerprint |-> NoPrint, parentSha |-> NoSha]
        e == IF branches[br] = NoEntry THEN minimal ELSE branches[br]
    IN [e EXCEPT !.sha = snapshot[br], !.baseBranch = baseOf[br], !.baseSha = BaseSha(br),
                 !.isModified = IF KeepModified(e, br) THEN @ ELSE "unset",
                 !.isBehindBase = IF KeepBehind(e, br) THEN @ ELSE "unset",
                 !.fingerprint = IF e.sha = snapshot[br] THEN @ ELSE NoPrint]

Fingerprint(br) == <<want[br], baseOf[br], rebaseWhen[br]>>

CanSkipIfRecorded(e, br) == e.fingerprint # NoPrint    \* mutant

\* canSkipBranchUpdateCheck
CanSkip(e, br) == e.fingerprint # NoPrint /\ e.fingerprint = Fingerprint(br)

\* getCachedModifiedResult after config.branchIsModified
KnownModified(br) ==
    IF memModified[br] # "unset" THEN memModified[br]
    ELSE IF branches[br] # NoEntry /\ branches[br].sha = snapshot[br]
         THEN branches[br].isModified ELSE "unset"

GitModifiedAuthor(head, failed) == CommitAt(head).author    \* mutant

\* isBranchModified asks git for the author of the last commit only; if git fails
\* to name one, the branch counts as modified
GitModified(head, failed) == Flag(failed \/ CommitAt(head).author = "user")

\* getCachedBehindBaseResult
KnownBehind(br) ==
    LET e == branches[br]
    IN IF /\ e # NoEntry /\ e.sha = snapshot[br]
          /\ e.baseBranch = baseOf[br] /\ e.baseSha = BaseSha(br)
       THEN e.isBehindBase ELSE "unset"

\* isBranchBehindBase asks git whether br contains the CURRENT base branch
GitBehind(heads, br) ==
    Flag(heads[br] = NoSha \/ ~Contains(CommitAt(heads[br]), heads[current]))

KnownConflictOfAnyBase(br) ==    \* mutant
    LET answer == conflicts[baseOf[br]].source[br]
    IN IF answer.sha = snapshot[br] THEN Flag(answer.isConflicted) ELSE "unset"

\* getCachedConflictResult
KnownConflict(br) ==
    LET cached == conflicts[baseOf[br]]
    IN IF cached.target = BaseSha(br) /\ cached.source[br].sha = snapshot[br]
       THEN Flag(cached.source[br].isConflicted) ELSE "unset"

\* isBranchConflicted checks the base branch out only if currentBranch is another
MergedInto(br) == IF current = baseOf[br] THEN headOn ELSE baseOf[br]

AnswersOfCurrent(heads, br, ref) ==    \* mutant
    {Flag(heads[br] = NoSha \/ MergeConflicts(CommitAt(heads[br]), heads[current]))}

\* What git may say of a merge of origin's br into ref.  A commit prepared for
\* another branch stands on br's base: what conflicts with the base conflicts
\* with it, and so may what does not.
GitConflict(heads, br, ref) ==
    LET b == IF ref \in Bases THEN ref ELSE baseOf[br]
        stops == heads[br] = NoSha \/ MergeConflicts(CommitAt(heads[br]), heads[b])
    IN {Flag(stops)} \cup (IF ref \in Bases THEN {} ELSE {"yes"})

\* The branch checked out before comes back, except when there is no merge to
\* abort, br being gone from the clone: then HEAD stays.
HeadAfterMerge(heads, br) ==
    IF current = baseOf[br] THEN headOn ELSE IF heads[br] = NoSha THEN baseOf[br] ELSE current

KeptOfAnyBase(br) == conflicts[baseOf[br]].source    \* mutant

\* the answers setCachedConflictResult keeps: those about the same base sha
KeptAnswers(br) ==
    IF conflicts[baseOf[br]].target = BaseSha(br) THEN conflicts[baseOf[br]].source
    ELSE [x \in Branches |-> Absent]

\* setCachedConflictResult: keyed by the shas of the snapshot
WithConflict(br, sha, flag, ref) ==
    LET kept == KeptAnswers(br)
    IN [conflicts EXCEPT ![baseOf[br]] =
           [target |-> BaseSha(br),
            source |-> IF kept[br].sha = sha THEN kept
                       ELSE [kept EXCEPT ![br] = [sha |-> sha, isConflicted |-> flag = "yes", over |-> ref]]]]

-----------------------------------------------------------------------------
(* writeUpdates: one branch after the other through processBranch *)

At(br, stage) == work # NoWork /\ work.br = br /\ work.stage = stage
Goto(stage) == work' = [work EXCEPT !.stage = stage]

\* processBranch returns without a commit: the branch keeps the fingerprint of
\* its entry, or is given the present one if the entry has none
ReturnNoCommit(br) ==
    LET recorded == branches[br].fingerprint
    IN /\ work' = NoWork
       /\ fingerprints' = [fingerprints EXCEPT ![br] = IF recorded = NoPrint THEN Fingerprint(br) ELSE recorded]

StartBranch(br) ==
    /\ phase = "write" /\ work = NoWork /\ br \in todo
    /\ branches' = [branches EXCEPT ![br] = Synced(br)]
    /\ todo' = todo \ {br}
    /\ work' = [br |-> br, stage |-> "check", skip |-> CanSkip(Synced(br), br),
                asked |-> FALSE, override |-> FALSE, reuse |-> FALSE,
                conflicted |-> "unset", commit |-> NoSha]
    /\ UNCHANGED <<worldVars, disk, phase, gitVars, conflicts, fingerprints>>

\* A closed PR, a limit, the schedule, a stop label, stability days, or an
\* error that becomes the branch's result.
EarlyReturn(br) ==
    /\ Faults
    /\ At(br, "check") \/ At(br, "decide")
    /\ ReturnNoCommit(br)
    /\ UNCHANGED <<worldVars, disk, phase, gitVars, cacheVars, todo>>

\* a file update or an artifact command fails once the base is checked out, or
\* the commit, once the branch is
UpdateFails(br) ==
    /\ Faults
    /\ At(br, "update") /\ ~(work.reuse /\ work.skip)
    /\ SyncGit /\ current' = baseOf[br] /\ headOn' \in {baseOf[br], br}
    /\ ReturnNoCommit(br)
    /\ UNCHANGED <<worldVars, disk, phase, snapshot, memModified, cacheVars, todo>>

\* Is somebody else's work on the branch?  Only a request for a rebase, or an
\* old PR that ended on this very head, lets the run go on if it is (override).
CheckEdited(br, failed) ==
    /\ At(br, "check") /\ (failed => Faults)
    /\ LET known == KnownModified(br)
           ask == Exists(br) /\ known = "unset"
           answer == IF ~Exists(br) THEN "no" ELSE IF ask THEN GitModified(Fetched[br], failed) ELSE known
           retargeted == Exists(br) /\ CommitAt(snapshot[br]).base # baseOf[br]
       IN /\ ask => Fetched[br] # NoSha       \* a bad revision: Abort
          /\ IF ask THEN SyncGit ELSE UNCHANGED <<cloned, origin>>
          /\ branches' = IF ask THEN [branches EXCEPT ![br].isModified = answer] ELSE branches
          /\ memModified' = IF Exists(br) THEN [memModified EXCEPT ![br] = answer] ELSE memModified
          /\ \/ /\ answer = "yes" \/ retargeted
                /\ ReturnNoCommit(br)
             \/ /\ work' = [work EXCEPT !.stage = "decide", !.override = answer = "yes"]
                /\ UNCHANGED fingerprints
    /\ UNCHANGED <<worldVars, disk, phase, snapshot, current, headOn, conflicts, todo>>

\* A rebase by checkbox, label, title or dashboard; or all pending or
\* rate-limited PRs approved at once, which leaves reuseExistingBranch unset.
DecideByUser(br, rebase) ==
    /\ At(br, "decide")
    /\ work' = [work EXCEPT !.stage = "update", !.asked = rebase, !.reuse = FALSE]
    /\ UNCHANGED <<worldVars, disk, phase, gitVars, cacheVars, todo, fingerprints>>

RebaseNever(br) ==
    /\ At(br, "decide") /\ Exists(br) /\ rebaseWhen[br] = "never"
    /\ ReturnNoCommit(br)
    /\ UNCHANGED <<worldVars, disk, phase, gitVars, cacheVars, todo>>

\* shouldReuseExistingBranch
DecideReuse(br) ==
    /\ At(br, "decide") /\ ~(Exists(br) /\ rebaseWhen[br] = "never")
    /\ LET modified == memModified[br] = "yes"
           askBehind == Exists(br) /\ rebaseWhen[br] = "behind-base-branch" /\ KnownBehind(br) = "unset"
           behind == /\ Exists(br) /\ rebaseWhen[br] = "behind-base-branch"
                     /\ "yes" = IF askBehind THEN GitBehind(Fetched, br) ELSE KnownBehind(br)
           merge == Exists(br) /\ ~behind
           askConflict == merge /\ KnownConflict(br) = "unset"
       IN \E conflict \in IF ~merge THEN {"unset"} ELSE IF ~askConflict THEN {KnownConflict(br)}
                          ELSE GitConflict(Fetched, br, MergedInto(br)) :
          /\ IF askBehind \/ askConflict THEN SyncGit ELSE UNCHANGED <<cloned, origin>>
          /\ conflicts' = IF askConflict THEN WithConflict(br, snapshot[br], conflict, MergedInto(br))
                          ELSE conflicts
          /\ headOn' = IF askConflict THEN HeadAfterMerge(Fetched, br) ELSE headOn
          /\ work' = [work EXCEPT !.stage = "update", !.conflicted = conflict,
                         !.reuse = Exists(br) /\ (modified \/ (~behind /\ conflict = "no"))]
    /\ UNCHANGED <<worldVars, disk, phase, snapshot, current, memModified, branches, todo, fingerprints>>

SkipUpdate(br) ==
    /\ At(br, "update") /\ work.reuse /\ work.skip
    /\ ReturnNoCommit(br)
    /\ UNCHANGED <<worldVars, disk, phase, gitVars, cacheVars, todo>>

\* checkoutBranch, getUpdatedPackageFiles, prepareCommit.  A branch that is
\* reused and already has the release needs no file updated; otherwise all
\* updates are reapplied to the base branch.
UpdateFiles(br) ==
    /\ At(br, "update") /\ ~(work.reuse /\ work.skip)
    /\ SyncGit /\ current' = baseOf[br]
    /\ LET head == Fetched[br]
           ask == Exists(br) /\ work.conflicted = "unset" /\ KnownConflict(br) = "unset"
           files == ~work.reuse \/ head = NoSha \/ CommitAt(head).want # want[br]
           diff == head = NoSha \/ HasDiff(CommitAt(head), NewCommit(Fetched, br))
       IN \E conflict \in IF work.conflicted # "unset" \/ ~Exists(br) THEN {work.conflicted}
                          ELSE IF ask THEN GitConflict(Fetched, br, baseOf[br]) ELSE {KnownConflict(br)} :
          LET force == work.asked \/ ~Exists(br) \/ conflict = "yes"
          IN
          /\ conflicts' = IF ask THEN WithConflict(br, snapshot[br], conflict, baseOf[br]) ELSE conflicts
          /\ headOn' = IF files THEN br ELSE baseOf[br]
          /\ IF files /\ (force \/ diff)
             THEN Goto("push") /\ UNCHANGED fingerprints
             ELSE ReturnNoCommit(br)
    /\ UNCHANGED <<worldVars, disk, phase, snapshot, memModified, branches, todo>>

-----------------------------------------------------------------------------
(* The push *)

\* the remote branch becomes the commit prepared for br
PutCommit(br) ==
    /\ Len(commits[br]) < MaxCommits
    /\ commits' = [commits EXCEPT ![br] = Append(@, NewCommit(origin, br))]
    /\ remote' = [remote EXCEPT ![br] = <<br, Len(commits[br]) + 1>>]

\* git push --force-with-lease: the lease is the remote-tracking ref.  A stale
\* lease is REPOSITORY_CHANGED: Abort.
PushWithLease(br) ==
    /\ At(br, "push") /\ ~PlatformCommit
    /\ remote[br] = origin[br]
    /\ PutCommit(br)
    /\ origin' = [origin EXCEPT ![br] = remote'[br]]
    /\ snapshot' = [snapshot EXCEPT ![br] = remote'[br]]
    /\ memModified' = [memModified EXCEPT ![br] = "no"]
    /\ work' = [work EXCEPT !.stage = "record", !.commit = remote'[br]]
    /\ UNCHANGED <<want, baseOf, rebaseWhen, disk, phase, cloned, current, headOn, cacheVars, todo, fingerprints>>

\* pushFiles: the REST API moves the ref by force, or creates it
PushByApi(br) ==
    /\ At(br, "push") /\ PlatformCommit
    /\ (remote[br] = NoSha) <=> ~Exists(br)
    /\ PutCommit(br)
    /\ Goto("fetch")
    /\ UNCHANGED <<want, baseOf, rebaseWhen, disk, phase, gitVars, cacheVars, todo, fingerprints>>

\* fetchCommit: whatever the branch's head is by then is taken for the commit
FetchCommit(br) ==
    /\ At(br, "fetch") /\ remote[br] # NoSha
    /\ origin' = [origin EXCEPT ![br] = remote[br]]
    /\ snapshot' = [snapshot EXCEPT ![br] = remote[br]]
    /\ memModified' = [memModified EXCEPT ![br] = "no"]
    /\ work' = [work EXCEPT !.stage = "record", !.commit = remote[br]]
    /\ UNCHANGED <<worldVars, disk, phase, cloned, current, headOn, cacheVars, todo, fingerprints>>

\* the push is refused, the API answers with an error, the fetch finds nothing
PushFails(br) ==
    /\ \/ Faults /\ At(br, "push")
       \/ PlatformCommit /\ At(br, "push") /\ (remote[br] = NoSha <=> Exists(br))
       \/ At(br, "fetch") /\ remote[br] = NoSha
    /\ ReturnNoCommit(br)
    /\ UNCHANGED <<worldVars, disk, phase, gitVars, cacheVars, todo>>

\* setCachedConflictResult and setBranchNewCommit, with the snapshot's base sha
RecordCommit(br) ==
    /\ At(br, "record")
    /\ conflicts' = WithConflict(br, work.commit, "no", baseOf[br])
    /\ branches' = [branches EXCEPT ![br] =
          [@ EXCEPT !.sha = work.commit, !.baseSha = BaseSha(br), !.isBehindBase = "no",
                    !.isModified = "no", !.parentSha = BaseSha(br)]]
    /\ fingerprints' = [fingerprints EXCEPT ![br] = Fingerprint(br)]
    /\ work' = NoWork
    /\ UNCHANGED <<worldVars, disk, phase, gitVars, todo>>

-----------------------------------------------------------------------------
(* The run ends: the cache is rebuilt and saved *)

\* generateBranchCache reads the entry of this run, and asks git for what it lacks
Generated(br, heads, failed) ==
    LET e == branches[br]
        cachedParent == IF e.sha = snapshot[br] THEN e.parentSha ELSE NoSha
        base == [sha |-> snapshot[br], baseBranch |-> baseOf[br], baseSha |-> BaseSha(br),
                 fingerprint |-> fingerprints[br], isModified |-> "no",
                 isBehindBase |-> "no", parentSha |-> NoSha]
    IN IF ~Exists(br) THEN base
       ELSE IF KnownModified(br) = "unset" /\ heads[br] = NoSha THEN NoEntry
       ELSE [base EXCEPT
               !.isModified = IF KnownModified(br) # "unset" THEN KnownModified(br)
                              ELSE GitModified(heads[br], failed),
               !.isBehindBase = IF KnownBehind(br) # "unset" THEN KnownBehind(br)
                                ELSE GitBehind(heads, br),
               !.parentSha = IF cachedParent # NoSha \/ ~cloned THEN cachedParent
                             ELSE CommitAt(snapshot[br]).parent]

\* setBranchCache; an HTTP error drops the entry of a branch (lost), git may fail
\* to name an author (misread)
SetBranchCache(lost, misread) ==
    /\ phase = "write" /\ work = NoWork /\ todo = {}
    /\ lost # {} \/ misread # {} => Faults
    /\ LET ask == \E br \in Branches \ lost : Exists(br) /\ "unset" \in {KnownModified(br), KnownBehind(br)}
       IN IF ask THEN SyncGit ELSE UNCHANGED <<cloned, origin>>
    /\ branches' = [br \in Branches |-> IF br \in lost THEN NoEntry ELSE Generated(br, Fetched, br \in misread)]
    /\ phase' = "save"
    /\ UNCHANGED <<worldVars, disk, snapshot, current, headOn, memModified, conflicts, loopVars>>

SaveCache ==
    /\ phase = "save"
    /\ disk' = [branches |-> branches, conflicts |-> conflicts]
    /\ RunOver
    /\ UNCHANGED worldVars

-----------------------------------------------------------------------------
Init ==
    /\ commits = [br \in Branches |-> <<>>]
    /\ remote = [r \in Refs |-> IF r \in Bases THEN Root ELSE NoSha]
    /\ want = [br \in Branches |-> 1]
    /\ baseOf = [br \in Branches |-> DefaultBase]
    /\ rebaseWhen \in [Branches -> RebaseModes]
    /\ disk = EmptyCache
    /\ phase = "idle" /\ snapshot = NoHeads /\ cloned = FALSE
    /\ origin = NoHeads /\ current = DefaultBase /\ headOn = DefaultBase
    /\ memModified = [br \in Branches |-> "unset"]
    /\ branches = EmptyBranches /\ conflicts = EmptyConflicts
    /\ todo = {} /\ work = NoWork /\ fingerprints = [br \in Branches |-> NoPrint]

World ==
    \/ \E b \in Bases : BaseMoves(b)
    \/ \E br \in Branches, author \in Authors, merge \in BOOLEAN : UserPush(br, author, merge)
    \/ \E br \in Branches : UserDelete(br) \/ NewRelease(br)
    \/ \E br \in Branches, b \in Bases, mode \in RebaseModes : Reconfigure(br, b, mode)
    \/ LoseCache

ProcessBranch(br) ==
    \/ StartBranch(br) \/ EarlyReturn(br)
    \/ \E failed \in BOOLEAN : CheckEdited(br, failed)
    \/ \E rebase \in BOOLEAN : DecideByUser(br, rebase)
    \/ RebaseNever(br) \/ DecideReuse(br)
    \/ SkipUpdate(br) \/ UpdateFails(br) \/ UpdateFiles(br)
    \/ PushWithLease(br) \/ PushByApi(br) \/ FetchCommit(br) \/ PushFails(br)
    \/ RecordCommit(br)

Run ==
    \/ InitRepo \/ Extract
    \/ \E br \in Branches : ProcessBranch(br)
    \/ \E lost, misread \in SUBSET Branches : SetBranchCache(lost, misread)
    \/ SaveCache

Next == World \/ Run \/ Abort

Spec == Init /\ [][Next]_vars

-----------------------------------------------------------------------------
(* Properties *)

\* Every variable has its type, in memory and in the saved cache
\* (workers/repository/process/write.ts, util/git/index.ts).
TypeOK ==
    /\ commits \in [Branches -> Seq(Commit)]
    /\ remote \in [Refs -> Sha] /\ snapshot \in [Refs -> Sha] /\ origin \in [Refs -> Sha]
    /\ want \in [Branches -> Nat] /\ baseOf \in [Branches -> Bases]
    /\ rebaseWhen \in [Branches -> RebaseModes]
    /\ disk \in [branches : [Branches -> Entry \cup {NoEntry}], conflicts : Conflicts]
    /\ phase \in {"idle", "extract", "write", "save"}
    /\ cloned \in BOOLEAN /\ current \in Bases /\ headOn \in Refs
    /\ memModified \in [Branches -> Flags]
    /\ branches \in [Branches -> Entry \cup {NoEntry}] /\ conflicts \in Conflicts
    /\ todo \in SUBSET Branches /\ work \in Work \cup {NoWork}
    /\ fingerprints \in [Branches -> Prints]

HeadIsUsers(br, sha) ==
    /\ sha # NoSha /\ sha = remote[br]
    /\ CommitAt(sha).author = "user"

\* An answer "not modified", in memory, in this run's cache or in the saved
\* cache, is never about a commit that is the branch's head on the remote and
\* was pushed by a person: the next run that finds the entry's sha at the head
\* would overwrite it (isBranchModified, syncBranchState, setBranchNewCommit).
UnmodifiedIsTrue ==
    \A br \in Branches :
        /\ memModified[br] = "no" => ~HeadIsUsers(br, snapshot[br])
        /\ \A e \in {branches[br], disk.branches[br]} :
              e # NoEntry /\ e.isModified = "no" => ~HeadIsUsers(br, e.sha)

\* A saved "is behind base" whose two shas are the heads of the remote, so that
\* the next run will use it, is true (isBranchBehindBase, getCachedBehindBaseResult).
UsableBehindIsTrue ==
    \A br \in Branches :
        LET e == disk.branches[br]
        IN e # NoEntry /\ e.sha # NoSha /\ e.isBehindBase # "unset"
              /\ e.sha = remote[br] /\ e.baseSha = remote[e.baseBranch]
           => e.isBehindBase = Flag(~Contains(CommitAt(e.sha), e.baseSha))

\* A conflict answer whose two shas are the heads of the remote, so that it will
\* be used, is true, in this run's cache and in the saved one, with two
\* exceptions, where git merged the branch into something else than its base:
\* into the commit prepared for another branch, and the branch is said to
\* conflict; or into the base branch that HEAD stayed on after a merge that could
\* not be aborted (isBranchConflicted, and processBranch, which records "no
\* conflict" for a commit it made on another base sha).
UsableConflictIsTrue ==
    \A cache \in {conflicts, disk.conflicts}, b \in Bases, br \in Branches :
        LET answer == cache[b].source[br]
        IN answer.sha # NoSha /\ answer.sha = remote[br] /\ cache[b].target = remote[b]
           => \/ answer.isConflicted = MergeConflicts(CommitAt(answer.sha), remote[b])
              \/ answer.over \in Branches /\ answer.isConflicted
              \/ answer.over \in Bases \ {b}

\* the run, and nobody else, moves br's head away from a person's commit
ReplacesEdit(br) ==
    At(br, "push") /\ work' # work /\ remote'[br] # remote[br] /\ HeadIsUsers(br, remote[br])

\* A push of the run that replaces a person's commit was asked for, or replaces
\* a commit that the run's ls-remote did not show.  The lease alone does not
\* ensure it: it holds for what the clone shows (processBranch's PrEdited
\* returns, isBranchModified, pushCommit).
SeenEditsKept ==
    [][\A br \in Branches :
         ReplacesEdit(br) => work.asked \/ work.override \/ snapshot[br] # remote[br]]_vars

\* A branch that shouldReuseExistingBranch keeps, unedited and not pushed to
\* since, merges into the base the run saw, and contains it if rebaseWhen says
\* so: the answers it was decided from were not those of other commits.  The
\* exception is an answer git gave while HEAD had stayed on another base branch.
ReusedIsCurrent ==
    \A br \in Branches :
        At(br, "update") /\ work.reuse /\ memModified[br] = "no" /\ snapshot[br] = remote[br]
        => LET c == CommitAt(snapshot[br])
           IN /\ \/ ~MergeConflicts(c, BaseSha(br))
                 \/ conflicts[baseOf[br]].source[br].over \in Bases \ {baseOf[br]}
              /\ rebaseWhen[br] = "behind-base-branch" => Contains(c, BaseSha(br))

\* A branch of Renovate's own whose update check is skipped has the release its
\* upgrade stands at (canSkipBranchUpdateCheck and the fingerprint writeUpdates records).
SkippedIsUpToDate ==
    \A br \in Branches :
        At(br, "update") /\ work.reuse /\ work.skip /\ memModified[br] = "no"
        => CommitAt(snapshot[br]).want = want[br]

-----------------------------------------------------------------------------
(* Liveness: Renovate is started again and again, and a process makes progress. *)
FairSpec == Spec /\ WF_vars(Run)

\* the branch is left to a person, by an edit or by rebaseWhen=never, or
\* proposes the release its upgrade stands at
Settled(br) ==
    /\ remote[br] # NoSha
    /\ LET c == CommitAt(remote[br]) IN c.edited \/ c.want = want[br] \/ rebaseWhen[br] = "never"

\* If runs keep ending normally, every branch settles once the configuration,
\* releases and people are quiet, whatever crashes and lost caches came before
\* (writeUpdates, processBranch).
Converges ==
    []<><<SaveCache>>_vars /\ <>[][UNCHANGED <<baseOf, rebaseWhen>>]_vars
    => <>[](\A br \in Branches : Settled(br))

=============================================================================
