----------------------------- MODULE Onboarding -----------------------------
(***************************************************************************)
(* How a repository comes to be renovated: checkOnboardingBranch at the    *)
(* start of a run (lib/workers/repository/onboarding/branch), the PR that  *)
(* asks for a configuration (onboarding/pr), and what becomes of both and  *)
(* of the update branches as people merge, close, rename and edit.         *)
(*                                                                         *)
(* The platform is GitHub, commits are pushed with git.  A configuration   *)
(* file is there or not; all the update branches are one fact, `updates'.  *)
(***************************************************************************)
EXTENDS Naturals, Sequences, FiniteSets

CONSTANTS
    Options,    \* the settings of the bot: requireConfig, onboarding, and
                \* whether there is something to update or onboardingNoDeps
    MaxEvents   \* bound: what people, clocks and crashes do

ASSUME OnboardingAssumption ==
    /\ MaxEvents \in Nat
    /\ \A o \in Options : /\ o.requireConfig \in {"required", "optional", "ignored"}
                          /\ {o.onboarding, o.extracts} \subseteq BOOLEAN

Main(conf, n) == [conf |-> conf, n |-> n]
Commit(by, onto) == [by |-> by, onto |-> onto]
NoBranch == Commit("nobody", 0)
\* own: opened by Renovate; old: autoclosed more than seven days ago
Pr(own) == [own |-> own, state |-> "open", title |-> "ours", old |-> FALSE,
            head |-> NoBranch]

NotCloned == [main |-> Main(FALSE, 0), branch |-> NoBranch]
NotListed == [known |-> FALSE, prs |-> <<>>]

VARIABLES
    options,
    main,       \* the default branch: has it a configuration, how many commits
    branch,     \* the onboarding branch: whose commit, onto which of main's
    prs,        \* the PRs there ever were from that branch
    updates,    \* are there update branches
    disk,       \* cache.configFileName, saved
    phase,      \* how far the run is
    onboarded,  \* config.repoIsOnboarded
    name,       \* cache.configFileName of the run
    known,      \* is the onboarding branch in config.branchCommits
    clone,      \* what the clone has
    list,       \* config.prList
    agreed,     \* history: somebody agreed, before this run began or since
    events

world == <<options, main, branch, prs>>
vars == <<world, updates, disk, phase, onboarded, name, known, clone, list, agreed, events>>

Phases == {"idle", "check", "look", "closed", "create", "rebase", "checkout",
           "pr", "config", "update", "save", "prune", "delete"}
----------------------------------------------------------------------------
IsNewest(i, is) == i \in is /\ \A j \in is : j <= i
ListOf(ps) == {i \in DOMAIN ps : ps[i].own}
OpenIn(ps) == {i \in ListOf(ps) : ps[i].state = "open"}

TitledIn(ps) == {i \in ListOf(ps) : ps[i].title = "ours"}    \* mutant
\* closedPrExists: findPr by the title, among those not open
ClosedIn(ps) == {i \in ListOf(ps) : ps[i].state # "open" /\ ps[i].title = "ours"}

\* Renovate's PRs that people merged or closed, and did not rename
Decided == {i \in DOMAIN prs :
    prs[i].own /\ prs[i].state \in {"closed", "merged"} /\ prs[i].title = "ours"}

\* getBranchPr: the newest closed one, if Renovate closed it less than a week ago
AutoclosedIn(ps) ==
    {i \in ListOf(ps) : /\ IsNewest(i, {j \in ListOf(ps) : ps[j].state = "closed"})
                        /\ ps[i].title = "autoclosed" /\ ~ps[i].old}

\* GitHub closes the PRs of a branch that is deleted
ClosedAll(ps) ==
    [i \in DOMAIN ps |->
        IF ps[i].state = "open" THEN [ps[i] EXCEPT !.state = "closed", !.head = branch] ELSE ps[i]]

\* the repository is to be renovated whatever it has
SkipsCheck ==
    \/ options.requireConfig = "ignored"
    \/ options.requireConfig = "optional" /\ ~options.onboarding

\* what a person has to do for Renovate to begin
Agreed ==
    \/ SkipsCheck \/ main.conf
    \/ options.requireConfig = "optional" /\ Decided # {}
----------------------------------------------------------------------------
Init ==
    /\ options \in Options
    /\ main = Main(FALSE, 1) /\ branch = NoBranch /\ prs = <<>>
    /\ updates = FALSE /\ disk = FALSE
    /\ phase = "idle" /\ onboarded = FALSE /\ name = FALSE /\ known = FALSE
    /\ clone = NotCloned /\ list = NotListed
    /\ agreed = FALSE /\ events = 0

\* the run goes on; what it does not say stays
Goes(to) ==
    /\ phase' = to /\ onboarded' = (onboarded \/ to = "config")
    /\ UNCHANGED <<options, agreed, events>>
Ends == Goes("idle") /\ UNCHANGED <<main, branch, prs, updates, disk, name, known, clone, list>>

\* initRepo: the cache is loaded, ls-remote read
BeginRun ==
    /\ phase = "idle"
    /\ phase' = "check" /\ onboarded' = FALSE
    /\ name' = disk /\ known' = (branch # NoBranch)
    /\ clone' = NotCloned /\ list' = NotListed
    /\ agreed' = Agreed
    /\ UNCHANGED <<world, updates, disk, events>>

\* getJsonFile reads the default branch on the platform
NameConfirmed == name /\ main.conf

\* isOnboarded, as far as the file whose name is in the cache
CheckName ==
    /\ phase = "check"
    /\ \/ (SkipsCheck \/ NameConfirmed) /\ Goes("config") /\ UNCHANGED name
       \/ ~SkipsCheck /\ ~NameConfirmed /\ Goes("look") /\ name' = FALSE
    /\ UNCHANGED <<main, branch, prs, updates, disk, known, clone, list>>

OldClone == clone    \* mutant
\* syncGit
Cloned == IF clone = NotCloned THEN [main |-> main, branch |-> branch] ELSE clone

\* isOnboarded: configFileExists, in the clone; REPOSITORY_NO_CONFIG
LookForConfig ==
    /\ phase = "look"
    /\ clone' = Cloned
    /\ Goes(IF clone'.main.conf THEN "config"
            ELSE IF ~options.onboarding THEN "idle" ELSE "closed")
    /\ UNCHANGED <<main, branch, prs, updates, disk, name, known, list>>

\* isOnboarded: closedPrExists; getOnboardingPr; REPOSITORY_CLOSED_ONBOARDING
CheckClosed ==
    /\ phase = "closed"
    /\ list' = [known |-> TRUE, prs |-> prs]
    /\ Goes(IF ClosedIn(prs) # {}
            THEN IF options.requireConfig = "optional" THEN "config" ELSE "idle"
            ELSE IF OpenIn(prs) # {} THEN "rebase" ELSE "create")
    /\ UNCHANGED <<main, branch, prs, updates, disk, name, known, clone>>

\* getBranchPr: the autoclosed PR's branch is created again, and the PR reopened
Reopen(i) ==
    /\ phase = "create" /\ i \in AutoclosedIn(list.prs) /\ branch = NoBranch
    /\ branch' = list.prs[i].head
    /\ prs' = [prs EXCEPT ![i].state = "open", ![i].title = "ours"]
    /\ list' = [list EXCEPT !.prs[i].state = "open", !.prs[i].title = "ours"]
    /\ Goes("rebase")
    /\ UNCHANGED <<main, updates, disk, name, known, clone>>
CannotReopen == AutoclosedIn(list.prs) = {} \/ branch # NoBranch

NeverModified == FALSE    \* mutant
\* isBranchModified: the author of the clone's last commit, if ls-remote had the branch
IsModified == known /\ clone.branch.by = "person"

IsMissing == ~known \/ clone.branch = NoBranch    \* mutant
\* there is no such file in the branch, or the branch is behind
IsStale == ~known \/ clone.branch.onto # clone.main.n

\* the branch was deleted between ls-remote and the clone: REPOSITORY_CHANGED
HasGone == known /\ clone.branch = NoBranch

\* commitAndPush, with the lease of the clone
Push ==
    /\ clone.branch = branch
    /\ branch' = Commit("renovate", clone.main.n)
    /\ clone' = [clone EXCEPT !.branch = branch'] /\ known' = TRUE
    /\ Goes("checkout")
    /\ UNCHANGED <<main, prs, updates, disk, name, list>>

Kept == Goes("checkout") /\ UNCHANGED <<main, branch, prs, updates, disk, name, known, clone, list>>

\* rebaseOnboardingBranch
Rebase ==
    /\ phase = "rebase" /\ ~HasGone
    /\ \/ (IsModified \/ ~IsStale) /\ Kept
       \/ ~IsModified /\ IsStale /\ Push

\* createOnboardingBranch; without a difference nothing is pushed
Create ==
    /\ phase = "create" /\ CannotReopen /\ options.extracts
    /\ \/ clone.branch = Commit("renovate", clone.main.n) /\ Kept
       \/ clone.branch # Commit("renovate", clone.main.n) /\ Push

\* REPOSITORY_NO_PACKAGE_FILES
NothingToDo == phase = "create" /\ CannotReopen /\ ~options.extracts /\ Ends

\* somebody else was there first: REPOSITORY_CHANGED
Changed ==
    /\ \/ phase = "rebase" /\ HasGone
       \/ phase = "rebase" /\ ~HasGone /\ ~IsModified /\ IsStale /\ clone.branch # branch
       \/ phase = "create" /\ CannotReopen /\ options.extracts /\ clone.branch # branch
            /\ clone.branch # Commit("renovate", clone.main.n)
    /\ Ends

\* checkoutBranch, and mergeRenovateConfig with what is checked out
CheckOut ==
    /\ phase = "checkout"
    /\ name' = TRUE
    /\ Goes("pr")
    /\ UNCHANGED <<main, branch, prs, updates, disk, known, clone, list>>

Deleted ==
    /\ branch' = NoBranch /\ prs' = ClosedAll(prs) /\ known' = FALSE

\* ensureOnboardingPr
EnsurePr ==
    /\ phase = "pr"
    /\ \/ /\ OpenIn(list.prs) # {}
          /\ UNCHANGED <<branch, prs, known, list>>
       \/ /\ OpenIn(list.prs) = {} /\ branch # NoBranch
          /\ \A i \in DOMAIN prs : prs[i].state # "open"
          /\ prs' = Append(prs, Pr(TRUE)) /\ list' = [list EXCEPT !.prs = prs']
          /\ UNCHANGED <<branch, known>>
       \/ \* 422: a PR exists that is not Renovate's
          /\ OpenIn(list.prs) = {}
          /\ \E i \in DOMAIN prs : prs[i].state = "open"
          /\ Deleted /\ UNCHANGED list
    /\ Goes("save")
    /\ UNCHANGED <<main, updates, disk, name, clone>>
CreatePrFails ==
    /\ phase = "pr" /\ OpenIn(list.prs) = {} /\ branch = NoBranch
    /\ Ends

\* mergeRenovateConfig of an onboarded repository
MergeConfig ==
    /\ phase = "config"
    /\ clone' = Cloned
    /\ \/ options.requireConfig = "ignored" /\ UNCHANGED name
       \/ options.requireConfig # "ignored" /\ name /\ main.conf /\ UNCHANGED name
       \/ options.requireConfig # "ignored" /\ ~name /\ name' = clone'.main.conf
    /\ Goes("update")
    /\ UNCHANGED <<main, branch, prs, updates, disk, known, list>>
\* getRawFile answers 404
ConfigGone ==
    /\ phase = "config" /\ options.requireConfig # "ignored" /\ name /\ ~main.conf
    /\ Ends

\* updateRepo
UpdateRepo ==
    /\ phase = "update"
    /\ updates' = TRUE
    /\ list' = IF list.known THEN list ELSE [known |-> TRUE, prs |-> prs]
    /\ Goes("save")
    /\ UNCHANGED <<main, branch, prs, disk, name, known, clone>>

\* finaliseRepo: saveCache, then pruneStaleBranches
SaveCache ==
    /\ phase = "save"
    /\ disk' = name
    /\ Goes("prune")
    /\ UNCHANGED <<main, branch, prs, updates, name, known, clone, list>>

\* a run that onboards lists no branch but its own: all the others are stale
PruneUpdates ==
    /\ phase = "prune" /\ ~onboarded
    /\ updates' = FALSE
    /\ Goes("idle")
    /\ UNCHANGED <<main, branch, prs, disk, name, known, clone, list>>

\* the onboarding branch of an onboarded repository is stale; the PR is closed first
PruneOnboarding ==
    /\ phase = "prune" /\ onboarded
    /\ IF known /\ ~IsModified /\ ~HasGone
       THEN /\ Goes("delete")
            /\ prs' = [i \in DOMAIN prs |->
                        IF IsNewest(i, OpenIn(list.prs))
                        THEN [prs[i] EXCEPT
                                !.title = "autoclosed",
                                !.state = IF @ = "open" THEN "closed" ELSE @,
                                !.head = IF prs[i].state = "open" THEN branch ELSE @]
                        ELSE prs[i]]
       ELSE Goes("idle") /\ UNCHANGED prs
    /\ UNCHANGED <<main, branch, updates, disk, name, known, clone, list>>

DeleteBranch ==
    /\ phase = "delete"
    /\ Deleted
    /\ Goes("idle")
    /\ UNCHANGED <<main, updates, disk, name, clone, list>>
----------------------------------------------------------------------------
(***************************************************************************)
(* Other people, clocks, crashes.                                          *)
(***************************************************************************)
Happens ==
    /\ events < MaxEvents /\ events' = events + 1
    /\ UNCHANGED <<options, updates, disk, onboarded, name, known, clone, list>>
    /\ agreed' = (agreed \/ Agreed')

MainMoves(conf) ==
    /\ main' = Main(conf, main.n + 1)
    /\ UNCHANGED <<branch, prs, phase>>
    /\ Happens

EditBranch ==
    /\ branch # NoBranch /\ branch.by # "person"
    /\ branch' = [branch EXCEPT !.by = "person"]
    /\ UNCHANGED <<main, prs, phase>>
    /\ Happens

OpenPr ==
    /\ branch # NoBranch /\ \A i \in DOMAIN prs : prs[i].state # "open"
    /\ prs' = Append(prs, Pr(FALSE))
    /\ UNCHANGED <<main, branch, phase>>
    /\ Happens

ClosePr ==
    /\ OpenIn(prs) # {}
    /\ prs' = ClosedAll(prs)
    /\ branch' \in {branch, NoBranch}
    /\ UNCHANGED <<main, phase>>
    /\ Happens

MergePr(i) ==
    /\ prs[i].state = "open"
    /\ prs' = [prs EXCEPT ![i].state = "merged"]
    /\ main' = Main(TRUE, main.n + 1)
    /\ branch' \in {branch, NoBranch}
    /\ UNCHANGED phase
    /\ Happens

RenamePr(i) ==
    /\ i \in Decided
    /\ prs' = [prs EXCEPT ![i].title = "renamed"]
    /\ UNCHANGED <<main, branch, phase>>
    /\ Happens

WeekPasses ==
    /\ AutoclosedIn(prs) # {}
    /\ prs' = [i \in DOMAIN prs |-> [prs[i] EXCEPT !.old = prs[i].title = "autoclosed"]]
    /\ UNCHANGED <<main, branch, phase>>
    /\ Happens

\* an error nobody handles, or a killed process
Killed == phase # "idle" /\ phase' = "idle" /\ UNCHANGED <<main, branch, prs>> /\ Happens

Work ==
    \/ BeginRun \/ CheckName \/ LookForConfig \/ CheckClosed
    \/ (\E i \in DOMAIN list.prs : Reopen(i)) \/ Rebase \/ Create \/ NothingToDo \/ Changed
    \/ CheckOut \/ EnsurePr \/ CreatePrFails
    \/ MergeConfig \/ ConfigGone \/ UpdateRepo
    \/ SaveCache \/ PruneUpdates \/ PruneOnboarding \/ DeleteBranch

Next ==
    \/ Work
    \/ \E conf \in BOOLEAN : MainMoves(conf)
    \/ EditBranch \/ OpenPr \/ ClosePr \/ WeekPasses \/ Killed
    \/ \E i \in DOMAIN prs : MergePr(i) \/ RenamePr(i)

\* Renovate is started again and again, and goes on
Spec == Init /\ [][Next]_vars /\ WF_vars(Work)
----------------------------------------------------------------------------
(* Types; a run that works on the onboarding PR has listed and cloned; the  *)
(* branch of an open PR exists, and GitHub has one open PR of a branch.     *)
TypeOK ==
    /\ options \in Options /\ main.conf \in BOOLEAN /\ main.n \in 1..MaxEvents + 1
    /\ \A c \in {branch, clone.branch} :
        c.by \in {"nobody", "person", "renovate"} /\ c.onto \in 0..main.n
    /\ {updates, disk, onboarded, name, known, agreed} \subseteq BOOLEAN
    /\ phase \in Phases /\ events \in 0..MaxEvents
    /\ phase \in {"create", "rebase", "checkout", "pr"} =>
        ~onboarded /\ list.known /\ clone.main.n # 0
    /\ DOMAIN list.prs \subseteq DOMAIN prs
    /\ LET open == {i \in DOMAIN prs : prs[i].state = "open"}
       IN Cardinality(open) <= 1 /\ (open # {} => branch # NoBranch)

(* Nothing is updated before somebody agreed: by a configuration on the     *)
(* default branch, or by closing the PR where one is not required, before   *)
(* the run began or since.  The name of the configuration file that a run   *)
(* found in the onboarding branch, and saved, is no agreement.              *)
(* (docs/usage/getting-started/installing-onboarding.md:62)                 *)
AsksFirst == [][updates' /\ ~updates => agreed]_vars

(* While a PR of Renovate's is there that was closed or merged under its    *)
(* title, Renovate opens and reopens none, in this run or another.          *)
ClosedStays == [][(OpenIn(prs') \ OpenIn(prs) # {}) => Decided = {}]_vars

(* What people decide about onboarding stands.                              *)
PeopleDecide == AsksFirst /\ ClosedStays

(* While its PR is open, an edit of the onboarding branch is overwritten or *)
(* deleted by no run that could see it.                                     *)
SeenEditsKept ==
    [][(Work /\ branch.by = "person" /\ clone.branch = branch /\ branch' # branch) =>
        OpenIn(prs) = {}]_vars

Settled ==
    IF Agreed THEN updates /\ branch.by # "renovate"
    ELSE IF ~options.onboarding \/ Decided # {} THEN phase \in {"idle", "check", "look", "closed"}
    ELSE IF ~options.extracts /\ OpenIn(prs) = {} THEN phase # "update"
    ELSE /\ ~updates /\ OpenIn(prs) # {}
         /\ branch.by = "person" \/ branch.onto = main.n

(* When people leave it alone, onboarding comes to an end: the repository   *)
(* is renovated and the onboarding branch gone, or it is disabled, or a PR  *)
(* is open whose branch is edited or on top of the default branch, and the  *)
(* update branches of former times are gone.                                *)
Settles == <>[]Settled
=============================================================================
