------------------------------ MODULE Dashboard ------------------------------
(***************************************************************************)
(* The Dependency Dashboard: an issue with a box per branch, which people  *)
(* tick and every run reads, acts on and rewrites                          *)
(* (lib/workers/repository/dependency-dashboard.ts, and the issues of      *)
(* lib/modules/platform/github/index.ts).                                  *)
(*                                                                         *)
(* A branch is in the stage its box is named after: waiting for approval   *)
(* ("approve"), held back by a limit ("unlimit"), with an open PR          *)
(* ("rebase"), with a PR that was closed ("recreate"), or gone ("none").   *)
(* A branch whose update failed has the box "retry", in whatever stage.    *)
(***************************************************************************)
EXTENDS Naturals, FiniteSets

CONSTANTS
    Branches,       \* how many branches there are, in the order they are processed
    Beginnings,     \* the stages the branches may begin in
    Numbers,        \* the numbers issues can get: 1..
    Autoclose,      \* dependencyDashboardAutoclose
    RebaseAllInRun, \* whether somebody ticks "rebase all" while a run is under way
    MaxTicks,       \* bound: boxes ticked
    MaxEvents,      \* bound: what people and releases do besides
    MaxFailures     \* bound: requests and branches that fail, and runs that abort

ASSUME DashboardAssumption ==
    /\ Branches \in Nat \ {0} /\ Numbers \subseteq Nat \ {0} /\ IsFiniteSet(Numbers)
    /\ Beginnings \subseteq [1..Branches -> {"approve", "unlimit", "rebase"}]
    /\ Autoclose \in BOOLEAN /\ RebaseAllInRun \in BOOLEAN
    /\ MaxTicks \in Nat /\ MaxEvents \in Nat /\ MaxFailures \in Nat

All == 1..Branches
Stages == {"none", "approve", "unlimit", "rebase", "recreate"}
Results == Stages \cup {"retry"}
NoIssue == 0

VARIABLES
    stage,      \* per branch, its stage
    issue,      \* per number, the state of the issue and its body
    later,      \* per number, the issues updated after it
    phase,      \* what the run does next
    canRetry,   \* the run may still start again after an automerge
    list,       \* issueList: per number, the state it was listed with
    order,      \* issueList: per number, those that stand before it
    dashboard,  \* dependencyDashboardIssue
    checks,     \* dependencyDashboardChecks: the branches
    rebaseAll,  \* dependencyDashboardRebaseAllOpen
    next,       \* the branch processed next
    result,     \* per branch, the box the run has for it
    memory,     \* the remembered GET of the dashboard, if there is one, and its body
    owed,       \* history: the ticks <<issue, branch>> nobody acted on yet
    late,       \* history: those made since the run last asked about the dashboard
    ticks, events, failures  \* how many there were

people == <<stage, issue, later>>
issueList == <<list, order>>
run == <<phase, canRetry, issueList, dashboard, checks, rebaseAll, next, result, memory>>
vars == <<people, run, owed, late, ticks, events, failures>>

Issues == {n \in Numbers : issue[n].state # "none"}
Open == {n \in Numbers : issue[n].state = "open"}

\* an update moves an issue before the others
Update(n) ==
    later' = [m \in Numbers |-> IF m \in Issues \ {n} THEN later[m] \cup {n} ELSE {}]

EmptyList == [n \in Numbers |-> "none"]
Unordered == [n \in Numbers |-> {}]
----------------------------------------------------------------------------
(***************************************************************************)
(* The body of the issue: per branch the type of its box, which of the     *)
(* boxes are ticked, and which of the boxes that stand for all of a type.  *)
(***************************************************************************)
NewBody(types, ticked) == [types |-> types, ticked |-> ticked, all |-> {}]
NoBody == NewBody([b \in All |-> "none"], {})

NotAsked == [status |-> "none", body |-> NoBody]
Failed == [status |-> "failed", body |-> NoBody]
Answered(body) == [status |-> "ok", body |-> body]

OfType(body, type) == {b \in All : body.types[b] = type}
AllBoxes(body) ==
    {t \in {"approve", "unlimit"} : Cardinality(OfType(body, t)) > 1}
        \cup {t \in {"rebase"} : Cardinality(OfType(body, t)) > 2}

\* getCheckedBranches: the boxes ticked one by one, and those an "all" box stands for
Parsed(body) ==
    body.ticked \cup UNION {OfType(body, t) : t \in body.all \ {"rebase"}}

\* what a person has ticked, "rebase all" included
Asked(body) == body.ticked \cup UNION {OfType(body, t) : t \in body.all}

\* getListItem, and the boxes that the last look at the issue found ticked since
Carried(looked) ==
    {b \in Parsed(looked) \ checks : result[b] = looked.types[b]}
Body == NewBody(result, IF dashboard = NoIssue THEN {} ELSE Carried(memory.body))

HasBranches == \E b \in All : result[b] # "none"
----------------------------------------------------------------------------
NotBegun ==
    /\ list = EmptyList /\ order = Unordered /\ dashboard = NoIssue /\ checks = {} /\ rebaseAll = FALSE
    /\ next = 1 /\ result = [b \in All |-> "none"] /\ memory = NotAsked

Init ==
    /\ stage \in Beginnings
    /\ issue = [n \in Numbers |-> [state |-> "none", body |-> NoBody]]
    /\ later = Unordered
    /\ phase = "idle" /\ canRetry = FALSE /\ NotBegun
    /\ owed = {} /\ late = {}
    /\ ticks = 0 /\ events = 0 /\ failures = 0

ForgetIssue ==    \* mutant
    /\ list' = EmptyList /\ order' = Unordered /\ dashboard' = NoIssue /\ checks' = {} /\ rebaseAll' = FALSE
    /\ next' = 1 /\ memory' = NotAsked /\ UNCHANGED result
Forget ==
    /\ list' = EmptyList /\ order' = Unordered /\ dashboard' = NoIssue /\ checks' = {} /\ rebaseAll' = FALSE
    /\ next' = 1 /\ result' = [b \in All |-> "none"] /\ memory' = NotAsked

\* renovateRepository
BeginRun ==
    /\ phase = "idle"
    /\ phase' = "list" /\ canRetry' = TRUE
    /\ UNCHANGED <<people, issueList, dashboard, checks, rebaseAll, next, result, memory,
                   owed, late, ticks, events, failures>>

\* the run ends, or an error ends it
EndRun ==
    /\ phase' = "idle" /\ canRetry' = FALSE /\ Forget

Abort ==
    /\ phase \in {"list", "process"} /\ failures < MaxFailures
    /\ failures' = failures + 1
    /\ EndRun /\ late' = {}
    /\ UNCHANGED <<people, owed, ticks, events>>
----------------------------------------------------------------------------
(***************************************************************************)
(* readDashboardBody: getIssueList, whose pages may end early, then the    *)
(* body of the first open issue in it.                                     *)
(***************************************************************************)
ListIssues ==
    /\ phase = "list"
    /\ \E listed \in SUBSET Issues :
        /\ \A n \in listed : later[n] \subseteq listed
        /\ listed = Issues \/ failures < MaxFailures
        /\ list' = [n \in Numbers |-> IF n \in listed THEN issue[n].state ELSE "none"]
        /\ order' = [n \in Numbers |-> IF n \in listed THEN later[n] ELSE {}]
        /\ failures' = IF listed = Issues THEN failures ELSE failures + 1
    /\ phase' = "find" /\ late' = {}
    /\ UNCHANGED <<people, canRetry, dashboard, checks, rebaseAll, next, result,
                   memory, owed, ticks, events>>

Listed == {n \in Numbers : list[n] # "none"}
ListedOpen == {n \in Numbers : list[n] = "open"}

\* of the issues listed, the first open one, or else the last of all
IsChosen(n) ==
    IF ListedOpen # {} THEN n \in ListedOpen /\ order[n] \cap ListedOpen = {}
                       ELSE n \in Listed /\ Listed \ {n} \subseteq order[n]

\* findIssue and getIssue
FindIssue ==
    /\ phase = "find"
    /\ phase' = "process"
    /\ \/ ListedOpen = {} /\ UNCHANGED <<dashboard, checks, rebaseAll, memory, late, failures>>
       \/ \E n \in ListedOpen :
             /\ IsChosen(n)
             /\ dashboard' = n /\ memory' = Answered(issue[n].body)
             /\ checks' = Parsed(issue[n].body) /\ rebaseAll' = ("rebase" \in issue[n].body.all)
             /\ late' = {} /\ UNCHANGED failures
       \/ /\ ListedOpen # {} /\ failures < MaxFailures
          /\ failures' = failures + 1 /\ memory' = Failed /\ late' = {}
          /\ UNCHANGED <<dashboard, checks, rebaseAll>>
    /\ UNCHANGED <<people, canRetry, issueList, next, result, owed, ticks, events>>
----------------------------------------------------------------------------
(***************************************************************************)
(* processBranch, as far as boxes decide: any check stands for the         *)
(* approval, lifts the limits, recreates a closed PR and forces a rebase.  *)
(***************************************************************************)
After(b) ==
    IF stage[b] = "none" THEN {"none"}
    ELSE IF b \in checks THEN {"rebase"}
    ELSE IF stage[b] = "unlimit" THEN {"unlimit", "rebase"}
    ELSE {stage[b]}

\* b, left in stage s, is what was asked for
ActedOn(b, s) == b \in checks \/ (rebaseAll /\ s = "rebase")
Settle(b) == owed' = {o \in owed : o[2] # b}

ProcessBranch ==
    /\ phase = "process" /\ next <= Branches
    /\ \E s \in After(next) :
        /\ stage' = [stage EXCEPT ![next] = s]
        /\ result' = [result EXCEPT ![next] = s]
        /\ IF ActedOn(next, s) THEN Settle(next) ELSE UNCHANGED owed
    /\ next' = next + 1
    /\ UNCHANGED <<issue, later, phase, canRetry, issueList, dashboard, checks, rebaseAll,
                   memory, late, ticks, events, failures>>

\* An error of one branch does not stop the others: before the branch is updated
\* or after, a tick that was read for it is not acted on.
FailBranch ==
    /\ phase = "process" /\ next <= Branches
    /\ stage[next] # "none" /\ failures < MaxFailures
    /\ failures' = failures + 1
    /\ \E s \in {stage[next]} \cup After(next) : stage' = [stage EXCEPT ![next] = s]
    /\ result' = [result EXCEPT ![next] = "retry"]
    /\ next' = next + 1
    /\ UNCHANGED <<issue, later, phase, canRetry, issueList, dashboard, checks, rebaseAll,
                   memory, owed, late, ticks, events>>

FailedAsked(b) == b \in checks /\ result[b] = "retry"

RetryAndEnsure ==    \* mutant
    IF canRetry
    THEN phase' = "list" /\ canRetry' = FALSE /\ Forget
    ELSE phase' = "ensure"
         /\ UNCHANGED <<canRetry, issueList, dashboard, checks, rebaseAll, next, result, memory>>
\* an automerge ends the loop: once, the run starts again from the start
Retry ==
    IF canRetry
    THEN phase' = "list" /\ canRetry' = FALSE /\ Forget
    ELSE EndRun

Automerge ==
    /\ phase = "process" /\ next <= Branches
    /\ stage[next] = "rebase" /\ ~ActedOn(next, "rebase")
    /\ stage' = [stage EXCEPT ![next] = "none"]
    /\ Settle(next)
    /\ Retry /\ late' = {}
    /\ UNCHANGED <<issue, later, ticks, events, failures>>
----------------------------------------------------------------------------
(***************************************************************************)
(* ensureDependencyDashboard.  Refresh asks for the issue once more and    *)
(* past the memory, which then remembers this answer; without an issue, or *)
(* without branches, there is nothing to ask.                              *)
(***************************************************************************)
Refresh ==
    /\ phase = "process" /\ next > Branches
    /\ phase' = IF Autoclose /\ ~HasBranches THEN "close" ELSE "ensure"
    /\ IF dashboard = NoIssue \/ phase' = "close"
       THEN UNCHANGED <<memory, late, failures>>
       ELSE /\ late' = {}
            /\ \/ memory' = Answered(issue[dashboard].body) /\ UNCHANGED failures
               \/ /\ failures < MaxFailures
                  /\ memory' = Failed /\ failures' = failures + 1
    /\ UNCHANGED <<people, canRetry, issueList, dashboard, checks, rebaseAll, next, result,
                   owed, ticks, events>>

\* ensureIssue: the other open issues are duplicates of the chosen one
NoDuplicates == {}    \* mutant
Duplicates == {n \in ListedOpen : ~IsChosen(n)}

Close(n) == issue' = [issue EXCEPT ![n].state = "closed"] /\ Update(n)

\* a request fails: ensureIssue logs it, ensureIssueClosing ends the run
RequestFails ==
    /\ phase \in {"ensure", "close"} /\ failures < MaxFailures
    /\ failures' = failures + 1
    /\ EndRun /\ late' = {}
    /\ UNCHANGED <<people, owed, ticks, events>>

CloseListed(n) ==
    /\ list' = [list EXCEPT ![n] = "none"]
    /\ Close(n)
    /\ UNCHANGED <<stage, phase, canRetry, order, dashboard, checks, rebaseAll, next,
                   result, memory, late, ticks, events, failures>>

\* what is ticked on a duplicate is lost, unless the run read it
CloseDuplicate ==
    /\ phase = "ensure"
    /\ \E n \in Duplicates :
        /\ CloseListed(n)
        /\ owed' = {o \in owed : o[1] # n \/ n = dashboard}

\* ensureIssueClosing: what is ticked for a branch that is gone asks for nothing
CloseDashboard ==
    /\ phase = "close"
    /\ \E n \in ListedOpen :
        /\ CloseListed(n)
        /\ owed' = {o \in owed : o[1] # n \/ result[o[2]] # "none"}

AskAgain(n) == Answered(issue[n].body)    \* mutant
\* the GET of ensureIssue: the remembered answer, if there is one
Got(n) == IF memory = NotAsked THEN Answered(issue[n].body) ELSE memory

\* the ticks a rewrite of issue n may drop
Dropped(n) ==
    {o \in owed : /\ o[1] = n
                  /\ \/ o \in late
                     \/ issue[n].body.types[o[2]] # result[o[2]]
                     \/ FailedAsked(o[2])}

\* what cannot be read is not rewritten
Write ==
    /\ phase = "ensure" /\ Duplicates = {}
    /\ \E n \in Listed :
        /\ IsChosen(n)
        /\ IF Got(n) = Failed \/ (list[n] = "open" /\ Got(n).body = Body)
           THEN UNCHANGED <<issue, later, owed>>
           ELSE /\ issue' = [issue EXCEPT ![n] = [state |-> "open", body |-> Body]]
                /\ Update(n)
                /\ owed' = owed \ Dropped(n)
    /\ EndRun /\ late' = {}
    /\ UNCHANGED <<stage, ticks, events, failures>>

IsNextNumber(n) == n \notin Issues /\ \A m \in Numbers : m < n => m \in Issues

Create ==
    /\ phase = "ensure" /\ Listed = {}
    /\ \E n \in Numbers :
        /\ IsNextNumber(n)
        /\ issue' = [issue EXCEPT ![n] = [state |-> "open", body |-> Body]]
        /\ Update(n)
    /\ EndRun /\ late' = {}
    /\ UNCHANGED <<stage, owed, ticks, events, failures>>

Closed ==
    /\ phase = "close" /\ ListedOpen = {}
    /\ EndRun /\ late' = {}
    /\ UNCHANGED <<people, owed, ticks, events, failures>>
----------------------------------------------------------------------------
(***************************************************************************)
(* People tick boxes, close and reopen issues, close and merge PRs;        *)
(* releases make branches.                                                 *)
(***************************************************************************)
TickBox ==
    /\ ticks < MaxTicks
    /\ \E n \in Open, b \in All :
        /\ issue[n].body.types[b] # "none" /\ b \notin issue[n].body.ticked
        /\ issue' = [issue EXCEPT ![n].body.ticked = @ \cup {b}]
        /\ Update(n)
        /\ owed' = owed \cup {<<n, b>>}
        /\ late' = late \cup {<<n, b>>}
    /\ ticks' = ticks + 1
    /\ UNCHANGED <<stage, run, events, failures>>

TickAll ==
    /\ ticks < MaxTicks
    /\ \E n \in Open : \E t \in AllBoxes(issue[n].body) \ issue[n].body.all :
        LET asked == {<<n, b>> : b \in OfType(issue[n].body, t) \ Asked(issue[n].body)}
        IN /\ t # "rebase" \/ phase = "idle" \/ RebaseAllInRun
           /\ issue' = [issue EXCEPT ![n].body.all = @ \cup {t}]
           /\ Update(n)
           /\ owed' = owed \cup asked
           /\ late' = late \cup asked
    /\ ticks' = ticks + 1
    /\ UNCHANGED <<stage, run, events, failures>>

PersonCloses ==
    /\ \E n \in Open : Close(n) /\ owed' = {o \in owed : o[1] # n}
    /\ UNCHANGED <<stage, run, late, ticks, failures>>

PersonReopens ==
    /\ \E n \in Numbers :
        /\ issue[n].state = "closed"
        /\ issue' = [issue EXCEPT ![n].state = "open"]
        /\ Update(n)
    /\ UNCHANGED <<stage, run, owed, late, ticks, failures>>

\* a release, a PR that is closed, a PR that is merged: no box asks for it any more
StageChanges ==
    /\ \E b \in All, s \in Stages :
        /\ <<stage[b], s>> \in {<<"none", "approve">>, <<"none", "unlimit">>,
                                <<"rebase", "recreate">>, <<"rebase", "none">>}
        /\ stage' = [stage EXCEPT ![b] = s]
        /\ Settle(b)
    /\ UNCHANGED <<issue, later, run, late, ticks, failures>>

Event ==
    /\ events < MaxEvents
    /\ events' = events + 1
    /\ PersonCloses \/ PersonReopens \/ StageChanges
----------------------------------------------------------------------------
Work ==
    \/ ListIssues \/ FindIssue \/ ProcessBranch \/ Refresh
    \/ CloseDuplicate \/ CloseDashboard \/ Write \/ Create \/ Closed

Next ==
    \/ BeginRun \/ Work \/ Automerge
    \/ Abort \/ FailBranch \/ RequestFails
    \/ TickBox \/ TickAll \/ Event

\* Renovate is started again and again, and a run goes on until it ends
Fairness == WF_vars(BeginRun) /\ WF_vars(Work)

Spec == Init /\ [][Next]_vars /\ Fairness
----------------------------------------------------------------------------
Bodies == [types : [All -> Results], ticked : SUBSET All,
           all : SUBSET {"approve", "unlimit", "rebase"}]

(* Values stay in their sets; the run knows as many branches as it processed. *)
TypeOK ==
    /\ stage \in [All -> Stages]
    /\ \A n \in Numbers : /\ issue[n].state \in {"none", "open", "closed"}
                          /\ issue[n].body \in Bodies
                          /\ list[n] \in {"none", "open", "closed"}
    /\ later \in [Numbers -> SUBSET Issues] /\ order \in [Numbers -> SUBSET Issues]
    /\ Listed \subseteq Issues
    /\ phase \in {"idle", "list", "find", "process", "ensure", "close"}
    /\ dashboard \in Numbers \cup {NoIssue}
    /\ checks \subseteq All /\ owed \subseteq Numbers \X All /\ late \subseteq Numbers \X All
    /\ next \in 1..Branches + 1
    /\ \A b \in next..Branches : result[b] = "none"
    /\ ticks \in 0..MaxTicks /\ events \in 0..MaxEvents /\ failures \in 0..MaxFailures

(* A box that is ticked on an open dashboard stays ticked until a run acts  *)
(* on it, whatever requests fail, runs abort, start again or find another   *)
(* dashboard (dependency-dashboard.ts:414-434, ensureIssue).  Five ways to  *)
(* lose a tick are left out, and no other: a rewrite after the last look    *)
(* did not see it; its box becomes one of another kind; its branch failed   *)
(* in the run that read it; it is on an issue the run did not read and      *)
(* closes as a duplicate; a person closes the issue.                        *)
TicksKept ==
    \A o \in owed :
        issue[o[1]].state = "open" /\ o[2] \in Asked(issue[o[1]].body)

(* No tick waits for ever: again and again each was acted on, or lost in    *)
(* one of the ways above (runs that abort and restart, requests that fail).  *)
TicksAnswered == []<>(owed = {})

(* However many issues with its title are made or reopened, in the end there *)
(* is at most one dashboard (ensureIssue closes the duplicates).             *)
OneDashboard == <>[](Cardinality(Open) <= 1)
=============================================================================
