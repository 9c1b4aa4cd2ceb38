----------------------------- MODULE GithubPrs -----------------------------
(***************************************************************************)
(* Renovate's copy of the pull requests of a GitHub repository.            *)
(*                                                                         *)
(* A run loads the copy the last run saved (mem, from disk), brings it up  *)
(* to date page by page, most recently updated first, and stops at the     *)
(* first page it takes for known (getPrCache, reconcile).  From then on it *)
(* reads its list only (prList), which it changes itself whenever it opens,*)
(* edits, merges or closes a pull request (cachePr), while people go on    *)
(* changing what GitHub has (server).  A run that fails saves nothing.     *)
(***************************************************************************)
EXTENDS Integers, FiniteSets

CONSTANTS
    MaxPrs,           \* bound: pull requests there will ever be
    Branches,         \* update branches, all of one title each
    FirstPerPage,     \* per_page of the first listing, 100
    PageLimit,        \* pages of the first listing, 10
    PerPage,          \* per_page of later listings, 20
    Foreign,          \* the numbers somebody else may take
    CacheModes,       \* repositoryCache: "enabled", "reset", "disabled"
    MaxFailures,      \* bound: failed runs, and cache files that do not count
    NoCache,          \* no cache file, or no hash of one
    MaxClock          \* bound: changes of pull requests

ASSUME ConstantsAssumption ==
    /\ MaxPrs \in Nat /\ MaxClock \in Nat
    /\ FirstPerPage \in Nat \ {0} /\ PageLimit \in Nat \ {0} /\ PerPage \in Nat \ {0}
    /\ Foreign \subseteq 1..MaxPrs /\ MaxFailures \in Nat
    /\ CacheModes \subseteq {"enabled", "reset", "disabled"}

Numbers == 1..MaxPrs
\* autoclosed: closed, and titled so by the run that pruned the branch; retitled:
\* titled so although it was merged by then
States == {"none", "open", "closed", "autoclosed", "merged", "retitled"}
NoBranch == "no branch"
ASSUME BranchAssumption == NoBranch \notin Branches

\* what GitHub returns of a pull request: updated_at as the number of the change
Item == [ver : 0..MaxClock, state : States, branch : Branches \cup {NoBranch}]
NoItem == [ver |-> 0, state |-> "none", branch |-> NoBranch]
Items == [Numbers -> Item]
ASSUME NullAssumption == NoCache \notin Items

EmptyCache == [n \in Numbers |-> NoItem]

\* an item of the first listing, and the page it was on
Received == [page : 0..PageLimit, item : Item]
NothingReceived == [n \in Numbers |-> [page |-> 0, item |-> NoItem]]

VARIABLES
    server,     \* GitHub: the pull requests
    mine,       \* GitHub: those whose author is Renovate
    clock,      \* GitHub: the changes so far
    disk,       \* the cache file
    phase,      \* of the run: idle, begun, listing, ready, saved
    mode,       \* repositoryCache of the run
    mem,        \* pullRequestsCache of the run
    oldHash,    \* the data whose hash the file had when it was loaded
    isInitial,  \* getPrCache: nothing is cached
    pageIdx,    \* getPrCache: the page to ask for next
    pending,    \* request with paginate: the pages of the first listing still to come
    received,   \* request with paginate: per number, what the pages received have
    prList,     \* config.prList
    appended,   \* the numbers this run appended to it
    still,      \* history: pull requests unchanged since the listing began
    hidden,     \* history: what the listing may miss; see HiddenIn, MissedBy
    failures    \* the failures so far

remote == <<server, mine, clock, still>>
listState == <<mode, oldHash, isInitial, pageIdx, pending, received, hidden>>
run == <<mode, mem, oldHash, isInitial, pageIdx, pending, received, prList, appended>>
vars == <<remote, disk, phase, run, hidden, failures>>

Exists(n) == server[n].state # "none"
NoneOpen(b) == \A m \in Numbers : server[m].branch = b => server[m].state # "open"
Known(cache) == {n \in Numbers : cache[n] # NoItem}

\* sort=updated, direction=desc, per_page
PageZero == 0    \* mutant
PageOne == 1
Earlier(m, n) == Exists(m) /\ server[m].ver < server[n].ver    \* mutant
Above(m, n) == server[m].ver > server[n].ver
Rank(n) == Cardinality({m \in Numbers : Above(m, n)})
PageIndex(n, size) == 1 + (Rank(n) \div size)
PageOf(k, size) == {n \in mine : PageIndex(n, size) = k}
HasNextPage(k, size) == Cardinality({n \in Numbers : Exists(n)}) > k * size

\* ApiCache.reconcile: the page's items replace those of the cache, and the last
\* of them says whether the next page is needed.
FreshIfUnknown(old, new) == old = NoItem    \* mutant
Fresh(old, new) == old = NoItem \/ old.ver < new.ver
Reconcile(page) == [n \in Numbers |-> IF n \in page THEN server[n] ELSE mem[n]]
NeedNextPage(page) ==
    \A n \in page : (\A m \in page \ {n} : Above(m, n)) => Fresh(mem[n], server[n])

\* findPr: the list is sorted by number, the newest first; what the run appends follows
Hits(b, states) == {n \in Numbers : prList[n].branch = b /\ prList[n].state \in states}
Precedes(m, n) == IF m \in appended THEN n \in appended /\ m <= n ELSE n \in appended \/ m >= n
IsFound(n, b, states) == n \in Hits(b, states) /\ \A m \in Hits(b, states) : Precedes(n, m)
Has(b, states) == Hits(b, states) # {}

\* cachePr, updateItem
CachePrInList(n, item) ==    \* mutant
    /\ prList' = [prList EXCEPT ![n] = item]
    /\ appended' = IF n \in Known(prList) THEN appended ELSE appended \cup {n}
    /\ UNCHANGED mem
CachePr(n, item) ==
    /\ prList' = [prList EXCEPT ![n] = item]
    /\ appended' = IF n \in Known(prList) THEN appended ELSE appended \cup {n}
    /\ mem' = [mem EXCEPT ![n] = item]

\* A pull request is stale in a copy when GitHub has it newer; it is hidden
\* when the copy is up to date on one that GitHub changed later.
StaleIn(cache) == {n \in mine : cache[n].ver < server[n].ver}
HiddenIn(cache) ==
    {n \in StaleIn(cache) : \E m \in mine \ StaleIn(cache) : Above(m, n)}

\* What a listing in progress misses when a change moved pull requests from
\* page to page: a later listing stops at one it read already and that is on a
\* page to come; the first one asks for no page that it received once more.
ToCome == IF PageOne \in pending THEN 1..PageLimit ELSE pending
MissedBy(cache) ==
    IF isInitial
    THEN {n \in mine : /\ received[n].item # server[n]
                       /\ PageIndex(n, FirstPerPage) \notin ToCome}
    ELSE {n \in StaleIn(cache) :
             \E m \in mine \ StaleIn(cache) :
                Above(m, n) /\ PageIndex(m, PerPage) >= pageIdx}
----------------------------------------------------------------------------
Init ==
    /\ server = EmptyCache /\ mine = {} /\ clock = 0
    /\ disk = NoCache /\ phase = "idle" /\ mode \in CacheModes
    /\ mem = EmptyCache /\ oldHash = NoCache /\ isInitial = FALSE
    /\ pageIdx = 1 /\ pending = {} /\ received = NothingReceived
    /\ prList = EmptyCache /\ appended = {}
    /\ still = {} /\ hidden = {} /\ failures = 0

(***************************************************************************)
(* GitHub and people: each change moves a pull request to the top, and the *)
(* others down, also between two pages of a listing.                       *)
(***************************************************************************)
Put(n, state, branch) ==
    /\ clock < MaxClock
    /\ clock' = clock + 1
    /\ server' = [server EXCEPT ![n] = [ver |-> clock + 1, state |-> state, branch |-> branch]]
    /\ still' = still \ {n}
Shift == hidden' = IF phase = "listing" THEN hidden \cup MissedBy(mem)' ELSE hidden

\* somebody edits, closes, merges or reopens one, and then restores its title
PersonChanges(n) ==
    /\ Exists(n)
    /\ \E s \in States :
          /\ \/ s = server[n].state
             \/ server[n].state = "open" /\ s \in {"closed", "merged"}
             \/ /\ server[n].state \in {"closed", "autoclosed"} /\ s = "open"
                /\ NoneOpen(server[n].branch)
          /\ Put(n, s, server[n].branch)
    /\ UNCHANGED <<mine, disk, phase, run, failures>>
    /\ Shift

IsNextNumber(n) == ~Exists(n) /\ \A m \in Numbers : m < n => Exists(m)

PersonOpens ==
    /\ \E n \in Foreign : IsNextNumber(n) /\ Put(n, "open", NoBranch)
    /\ UNCHANGED <<mine, disk, phase, run, failures>>
    /\ Shift
----------------------------------------------------------------------------
(***************************************************************************)
(* The cache file: initRepoCache, load, save                               *)
(***************************************************************************)

\* A file of another revision or fingerprint counts as none (restore); "reset"
\* saves the empty data at once.
BeginRun ==
    /\ phase = "idle"
    /\ phase' = "begun"
    /\ mode' \in CacheModes
    /\ \E readable \in BOOLEAN :
          /\ readable \/ (mode' = "enabled" /\ disk # NoCache /\ failures < MaxFailures)
          /\ failures' = IF readable THEN failures ELSE failures + 1
          /\ oldHash' = IF mode' = "enabled" /\ readable THEN disk ELSE NoCache
    /\ mem' = IF oldHash' = NoCache THEN EmptyCache ELSE oldHash'
    /\ disk' = IF mode' = "reset" THEN EmptyCache ELSE disk
    /\ UNCHANGED <<remote, isInitial, pageIdx, pending, received, prList, appended, hidden>>

IsSavedOnce == oldHash # NoCache    \* mutant
IsSaved == mem = oldHash

\* saveCache in finaliseRepo
Save ==
    /\ phase = "ready"
    /\ phase' = "saved"
    /\ disk' = IF mode = "disabled" \/ IsSaved THEN disk ELSE mem
    /\ UNCHANGED <<remote, run, hidden, failures>>

\* the run ends, an error is handled, or the process is killed
EndRun ==
    /\ phase # "idle"
    /\ phase # "saved" => failures < MaxFailures
    /\ failures' = IF phase = "saved" THEN failures ELSE failures + 1
    /\ phase' = "idle"
    /\ mem' = EmptyCache /\ oldHash' = NoCache /\ isInitial' = FALSE
    /\ pageIdx' = 1 /\ pending' = {} /\ received' = NothingReceived
    /\ prList' = EmptyCache /\ appended' = {}
    /\ still' = {} /\ hidden' = {}
    /\ UNCHANGED <<server, mine, clock, disk, mode>>
----------------------------------------------------------------------------
(***************************************************************************)
(* getPrList, getPrCache: at the first question about a pull request       *)
(***************************************************************************)
BeginListing ==
    /\ phase = "begun"
    /\ phase' = "listing"
    /\ isInitial' = (Known(mem) = {})
    /\ pageIdx' = PageOne
    /\ pending' = IF isInitial' THEN {PageOne} ELSE {}
    /\ still' = mine
    /\ UNCHANGED <<server, mine, clock, disk, mode, mem, oldHash, received, prList, appended,
                   failures>>
    /\ hidden' = MissedBy(mem)'

EndListing(cache) ==
    /\ phase' = "ready"
    /\ mem' = cache /\ prList' = cache
    /\ isInitial' = FALSE /\ pageIdx' = 1 /\ received' = NothingReceived

\* one page of a later listing
ListPage ==
    /\ phase = "listing" /\ ~isInitial
    /\ LET page == PageOf(pageIdx, PerPage)
       IN  IF NeedNextPage(page) /\ HasNextPage(pageIdx, PerPage)
           THEN /\ mem' = Reconcile(page) /\ pageIdx' = pageIdx + 1
                /\ UNCHANGED <<phase, isInitial, received, prList>>
           ELSE EndListing(Reconcile(page))
    /\ UNCHANGED <<remote, disk, mode, oldHash, pending, appended, hidden, failures>>

\* the first listing: page 1 says how many there are, the others are asked for
\* at once and answered in any order, and a later page counts for more
Receive(k) ==
    received' = [n \in Numbers |-> IF n \in PageOf(k, FirstPerPage) /\ k > received[n].page
                                   THEN [page |-> k, item |-> server[n]] ELSE received[n]]

FirstPage ==
    /\ phase = "listing" /\ isInitial /\ PageOne \in pending
    /\ Receive(PageOne)
    /\ pending' = {k \in 2..PageLimit : HasNextPage(k - 1, FirstPerPage)}
    /\ UNCHANGED <<remote, disk, phase, mode, mem, oldHash, isInitial, pageIdx, prList,
                   appended, hidden, failures>>

OtherPage(k) ==
    /\ phase = "listing" /\ isInitial /\ PageOne \notin pending /\ k \in pending
    /\ Receive(k)
    /\ pending' = pending \ {k}
    /\ UNCHANGED <<remote, disk, phase, mode, mem, oldHash, isInitial, pageIdx, prList,
                   appended, hidden, failures>>

AllPages ==
    /\ phase = "listing" /\ isInitial /\ pending = {}
    /\ EndListing([n \in Numbers |->
                     IF received[n].page # 0 THEN received[n].item ELSE mem[n]])
    /\ UNCHANGED <<remote, disk, mode, oldHash, pending, appended, hidden, failures>>
----------------------------------------------------------------------------
(***************************************************************************)
(* What the run does with its list                                         *)
(***************************************************************************)

\* prAlreadyExisted: one of this title that is not open
AlreadyAutoclosed(b) == Has(b, {"autoclosed"})    \* mutant
AlreadyExisted(b) == Has(b, {"closed", "merged"})

\* processBranch and ensurePr: none is open, and none existed; GitHub refuses
\* a second open one of a branch.
\* Labels and automerge are requests after the one whose answer is cached at last.
CreatePr(b) ==
    /\ phase = "ready"
    /\ ~Has(b, {"open"}) /\ ~AlreadyExisted(b)
    /\ NoneOpen(b)
    /\ \E n \in Numbers, changes \in {1, 2} :
          /\ IsNextNumber(n) /\ clock + changes <= MaxClock
          /\ LET pr == [ver |-> clock + 1, state |-> "open", branch |-> b]
             IN  /\ CachePr(n, pr)
                 /\ server' = [server EXCEPT ![n] = [pr EXCEPT !.ver = clock + changes]]
          /\ clock' = clock + changes
          /\ mine' = mine \cup {n}
    /\ UNCHANGED <<still, disk, phase, listState, failures>>

\* addLabels fails: the pull request is open, and the run's list does not have it
LoseCreated(b) ==
    /\ phase = "ready"
    /\ ~Has(b, {"open"}) /\ ~AlreadyExisted(b)
    /\ NoneOpen(b)
    /\ \E n \in Numbers : IsNextNumber(n) /\ Put(n, "open", b) /\ mine' = mine \cup {n}
    /\ UNCHANGED <<mem, prList, appended, disk, phase, listState, failures>>

Titled(state) == IF state = "autoclosed" THEN "closed" ELSE IF state = "retitled" THEN "merged" ELSE state

\* updatePr from ensurePr: title and body
UpdatePr(b) ==
    /\ phase = "ready"
    /\ \E n \in Numbers :
          /\ IsFound(n, b, {"open"})
          /\ Put(n, Titled(server[n].state), b)
          /\ CachePr(n, server'[n])
    /\ UNCHANGED <<mine, disk, phase, listState, failures>>

\* mergePr: the copy becomes merged, of its old updated_at
MergePr(b) ==
    /\ phase = "ready"
    /\ \E n \in Numbers :
          /\ IsFound(n, b, {"open"})
          /\ server[n].state = "open"
          /\ Put(n, "merged", b)
          /\ CachePr(n, [prList[n] EXCEPT !.state = "merged"])
    /\ UNCHANGED <<mine, disk, phase, listState, failures>>

\* getBranchPr: the first closed one of the branch is autoclosed, a week ago at most
ReopenPr(b) ==
    /\ phase = "ready"
    /\ ~Has(b, {"open"})
    /\ \E n \in Numbers :
          /\ IsFound(n, b, {"closed", "autoclosed"}) /\ prList[n].state = "autoclosed"
          /\ server[n].state \notin {"merged", "retitled"}
          /\ NoneOpen(b) \/ server[n].state = "open"
          /\ Put(n, "open", b)
          /\ CachePr(n, server'[n])
    /\ UNCHANGED <<mine, disk, phase, listState, failures>>

Autoclosed(state) == IF state \in {"merged", "retitled"} THEN "retitled" ELSE "autoclosed"

\* pruneStaleBranches, after saveCache: updatePr closes and renames the pull
\* request that the run's list has as open, whatever it has become meanwhile
AutoclosePr(b) ==
    /\ phase = "saved"
    /\ \E n \in Numbers :
          /\ IsFound(n, b, {"open"})
          /\ Put(n, Autoclosed(server[n].state), b)
          /\ CachePr(n, server'[n])
    /\ UNCHANGED <<mine, disk, phase, listState, failures>>
----------------------------------------------------------------------------
People == PersonOpens \/ \E n \in Numbers : PersonChanges(n)
Listing == BeginListing \/ ListPage \/ FirstPage \/ AllPages \/ \E k \in 2..PageLimit : OtherPage(k)
OwnWrite == \E b \in Branches :
                CreatePr(b) \/ LoseCreated(b) \/ UpdatePr(b) \/ MergePr(b) \/ ReopenPr(b) \/ AutoclosePr(b)

Next == People \/ BeginRun \/ Save \/ EndRun \/ Listing \/ OwnWrite

Spec == Init /\ [][Next]_vars

\* Runs are started again and again; requests are answered, or fail.  A listing
\* has a step to take for as long as its phase lasts.
ListingFairness == <>[](phase \in {"begun", "listing"}) => []<><<Listing>>_vars
LiveSpec == Spec /\ WF_vars(BeginRun) /\ ListingFairness /\ WF_vars(Save)
                 /\ WF_vars(phase = "saved" /\ EndRun)
----------------------------------------------------------------------------
TypeOK ==
    /\ server \in Items /\ mine \subseteq Numbers /\ clock \in 0..MaxClock
    /\ disk \in Items \cup {NoCache} /\ oldHash \in Items \cup {NoCache}
    /\ phase \in {"idle", "begun", "listing", "ready", "saved"}
    /\ mode \in CacheModes
    /\ mem \in Items /\ prList \in Items /\ appended \subseteq Numbers
    /\ isInitial \in BOOLEAN /\ pageIdx \in Nat \ {0}
    /\ pending \subseteq 1..PageLimit /\ received \in [Numbers -> Received]
    /\ still \subseteq mine /\ hidden \subseteq mine /\ failures \in 0..MaxFailures

(***************************************************************************)
(* The list of a run is what its persistent cache holds, to the end of the *)
(* run (cachePr changes both, config.prList and updatePrCache).            *)
(***************************************************************************)
ListMatchesCache == phase \in {"ready", "saved"} => prList = mem

(***************************************************************************)
(* What the copy has wrong and a later listing would stop above is what    *)
(* was so when this listing began or what people moved meanwhile; and from *)
(* then on only Renovate's own writes to its copy (updateItem) add to it.  *)
(***************************************************************************)
OnlyOwnWritesHide ==
    [][phase' \in {"ready", "saved"} /\ ~OwnWrite =>
          HiddenIn(mem)' \subseteq IF phase = "listing" THEN hidden ELSE HiddenIn(mem)]_vars

(***************************************************************************)
(* A pull request of Renovate's that was closed or merged before the       *)
(* listing, and left alone since, is not opened once more                  *)
(* (prAlreadyExisted), unless the listing could not see it, or a run had   *)
(* given it the title of an autoclosed one when it pruned the branch: that *)
(* title is not the one looked for, even if a person had closed or merged  *)
(* the pull request before it was pruned.                                  *)
(***************************************************************************)
ClosedNotRecreated ==
    [][\A b \in Branches :
          CreatePr(b) \/ LoseCreated(b) =>
             \A n \in still \ hidden :
                server[n].branch = b => server[n].state \in {"autoclosed", "retitled"}]_vars

(***************************************************************************)
(* The detailed listing implements PrView, where a listing is one thing:   *)
(* it ends with every pull request known but the hidden ones.              *)
(***************************************************************************)
View == INSTANCE PrView WITH
            version <- [n \in Numbers |-> server[n].ver],
            own <- mine,
            known <- [n \in Numbers |-> mem[n].ver],
            exempt <- hidden,
            stage <- IF phase = "saved" THEN "ready" ELSE phase,
            Limit <- PageLimit * FirstPerPage
ImplementsView == View!Spec

(***************************************************************************)
(* While runs succeed and people pause, the saved copy comes to have every *)
(* change, but for the hidden ones.                                        *)
(***************************************************************************)
ChangesArrive ==
    []<>(mine = {} \/ (disk # NoCache /\ StaleIn(disk) \subseteq HiddenIn(disk)))
============================================================================
