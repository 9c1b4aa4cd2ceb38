-------------------------- MODULE OnboardingProofs --------------------------
(***************************************************************************)
(* That people decide about onboarding, for all settings of the bot and    *)
(* any number of events.                                                   *)
(*                                                                         *)
(* AgreeInv: a run that looks for an agreement misses none.  ListInv: as   *)
(* long as a run knows of no open PR of its own, there is none, and nobody *)
(* decided about one; the PR list is read once, but only Renovate opens    *)
(* PRs of its own.  SeenInv: what ls-remote showed of the branch, and the  *)
(* clone has of it.                                                        *)
(***************************************************************************)
EXTENDS Onboarding, SequenceTheorems, FiniteSetTheorems, TLAPS

(* The inductive invariant *)

Commits == [by : {"nobody", "person", "renovate"}, onto : Nat]
Mains == [conf : BOOLEAN, n : Nat]
Prs == [own : BOOLEAN, state : {"open", "closed", "merged"},
        title : {"ours", "autoclosed", "renamed"}, old : BOOLEAN, head : Commits]

\* PRs of a repository with m commits: a closed one had a branch
IsPrList(ps, m) ==
    /\ ps \in Seq(Prs)
    /\ \A i \in DOMAIN ps : /\ ps[i].head.onto <= m
                            /\ ps[i].state = "closed" => ps[i].head # NoBranch

OpenOf(ps) == {i \in DOMAIN ps : ps[i].state = "open"}
AtMostOne(is) == \A i, j \in is : i = j

Settings == [requireConfig : {"required", "optional", "ignored"},
             onboarding : BOOLEAN, extracts : BOOLEAN]

WorldInv ==
    /\ options \in Options
    /\ main \in Mains /\ main.n \in 1..events + 1 /\ events \in 0..MaxEvents
    /\ branch \in Commits /\ branch.onto <= main.n
    /\ IsPrList(prs, main.n)
    /\ AtMostOne(OpenOf(prs)) /\ (OpenOf(prs) # {} => branch # NoBranch)

RunTypes ==
    /\ updates \in BOOLEAN /\ disk \in BOOLEAN /\ onboarded \in BOOLEAN /\ name \in BOOLEAN
    /\ known \in BOOLEAN /\ agreed \in BOOLEAN
    /\ phase \in Phases

CloneInv ==
    /\ clone.main \in Mains /\ clone.main.n <= main.n
    /\ clone.branch \in Commits /\ clone.branch.onto <= main.n
    /\ phase \in {"check", "look"} => clone = NotCloned
    /\ phase \in {"closed", "create", "rebase", "checkout", "pr"} => clone.main.n # 0
    /\ phase \in {"check", "look", "closed", "create", "rebase", "checkout", "pr"} => ~onboarded

\* only in these phases is there something to agree to
AgreeInv ==
    /\ phase \in {"check", "look", "closed"} /\ Agreed => agreed
    /\ phase \in {"config", "update"} => agreed

ListInv ==
    /\ list = [known |-> list.known, prs |-> list.prs]
    /\ IsPrList(list.prs, main.n) /\ Len(list.prs) <= Len(prs)
    /\ phase \in {"create", "rebase", "checkout", "pr"} => list.known
    /\ phase \in {"create", "rebase", "checkout", "pr"} /\ OpenIn(list.prs) = {} =>
          OpenIn(prs) = {} /\ Decided = {}
    /\ phase = "create" => OpenIn(list.prs) = {}

SeenInv ==
    /\ phase \in {"check", "look", "closed", "create"} /\ ~known => branch = NoBranch
    /\ phase \in {"check", "look", "closed", "create", "rebase"} /\ ~known =>
          clone.branch = NoBranch
    /\ phase = "delete" => clone.branch.by # "person"

IInv == WorldInv /\ RunTypes /\ CloneInv /\ AgreeInv /\ ListInv /\ SeenInv
----------------------------------------------------------------------------
(* Lists of PRs *)

LEMMA PrListFacts ==
    ASSUME NEW ps \in Seq(Prs)
    PROVE  /\ DOMAIN ps = 1..Len(ps) /\ Len(ps) \in Nat
           /\ \A i \in DOMAIN ps : ps[i] \in Prs /\ i \in Nat
           /\ \A qs : DOMAIN qs = DOMAIN ps /\ qs = [i \in DOMAIN qs |-> qs[i]]
                         /\ (\A i \in DOMAIN qs : qs[i] \in Prs)
                     => qs \in Seq(Prs) /\ Len(qs) = Len(ps)
<1>1. /\ DOMAIN ps = 1..Len(ps) /\ Len(ps) \in Nat
      /\ \A i \in DOMAIN ps : ps[i] \in Prs
  BY LenProperties
<1>2. ASSUME NEW qs, DOMAIN qs = DOMAIN ps, qs = [i \in DOMAIN qs |-> qs[i]],
             \A i \in DOMAIN qs : qs[i] \in Prs
      PROVE  qs \in Seq(Prs) /\ Len(qs) = Len(ps)
  <2>1. qs \in [1..Len(ps) -> Prs]
    BY <1>1, <1>2
  <2>2. qs \in Seq(Prs)
    BY <1>1, <2>1, SeqDef
  <2>. QED  BY <1>1, <1>2, <2>2, LenProperties
<1>. QED  BY <1>1, <1>2

\* the same PRs in other states
LEMMA PrListChanges ==
    ASSUME NEW ps, NEW qs, NEW m \in Nat, NEW k \in Nat, m <= k, IsPrList(ps, m),
           qs = [i \in DOMAIN ps |-> qs[i]], \A i \in DOMAIN ps : qs[i] \in Prs,
           \A i \in DOMAIN ps : /\ qs[i].head.onto <= k
                                /\ qs[i].state = "closed" => qs[i].head # NoBranch
    PROVE  IsPrList(qs, k) /\ DOMAIN qs = DOMAIN ps /\ Len(qs) = Len(ps)
<1>1. DOMAIN qs = DOMAIN ps
  OBVIOUS
<1>2. qs \in Seq(Prs) /\ Len(qs) = Len(ps)
  BY <1>1, PrListFacts DEF IsPrList
<1>3. \A i \in DOMAIN qs : qs[i].head.onto <= k /\ (qs[i].state = "closed" => qs[i].head # NoBranch)
  BY <1>1
<1>4. IsPrList(qs, k)
  BY <1>2, <1>3 DEF IsPrList
<1>. QED  BY <1>1, <1>2, <1>4

LEMMA PrListGrows ==
    ASSUME NEW ps, NEW m \in Nat, IsPrList(ps, m), NEW k \in Nat, m <= k
    PROVE  IsPrList(ps, k)
<1>1. \A i \in DOMAIN ps : ps[i].head.onto \in Nat
  BY PrListFacts DEF IsPrList, Prs, Commits
<1>. QED  BY <1>1 DEF IsPrList

LEMMA NewPr == \A own \in BOOLEAN : Pr(own) \in Prs
BY DEF Pr, Prs, NoBranch, Commit, Commits

LEMMA PrListAppend ==
    ASSUME NEW ps, NEW m \in Nat, IsPrList(ps, m), NEW own \in BOOLEAN
    PROVE  /\ IsPrList(Append(ps, Pr(own)), m)
           /\ Len(Append(ps, Pr(own))) = Len(ps) + 1
           /\ DOMAIN Append(ps, Pr(own)) = DOMAIN ps \cup {Len(ps) + 1}
           /\ \A i \in DOMAIN ps : Append(ps, Pr(own))[i] = ps[i]
           /\ Append(ps, Pr(own))[Len(ps) + 1] = Pr(own)
<1>. DEFINE pr == Pr(own)
<1>0. pr \in Prs /\ pr.head = NoBranch /\ pr.state = "open"
  BY NewPr DEF Pr
<1>1. ps \in Seq(Prs) /\ DOMAIN ps = 1..Len(ps) /\ Len(ps) \in Nat
  BY PrListFacts DEF IsPrList
<1>. HIDE DEF pr
<1>2. /\ Append(ps, pr) \in Seq(Prs)
      /\ Len(Append(ps, pr)) = Len(ps) + 1
      /\ \A i \in 1..Len(ps) : Append(ps, pr)[i] = ps[i]
      /\ Append(ps, pr)[Len(ps) + 1] = pr
  BY <1>0, <1>1, AppendProperties
<1>3. DOMAIN Append(ps, pr) = DOMAIN ps \cup {Len(ps) + 1}
  BY <1>1, <1>2, LenProperties
<1>4. IsPrList(Append(ps, pr), m)
  BY <1>0, <1>1, <1>2, <1>3 DEF IsPrList, NoBranch, Commit
<1>. QED  BY <1>1, <1>2, <1>3, <1>4 DEF pr

LEMMA BranchTypes ==
    /\ NoBranch \in Commits /\ NoBranch.onto = 0 /\ NoBranch.by = "nobody"
    /\ \A n \in Nat : /\ Commit("renovate", n) \in Commits
                      /\ Commit("renovate", n) # NoBranch
                      /\ Commit("renovate", n).onto = n
    /\ NotCloned.main \in Mains /\ NotCloned.main.n = 0 /\ NotCloned.branch = NoBranch
    /\ NotListed.known = FALSE /\ NotListed.prs = <<>>
    /\ NotListed = [known |-> NotListed.known, prs |-> NotListed.prs]
BY DEF NoBranch, Commit, Commits, NotCloned, Mains, Main, NotListed

LEMMA NoPrs == IsPrList(<<>>, 0) /\ IsPrList(<<>>, 1) /\ DOMAIN <<>> = {} /\ Len(<<>>) = 0
<1>1. <<>> \in Seq(Prs) /\ Len(<<>>) = 0
  BY EmptySeq
<1>2. DOMAIN <<>> = {}
  BY <1>1, LenProperties
<1>. QED  BY <1>1, <1>2 DEF IsPrList

LEMMA WorldTypes ==
    ASSUME WorldInv
    PROVE  /\ main.n \in Nat /\ events \in Nat /\ branch.onto \in Nat
           /\ prs \in Seq(Prs) /\ DOMAIN prs = 1..Len(prs) /\ Len(prs) \in Nat
           /\ \A i \in DOMAIN prs : prs[i] \in Prs
BY PrListFacts, OnboardingAssumption DEF WorldInv, IsPrList, Mains, Commits
----------------------------------------------------------------------------
(* The initial states, and runs that only read *)

LEMMA InitIInv == Init => IInv
<1>. SUFFICES ASSUME Init PROVE IInv
  OBVIOUS
<1>0. /\ options \in Options /\ main.n = 1 /\ main \in Mains /\ branch = NoBranch /\ prs = <<>>
      /\ phase = "idle" /\ events = 0 /\ clone = NotCloned /\ list.prs = <<>>
      /\ list = [known |-> list.known, prs |-> list.prs]
  BY BranchTypes DEF Init, Main, Mains
<1>1. OpenOf(prs) = {}
  BY <1>0, NoPrs DEF OpenOf
<1>2. main.n \in 1..events + 1 /\ events \in 0..MaxEvents /\ branch \in Commits /\ branch.onto <= main.n
  BY <1>0, BranchTypes, OnboardingAssumption
<1>3. IsPrList(prs, main.n) /\ IsPrList(list.prs, main.n) /\ Len(list.prs) <= Len(prs)
  BY <1>0, NoPrs
<1>4. WorldInv
  BY <1>0, <1>1, <1>2, <1>3 DEF WorldInv, AtMostOne
<1>5. RunTypes
  BY DEF Init, RunTypes, Phases
<1>6. clone.main \in Mains /\ clone.main.n <= main.n /\ clone.branch \in Commits
      /\ clone.branch.onto <= main.n
  BY <1>0, BranchTypes
<1>7. CloneInv
  BY <1>0, <1>6 DEF CloneInv
<1>. QED  BY <1>0, <1>3, <1>4, <1>5, <1>7 DEF IInv, AgreeInv, ListInv, SeenInv

\* A step of a run that leaves the world alone
LEMMA WorldKept ==
    ASSUME WorldInv, UNCHANGED <<world, events>>
    PROVE  /\ WorldInv' /\ Agreed' = Agreed /\ Decided' = Decided /\ OpenIn(prs)' = OpenIn(prs)
           /\ main.n \in Nat /\ main.n <= main.n
BY WorldTypes DEF world, WorldInv, OpenOf, AtMostOne, Agreed, SkipsCheck, Decided, OpenIn, ListOf

LEMMA BeginRunIInv == IInv /\ BeginRun => IInv'
<1>. SUFFICES ASSUME IInv, BeginRun PROVE IInv'
  OBVIOUS
<1>1. UNCHANGED <<world, events>> /\ phase' = "check" /\ clone' = NotCloned /\ list' = NotListed
      /\ ~onboarded' /\ agreed' = Agreed
  BY DEF BeginRun
<1>2. WorldInv' /\ Agreed' = Agreed /\ main'.n \in Nat /\ main' = main
  BY <1>1, WorldKept, WorldTypes DEF IInv, world
<1>3. RunTypes'
  <2>1. known' \in BOOLEAN
    BY DEF BeginRun
  <2>2. agreed' \in BOOLEAN
    BY DEF BeginRun, Agreed, SkipsCheck
  <2>. QED  BY <2>1, <2>2 DEF IInv, RunTypes, BeginRun, Phases
<1>4. CloneInv'
  BY <1>1, <1>2, BranchTypes DEF CloneInv
<1>5. ListInv'
  <2>1. IsPrList(list'.prs, main'.n)
    BY <1>1, <1>2, NoPrs, PrListGrows, BranchTypes
  <2>2. Len(list'.prs) <= Len(prs')
    BY <1>1, <1>2, NoPrs, BranchTypes, WorldTypes DEF world, IInv
  <2>. QED  BY <1>1, <2>1, <2>2, BranchTypes DEF ListInv
<1>6. SeenInv'
  BY <1>1, BranchTypes DEF SeenInv, BeginRun, world
<1>. QED  BY <1>1, <1>2, <1>3, <1>4, <1>5, <1>6 DEF IInv, AgreeInv

LEMMA GoesTypes ==
    ASSUME RunTypes, NEW to \in Phases, Goes(to)
    PROVE  onboarded' \in BOOLEAN /\ phase' \in Phases /\ agreed' \in BOOLEAN
BY DEF Goes, RunTypes

LEMMA ClonedTypes ==
    ASSUME WorldInv, CloneInv
    PROVE  /\ Cloned.main \in Mains /\ Cloned.main.n <= main.n
           /\ Cloned.branch \in Commits /\ Cloned.branch.onto <= main.n
           /\ phase = "look" => Cloned.main = main /\ Cloned.branch = branch
BY WorldTypes DEF WorldInv, CloneInv, Cloned

LEMMA CheckNameIInv == IInv /\ CheckName => IInv'
<1>. SUFFICES ASSUME IInv, CheckName PROVE IInv'
  OBVIOUS
<1>0. /\ phase = "check"
      /\ UNCHANGED <<world, events, updates, disk, known, clone, list, agreed>>
      /\ name' \in BOOLEAN
      /\ \/ phase' = "config" /\ Agreed
         \/ phase' = "look" /\ onboarded' = onboarded
      /\ \E to \in Phases : Goes(to)
  BY DEF CheckName, Goes, world, IInv, RunTypes, NameConfirmed, Agreed, Phases
<1>1. WorldInv' /\ Agreed' = Agreed /\ main' = main
  BY <1>0, WorldKept DEF IInv, world
<1>2. RunTypes'
  BY <1>0, GoesTypes DEF IInv, RunTypes
<1>3. CloneInv'
  BY <1>0, <1>1 DEF IInv, CloneInv
<1>4. AgreeInv'
  BY <1>0, <1>1 DEF IInv, AgreeInv
<1>5. ListInv'
  BY <1>0, <1>1 DEF IInv, ListInv, world
<1>6. SeenInv'
  BY <1>0 DEF IInv, SeenInv, world
<1>. QED  BY <1>1, <1>2, <1>3, <1>4, <1>5, <1>6 DEF IInv

LEMMA LookForConfigIInv == IInv /\ LookForConfig => IInv'
<1>. SUFFICES ASSUME IInv, LookForConfig PROVE IInv'
  OBVIOUS
<1>0. /\ phase = "look" /\ clone' = Cloned
      /\ UNCHANGED <<world, events, updates, disk, known, name, list, agreed>>
      /\ \/ phase' = "config" /\ clone'.main.conf
         \/ phase' = "idle"
         \/ phase' = "closed" /\ onboarded' = onboarded
      /\ \E to \in Phases : Goes(to)
  <2>1. CASE clone'.main.conf
    BY <2>1 DEF LookForConfig, Goes, world, Phases
  <2>2. CASE ~clone'.main.conf /\ ~options.onboarding
    BY <2>2 DEF LookForConfig, Goes, world, Phases
  <2>3. CASE ~clone'.main.conf /\ options.onboarding
    <3>1. Goes("closed")
      BY <2>3 DEF LookForConfig
    <3>2. phase' = "closed" /\ onboarded' = onboarded
      BY <3>1 DEF Goes, IInv, RunTypes
    <3>. QED  BY <3>1, <3>2 DEF LookForConfig, Goes, world, Phases
  <2>. QED  BY <2>1, <2>2, <2>3
<1>1. WorldInv' /\ Agreed' = Agreed /\ main' = main
  BY <1>0, WorldKept DEF IInv, world
<1>2. RunTypes'
  BY <1>0, GoesTypes DEF IInv, RunTypes
<1>3. CloneInv'
  BY <1>0, <1>1, ClonedTypes DEF IInv, CloneInv, WorldInv
<1>4. AgreeInv'
  BY <1>0, <1>1, ClonedTypes DEF IInv, AgreeInv, Agreed
<1>5. ListInv'
  BY <1>0, <1>1 DEF IInv, ListInv, world
<1>6. SeenInv'
  BY <1>0, ClonedTypes DEF IInv, SeenInv, world
<1>. QED  BY <1>1, <1>2, <1>3, <1>4, <1>5, <1>6 DEF IInv

LEMMA CheckClosedIInv == IInv /\ CheckClosed => IInv'
<1>. SUFFICES ASSUME IInv, CheckClosed PROVE IInv'
  OBVIOUS
<1>0. /\ phase = "closed" /\ list'.known /\ list'.prs = prs
      /\ list' = [known |-> list'.known, prs |-> list'.prs]
      /\ UNCHANGED <<world, events, updates, disk, known, name, clone, agreed>>
      /\ \/ phase' = "config" /\ ClosedIn(prs) # {} /\ options.requireConfig = "optional"
         \/ phase' = "idle"
         \/ /\ phase' \in {"rebase", "create"} /\ onboarded' = onboarded
            /\ phase' = "create" => OpenIn(prs) = {}
            /\ ClosedIn(prs) = {}
      /\ \E to \in Phases : Goes(to)
  <2>1. CASE ClosedIn(prs) # {} /\ options.requireConfig = "optional"
    BY <2>1 DEF CheckClosed, Goes, world, Phases
  <2>2. CASE ClosedIn(prs) # {} /\ options.requireConfig # "optional"
    BY <2>2 DEF CheckClosed, Goes, world, Phases
  <2>3. CASE ClosedIn(prs) = {}
    <3>1. PICK to \in {"rebase", "create"} : Goes(to) /\ (to = "create" => OpenIn(prs) = {})
      BY <2>3 DEF CheckClosed
    <3>2. phase' = to /\ onboarded' = onboarded
      BY <3>1 DEF Goes, IInv, RunTypes
    <3>. QED  BY <2>3, <3>1, <3>2 DEF CheckClosed, Goes, world, Phases
  <2>. QED  BY <2>1, <2>2, <2>3
<1>1. /\ WorldInv' /\ Agreed' = Agreed /\ main' = main /\ Decided' = Decided
      /\ OpenIn(prs)' = OpenIn(prs) /\ prs' = prs
  BY <1>0, WorldKept DEF IInv, world
<1>2. RunTypes'
  BY <1>0, GoesTypes DEF IInv, RunTypes
<1>3. CloneInv'
  BY <1>0, <1>1 DEF IInv, CloneInv
<1>4. ClosedIn(prs) = Decided
  BY WorldTypes DEF IInv, ClosedIn, Decided, ListOf, Prs
<1>5. AgreeInv'
  BY <1>0, <1>1, <1>4 DEF IInv, AgreeInv, Agreed
<1>6. ListInv'
  BY <1>0, <1>1, <1>4, WorldTypes DEF IInv, ListInv, WorldInv
<1>7. SeenInv'
  BY <1>0 DEF IInv, SeenInv, world
<1>. QED  BY <1>1, <1>2, <1>3, <1>5, <1>6, <1>7 DEF IInv

\* The end of a run, from saveCache on
Late ==
    /\ phase \in {"idle", "save", "prune", "delete"}
    /\ phase = "delete" => clone.branch.by # "person"
CopiesInv ==
    /\ clone.main \in Mains /\ clone.main.n <= main.n
    /\ clone.branch \in Commits /\ clone.branch.onto <= main.n
    /\ list = [known |-> list.known, prs |-> list.prs]
    /\ IsPrList(list.prs, main.n) /\ Len(list.prs) <= Len(prs)

LEMMA LateInv == WorldInv /\ RunTypes /\ CopiesInv /\ Late => IInv
BY DEF Late, CopiesInv, IInv, CloneInv, AgreeInv, ListInv, SeenInv

LEMMA LateIInv == WorldInv' /\ RunTypes' /\ CopiesInv' /\ Late' => IInv'
BY LateInv, PTL

LEMMA CopiesKept ==
    ASSUME IInv
    PROVE  CopiesInv /\ (UNCHANGED <<main, clone, list>> /\ Len(prs) <= Len(prs)' => CopiesInv')
<1>1. CopiesInv
  BY DEF IInv, CloneInv, ListInv, CopiesInv
<1>2. ASSUME UNCHANGED <<main, clone, list>>, Len(prs) <= Len(prs)'
      PROVE  CopiesInv'
  <2>1. Len(list.prs) \in Nat /\ Len(prs) \in Nat
    BY <1>1, PrListFacts DEF CopiesInv, IInv, WorldInv, IsPrList
  <2>2. Len(list.prs)' = Len(list.prs)
    BY <1>2
  <2>. QED  BY <1>1, <1>2, <2>1, <2>2 DEF CopiesInv
<1>. QED  BY <1>1, <1>2

QuietEnd == NothingToDo \/ Changed \/ CreatePrFails \/ ConfigGone \/ SaveCache \/ PruneUpdates

LEMMA QuietEndIInv == IInv /\ QuietEnd => IInv'
<1>. SUFFICES ASSUME IInv, QuietEnd PROVE IInv'
  OBVIOUS
<1>1. /\ UNCHANGED <<world, events, clone, list, known, agreed>>
      /\ phase' \in {"idle", "prune"} /\ \E to \in Phases : Goes(to)
      /\ updates' \in {updates, FALSE} /\ disk' \in {disk, name} /\ name' = name
  BY DEF QuietEnd, NothingToDo, Changed, CreatePrFails, ConfigGone, SaveCache, PruneUpdates, Ends,
         Goes, world, Phases
<1>2. WorldInv' /\ main' = main /\ prs' = prs
  BY <1>1, WorldKept DEF IInv, world
<1>3. RunTypes'
  BY <1>1, GoesTypes DEF IInv, RunTypes
<1>4. CopiesInv'
  BY <1>1, <1>2, CopiesKept, WorldTypes DEF IInv
<1>. QED  BY <1>1, <1>2, <1>3, <1>4, LateIInv DEF Late

\* nothing to push, or the branch is checked out
Goon ==
    /\ \/ phase \in {"create", "rebase"} /\ Kept
       \/ CheckOut

LEMMA GoonIInv == IInv /\ Goon => IInv'
<1>. SUFFICES ASSUME IInv, Goon PROVE IInv'
  OBVIOUS
<1>1. /\ UNCHANGED <<world, events, clone, list, known, agreed, updates, disk>>
      /\ phase \in {"create", "rebase", "checkout"} /\ phase' \in {"checkout", "pr"}
      /\ onboarded' = onboarded /\ name' \in {name, TRUE}
  BY DEF Goon, Kept, CheckOut, Goes, world, IInv, RunTypes
<1>2. /\ WorldInv' /\ main' = main /\ prs' = prs /\ Decided' = Decided
      /\ OpenIn(prs)' = OpenIn(prs) /\ OpenIn(list.prs)' = OpenIn(list.prs)
  BY <1>1, WorldKept DEF IInv, world, OpenIn, ListOf
<1>3. RunTypes'
  BY <1>1 DEF IInv, RunTypes, Phases
<1>4. CloneInv'
  BY <1>1, <1>2 DEF IInv, CloneInv
<1>5. ListInv'
  BY <1>1, <1>2 DEF IInv, ListInv
<1>. QED  BY <1>1, <1>2, <1>3, <1>4, <1>5 DEF IInv, AgreeInv, SeenInv

LEMMA MergeConfigIInv == IInv /\ MergeConfig => IInv'
<1>. SUFFICES ASSUME IInv, MergeConfig PROVE IInv'
  OBVIOUS
<1>1. /\ UNCHANGED <<world, events, list, known, agreed, updates, disk>>
      /\ phase = "config" /\ Goes("update") /\ phase' = "update"
      /\ clone' = Cloned
  BY DEF MergeConfig, Goes, world
<1>2. WorldInv' /\ main' = main /\ prs' = prs
  BY <1>1, WorldKept DEF IInv, world
<1>3. RunTypes'
  <2>1. name' \in BOOLEAN
    BY ClonedTypes DEF MergeConfig, IInv, RunTypes, Mains
  <2>. QED  BY <1>1, <2>1, GoesTypes DEF IInv, RunTypes, Phases
<1>4. CloneInv'
  BY <1>1, <1>2, ClonedTypes DEF IInv, CloneInv
<1>5. ListInv'
  BY <1>1, <1>2 DEF IInv, ListInv
<1>. QED  BY <1>1, <1>2, <1>3, <1>4, <1>5 DEF IInv, AgreeInv, SeenInv

LEMMA UpdateRepoIInv == IInv /\ UpdateRepo => IInv'
<1>. SUFFICES ASSUME IInv, UpdateRepo PROVE IInv'
  OBVIOUS
<1>1. /\ UNCHANGED <<world, events, clone, known, agreed, name, disk>>
      /\ Goes("save") /\ phase' = "save" /\ updates' = TRUE
      /\ list'.prs \in {list.prs, prs} /\ list' = [known |-> list'.known, prs |-> list'.prs]
  BY DEF UpdateRepo, Goes, world, IInv, ListInv
<1>2. WorldInv' /\ main' = main /\ prs' = prs
  BY <1>1, WorldKept DEF IInv, world
<1>3. RunTypes'
  BY <1>1, GoesTypes DEF IInv, RunTypes, Phases
<1>4. CopiesInv'
  BY <1>1, <1>2, CopiesKept, WorldTypes DEF IInv, CopiesInv, WorldInv
<1>. QED  BY <1>1, <1>2, <1>3, <1>4, LateIInv DEF Late
----------------------------------------------------------------------------
(* Runs that push, open, close and delete *)

LEMMA ClosedAllFacts ==
    ASSUME WorldInv
    PROVE  /\ IsPrList(ClosedAll(prs), main.n) /\ Len(ClosedAll(prs)) = Len(prs)
           /\ DOMAIN ClosedAll(prs) = DOMAIN prs
           /\ OpenOf(ClosedAll(prs)) = {}
           /\ \A i \in DOMAIN prs : /\ ClosedAll(prs)[i].own = prs[i].own
                                    /\ prs[i].state # "open" => ClosedAll(prs)[i] = prs[i]
<1>. DEFINE qs == ClosedAll(prs)
<1>1. qs = [i \in DOMAIN prs |-> qs[i]] /\ DOMAIN qs = DOMAIN prs
  BY DEF ClosedAll
<1>2. ASSUME NEW i \in DOMAIN prs
      PROVE  /\ qs[i] \in Prs /\ qs[i].head.onto <= main.n /\ qs[i].state # "open"
             /\ qs[i].state = "closed" => qs[i].head # NoBranch
             /\ qs[i].own = prs[i].own /\ (prs[i].state # "open" => qs[i] = prs[i])
  <2>1. prs[i] \in Prs /\ branch \in Commits /\ branch.onto <= main.n
    BY WorldTypes DEF WorldInv
  <2>2. CASE prs[i].state = "open"
    <3>1. qs[i] = [prs[i] EXCEPT !.state = "closed", !.head = branch] /\ branch # NoBranch
      BY <2>2 DEF ClosedAll, WorldInv, OpenOf
    <3>. QED  BY <2>1, <2>2, <3>1 DEF Prs
  <2>3. CASE prs[i].state # "open"
    <3>1. qs[i] = prs[i]
      BY <2>3 DEF ClosedAll
    <3>. QED  BY <2>1, <2>3, <3>1 DEF WorldInv, IsPrList
  <2>. QED  BY <2>2, <2>3
<1>3. IsPrList(qs, main.n) /\ Len(qs) = Len(prs)
  <2>. HIDE DEF qs
  <2>. QED  BY <1>1, <1>2, PrListChanges, WorldTypes DEF WorldInv
<1>4. OpenOf(qs) = {}
  <2>. HIDE DEF qs
  <2>. QED  BY <1>1, <1>2 DEF OpenOf
<1>. QED  BY <1>1, <1>2, <1>3, <1>4

LEMMA PushIInv == IInv /\ phase \in {"create", "rebase"} /\ Push => IInv'
<1>. SUFFICES ASSUME IInv, phase \in {"create", "rebase"}, Push PROVE IInv'
  OBVIOUS
<1>1. /\ UNCHANGED <<options, main, prs, events, list, agreed, updates, disk, name>>
      /\ phase' = "checkout" /\ onboarded' = onboarded /\ known' = TRUE
      /\ branch' = Commit("renovate", clone.main.n)
      /\ clone' = [clone EXCEPT !.branch = branch']
  BY DEF Push, Goes, IInv, RunTypes
<1>2. /\ branch' \in Commits /\ branch' # NoBranch /\ branch'.onto = clone.main.n
  BY <1>1, BranchTypes DEF IInv, CloneInv, Mains
<1>3. clone'.main = clone.main /\ clone'.branch \in {clone.branch, branch'}
  BY <1>1
<1>4. WorldInv'
  BY <1>1, <1>2 DEF IInv, WorldInv, CloneInv, OpenOf, AtMostOne
<1>5. RunTypes'
  BY <1>1 DEF IInv, RunTypes, Phases
<1>6. CloneInv'
  BY <1>1, <1>2, <1>3 DEF IInv, CloneInv
<1>7. ListInv'
  BY <1>1 DEF IInv, ListInv, OpenIn, ListOf, Decided
<1>. QED  BY <1>1, <1>4, <1>5, <1>6, <1>7 DEF IInv, AgreeInv, SeenInv

LEMMA ReopenIInv == ASSUME NEW i \in DOMAIN list.prs PROVE IInv /\ Reopen(i) => IInv'
<1>. SUFFICES ASSUME IInv, Reopen(i) PROVE IInv'
  OBVIOUS
<1>1. /\ UNCHANGED <<options, main, events, known, clone, agreed, updates, disk, name>>
      /\ phase = "create" /\ phase' = "rebase" /\ onboarded' = onboarded
      /\ branch = NoBranch /\ branch' = list.prs[i].head
      /\ prs' = [prs EXCEPT ![i].state = "open", ![i].title = "ours"]
      /\ list' = [list EXCEPT !.prs[i].state = "open", !.prs[i].title = "ours"]
  BY DEF Reopen, Goes, IInv, RunTypes
<1>2. list.prs[i].own /\ list.prs[i].state = "closed"
  BY DEF Reopen, AutoclosedIn, IsNewest, ListOf
<1>3. /\ list.prs \in Seq(Prs) /\ DOMAIN list.prs = 1..Len(list.prs) /\ Len(list.prs) \in Nat
      /\ \A j \in DOMAIN list.prs : list.prs[j] \in Prs
  BY PrListFacts DEF IInv, ListInv, IsPrList
<1>4. i \in DOMAIN prs
  BY <1>3, WorldTypes DEF IInv, ListInv
<1>5. OpenOf(prs) = {}
  BY <1>1 DEF IInv, WorldInv
<1>6. /\ prs' = [j \in DOMAIN prs |-> prs'[j]]
      /\ \A j \in DOMAIN prs :
            /\ prs'[j] \in Prs /\ prs'[j].head = prs[j].head
            /\ prs'[j].state = IF j = i THEN "open" ELSE prs[j].state
  <2>. DEFINE pr == [prs[i] EXCEPT !.state = "open", !.title = "ours"]
  <2>1. pr \in Prs /\ pr.head = prs[i].head /\ pr.state = "open"
    BY <1>4, WorldTypes DEF IInv, Prs
  <2>2. prs' = [j \in DOMAIN prs |-> IF j = i THEN pr ELSE prs[j]]
    BY <1>1, <1>4
  <2>3. \A j \in DOMAIN prs : prs'[j] = IF j = i THEN pr ELSE prs[j]
    BY <2>2
  <2>4. prs' = [j \in DOMAIN prs |-> prs'[j]]
    BY <2>2
  <2>. HIDE DEF pr
  <2>. QED  BY <2>1, <2>3, <2>4, WorldTypes DEF IInv
<1>7. \A j \in DOMAIN prs : /\ prs'[j].head.onto <= main.n
                            /\ prs'[j].state = "closed" => prs'[j].head # NoBranch
  BY <1>6 DEF IInv, WorldInv, IsPrList
<1>8. IsPrList(prs', main.n) /\ DOMAIN prs' = DOMAIN prs /\ Len(prs') = Len(prs)
  <2>1. IsPrList(prs, main.n) /\ main.n \in Nat /\ main.n <= main.n
    BY WorldTypes DEF IInv, WorldInv
  <2>2. \A j \in DOMAIN prs : prs'[j] \in Prs
    BY <1>6
  <2>. QED  BY <1>6, <1>7, <2>1, <2>2, PrListChanges
<1>9. OpenOf(prs') = {i}
  BY <1>4, <1>5, <1>6, <1>8 DEF OpenOf
<1>10. branch' \in Commits /\ branch'.onto <= main.n /\ branch' # NoBranch
  BY <1>1, <1>2, <1>3 DEF IInv, ListInv, IsPrList, Prs
<1>11. WorldInv'
  BY <1>1, <1>8, <1>9, <1>10 DEF IInv, WorldInv, AtMostOne
<1>12. RunTypes'
  BY <1>1 DEF IInv, RunTypes, Phases
<1>13. CloneInv'
  BY <1>1 DEF IInv, CloneInv
<1>14. /\ list'.known = list.known /\ list'.prs = [j \in DOMAIN list.prs |-> list'.prs[j]]
       /\ \A j \in DOMAIN list.prs :
            /\ list'.prs[j] \in Prs /\ list'.prs[j].head = list.prs[j].head
            /\ list'.prs[j].own = list.prs[j].own
            /\ list'.prs[j].state = IF j = i THEN "open" ELSE list.prs[j].state
  <2>. DEFINE pr == [list.prs[i] EXCEPT !.state = "open", !.title = "ours"]
  <2>1. /\ pr \in Prs /\ pr.head = list.prs[i].head /\ pr.own = list.prs[i].own
        /\ pr.state = "open"
    BY <1>3 DEF Prs
  <2>2. list' = [list EXCEPT !.prs = [list.prs EXCEPT ![i] = pr]]
    BY <1>1
  <2>3. /\ list'.known = list.known
        /\ list'.prs = [j \in DOMAIN list.prs |-> IF j = i THEN pr ELSE list.prs[j]]
    BY <2>2 DEF IInv, ListInv
  <2>. QED  BY <1>3, <2>1, <2>3
<1>15. \A j \in DOMAIN list.prs : /\ list'.prs[j].head.onto <= main.n
                                  /\ list'.prs[j].state = "closed" => list'.prs[j].head # NoBranch
  BY <1>14 DEF IInv, ListInv, IsPrList
<1>16. IsPrList(list'.prs, main.n) /\ DOMAIN list'.prs = DOMAIN list.prs
       /\ Len(list'.prs) = Len(list.prs)
  <2>1. IsPrList(list.prs, main.n) /\ main.n \in Nat /\ main.n <= main.n
    BY WorldTypes DEF IInv, ListInv
  <2>2. \A j \in DOMAIN list.prs : list'.prs[j] \in Prs
    BY <1>14
  <2>3. list'.prs = [j \in DOMAIN list.prs |-> list'.prs[j]]
    BY <1>14
  <2>. QED  BY <1>15, <2>1, <2>2, <2>3, PrListChanges
<1>17. i \in OpenIn(list'.prs)
  BY <1>2, <1>14, <1>16 DEF OpenIn, ListOf
<1>18. ListInv'
  <2>1. list = [known |-> list.known, prs |-> list.prs]
    BY DEF IInv, ListInv
  <2>2. list' = [list EXCEPT !.prs = list'.prs]
    BY <1>1, <2>1
  <2>3. list' = [known |-> list'.known, prs |-> list'.prs]
    BY <2>1, <2>2
  <2>4. Len(list.prs) <= Len(prs) /\ list.known
    BY <1>1 DEF IInv, ListInv
  <2>5. IsPrList(list'.prs, main'.n) /\ Len(list'.prs) <= Len(prs') /\ list'.known
    BY <2>4, <1>1, <1>8, <1>14, <1>16
  <2>6. OpenIn(list'.prs) # {}
    BY <1>17
  <2>. QED  BY <2>3, <2>5, <2>6, <1>1 DEF ListInv
<1>. QED  BY <1>1, <1>11, <1>12, <1>13, <1>18 DEF IInv, AgreeInv, SeenInv

\* the branch is deleted, and its PRs closed
LEMMA DeletedWorld ==
    ASSUME IInv, Deleted, UNCHANGED <<options, main, events, clone, list>>
    PROVE  WorldInv' /\ CopiesInv' /\ known' = FALSE
<1>1. prs' = ClosedAll(prs) /\ branch' = NoBranch /\ known' = FALSE
  BY DEF Deleted
<1>2. IsPrList(prs', main.n) /\ OpenOf(prs') = {} /\ Len(prs') = Len(prs)
  BY <1>1, ClosedAllFacts DEF IInv
<1>3. WorldInv'
  BY <1>1, <1>2, BranchTypes, WorldTypes DEF IInv, WorldInv, AtMostOne
<1>4. CopiesInv'
  BY <1>2, CopiesKept, WorldTypes DEF IInv
<1>. QED  BY <1>1, <1>3, <1>4

LEMMA EnsurePrIInv == IInv /\ EnsurePr => IInv'
<1>. SUFFICES ASSUME IInv, EnsurePr PROVE IInv'
  OBVIOUS
<1>1. /\ UNCHANGED <<options, main, events, clone, agreed, updates, disk, name>>
      /\ Goes("save") /\ phase' = "save"
  BY DEF EnsurePr, Goes
<1>2. WorldInv' /\ CopiesInv' /\ known' \in BOOLEAN
  <2>1. CASE UNCHANGED <<branch, prs, known, list>>
    <3>1. WorldInv'
      BY <1>1, <2>1, WorldKept DEF IInv, world
    <3>2. CopiesInv'
      BY <1>1, <2>1, CopiesKept, WorldTypes DEF IInv
    <3>. QED  BY <2>1, <3>1, <3>2 DEF IInv, RunTypes
  <2>2. CASE /\ branch # NoBranch /\ \A i \in DOMAIN prs : prs[i].state # "open"
             /\ prs' = Append(prs, Pr(TRUE)) /\ list' = [list EXCEPT !.prs = prs']
             /\ UNCHANGED <<branch, known>>
    <3>1. /\ IsPrList(prs', main.n) /\ Len(prs') = Len(prs) + 1
          /\ DOMAIN prs' = DOMAIN prs \cup {Len(prs) + 1}
          /\ \A i \in DOMAIN prs : prs'[i] = prs[i]
      BY <2>2, PrListAppend, WorldTypes DEF IInv, WorldInv
    <3>2. AtMostOne(OpenOf(prs'))
      BY <2>2, <3>1 DEF OpenOf, AtMostOne
    <3>3. WorldInv'
      BY <1>1, <2>2, <3>1, <3>2 DEF IInv, WorldInv
    <3>4. list = [known |-> list.known, prs |-> list.prs]
      BY DEF IInv, ListInv
    <3>5. list' = [known |-> list'.known, prs |-> list'.prs] /\ list'.prs = prs'
      BY <2>2, <3>4
    <3>6. Len(list'.prs) <= Len(prs')
      BY <3>1, <3>5, WorldTypes DEF IInv
    <3>7. CopiesInv'
      BY <1>1, <3>1, <3>5, <3>6 DEF IInv, CloneInv, CopiesInv
    <3>. QED  BY <2>2, <3>3, <3>7 DEF IInv, RunTypes
  <2>3. CASE Deleted /\ UNCHANGED list
    BY <1>1, <2>3, DeletedWorld
  <2>. QED  BY <2>1, <2>2, <2>3 DEF EnsurePr
<1>3. RunTypes'
  BY <1>1, <1>2, GoesTypes DEF IInv, RunTypes, Phases
<1>. QED  BY <1>1, <1>2, <1>3, LateIInv DEF Late

LEMMA DeleteBranchIInv == IInv /\ DeleteBranch => IInv'
<1>. SUFFICES ASSUME IInv, DeleteBranch PROVE IInv'
  OBVIOUS
<1>1. /\ UNCHANGED <<options, main, events, clone, list, agreed, updates, disk, name>>
      /\ Goes("idle") /\ phase' = "idle" /\ Deleted
  BY DEF DeleteBranch, Goes
<1>2. WorldInv' /\ CopiesInv' /\ known' = FALSE
  BY <1>1, DeletedWorld
<1>3. RunTypes'
  BY <1>1, <1>2, GoesTypes DEF IInv, RunTypes, Phases
<1>. QED  BY <1>1, <1>2, <1>3, LateIInv DEF Late

LEMMA PruneOnboardingIInv == IInv /\ PruneOnboarding => IInv'
<1>. SUFFICES ASSUME IInv, PruneOnboarding PROVE IInv'
  OBVIOUS
<1>0. UNCHANGED <<options, main, branch, events, clone, list, agreed, updates, disk, name, known>>
  BY DEF PruneOnboarding, Goes
<1>1. CASE known /\ ~IsModified /\ ~HasGone
  <2>. DEFINE qs == [i \in DOMAIN prs |->
                        IF IsNewest(i, OpenIn(list.prs))
                        THEN [prs[i] EXCEPT
                                !.title = "autoclosed",
                                !.state = IF @ = "open" THEN "closed" ELSE @,
                                !.head = IF prs[i].state = "open" THEN branch ELSE @]
                        ELSE prs[i]]
  <2>1. Goes("delete") /\ phase' = "delete" /\ prs' = qs
    BY <1>1 DEF PruneOnboarding, Goes
  <2>2. clone.branch.by # "person"
    BY <1>1 DEF IsModified
  <2>3. ASSUME NEW i \in DOMAIN prs
        PROVE  /\ qs[i] \in Prs /\ qs[i].head.onto <= main.n
               /\ qs[i].state = "closed" => qs[i].head # NoBranch
               /\ qs[i].state = "open" => prs[i].state = "open"
    <3>1. /\ prs[i] \in Prs /\ branch \in Commits /\ branch.onto <= main.n
          /\ prs[i].state = "open" => branch # NoBranch
          /\ prs[i].state = "closed" => prs[i].head # NoBranch
          /\ prs[i].head.onto <= main.n
      BY WorldTypes DEF IInv, WorldInv, IsPrList, OpenOf
    <3>2. CASE IsNewest(i, OpenIn(list.prs)) /\ prs[i].state = "open"
      <4>1. qs[i] = [own |-> prs[i].own, state |-> "closed", title |-> "autoclosed",
                     old |-> prs[i].old, head |-> branch]
        BY <3>1, <3>2 DEF Prs
      <4>. QED  BY <3>1, <3>2, <4>1 DEF Prs
    <3>3. CASE IsNewest(i, OpenIn(list.prs)) /\ prs[i].state # "open"
      <4>1. qs[i] = [own |-> prs[i].own, state |-> prs[i].state, title |-> "autoclosed",
                     old |-> prs[i].old, head |-> prs[i].head]
        BY <3>1, <3>3 DEF Prs
      <4>. QED  BY <3>1, <3>3, <4>1 DEF Prs
    <3>4. CASE ~IsNewest(i, OpenIn(list.prs))
      <4>1. qs[i] = prs[i]
        BY <3>4
      <4>. QED  BY <3>1, <4>1
    <3>. QED  BY <3>2, <3>3, <3>4
  <2>4. qs = [i \in DOMAIN prs |-> qs[i]]
    OBVIOUS
  <2>. HIDE DEF qs
  <2>5. IsPrList(qs, main.n) /\ DOMAIN qs = DOMAIN prs /\ Len(qs) = Len(prs)
    <3>1. IsPrList(prs, main.n) /\ main.n \in Nat /\ main.n <= main.n
      BY WorldTypes DEF IInv, WorldInv
    <3>. QED  BY <2>3, <2>4, <3>1, PrListChanges
  <2>6. OpenOf(qs) \subseteq OpenOf(prs)
    BY <2>3, <2>5 DEF OpenOf
  <2>7. WorldInv'
    BY <1>0, <2>1, <2>5, <2>6 DEF IInv, WorldInv, AtMostOne
  <2>8. CopiesInv'
    BY <1>0, <2>1, <2>5, CopiesKept, WorldTypes DEF IInv
  <2>9. RunTypes'
    BY <1>0, <2>1, GoesTypes DEF IInv, RunTypes, Phases
  <2>. QED  BY <1>0, <2>1, <2>2, <2>7, <2>8, <2>9, LateIInv DEF Late
<1>2. CASE ~(known /\ ~IsModified /\ ~HasGone)
  <2>1. Goes("idle") /\ phase' = "idle" /\ prs' = prs
    BY <1>2 DEF PruneOnboarding, Goes
  <2>2. WorldInv'
    BY <1>0, <2>1, WorldKept DEF IInv, world
  <2>3. CopiesInv'
    BY <1>0, <2>1, CopiesKept, WorldTypes DEF IInv
  <2>4. RunTypes'
    BY <1>0, <2>1, GoesTypes DEF IInv, RunTypes, Phases
  <2>. QED  BY <2>1, <2>2, <2>3, <2>4, LateIInv DEF Late
<1>. QED  BY <1>1, <1>2
----------------------------------------------------------------------------
(* Other people, clocks, crashes *)

LEMMA HappensIInv ==
    ASSUME IInv, Happens, WorldInv', main.n <= main'.n, Len(prs) <= Len(prs'),
           phase' \in {phase, "idle"}, branch = NoBranch => branch' = NoBranch,
           OpenIn(prs) = {} => OpenIn(prs') = {} /\ Decided' \subseteq Decided
    PROVE  IInv'
<1>1. UNCHANGED <<options, updates, disk, onboarded, name, known, clone, list>>
      /\ agreed' = (agreed \/ Agreed')
  BY DEF Happens
<1>2. main.n \in Nat /\ main'.n \in Nat
  BY DEF IInv, WorldInv, Mains
<1>3. RunTypes'
  <2>1. agreed' \in BOOLEAN /\ phase' \in Phases
    BY <1>1 DEF IInv, RunTypes, Phases
  <2>. QED  BY <1>1, <2>1 DEF IInv, RunTypes
<1>4. CloneInv'
  <2>1. clone.main.n \in Nat /\ clone.branch.onto \in Nat
    BY DEF IInv, CloneInv, Mains, Commits
  <2>2. clone.main.n <= main'.n /\ clone.branch.onto <= main'.n
    BY <1>2, <2>1 DEF IInv, CloneInv
  <2>. QED  BY <1>1, <2>2 DEF IInv, CloneInv
<1>5. AgreeInv'
  BY <1>1 DEF IInv, AgreeInv
<1>6. ListInv'
  <2>1. IsPrList(list.prs, main'.n)
    BY <1>2, PrListGrows DEF IInv, ListInv
  <2>2. Len(list.prs) <= Len(prs')
    <3>1. Len(list.prs) \in Nat /\ Len(prs) \in Nat /\ Len(prs') \in Nat
      BY PrListFacts DEF IInv, WorldInv, ListInv, IsPrList
    <3>. QED  BY <3>1 DEF IInv, ListInv
  <2>3. OpenIn(list.prs)' = OpenIn(list.prs)
    BY <1>1 DEF OpenIn, ListOf
  <2>. QED  BY <1>1, <2>1, <2>2, <2>3 DEF IInv, ListInv
<1>7. SeenInv'
  BY <1>1 DEF IInv, SeenInv
<1>. QED  BY <1>3, <1>4, <1>5, <1>6, <1>7 DEF IInv

LEMMA MainMovesIInv == ASSUME NEW conf \in BOOLEAN PROVE IInv /\ MainMoves(conf) => IInv'
<1>. SUFFICES ASSUME IInv, MainMoves(conf) PROVE IInv'
  OBVIOUS
<1>1. /\ main' \in Mains /\ main'.n = main.n + 1 /\ main.n \in Nat /\ events' = events + 1
      /\ events < MaxEvents /\ UNCHANGED <<options, branch, prs, phase>> /\ Happens
  BY WorldTypes DEF MainMoves, Happens, Main, Mains, IInv
<1>2. main'.n \in 1..events' + 1 /\ events' \in 0..MaxEvents /\ branch'.onto <= main'.n
  BY <1>1, OnboardingAssumption, WorldTypes DEF IInv, WorldInv
<1>3. IsPrList(prs', main'.n)
  BY <1>1, PrListGrows DEF IInv, WorldInv, Mains
<1>4. WorldInv'
  BY <1>1, <1>2, <1>3 DEF IInv, WorldInv
<1>. QED  BY <1>1, <1>4, HappensIInv, WorldTypes DEF IInv, Decided

LEMMA EventTypes ==
    ASSUME IInv, Happens, UNCHANGED main
    PROVE  /\ main'.n \in 1..events' + 1 /\ events' \in 0..MaxEvents /\ main.n <= main'.n
           /\ options' = options
BY OnboardingAssumption, WorldTypes DEF Happens, IInv, WorldInv

LEMMA EditBranchIInv == IInv /\ EditBranch => IInv'
<1>. SUFFICES ASSUME IInv, EditBranch PROVE IInv'
  OBVIOUS
<1>1. /\ branch # NoBranch /\ branch' = [branch EXCEPT !.by = "person"]
      /\ UNCHANGED <<main, prs, phase>> /\ Happens
  BY DEF EditBranch
<1>2. branch' \in Commits /\ branch'.onto = branch.onto /\ branch' # NoBranch
  BY <1>1 DEF IInv, WorldInv, Commits, NoBranch, Commit
<1>3. WorldInv'
  BY <1>1, <1>2, EventTypes DEF IInv, WorldInv
<1>. QED  BY <1>1, <1>3, HappensIInv, EventTypes, WorldTypes DEF IInv, Decided

LEMMA OpenPrIInv == IInv /\ OpenPr => IInv'
<1>. SUFFICES ASSUME IInv, OpenPr PROVE IInv'
  OBVIOUS
<1>1. /\ branch # NoBranch /\ \A i \in DOMAIN prs : prs[i].state # "open"
      /\ prs' = Append(prs, Pr(FALSE))
      /\ UNCHANGED <<main, branch, phase>> /\ Happens
  BY DEF OpenPr
<1>2. /\ IsPrList(prs', main.n) /\ Len(prs') = Len(prs) + 1
      /\ DOMAIN prs' = DOMAIN prs \cup {Len(prs) + 1}
      /\ \A i \in DOMAIN prs : prs'[i] = prs[i]
      /\ ~prs'[Len(prs) + 1].own
  <2>1. IsPrList(prs, main.n) /\ main.n \in Nat /\ FALSE \in BOOLEAN
    BY WorldTypes DEF IInv, WorldInv
  <2>2. Pr(FALSE).own = FALSE
    BY DEF Pr
  <2>. QED  BY <1>1, <2>1, <2>2, PrListAppend
<1>3. AtMostOne(OpenOf(prs'))
  BY <1>1, <1>2 DEF OpenOf, AtMostOne
<1>4. WorldInv'
  BY <1>1, <1>2, <1>3, EventTypes DEF IInv, WorldInv
<1>5. OpenIn(prs') = {} /\ Decided' \subseteq Decided
  BY <1>1, <1>2 DEF OpenIn, ListOf, Decided
<1>6. Len(prs) <= Len(prs')
  BY <1>2, WorldTypes DEF IInv
<1>. QED  BY <1>1, <1>4, <1>5, <1>6, HappensIInv, EventTypes

LEMMA ClosePrIInv == IInv /\ ClosePr => IInv'
<1>. SUFFICES ASSUME IInv, ClosePr PROVE IInv'
  OBVIOUS
<1>1. /\ OpenIn(prs) # {} /\ prs' = ClosedAll(prs) /\ branch' \in {branch, NoBranch}
      /\ UNCHANGED <<main, phase>> /\ Happens
  BY DEF ClosePr
<1>2. IsPrList(prs', main.n) /\ OpenOf(prs') = {} /\ Len(prs') = Len(prs)
  BY <1>1, ClosedAllFacts DEF IInv
<1>3. branch' \in Commits /\ branch'.onto <= main.n
  BY <1>1, BranchTypes, WorldTypes DEF IInv, WorldInv
<1>4. WorldInv'
  BY <1>1, <1>2, <1>3, EventTypes DEF IInv, WorldInv, AtMostOne
<1>. QED  BY <1>1, <1>2, <1>4, HappensIInv, EventTypes, WorldTypes DEF IInv

LEMMA MergePrIInv == ASSUME NEW i \in DOMAIN prs PROVE IInv /\ MergePr(i) => IInv'
<1>. SUFFICES ASSUME IInv, MergePr(i) PROVE IInv'
  OBVIOUS
<1>1. /\ prs[i].state = "open" /\ prs' = [prs EXCEPT ![i].state = "merged"]
      /\ main' \in Mains /\ main'.n = main.n + 1 /\ main.n \in Nat /\ branch' \in {branch, NoBranch}
      /\ events' = events + 1 /\ events < MaxEvents /\ UNCHANGED <<options, phase>> /\ Happens
  BY WorldTypes DEF MergePr, Happens, IInv, Main, Mains
<1>2. /\ prs' = [j \in DOMAIN prs |-> prs'[j]]
      /\ \A j \in DOMAIN prs :
            /\ prs'[j] \in Prs /\ prs'[j].head = prs[j].head /\ prs'[j].own = prs[j].own
            /\ prs'[j].state = IF j = i THEN "merged" ELSE prs[j].state
            /\ j # i => prs'[j] = prs[j]
  <2>. DEFINE pr == [prs[i] EXCEPT !.state = "merged"]
  <2>1. pr \in Prs /\ pr.head = prs[i].head /\ pr.own = prs[i].own /\ pr.state = "merged"
    BY WorldTypes DEF IInv, Prs
  <2>2. prs' = [j \in DOMAIN prs |-> IF j = i THEN pr ELSE prs[j]]
    BY <1>1
  <2>3. \A j \in DOMAIN prs : prs'[j] = IF j = i THEN pr ELSE prs[j]
    BY <2>2
  <2>4. prs' = [j \in DOMAIN prs |-> prs'[j]]
    BY <2>2
  <2>. HIDE DEF pr
  <2>. QED  BY <2>1, <2>3, <2>4, WorldTypes DEF IInv
<1>3. IsPrList(prs', main'.n) /\ DOMAIN prs' = DOMAIN prs /\ Len(prs') = Len(prs)
  <2>1. IsPrList(prs, main.n) /\ main.n \in Nat /\ main'.n \in Nat /\ main.n <= main'.n
    BY <1>1 DEF IInv, WorldInv
  <2>2. \A j \in DOMAIN prs : prs'[j] \in Prs
    BY <1>2
  <2>3. \A j \in DOMAIN prs : /\ prs'[j].head.onto <= main'.n
                              /\ prs'[j].state = "closed" => prs'[j].head # NoBranch
    <3>1. \A j \in DOMAIN prs : prs[j].head.onto \in Nat
      BY WorldTypes DEF IInv, Prs, Commits
    <3>. QED  BY <1>2, <2>1, <3>1 DEF IsPrList
  <2>. QED  BY <1>2, <2>1, <2>2, <2>3, PrListChanges
<1>4. OpenOf(prs') = {}
  BY <1>1, <1>2, <1>3 DEF IInv, WorldInv, AtMostOne, OpenOf
<1>5. /\ branch' \in Commits /\ branch'.onto <= main'.n
      /\ main'.n \in 1..events' + 1 /\ events' \in 0..MaxEvents
  BY <1>1, BranchTypes, WorldTypes, OnboardingAssumption DEF IInv, WorldInv
<1>6. WorldInv'
  BY <1>1, <1>3, <1>4, <1>5 DEF IInv, WorldInv, AtMostOne
<1>7. OpenIn(prs) = {} => OpenIn(prs') = {} /\ Decided' \subseteq Decided
  BY <1>1, <1>2, <1>3 DEF OpenIn, ListOf, Decided
<1>8. main.n <= main'.n /\ Len(prs) <= Len(prs')
  BY <1>1, <1>3, WorldTypes DEF IInv
<1>9. phase' \in {phase, "idle"} /\ (branch = NoBranch => branch' = NoBranch)
  BY <1>1
<1>. QED  BY <1>1, <1>6, <1>7, <1>8, <1>9, HappensIInv

\* a title or an age changes, and no state
LEMMA SameStatesIInv ==
    ASSUME IInv, Happens, UNCHANGED <<main, branch, phase>>,
           prs' = [j \in DOMAIN prs |-> prs'[j]],
           \A j \in DOMAIN prs :
              /\ prs'[j] \in Prs /\ prs'[j].head = prs[j].head /\ prs'[j].own = prs[j].own
              /\ prs'[j].state = prs[j].state /\ (prs'[j].title = "ours" => prs[j].title = "ours")
    PROVE  IInv'
<1>1. IsPrList(prs', main.n) /\ DOMAIN prs' = DOMAIN prs /\ Len(prs') = Len(prs)
  <2>1. IsPrList(prs, main.n) /\ main.n \in Nat /\ main.n <= main.n
    BY WorldTypes DEF IInv, WorldInv
  <2>2. \A j \in DOMAIN prs : /\ prs'[j].head.onto <= main.n
                              /\ prs'[j].state = "closed" => prs'[j].head # NoBranch
    BY <2>1 DEF IsPrList
  <2>. QED  BY <2>1, <2>2, PrListChanges
<1>2. OpenOf(prs') = OpenOf(prs)
  BY <1>1 DEF OpenOf
<1>3. WorldInv'
  BY <1>1, <1>2, EventTypes DEF IInv, WorldInv
<1>4. OpenIn(prs') = OpenIn(prs) /\ Decided' \subseteq Decided
  BY <1>1 DEF OpenIn, ListOf, Decided
<1>. QED  BY <1>1, <1>3, <1>4, HappensIInv, EventTypes, WorldTypes DEF IInv

LEMMA RenamePrIInv == ASSUME NEW i \in DOMAIN prs PROVE IInv /\ RenamePr(i) => IInv'
<1>. SUFFICES ASSUME IInv, RenamePr(i) PROVE IInv'
  OBVIOUS
<1>. DEFINE pr == [prs[i] EXCEPT !.title = "renamed"]
<1>1. /\ prs' = [j \in DOMAIN prs |-> IF j = i THEN pr ELSE prs[j]]
      /\ UNCHANGED <<main, branch, phase>> /\ Happens
  BY DEF RenamePr
<1>2. /\ pr \in Prs /\ pr.head = prs[i].head /\ pr.own = prs[i].own /\ pr.state = prs[i].state
      /\ pr.title = "renamed"
  BY WorldTypes DEF IInv, Prs
<1>3. \A j \in DOMAIN prs : prs'[j] = IF j = i THEN pr ELSE prs[j]
  BY <1>1
<1>4. prs' = [j \in DOMAIN prs |-> prs'[j]]
  BY <1>1
<1>. HIDE DEF pr
<1>. QED  BY <1>1, <1>2, <1>3, <1>4, SameStatesIInv, WorldTypes DEF IInv

LEMMA WeekPassesIInv == IInv /\ WeekPasses => IInv'
<1>. SUFFICES ASSUME IInv, WeekPasses PROVE IInv'
  OBVIOUS
<1>1. /\ prs' = [i \in DOMAIN prs |-> [prs[i] EXCEPT !.old = prs[i].title = "autoclosed"]]
      /\ UNCHANGED <<main, branch, phase>> /\ Happens
  BY DEF WeekPasses
<1>2. prs' = [j \in DOMAIN prs |-> prs'[j]]
  BY <1>1
<1>3. ASSUME NEW j \in DOMAIN prs
      PROVE  /\ prs'[j] \in Prs /\ prs'[j].head = prs[j].head /\ prs'[j].own = prs[j].own
             /\ prs'[j].state = prs[j].state /\ prs'[j].title = prs[j].title
  <2>1. prs[j] \in Prs
    BY WorldTypes DEF IInv
  <2>2. prs'[j] = [prs[j] EXCEPT !.old = prs[j].title = "autoclosed"]
    BY <1>1
  <2>. QED  BY <2>1, <2>2 DEF Prs
<1>. QED  BY <1>1, <1>2, <1>3, SameStatesIInv

LEMMA KilledIInv == IInv /\ Killed => IInv'
<1>. SUFFICES ASSUME IInv, Killed PROVE IInv'
  OBVIOUS
<1>1. UNCHANGED <<main, branch, prs>> /\ Happens /\ phase' = "idle"
  BY DEF Killed
<1>2. WorldInv'
  BY <1>1, EventTypes DEF IInv, WorldInv
<1>. QED  BY <1>1, <1>2, HappensIInv, EventTypes, WorldTypes DEF IInv, Decided

LEMMA StepIInv == IInv /\ [Next]_vars => IInv'
<1>. SUFFICES ASSUME IInv, [Next]_vars PROVE IInv'
  OBVIOUS
<1>1. CASE Work
  <2>1. CASE BeginRun
    BY <2>1, BeginRunIInv
  <2>2. CASE CheckName
    BY <2>2, CheckNameIInv
  <2>3. CASE LookForConfig
    BY <2>3, LookForConfigIInv
  <2>4. CASE CheckClosed
    BY <2>4, CheckClosedIInv
  <2>5. ASSUME NEW i \in DOMAIN list.prs, Reopen(i)
        PROVE  IInv'
    BY <2>5, ReopenIInv
  <2>6. CASE Rebase
    BY <2>6, PushIInv, GoonIInv DEF Rebase, Goon
  <2>7. CASE Create
    BY <2>7, PushIInv, GoonIInv DEF Create, Goon
  <2>8. CASE QuietEnd
    BY <2>8, QuietEndIInv
  <2>9. CASE CheckOut
    BY <2>9, GoonIInv DEF Goon
  <2>10. CASE EnsurePr
    BY <2>10, EnsurePrIInv
  <2>11. CASE MergeConfig
    BY <2>11, MergeConfigIInv
  <2>12. CASE UpdateRepo
    BY <2>12, UpdateRepoIInv
  <2>13. CASE PruneOnboarding
    BY <2>13, PruneOnboardingIInv
  <2>14. CASE DeleteBranch
    BY <2>14, DeleteBranchIInv
  <2>. QED  BY <1>1, <2>1, <2>2, <2>3, <2>4, <2>5, <2>6, <2>7, <2>8, <2>9, <2>10, <2>11, <2>12,
               <2>13, <2>14 DEF Work, QuietEnd
<1>2. ASSUME NEW conf \in BOOLEAN, MainMoves(conf)
      PROVE  IInv'
  BY <1>2, MainMovesIInv
<1>3. CASE EditBranch \/ OpenPr \/ ClosePr \/ WeekPasses \/ Killed
  BY <1>3, EditBranchIInv, OpenPrIInv, ClosePrIInv, WeekPassesIInv, KilledIInv
<1>4. ASSUME NEW i \in DOMAIN prs, MergePr(i) \/ RenamePr(i)
      PROVE  IInv'
  BY <1>4, MergePrIInv, RenamePrIInv
<1>5. CASE UNCHANGED vars
  <2>1. UNCHANGED <<world, events, updates, disk, phase, onboarded, name, known, clone, list, agreed>>
    BY <1>5 DEF vars
  <2>2. /\ WorldInv' /\ Agreed' = Agreed /\ Decided' = Decided /\ OpenIn(prs)' = OpenIn(prs)
        /\ OpenIn(list.prs)' = OpenIn(list.prs)
    BY <2>1, WorldKept DEF IInv, OpenIn, ListOf
  <2>. QED  BY <2>1, <2>2 DEF IInv, RunTypes, CloneInv, AgreeInv, ListInv, SeenInv, world
<1>. QED  BY <1>1, <1>2, <1>3, <1>4, <1>5 DEF Next

THEOREM Invariant == Spec => []IInv
BY InitIInv, StepIInv, PTL DEF Spec
----------------------------------------------------------------------------
LEMMA Implied == IInv => TypeOK
<1>. SUFFICES ASSUME IInv PROVE TypeOK
  OBVIOUS
<1>1. options \in Options /\ main.conf \in BOOLEAN /\ main.n \in 1..MaxEvents + 1
  BY OnboardingAssumption, WorldTypes DEF IInv, WorldInv, Mains
<1>2. \A c \in {branch, clone.branch} :
        c.by \in {"nobody", "person", "renovate"} /\ c.onto \in 0..main.n
  BY WorldTypes DEF IInv, WorldInv, CloneInv, Commits
<1>3. {updates, disk, onboarded, name, known, agreed} \subseteq BOOLEAN
  BY DEF IInv, RunTypes
<1>4. phase \in {"create", "rebase", "checkout", "pr"} =>
        ~onboarded /\ list.known /\ clone.main.n # 0
  BY DEF IInv, CloneInv, ListInv
<1>5. DOMAIN list.prs \subseteq DOMAIN prs
  <2>1. DOMAIN list.prs = 1..Len(list.prs) /\ Len(list.prs) \in Nat
    BY PrListFacts DEF IInv, ListInv, IsPrList
  <2>. QED  BY <2>1, WorldTypes DEF IInv, ListInv
<1>6. Cardinality(OpenOf(prs)) <= 1
  <2>1. CASE OpenOf(prs) = {}
    BY <2>1, FS_EmptySet
  <2>2. CASE OpenOf(prs) # {}
    <3>1. PICK i : OpenOf(prs) = {i}
      BY <2>2 DEF IInv, WorldInv, AtMostOne
    <3>2. Cardinality({i}) = 1
      BY FS_Singleton
    <3>. QED  BY <3>1, <3>2
  <2>. QED  BY <2>1, <2>2
<1>. QED  BY <1>1, <1>2, <1>3, <1>4, <1>5, <1>6 DEF TypeOK, IInv, WorldInv, RunTypes, OpenOf

(* In every state everything has its type, a run that works on the         *)
(* onboarding PR has listed and cloned, and GitHub has at most one open PR *)
(* of the branch, which then exists.                                       *)
THEOREM TypeCorrect == Spec => []TypeOK
BY Invariant, Implied, PTL
----------------------------------------------------------------------------
(* What people decide stands *)

LEMMA AsksFirstStep == IInv /\ [Next]_vars => [updates' /\ ~updates => agreed]_vars
<1>. SUFFICES ASSUME IInv, [Next]_vars, updates', ~updates PROVE agreed
  OBVIOUS
<1>1. UpdateRepo
  BY DEF Next, vars, Work, BeginRun, CheckName, LookForConfig, CheckClosed, Reopen, Rebase, Kept,
         Push, Create, NothingToDo, Changed, Ends, CheckOut, EnsurePr, CreatePrFails, MergeConfig,
         ConfigGone, SaveCache, PruneUpdates, PruneOnboarding, DeleteBranch, MainMoves,
         EditBranch, OpenPr, ClosePr, WeekPasses, Killed, MergePr, RenamePr, Happens
<1>. QED  BY <1>1 DEF UpdateRepo, IInv, AgreeInv

LEMMA ClosedStaysStep ==
    IInv /\ [Next]_vars => [(OpenIn(prs') \ OpenIn(prs) # {}) => Decided = {}]_vars
<1>. SUFFICES ASSUME IInv, Next, OpenIn(prs') \ OpenIn(prs) # {} PROVE Decided = {}
  BY DEF vars, world
<1>1. ASSUME NEW qs, DOMAIN qs = DOMAIN prs,
             \A j \in DOMAIN prs : qs[j].own = prs[j].own /\ (qs[j].state = "open" => prs[j].state = "open")
      PROVE  OpenIn(qs) \ OpenIn(prs) = {}
  BY <1>1 DEF OpenIn, ListOf
<1>2. UNCHANGED prs => OpenIn(prs') \ OpenIn(prs) = {}
  OBVIOUS
<1>3. OpenIn(ClosedAll(prs)) \ OpenIn(prs) = {}
  BY <1>1, ClosedAllFacts DEF IInv, OpenOf
<1>4. CASE Work
  <2>1. ASSUME NEW i \in DOMAIN list.prs, Reopen(i)
        PROVE  Decided = {}
    BY <2>1 DEF Reopen, IInv, ListInv
  <2>2. CASE EnsurePr
    <3>1. phase = "pr" /\ OpenIn(list.prs) = {}
      BY <1>2, <2>2 DEF EnsurePr
    <3>. QED  BY <3>1 DEF IInv, ListInv
  <2>3. CASE DeleteBranch
    BY <1>3, <2>3 DEF DeleteBranch, Deleted
  <2>4. CASE PruneOnboarding
    <3>1. ASSUME known /\ ~IsModified /\ ~HasGone
          PROVE  FALSE
      <4>1. /\ DOMAIN prs' = DOMAIN prs
            /\ \A j \in DOMAIN prs :
                 prs'[j] = IF IsNewest(j, OpenIn(list.prs))
                           THEN [prs[j] EXCEPT
                                !.title = "autoclosed",
                                !.state = IF @ = "open" THEN "closed" ELSE @,
                                !.head = IF prs[j].state = "open" THEN branch ELSE @]
                           ELSE prs[j]
        BY <2>4, <3>1 DEF PruneOnboarding
      <4>2. \A j \in DOMAIN prs :
              prs'[j].own = prs[j].own /\ (prs'[j].state = "open" => prs[j].state = "open")
        BY <4>1, WorldTypes DEF IInv, Prs
      <4>. QED  BY <1>1, <4>1, <4>2
    <3>. QED  BY <1>2, <2>4, <3>1 DEF PruneOnboarding
  <2>5. CASE UNCHANGED prs
    BY <1>2, <2>5
  <2>. QED  BY <1>4, <2>1, <2>2, <2>3, <2>4, <2>5 DEF Work, BeginRun, CheckName, LookForConfig,
               CheckClosed, Rebase, Kept, Push, Create, NothingToDo, Changed, Ends, CheckOut,
               CreatePrFails, MergeConfig, ConfigGone, UpdateRepo, SaveCache, PruneUpdates, world
<1>5. CASE (\E conf \in BOOLEAN : MainMoves(conf)) \/ EditBranch \/ Killed
  BY <1>2, <1>5 DEF MainMoves, EditBranch, Killed
<1>6. CASE OpenPr
  <2>1. IsPrList(prs, main.n) /\ main.n \in Nat /\ FALSE \in BOOLEAN
    BY WorldTypes DEF IInv, WorldInv
  <2>2. prs' = Append(prs, Pr(FALSE)) /\ Pr(FALSE).own = FALSE
    BY <1>6 DEF OpenPr, Pr
  <2>3. /\ DOMAIN prs' = DOMAIN prs \cup {Len(prs) + 1}
        /\ \A i \in DOMAIN prs : prs'[i] = prs[i]
        /\ ~prs'[Len(prs) + 1].own
    BY <2>1, <2>2, PrListAppend
  <2>. QED  BY <2>3 DEF OpenIn, ListOf
<1>7. CASE ClosePr
  BY <1>3, <1>7 DEF ClosePr
<1>8. CASE WeekPasses
  <2>1. /\ DOMAIN prs' = DOMAIN prs
        /\ \A j \in DOMAIN prs : prs'[j] = [prs[j] EXCEPT !.old = prs[j].title = "autoclosed"]
    BY <1>8 DEF WeekPasses
  <2>2. \A j \in DOMAIN prs :
          prs'[j].own = prs[j].own /\ (prs'[j].state = "open" => prs[j].state = "open")
    BY <2>1, WorldTypes DEF IInv, Prs
  <2>. QED  BY <1>1, <2>1, <2>2
<1>9. ASSUME NEW i \in DOMAIN prs, MergePr(i) \/ RenamePr(i)
      PROVE  FALSE
  <2>. DEFINE pr == [prs[i] EXCEPT !.state = "merged"]
              qr == [prs[i] EXCEPT !.title = "renamed"]
  <2>1. prs' \in {[prs EXCEPT ![i] = pr], [prs EXCEPT ![i] = qr]}
    BY <1>9 DEF MergePr, RenamePr
  <2>2. /\ pr.own = prs[i].own /\ pr.state # "open"
        /\ qr.own = prs[i].own /\ qr.state = prs[i].state
    BY WorldTypes DEF IInv, Prs
  <2>. HIDE DEF pr, qr
  <2>3. DOMAIN prs' = DOMAIN prs /\ \A j \in DOMAIN prs : prs'[j] \in {prs[j], pr, qr}
                                                      /\ (j # i => prs'[j] = prs[j])
    BY <2>1
  <2>4. \A j \in DOMAIN prs :
          prs'[j].own = prs[j].own /\ (prs'[j].state = "open" => prs[j].state = "open")
    BY <2>2, <2>3
  <2>. QED  BY <1>1, <2>3, <2>4
<1>. QED  BY <1>4, <1>5, <1>6, <1>7, <1>8, <1>9 DEF Next

(* Nothing is updated before somebody agreed, and while a PR of Renovate's *)
(* is there that people closed or merged under its title, Renovate opens   *)
(* and reopens none: whatever the settings of the bot, and whoever merges, *)
(* closes, renames, edits or kills what between two steps of a run.        *)
THEOREM PeopleDecideAlways == Spec => PeopleDecide
<1>1. Spec => AsksFirst
  BY Invariant, AsksFirstStep, PTL DEF Spec, AsksFirst
<1>2. Spec => ClosedStays
  BY Invariant, ClosedStaysStep, PTL DEF Spec, ClosedStays
<1>. QED  BY <1>1, <1>2 DEF PeopleDecide

LEMMA SeenEditsStep ==
    IInv /\ [Next]_vars =>
      [(Work /\ branch.by = "person" /\ clone.branch = branch /\ branch' # branch) =>
          OpenIn(prs) = {}]_vars
<1>. SUFFICES ASSUME IInv, Work, branch.by = "person", clone.branch = branch, branch' # branch
              PROVE  OpenIn(prs) = {}
  OBVIOUS
<1>1. branch # NoBranch
  BY BranchTypes
<1>2. ASSUME NEW i \in DOMAIN list.prs, Reopen(i)
      PROVE  FALSE
  BY <1>1, <1>2 DEF Reopen
<1>3. CASE Rebase
  <2>1. phase = "rebase" /\ ~IsModified
    BY <1>3 DEF Rebase, Kept
  <2>. QED  BY <1>1, <2>1 DEF IsModified, IInv, SeenInv
<1>4. CASE phase = "create" /\ Create
  BY <1>4 DEF IInv, ListInv
<1>5. CASE EnsurePr
  <2>1. phase = "pr" /\ OpenIn(list.prs) = {}
    BY <1>5 DEF EnsurePr
  <2>. QED  BY <2>1 DEF IInv, ListInv
<1>6. CASE DeleteBranch
  BY <1>6 DEF DeleteBranch, IInv, SeenInv
<1>. QED  BY <1>2, <1>3, <1>4, <1>5, <1>6 DEF Work, BeginRun, CheckName, LookForConfig, CheckClosed,
             Create, NothingToDo, Changed, Ends, CheckOut, CreatePrFails, MergeConfig, ConfigGone,
             UpdateRepo, SaveCache, PruneUpdates, PruneOnboarding, world

(* A run that cloned what people pushed to the onboarding branch neither   *)
(* overwrites nor deletes it while its PR is open.                         *)
THEOREM SeenEditsKeptAlways == Spec => SeenEditsKept
BY Invariant, SeenEditsStep, PTL DEF Spec, SeenEditsKept
=============================================================================
