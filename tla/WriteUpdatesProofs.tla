------------------------- MODULE WriteUpdatesProofs -------------------------
(***************************************************************************)
(* Type correctness of WriteUpdates; that a process stays within its limit *)
(* of commits; that no run deletes a person's commit it has seen; that it  *)
(* opens and creates within the limits; and that what it merges contains   *)
(* what it merged before. For any number of branches and bases and any     *)
(* configuration of them; the last one for one base branch.                *)
(*                                                                         *)
(* IInv: the clone is younger than the list of branches (CloneInv): a      *)
(* branch that is still, or again, at the commit of the list was there     *)
(* when the run cloned. What the run remembers of an edit it learnt in the *)
(* pass over the branch (EditInv), and a branch it keeps to the end of     *)
(* that pass is nobody else's, or is overridden (PassInv).                 *)
(*                                                                         *)
(* LInv: what is left of a limit and what there is already, as far as the  *)
(* run knows, stay together within the limit; and a pull request that the  *)
(* run does not know of has another title than the branch's.               *)
(*                                                                         *)
(* MInv: until the loop stops, the clone is as new as Renovate's last      *)
(* merge (BaseInv), others only add to what a branch stands on (OntoInv),  *)
(* and the branch being processed, if it may be merged, stands on that     *)
(* merge (FollowInv).                                                      *)
(***************************************************************************)
EXTENDS WriteUpdates, FiniteSetTheorems, TLAPS

(* The inductive invariant *)

Heads == [Branches -> Head \cup {NoHead}]
Prs == [Branches -> Pr]
Lefts == [prs : Int, branches : Int, commits : Int]
IsUsers(h) == h # NoHead /\ h.by = "user"

TypeInv ==
    /\ base \in [Bases -> Nat] /\ originBase \in [Bases -> Nat] /\ merged \in [Bases -> Nat]
    /\ head \in Heads /\ snapshot \in Heads /\ origin \in Heads /\ saved \in Heads
    /\ made \in [Branches -> Nat] /\ rel \in [Branches -> Nat]
    /\ checks \in [Branches -> {"yellow", "green", "red"}]
    /\ prs \in Prs /\ prList \in Prs
    /\ proposed \subseteq Branches /\ list \subseteq Branches /\ todo \subseteq Branches
    /\ fresh \in Nat /\ committed \in Nat /\ attempt \in {1, 2}
    /\ phase \in {"idle", "extract", "limits", "write", "prune", "again"}
    /\ cloned \in BOOLEAN /\ current \in Bases
    /\ edited \in [Branches -> {"unset", "yes", "no"}]
    /\ left \in Lefts
    /\ work \in Work \cup {NoWork}

LoopInv ==
    /\ work # NoWork => phase = "write" /\ work.br \in list \ todo
    /\ phase = "write" => todo \subseteq list

\* a branch's commits are numbered: its next one is another than all before
NumberInv ==
    \A br \in Branches :
        /\ head[br] # NoHead => head[br].n <= made[br]
        /\ snapshot[br] # NoHead => snapshot[br].n <= made[br]
        /\ prs[br].head # NoHead => prs[br].head.n <= made[br]

\* the branch of an autoclosed pull request is gone until the request is reopened
AutoInv ==
    /\ \A br \in Branches : prs[br].state = "autoclosed" => head[br] = NoHead /\ snapshot[br] = NoHead
    /\ phase = "write" =>
          \A br \in Branches : prList[br].state = "autoclosed" <=> prs[br].state = "autoclosed"
    /\ work # NoWork => prList[work.br].state # "autoclosed"

CloneInv ==
    /\ phase \in {"idle", "again"} => ~cloned
    /\ cloned => \A br \in Branches :
                    head[br] # NoHead /\ head[br] = snapshot[br] => origin[br] = snapshot[br]

EditInv ==
    /\ phase \notin {"write", "prune"} => \A br \in Branches : edited[br] = "unset"
    /\ phase = "write" => \A br \in Branches : edited[br] # "unset" => br \in list \ todo
    /\ phase = "prune" => \A br \in Branches : edited[br] # "unset" => br \notin todo
    /\ work # NoWork /\ work.stage = "check" => edited[work.br] = "unset"

PassInv ==
    work # NoWork /\ work.stage \in {"automerge", "pr"} =>
        /\ cloned
        /\ \/ prList[work.br].head = snapshot[work.br]
           \/ ~IsUsers(origin[work.br]) \/ ~IsUsers(snapshot[work.br])

CommitInv ==
    CommitLimit # 0 => /\ committed <= CommitLimit
                       /\ phase # "idle" => committed + left.commits <= CommitLimit

IInv == TypeInv /\ LoopInv /\ NumberInv /\ AutoInv /\ CloneInv /\ EditInv /\ PassInv /\ CommitInv
----------------------------------------------------------------------------
(* What the actions are made of *)

LEMMA WorkFacts ==
    ASSUME IInv, work # NoWork
    PROVE  /\ work \in Work /\ work.br \in Branches /\ work.existed \in BOOLEAN
           /\ phase = "write" /\ work.br \in list /\ work.br \notin todo
           /\ prList[work.br].state # "autoclosed" /\ prs[work.br].state # "autoclosed"
<1>1. work \in Work /\ work.br \in Branches /\ work.existed \in BOOLEAN
  BY DEF IInv, TypeInv, Work
<1>. QED  BY <1>1 DEF IInv, LoopInv, AutoInv

LEMMA ValueFacts ==
    ASSUME IInv, NEW br \in Branches
    PROVE  /\ head[br] \in Head \cup {NoHead} /\ snapshot[br] \in Head \cup {NoHead}
           /\ prs[br] \in Pr /\ prList[br] \in Pr
           /\ prs[br].head \in Head \cup {NoHead} /\ rel[br] \in Nat /\ made[br] \in Nat
<1>1. /\ head[br] \in Head \cup {NoHead} /\ snapshot[br] \in Head \cup {NoHead}
      /\ prs[br] \in Pr /\ prList[br] \in Pr /\ rel[br] \in Nat /\ made[br] \in Nat
  BY DEF IInv, TypeInv, Heads, Prs
<1>2. prs[br].head \in Head \cup {NoHead}
  BY <1>1 DEF Pr
<1>. QED  BY <1>1, <1>2

LEMMA FetchedFacts ==
    ASSUME IInv
    PROVE  /\ Fetched \in Heads /\ FetchedBase \in [Bases -> Nat]
           /\ cloned => Fetched = origin
           /\ \A br \in Branches :
                 head[br] # NoHead /\ head[br] = snapshot[br] => Fetched[br] = snapshot[br]
BY DEF IInv, TypeInv, CloneInv, Fetched, FetchedBase

LEMMA CountFacts ==
    ASSUME NEW l \in Lefts, work \in Work, NEW heads
    PROVE  CountBranch(l, heads) \in Lefts /\ CountBranch(l, heads).commits = l.commits
BY DEF CountBranch, Lefts, Work

States == {"none", "open", "closed", "merged", "autoclosed"}

LEMMA PrTurned ==
    ASSUME NEW pr \in Pr, NEW state \in States
    PROVE  /\ [pr EXCEPT !.state = state] \in Pr
           /\ [pr EXCEPT !.state = state].head = pr.head
           /\ [pr EXCEPT !.state = state].state = state
BY DEF Pr, States

LEMMA PrTitled ==
    ASSUME NEW pr \in Pr, NEW r \in Nat
    PROVE  /\ [pr EXCEPT !.rel = r] \in Pr
           /\ [pr EXCEPT !.rel = r].head = pr.head
           /\ [pr EXCEPT !.rel = r].state = pr.state
BY DEF Pr

LEMMA NullFacts ==
    /\ NoPr \in Pr /\ NoPr.state = "none" /\ NoPr.head = NoHead
    /\ NoHeads \in Heads /\ NoPrs \in Prs /\ NoWork \notin Work
    /\ [b \in Bases |-> 0] \in [Bases -> Nat] /\ DefaultBase \in Bases
    /\ \A br \in Branches : NoHeads[br] = NoHead /\ NoPrs[br].state = "none" /\ NoPrs[br].head = NoHead
BY NullsAssumption, ConstantsAssumption DEF NoPr, Pr, NoHeads, Heads, NoPrs, Prs

\* the run ends, or an attempt does
LEMMA OverFacts ==
    ASSUME IInv, AttemptOver, made' = made, phase' \in {"idle", "again"},
           \A br \in Branches : /\ head'[br] \in {head[br], NoHead}
                                /\ prs'[br].head \in {prs[br].head, head[br]}
                                /\ prs'[br].state = "autoclosed" => prs[br].state = "autoclosed"
    PROVE  /\ snapshot' \in Heads /\ origin' \in Heads /\ originBase' \in [Bases -> Nat]
           /\ cloned' = FALSE /\ current' \in Bases /\ prList' \in Prs /\ work' = NoWork
           /\ list' = {} /\ todo' = {} /\ edited' = [br \in Branches |-> "unset"]
           /\ LoopInv' /\ NumberInv' /\ AutoInv' /\ CloneInv' /\ EditInv' /\ PassInv'
<1>1. /\ snapshot' = NoHeads /\ origin' = NoHeads /\ originBase' = [b \in Bases |-> 0]
      /\ cloned' = FALSE /\ current' = DefaultBase /\ prList' = NoPrs /\ work' = NoWork
      /\ list' = {} /\ todo' = {} /\ edited' = [br \in Branches |-> "unset"]
  BY DEF AttemptOver
<1>2. NumberInv'
  BY <1>1, NullFacts DEF IInv, NumberInv
<1>3. AutoInv'
  BY <1>1, NullFacts DEF IInv, AutoInv
<1>4. LoopInv' /\ CloneInv' /\ EditInv' /\ PassInv'
  BY <1>1 DEF LoopInv, CloneInv, EditInv, PassInv
<1>. QED  BY <1>1, <1>2, <1>3, <1>4, NullFacts

----------------------------------------------------------------------------
(* The world *)

LEMMA QuietIInv ==
    ASSUME IInv, TypeInv', UNCHANGED <<head, made, prs, runVars, committed>>
    PROVE  IInv'
<1>1. UNCHANGED <<phase, attempt, snapshot, cloned, origin, originBase, current, edited, prList,
                  left, list, todo, work>>
  BY DEF runVars, gitVars
<1>2. LoopInv' /\ NumberInv' /\ AutoInv'
  BY <1>1 DEF IInv, LoopInv, NumberInv, AutoInv
<1>3. CloneInv' /\ EditInv' /\ PassInv' /\ CommitInv'
  BY <1>1 DEF IInv, CloneInv, EditInv, PassInv, CommitInv
<1>. QED  BY <1>2, <1>3 DEF IInv

LEMMA UserPushIInv == ASSUME NEW br \in Branches PROVE IInv /\ UserPush(br) => IInv'
<1>. SUFFICES ASSUME IInv, UserPush(br) PROVE IInv'
  OBVIOUS
<1>. DEFINE h == [head[br] EXCEPT !.n = made[br] + 1, !.by = "user"]
<1>1. /\ head[br] # NoHead /\ made' = [made EXCEPT ![br] = made[br] + 1]
      /\ head' = [head EXCEPT ![br] = [head[br] EXCEPT !.n = made'[br], !.by = "user"]]
      /\ checks' = [checks EXCEPT ![br] = "yellow"]
      /\ UNCHANGED <<base, prs, rel, proposed, fresh, runVars, keptVars>>
  BY DEF UserPush
<1>2. made[br] \in Nat /\ made'[br] = made[br] + 1 /\ made' \in [Branches -> Nat]
      /\ \A b \in Branches : made[b] <= made'[b]
  BY <1>1 DEF IInv, TypeInv
<1>3. h \in Head /\ h.n = made[br] + 1
  <2>1. head[br] \in Head /\ made[br] + 1 \in Nat
    BY <1>1, <1>2, ValueFacts
  <2>. QED  BY <2>1 DEF Head
<1>4. head' = [head EXCEPT ![br] = h]
  BY <1>1, <1>2
<1>. HIDE DEF h
<1>5. /\ head' \in Heads /\ head'[br] = h
      /\ \A b \in Branches : b # br => head'[b] = head[b]
  BY <1>3, <1>4 DEF IInv, TypeInv, Heads
<1>6. UNCHANGED <<phase, attempt, snapshot, cloned, origin, originBase, current, edited, prList,
                  left, list, todo, work, saved, merged, committed>>
  BY <1>1 DEF runVars, gitVars, keptVars
<1>7. TypeInv'
  <2>1. checks' \in [Branches -> {"yellow", "green", "red"}]
    BY <1>1 DEF IInv, TypeInv
  <2>. QED  BY <1>1, <1>2, <1>5, <1>6, <2>1 DEF IInv, TypeInv
<1>8. \A b \in Branches : /\ snapshot[b] # NoHead => snapshot[b].n \in Nat
                          /\ head[b] # NoHead => head[b].n \in Nat
                          /\ prs[b].head # NoHead => prs[b].head.n \in Nat
  <2>1. \A x \in Head : x.n \in Nat
    BY DEF Head
  <2>. QED  BY <2>1, ValueFacts
<1>9. NumberInv'
  <2>. SUFFICES ASSUME NEW b \in Branches
                PROVE  /\ head'[b] # NoHead => head'[b].n <= made'[b]
                       /\ snapshot[b] # NoHead => snapshot[b].n <= made'[b]
                       /\ prs[b].head # NoHead => prs[b].head.n <= made'[b]
    BY <1>1, <1>6 DEF NumberInv
  <2>1. made[b] \in Nat /\ made'[b] \in Nat /\ made[b] <= made'[b]
    BY <1>2 DEF IInv, TypeInv
  <2>2. head'[b] # NoHead => head'[b].n <= made'[b]
    <3>1. CASE b = br
      BY <1>2, <1>3, <1>5, <3>1
    <3>2. CASE b # br
      BY <1>5, <1>8, <2>1, <3>2 DEF IInv, NumberInv
    <3>. QED  BY <3>1, <3>2
  <2>. QED  BY <1>8, <2>1, <2>2 DEF IInv, NumberInv
<1>10. AutoInv'
  <2>1. prs[br].state # "autoclosed"
    BY <1>1 DEF IInv, AutoInv
  <2>. QED  BY <1>1, <1>5, <1>6, <2>1 DEF IInv, AutoInv
<1>11. CloneInv'
  <2>1. head'[br] # snapshot[br]
    <3>1. snapshot[br] = NoHead \/ snapshot[br].n <= made[br]
      BY DEF IInv, NumberInv
    <3>2. head'[br] # NoHead /\ head'[br].n = made[br] + 1
      BY <1>3, <1>5, NullsAssumption
    <3>. QED  BY <1>2, <1>8, <3>1, <3>2
  <2>. QED  BY <1>5, <1>6, <2>1 DEF IInv, CloneInv
<1>12. LoopInv' /\ EditInv' /\ PassInv' /\ CommitInv'
  BY <1>6 DEF IInv, LoopInv, EditInv, PassInv, CommitInv
<1>. QED  BY <1>7, <1>9, <1>10, <1>11, <1>12 DEF IInv

\* a person closes or merges a pull request, and may delete its branch
LEMMA EndedIInv ==
    ASSUME IInv, NEW br \in Branches, NEW state \in {"closed", "merged"}, prs[br].state = "open",
           prs' = [prs EXCEPT ![br] = [prs[br] EXCEPT !.state = state, !.head = head[br]]],
           head' = head \/ head' = [head EXCEPT ![br] = NoHead],
           base' \in [Bases -> Nat], proposed' \subseteq Branches,
           UNCHANGED <<made, checks, rel, fresh, runVars, keptVars>>
    PROVE  IInv'
<1>. DEFINE pr == [prs[br] EXCEPT !.state = state, !.head = head[br]]
<1>1. pr \in Pr /\ pr.state = state /\ pr.head = head[br]
  <2>1. prs[br] \in Pr /\ head[br] \in Head \cup {NoHead}
    BY ValueFacts
  <2>. QED  BY <2>1 DEF Pr
<1>0. prs' = [prs EXCEPT ![br] = pr]
  OBVIOUS
<1>. HIDE DEF pr
<1>2. prs' \in Prs /\ prs'[br] = pr /\ \A b \in Branches : b # br => prs'[b] = prs[b]
  BY <1>0, <1>1 DEF IInv, TypeInv, Prs
<1>3. head' \in Heads /\ \A b \in Branches : head'[b] = head[b] \/ head'[b] = NoHead
  BY DEF IInv, TypeInv, Heads
<1>4. UNCHANGED <<phase, attempt, snapshot, cloned, origin, originBase, current, edited, prList,
                  left, list, todo, work, saved, merged, committed>>
  BY DEF runVars, gitVars, keptVars
<1>5. TypeInv'
  BY <1>2, <1>3, <1>4 DEF IInv, TypeInv
<1>6. NumberInv'
  BY <1>1, <1>2, <1>3, <1>4 DEF IInv, NumberInv
<1>7. AutoInv'
  BY <1>1, <1>2, <1>3, <1>4 DEF IInv, AutoInv
<1>8. CloneInv'
  BY <1>3, <1>4 DEF IInv, CloneInv
<1>9. LoopInv' /\ EditInv' /\ PassInv' /\ CommitInv'
  BY <1>4 DEF IInv, LoopInv, EditInv, PassInv, CommitInv
<1>. QED  BY <1>5, <1>6, <1>7, <1>8, <1>9 DEF IInv

LEMMA WorldIInv == IInv /\ World => IInv'
<1>. SUFFICES ASSUME IInv, World PROVE IInv'
  OBVIOUS
<1>1. ASSUME NEW b \in Bases, BaseMoves(b) PROVE IInv'
  <2>1. base' \in [Bases -> Nat]
    BY <1>1 DEF BaseMoves, IInv, TypeInv
  <2>2. TypeInv'
    BY <1>1, <2>1 DEF BaseMoves, IInv, TypeInv, runVars, gitVars, keptVars
  <2>. QED  BY <1>1, <2>2, QuietIInv DEF BaseMoves, keptVars
<1>2. ASSUME NEW br \in Branches, NEW result \in CheckResults, ChecksEnd(br, result) PROVE IInv'
  <2>1. checks' \in [Branches -> {"yellow", "green", "red"}]
    BY <1>2, ConstantsAssumption DEF ChecksEnd, IInv, TypeInv
  <2>2. TypeInv'
    BY <1>2, <2>1 DEF ChecksEnd, IInv, TypeInv, runVars, gitVars, keptVars
  <2>. QED  BY <1>2, <2>2, QuietIInv DEF ChecksEnd, keptVars
<1>3. ASSUME NEW br \in Branches, UserCloses(br) PROVE IInv'
  <2>1. base' = base /\ proposed' = proposed
    BY <1>3 DEF UserCloses
  <2>2. base' \in [Bases -> Nat] /\ proposed' \subseteq Branches
    BY <2>1 DEF IInv, TypeInv
  <2>. QED  BY <1>3, <2>2, EndedIInv DEF UserCloses
<1>4. ASSUME NEW br \in Branches, NEW delete \in BOOLEAN, UserMerges(br, delete) PROVE IInv'
  <2>1. base' = [base EXCEPT ![BaseOf[br]] = base[BaseOf[br]] + 1] /\ proposed' = proposed \ {br}
    BY <1>4 DEF UserMerges
  <2>2. base' \in [Bases -> Nat] /\ proposed' \subseteq Branches
    BY <2>1, ConstantsAssumption DEF IInv, TypeInv
  <2>3. /\ prs[br].state = "open"
        /\ prs' = [prs EXCEPT ![br] = [prs[br] EXCEPT !.state = "merged", !.head = head[br]]]
        /\ head' = head \/ head' = [head EXCEPT ![br] = NoHead]
        /\ UNCHANGED <<made, checks, rel, fresh, runVars, keptVars>>
    BY <1>4 DEF UserMerges
  <2>. QED  BY <2>2, <2>3, EndedIInv
<1>5. ASSUME NEW br \in Branches, Withdraw(br) \/ Return(br) \/ Release(br) PROVE IInv'
  <2>1. /\ proposed' \subseteq Branches /\ rel' \in [Branches -> Nat]
        /\ UNCHANGED <<remoteVars, fresh, runVars, keptVars>>
    BY <1>5 DEF Withdraw, Return, Release, IInv, TypeInv
  <2>2. TypeInv'
    BY <2>1 DEF IInv, TypeInv, remoteVars, runVars, gitVars, keptVars
  <2>. QED  BY <2>1, <2>2, QuietIInv DEF remoteVars, keptVars
<1>6. CASE HourPasses
  <2>1. fresh' \in Nat /\ UNCHANGED <<remoteVars, rel, proposed, runVars, keptVars>>
    BY <1>6 DEF HourPasses
  <2>2. TypeInv'
    BY <2>1 DEF IInv, TypeInv, remoteVars, runVars, gitVars, keptVars
  <2>. QED  BY <2>1, <2>2, QuietIInv DEF remoteVars, keptVars
<1>. QED  BY <1>1, <1>2, <1>3, <1>4, <1>5, <1>6, UserPushIInv DEF World
----------------------------------------------------------------------------
(* The start and the end of a run *)

LEMMA InitIInv == Init => IInv
<1>. SUFFICES ASSUME Init PROVE IInv
  OBVIOUS
<1>1. /\ base = [b \in Bases |-> 0] /\ head = NoHeads /\ made = [br \in Branches |-> 0]
      /\ checks = [br \in Branches |-> "yellow"] /\ prs = NoPrs /\ rel = [br \in Branches |-> 1]
      /\ proposed = Branches /\ fresh = 0 /\ phase = "idle" /\ attempt = 1
      /\ snapshot = NoHeads /\ cloned = FALSE /\ origin = NoHeads
      /\ originBase = [b \in Bases |-> 0] /\ current = DefaultBase
      /\ edited = [br \in Branches |-> "unset"]
      /\ prList = NoPrs /\ list = {} /\ todo = {} /\ work = NoWork
      /\ left = [prs |-> 0, branches |-> 0, commits |-> 0]
      /\ saved = NoHeads /\ merged = [b \in Bases |-> 0] /\ committed = 0
  BY DEF Init
<1>2. TypeInv
  <2>1. left \in Lefts
    BY <1>1 DEF Lefts
  <2>2. checks \in [Branches -> {"yellow", "green", "red"}] /\ rel \in [Branches -> Nat]
    BY <1>1
  <2>. QED  BY <1>1, <2>1, <2>2, NullFacts DEF TypeInv
<1>3. LoopInv /\ NumberInv /\ AutoInv
  BY <1>1, NullFacts DEF LoopInv, NumberInv, AutoInv
<1>4. CloneInv /\ EditInv /\ PassInv /\ CommitInv
  BY <1>1, NullFacts, ConstantsAssumption DEF CloneInv, EditInv, PassInv, CommitInv
<1>. QED  BY <1>2, <1>3, <1>4 DEF IInv

LEMMA AbortIInv == IInv /\ RunOver /\ UNCHANGED <<worldVars, saved, merged>> => IInv'
<1>. SUFFICES ASSUME IInv, RunOver, UNCHANGED <<worldVars, saved, merged>> PROVE IInv'
  OBVIOUS
<1>1. /\ phase' = "idle" /\ attempt' = 1 /\ committed' = 0 /\ AttemptOver
      /\ left' = [prs |-> 0, branches |-> 0, commits |-> 0]
      /\ UNCHANGED <<base, head, made, checks, prs, rel, proposed, fresh, saved, merged>>
  BY DEF RunOver, worldVars, remoteVars
<1>2. /\ snapshot' \in Heads /\ origin' \in Heads /\ originBase' \in [Bases -> Nat]
      /\ cloned' = FALSE /\ current' \in Bases /\ prList' \in Prs /\ work' = NoWork
      /\ list' = {} /\ todo' = {} /\ edited' = [br \in Branches |-> "unset"]
      /\ LoopInv' /\ NumberInv' /\ AutoInv' /\ CloneInv' /\ EditInv' /\ PassInv'
  BY <1>1, OverFacts
<1>3. TypeInv'
  <2>1. left' \in Lefts
    BY <1>1 DEF Lefts
  <2>2. edited' \in [Branches -> {"unset", "yes", "no"}]
    BY <1>2
  <2>. QED  BY <1>1, <1>2, <2>1, <2>2 DEF IInv, TypeInv
<1>4. CommitInv'
  BY <1>1, ConstantsAssumption DEF CommitInv
<1>. QED  BY <1>2, <1>3, <1>4 DEF IInv

LEMMA InitRepoIInv == IInv /\ InitRepo => IInv'
<1>. SUFFICES ASSUME IInv, InitRepo PROVE IInv'
  OBVIOUS
<1>1. /\ phase \in {"idle", "again"} /\ attempt' \in {1, 2} /\ phase' = "extract" /\ snapshot' = head
      /\ \/ phase = "again" /\ left' = left /\ committed' = committed
         \/ /\ phase = "idle" /\ committed' = 0
            /\ left' = [left EXCEPT !.commits = IF CommitLimit = 0 THEN NoLimit ELSE CommitLimit]
      /\ UNCHANGED <<base, head, made, checks, prs, rel, proposed, fresh, cloned, origin, originBase,
                     current, edited, prList, list, todo, work, saved, merged>>
  BY DEF InitRepo, worldVars, remoteVars
<1>2. work = NoWork /\ cloned = FALSE /\ \A br \in Branches : edited[br] = "unset"
  BY <1>1 DEF IInv, LoopInv, CloneInv, EditInv, TypeInv
<1>3. left' \in Lefts /\ committed' \in Nat
  BY <1>1, ConstantsAssumption DEF NoLimit, IInv, TypeInv, Lefts
<1>4. TypeInv'
  BY <1>1, <1>3 DEF IInv, TypeInv
<1>5. LoopInv' /\ NumberInv' /\ AutoInv'
  BY <1>1, <1>2 DEF IInv, LoopInv, NumberInv, AutoInv
<1>6. CloneInv' /\ EditInv' /\ PassInv'
  BY <1>1, <1>2 DEF CloneInv, EditInv, PassInv
<1>7. CommitInv'
  <2>1. CASE phase = "again"
    BY <1>1, <2>1 DEF IInv, CommitInv
  <2>2. CASE phase = "idle" /\ CommitLimit # 0
    <3>1. left'.commits = CommitLimit /\ committed' = 0
      BY <1>1, <2>2 DEF IInv, TypeInv, Lefts
    <3>. QED  BY <3>1, ConstantsAssumption DEF CommitInv
  <2>. QED  BY <1>1, <2>1, <2>2 DEF CommitInv
<1>. QED  BY <1>4, <1>5, <1>6, <1>7 DEF IInv

\* the clone is made: it is younger than the list of branches
LEMMA SyncFacts ==
    ASSUME IInv, SyncGit, UNCHANGED <<head, snapshot>>
    PROVE  /\ cloned' = TRUE /\ origin' = Fetched /\ origin' \in Heads
           /\ originBase' \in [Bases -> Nat]
           /\ phase' \notin {"idle", "again"} => CloneInv'
<1>1. /\ cloned' = TRUE /\ origin' = Fetched /\ origin' \in Heads
      /\ originBase' \in [Bases -> Nat]
  BY FetchedFacts DEF SyncGit
<1>. QED  BY <1>1, FetchedFacts DEF CloneInv

\* git is asked, or it is not
LEMMA AskFacts ==
    ASSUME IInv, SyncGit \/ UNCHANGED <<cloned, origin, originBase>>, UNCHANGED <<head, snapshot>>,
           phase' \notin {"idle", "again"}
    PROVE  /\ cloned' \in BOOLEAN /\ origin' \in Heads
           /\ originBase' \in [Bases -> Nat] /\ CloneInv'
<1>1. CASE SyncGit
  BY <1>1, SyncFacts
<1>2. CASE UNCHANGED <<cloned, origin, originBase>>
  BY <1>2 DEF IInv, TypeInv, CloneInv
<1>. QED  BY <1>1, <1>2

LEMMA ExtractIInv == IInv /\ Extract => IInv'
<1>. SUFFICES ASSUME IInv, Extract PROVE IInv'
  OBVIOUS
<1>1. /\ phase = "extract" /\ phase' = "limits" /\ list' = proposed
      /\ UNCHANGED <<base, head, made, checks, prs, rel, proposed, fresh, attempt, snapshot, edited,
                     prList, left, todo, work, saved, merged, committed>>
  BY DEF Extract, worldVars, remoteVars, keptVars
<1>2. /\ cloned' \in BOOLEAN /\ origin' \in Heads /\ originBase' \in [Bases -> Nat]
      /\ current' \in Bases /\ CloneInv'
  <2>1. CASE UNCHANGED <<cloned, origin, originBase, current>>
    BY <1>1, <2>1 DEF IInv, TypeInv, CloneInv
  <2>2. CASE SyncGit /\ current' \in Bases
    BY <1>1, <2>2, SyncFacts
  <2>. QED  BY <2>1, <2>2 DEF Extract
<1>3. work = NoWork
  BY <1>1 DEF IInv, LoopInv
<1>4. TypeInv'
  BY <1>1, <1>2 DEF IInv, TypeInv
<1>5. LoopInv' /\ NumberInv' /\ AutoInv'
  BY <1>1, <1>3 DEF IInv, LoopInv, NumberInv, AutoInv
<1>6. EditInv' /\ PassInv' /\ CommitInv'
  BY <1>1, <1>3 DEF IInv, EditInv, PassInv, CommitInv
<1>. QED  BY <1>2, <1>4, <1>5, <1>6 DEF IInv

LEMMA EndWriteIInv == ASSUME NEW lost \in SUBSET list PROVE IInv /\ EndWrite(lost) => IInv'
<1>. SUFFICES ASSUME IInv, EndWrite(lost) PROVE IInv'
  OBVIOUS
<1>1. /\ phase = "write" /\ work = NoWork /\ todo = {}
      /\ phase' = "prune" /\ todo' = {br \in Branches : Exists(br)} \ list
      /\ SyncGit \/ UNCHANGED <<cloned, origin, originBase>>
      /\ UNCHANGED <<base, head, made, checks, prs, rel, proposed, fresh, attempt, snapshot,
                     current, edited, prList, left, list, work, merged, committed>>
  BY DEF EndWrite, worldVars, remoteVars
<1>2. saved' \in Heads
  BY DEF EndWrite, IInv, TypeInv, Heads
<1>3. /\ cloned' \in BOOLEAN /\ origin' \in Heads /\ originBase' \in [Bases -> Nat] /\ CloneInv'
  BY <1>1, AskFacts
<1>4. TypeInv'
  BY <1>1, <1>2, <1>3 DEF IInv, TypeInv
<1>5. LoopInv' /\ NumberInv' /\ AutoInv'
  BY <1>1 DEF IInv, LoopInv, NumberInv, AutoInv
<1>6. EditInv' /\ PassInv' /\ CommitInv'
  BY <1>1 DEF IInv, EditInv, PassInv, CommitInv
<1>. QED  BY <1>3, <1>4, <1>5, <1>6 DEF IInv
----------------------------------------------------------------------------
(* Pull requests are reopened *)

LEMMA ReopenFacts ==
    ASSUME IInv, NEW known \in Prs, NEW S \in SUBSET Branches, ReopenPrs(known, S),
           \A br \in Branches : known[br].state = "autoclosed" => prs[br].state = "autoclosed"
    PROVE  /\ head' \in Heads /\ prs' \in Prs /\ prList' \in Prs
           /\ \A br \in Branches :
                 \/ /\ ~(br \in S /\ known[br].state = "autoclosed")
                    /\ head'[br] = head[br] /\ prs'[br] = prs[br] /\ prList'[br] = known[br]
                 \/ /\ br \in S /\ prs[br].state = "autoclosed" /\ known[br].state = "autoclosed"
                    /\ prs'[br].state = "open" /\ prs'[br].head = prs[br].head
                    /\ prList'[br] = prs'[br] /\ head'[br] = prs[br].head
                    /\ head[br] = NoHead /\ snapshot[br] = NoHead
<1>. DEFINE again == {br \in S : Reopened(known, br)}
<1>1. /\ head' = [br \in Branches |-> IF br \in again THEN prs[br].head ELSE head[br]]
      /\ prs' = [br \in Branches |->
                    IF br \in again THEN [prs[br] EXCEPT !.state = "open"] ELSE prs[br]]
      /\ prList' = [br \in Branches |-> IF br \in again THEN prs'[br] ELSE known[br]]
  BY DEF ReopenPrs
<1>2. \A br \in Branches : br \in again <=> br \in S /\ known[br].state = "autoclosed"
  BY DEF Reopened, IInv, AutoInv
<1>. HIDE DEF again
<1>3. ASSUME NEW br \in Branches
      PROVE  /\ [prs[br] EXCEPT !.state = "open"] \in Pr
             /\ [prs[br] EXCEPT !.state = "open"].head = prs[br].head
             /\ [prs[br] EXCEPT !.state = "open"].state = "open"
  BY ValueFacts, PrTurned DEF States
<1>4. head' \in Heads
  BY <1>1, ValueFacts DEF Heads
<1>5. prs' \in Prs
  BY <1>1, <1>3, ValueFacts DEF Prs
<1>6. prList' \in Prs
  BY <1>1, <1>5 DEF Prs
<1>7. ASSUME NEW br \in Branches, br \in again
      PROVE  /\ br \in S /\ prs[br].state = "autoclosed" /\ known[br].state = "autoclosed"
             /\ prs'[br].state = "open" /\ prs'[br].head = prs[br].head
             /\ prList'[br] = prs'[br] /\ head'[br] = prs[br].head
             /\ head[br] = NoHead /\ snapshot[br] = NoHead
  <2>1. prs[br].state = "autoclosed" /\ known[br].state = "autoclosed" /\ br \in S
    BY <1>2, <1>7
  <2>2. head[br] = NoHead /\ snapshot[br] = NoHead
    BY <2>1 DEF IInv, AutoInv
  <2>. QED  BY <1>1, <1>3, <1>7, <2>1, <2>2
<1>8. ASSUME NEW br \in Branches, br \notin again
      PROVE  /\ ~(br \in S /\ known[br].state = "autoclosed")
             /\ head'[br] = head[br] /\ prs'[br] = prs[br] /\ prList'[br] = known[br]
  BY <1>1, <1>2, <1>8
<1>. QED  BY <1>4, <1>5, <1>6, <1>7, <1>8

\* what holds whatever is reopened
LEMMA ReopenIInv ==
    ASSUME IInv, NEW known \in Prs, NEW S \in SUBSET Branches, ReopenPrs(known, S),
           \A br \in Branches : known[br].state = "autoclosed" => prs[br].state = "autoclosed",
           UNCHANGED <<made, snapshot, cloned, origin>>, phase' \notin {"idle", "again"}
    PROVE  /\ NumberInv' /\ CloneInv'
           /\ \A br \in Branches : prs'[br].state = "autoclosed" => head'[br] = NoHead /\ snapshot'[br] = NoHead
<1>1. \A br \in Branches :
         \/ head'[br] = head[br] /\ prs'[br] = prs[br]
         \/ /\ prs'[br].state = "open" /\ prs'[br].head = prs[br].head
            /\ head'[br] = prs[br].head /\ snapshot[br] = NoHead
  BY ReopenFacts
<1>2. NumberInv'
  BY <1>1 DEF IInv, NumberInv
<1>3. CloneInv'
  BY <1>1 DEF IInv, CloneInv
<1>. QED  BY <1>1, <1>2, <1>3 DEF IInv, AutoInv

LEMMA LimitFacts ==
    /\ \A m, c \in Nat : Remaining(m, c) \in Nat
    /\ \A a, b \in Int : MinOf(a, b) \in Int
BY DEF Remaining, MinOf

LEMMA SetLimitsIInv == IInv /\ SetLimits => IInv'
<1>. SUFFICES ASSUME IInv, SetLimits PROVE IInv'
  OBVIOUS
<1>. DEFINE S == IF PrLimit = 0 THEN {} ELSE list
            a == MinOf(PrHourlyRemaining, ConcurrentPrsRemaining(prList'))
            b == MinOf(PrHourlyRemaining, ConcurrentBranchesRemaining)
<1>1. /\ phase = "limits" /\ phase' = "write" /\ todo' = list /\ ReopenPrs(prs, S)
      /\ left' = [left EXCEPT !.prs = a, !.branches = b]
      /\ UNCHANGED <<base, made, checks, rel, proposed, fresh, attempt, snapshot, cloned, origin,
                     originBase, current, edited, list, work, saved, merged, committed>>
  BY DEF SetLimits, gitVars, keptVars
<1>2. S \in SUBSET Branches /\ prs \in Prs /\ work = NoWork
  BY <1>1 DEF IInv, TypeInv, LoopInv
<1>3. a \in Int /\ b \in Int
  <2>1. IsFiniteSet(list)
    BY ConstantsAssumption, FS_Subset DEF IInv, TypeInv
  <2>2. PrHourlyRemaining \in Nat
    BY LimitFacts, ConstantsAssumption DEF PrHourlyRemaining, NoLimit, IInv, TypeInv
  <2>3. ConcurrentPrsRemaining(prList') \in Nat
    <3>1. Cardinality({br \in list : Open(prList', br)}) \in Nat
      BY <2>1, FS_Subset, FS_CardinalityType
    <3>. QED  BY <3>1, LimitFacts, ConstantsAssumption DEF ConcurrentPrsRemaining, NoLimit
  <2>4. ConcurrentBranchesRemaining \in Nat
    <3>. DEFINE n == Cardinality({br \in list : Exists(br)})
    <3>1. n \in Nat
      BY <2>1, FS_Subset, FS_CardinalityType
    <3>2. ConcurrentBranchesRemaining = IF BranchLimit = 0 THEN NoLimit ELSE Remaining(BranchLimit, n)
      BY Zenon DEF ConcurrentBranchesRemaining
    <3>. HIDE DEF n
    <3>. QED  BY <3>1, <3>2, LimitFacts, ConstantsAssumption DEF NoLimit
  <2>5. \A x, y \in Nat : MinOf(x, y) \in Int
    BY LimitFacts
  <2>6. a \in Int
    BY <2>2, <2>3, <2>5
  <2>7. b \in Int
    BY <2>2, <2>4, <2>5
  <2>. QED  BY <2>6, <2>7
<1>. HIDE DEF S, a, b
<1>4. left' \in Lefts /\ left'.commits = left.commits
  BY <1>1, <1>3 DEF IInv, TypeInv, Lefts
<1>5. /\ head' \in Heads /\ prs' \in Prs /\ prList' \in Prs
      /\ \A br \in Branches : prList'[br] = prs'[br]
  BY <1>1, <1>2, ReopenFacts
<1>6. /\ NumberInv' /\ CloneInv'
      /\ \A br \in Branches : prs'[br].state = "autoclosed" => head'[br] = NoHead /\ snapshot'[br] = NoHead
  BY <1>1, <1>2, ReopenIInv
<1>7. TypeInv'
  BY <1>1, <1>4, <1>5 DEF IInv, TypeInv
<1>8. LoopInv' /\ AutoInv' /\ PassInv'
  BY <1>1, <1>2, <1>5, <1>6 DEF LoopInv, AutoInv, PassInv
<1>9. EditInv' /\ CommitInv'
  BY <1>1, <1>2, <1>4 DEF IInv, EditInv, CommitInv
<1>. QED  BY <1>6, <1>7, <1>8, <1>9 DEF IInv
----------------------------------------------------------------------------
(* processBranch *)

LEMMA StartBranchIInv == ASSUME NEW br \in Branches PROVE IInv /\ StartBranch(br) => IInv'
<1>. SUFFICES ASSUME IInv, StartBranch(br) PROVE IInv'
  OBVIOUS
<1>1. /\ phase = "write" /\ work = NoWork /\ br \in todo /\ todo' = todo \ {br}
      /\ ReopenPrs(prList, {br})
      /\ work' = [br |-> br, stage |-> "check", existed |-> Exists(br), forcePr |-> FALSE]
      /\ UNCHANGED <<base, made, checks, rel, proposed, fresh, phase, attempt, snapshot, cloned,
                     origin, originBase, current, edited, left, list, saved, merged, committed>>
  BY DEF StartBranch, gitVars, keptVars
<1>2. /\ prList \in Prs /\ {br} \in SUBSET Branches
      /\ \A b \in Branches : prList[b].state = "autoclosed" => prs[b].state = "autoclosed"
  BY <1>1 DEF IInv, TypeInv, AutoInv
<1>3. Exists(br) \in BOOLEAN
  BY DEF Exists
<1>4. work' \in Work /\ work'.br = br /\ work'.stage = "check"
  BY <1>1, <1>3 DEF Work
<1>5. head' \in Heads /\ prs' \in Prs /\ prList' \in Prs
  BY <1>2, <1>1, ReopenFacts
<1>6. ASSUME NEW b \in Branches
      PROVE  /\ prList'[b].state = "autoclosed" <=> prs'[b].state = "autoclosed"
             /\ b = br => prList'[b].state # "autoclosed"
  <2>1. \/ /\ ~(b \in {br} /\ prList[b].state = "autoclosed")
           /\ prs'[b] = prs[b] /\ prList'[b] = prList[b]
        \/ prs'[b].state = "open" /\ prList'[b] = prs'[b]
    BY <1>1, <1>2, ReopenFacts
  <2>2. prList[b].state = "autoclosed" <=> prs[b].state = "autoclosed"
    BY <1>1 DEF IInv, AutoInv
  <2>. QED  BY <2>1, <2>2
<1>7. /\ NumberInv' /\ CloneInv'
      /\ \A b \in Branches : prs'[b].state = "autoclosed" => head'[b] = NoHead /\ snapshot'[b] = NoHead
  BY <1>1, <1>2, ReopenIInv
<1>8. TypeInv'
  BY <1>1, <1>4, <1>5 DEF IInv, TypeInv
<1>9. AutoInv'
  BY <1>1, <1>4, <1>6, <1>7 DEF AutoInv
<1>10. LoopInv' /\ EditInv'
  BY <1>1, <1>4 DEF IInv, LoopInv, EditInv, TypeInv
<1>11. PassInv' /\ CommitInv'
  BY <1>1, <1>4 DEF IInv, PassInv, CommitInv
<1>. QED  BY <1>7, <1>8, <1>9, <1>10, <1>11 DEF IInv

\* processBranch returns, and has done nothing more
LEMMA LeaveIInv ==
    ASSUME IInv, work # NoWork, Leave(snapshot),
           UNCHANGED <<worldVars, phase, attempt, gitVars, prList, list, todo, keptVars>>
    PROVE  IInv'
<1>1. /\ work' = NoWork /\ left' = CountBranch(left, snapshot)
      /\ UNCHANGED <<base, head, made, checks, prs, rel, proposed, fresh, phase, attempt, snapshot,
                     cloned, origin, originBase, current, edited, prList, list, todo, merged,
                     saved, committed>>
  BY DEF Leave, worldVars, remoteVars, gitVars, keptVars
<1>2. left' \in Lefts /\ left'.commits = left.commits
  BY <1>1, CountFacts, WorkFacts DEF IInv, TypeInv
<1>3. TypeInv'
  BY <1>1, <1>2 DEF IInv, TypeInv
<1>4. LoopInv' /\ NumberInv' /\ AutoInv'
  BY <1>1 DEF IInv, LoopInv, NumberInv, AutoInv
<1>5. CloneInv' /\ EditInv' /\ PassInv' /\ CommitInv'
  BY <1>1, <1>2 DEF IInv, CloneInv, EditInv, PassInv, CommitInv
<1>. QED  BY <1>3, <1>4, <1>5 DEF IInv

LEMMA GotoFacts ==
    ASSUME work \in Work, NEW stage \in {"check", "automerge", "pr", "merge"}, NEW force \in BOOLEAN,
           Goto(stage, force)
    PROVE  work' \in Work /\ work'.br = work.br /\ work'.stage = stage
<1>1. work' = [work EXCEPT !.stage = stage, !.forcePr = force]
  BY DEF Goto
<1>. QED  BY <1>1 DEF Work

\* tryBranchAutomerge leaves the branch to ensurePr
LEMMA GotoPrIInv ==
    ASSUME IInv, work # NoWork, work.stage = "automerge", NEW force \in BOOLEAN, Goto("pr", force),
           UNCHANGED <<worldVars, phase, attempt, gitVars, prList, left, list, todo, keptVars>>
    PROVE  IInv'
<1>1. UNCHANGED <<base, head, made, checks, prs, rel, proposed, fresh, phase, attempt, snapshot,
                  cloned, origin, originBase, current, edited, prList, left, list, todo, merged,
                  saved, committed>>
  BY DEF worldVars, remoteVars, gitVars, keptVars
<1>2. work' \in Work /\ work'.br = work.br /\ work'.stage = "pr" /\ work' # NoWork
  BY GotoFacts, WorkFacts, NullsAssumption
<1>3. TypeInv'
  BY <1>1, <1>2 DEF IInv, TypeInv
<1>4. LoopInv' /\ NumberInv' /\ AutoInv'
  BY <1>1, <1>2 DEF IInv, LoopInv, NumberInv, AutoInv
<1>5. CloneInv' /\ EditInv' /\ PassInv' /\ CommitInv'
  BY <1>1, <1>2 DEF IInv, CloneInv, EditInv, PassInv, CommitInv
<1>. QED  BY <1>3, <1>4, <1>5 DEF IInv

LEMMA DeleteFacts ==
    ASSUME IInv, NEW br \in Branches, Delete(br), UNCHANGED made
    PROVE  /\ head' \in Heads /\ origin' \in Heads /\ snapshot' \in Heads
           /\ originBase' \in [Bases -> Nat] /\ cloned' = TRUE
           /\ head'[br] = NoHead /\ snapshot'[br] = NoHead /\ origin'[br] = NoHead
           /\ \A b \in Branches : b # br => /\ head'[b] = head[b] /\ snapshot'[b] = snapshot[b]
                                            /\ origin'[b] = Fetched[b]
           /\ phase' \notin {"idle", "again"} => CloneInv'
<1>1. /\ head' = [head EXCEPT ![br] = NoHead] /\ snapshot' = [snapshot EXCEPT ![br] = NoHead]
      /\ origin' = [Fetched EXCEPT ![br] = NoHead] /\ cloned' = TRUE /\ originBase' = FetchedBase
  BY DEF Delete
<1>2. /\ head' \in Heads /\ origin' \in Heads /\ snapshot' \in Heads
      /\ head'[br] = NoHead /\ snapshot'[br] = NoHead /\ origin'[br] = NoHead
      /\ \A b \in Branches : b # br => /\ head'[b] = head[b] /\ snapshot'[b] = snapshot[b]
                                       /\ origin'[b] = Fetched[b]
  BY <1>1, FetchedFacts DEF IInv, TypeInv, Heads
<1>3. phase' \notin {"idle", "again"} => CloneInv'
  BY <1>2, FetchedFacts DEF CloneInv
<1>. QED  BY <1>1, <1>2, <1>3, FetchedFacts

\* processBranch deletes the branch and returns
LEMMA DeleteIInv ==
    ASSUME IInv, work # NoWork, NEW br \in Branches, Delete(br), Leave(snapshot'),
           UNCHANGED <<base, made, checks, prs, rel, proposed, fresh, phase, attempt, current,
                       edited, prList, list, todo, keptVars>>
    PROVE  IInv'
<1>1. work' = NoWork /\ left' = CountBranch(left, snapshot') /\ UNCHANGED <<saved, merged, committed>>
  BY DEF Leave, keptVars
<1>2. left' \in Lefts /\ left'.commits = left.commits
  BY <1>1, CountFacts, WorkFacts DEF IInv, TypeInv
<1>3. /\ head' \in Heads /\ origin' \in Heads /\ snapshot' \in Heads
      /\ originBase' \in [Bases -> Nat] /\ cloned' = TRUE
      /\ \A b \in Branches : /\ head'[b] \in {head[b], NoHead}
                             /\ snapshot'[b] \in {snapshot[b], NoHead}
      /\ CloneInv'
  BY DeleteFacts, WorkFacts
<1>4. TypeInv'
  BY <1>1, <1>2, <1>3 DEF IInv, TypeInv
<1>5. LoopInv' /\ NumberInv' /\ AutoInv'
  BY <1>1, <1>3 DEF IInv, LoopInv, NumberInv, AutoInv
<1>6. EditInv' /\ PassInv' /\ CommitInv'
  BY <1>1, <1>2 DEF IInv, EditInv, PassInv, CommitInv
<1>. QED  BY <1>3, <1>4, <1>5, <1>6 DEF IInv

LEMMA AtFacts ==
    ASSUME IInv, NEW br \in Branches, NEW stage, At(br, stage)
    PROVE  work # NoWork /\ work.br = br /\ work.stage = stage
BY DEF At

LEMMA HandlePrIInv == ASSUME NEW br \in Branches PROVE IInv /\ HandlePr(br) => IInv'
<1>. SUFFICES ASSUME IInv, HandlePr(br) PROVE IInv'
  OBVIOUS
<1>1. /\ work # NoWork /\ Leave(snapshot')
      /\ Delete(br) \/ UNCHANGED <<head, snapshot, cloned, origin, originBase>>
      /\ UNCHANGED <<base, made, checks, prs, rel, proposed, fresh, phase, attempt, current,
                     edited, prList, list, todo, keptVars>>
  BY DEF HandlePr, At
<1>2. CASE Delete(br)
  BY <1>1, <1>2, DeleteIInv
<1>3. CASE UNCHANGED <<head, snapshot, cloned, origin, originBase>>
  <2>1. Leave(snapshot)
    BY <1>1, <1>3
  <2>. QED  BY <1>1, <1>3, <2>1, LeaveIInv DEF worldVars, remoteVars, gitVars
<1>. QED  BY <1>1, <1>2, <1>3

LEMMA CreateFailsIInv == ASSUME NEW br \in Branches PROVE IInv /\ CreateFails(br) => IInv'
BY DeleteIInv DEF CreateFails, MayCreatePr, At

LEMMA RememberFacts ==
    ASSUME IInv, NEW br \in Branches, Remember(br)
    PROVE  /\ edited' \in [Branches -> {"unset", "yes", "no"}]
           /\ \A b \in Branches : b # br => edited'[b] = edited[b]
BY DEF Remember, IInv, TypeInv

LEMMA PrEditedIInv == ASSUME NEW br \in Branches PROVE IInv /\ PrEdited(br) => IInv'
<1>. SUFFICES ASSUME IInv, PrEdited(br) PROVE IInv'
  OBVIOUS
<1>1. /\ work # NoWork /\ work.br = br /\ Remember(br)
      /\ SyncGit \/ UNCHANGED <<cloned, origin, originBase>>
      /\ work' = NoWork /\ left' = CountBranch(left, snapshot)
      /\ UNCHANGED <<base, head, made, checks, prs, rel, proposed, fresh, phase, attempt, snapshot,
                     current, prList, list, todo, saved, merged, committed>>
  BY DEF PrEdited, AskGit, Proceeds, At, Leave, worldVars, remoteVars, keptVars
<1>2. left' \in Lefts /\ left'.commits = left.commits
  BY <1>1, CountFacts, WorkFacts DEF IInv, TypeInv
<1>3. /\ cloned' \in BOOLEAN /\ origin' \in Heads /\ originBase' \in [Bases -> Nat] /\ CloneInv'
  BY <1>1, AskFacts, WorkFacts
<1>4. TypeInv'
  BY <1>1, <1>2, <1>3, RememberFacts DEF IInv, TypeInv
<1>5. LoopInv' /\ NumberInv' /\ AutoInv'
  BY <1>1 DEF IInv, LoopInv, NumberInv, AutoInv
<1>6. EditInv'
  BY <1>1, RememberFacts, WorkFacts DEF IInv, EditInv
<1>7. PassInv' /\ CommitInv'
  BY <1>1, <1>2 DEF IInv, PassInv, CommitInv
<1>. QED  BY <1>3, <1>4, <1>5, <1>6, <1>7 DEF IInv

LEMMA KeepBranchIInv ==
    ASSUME NEW br \in Branches, NEW skip \in BOOLEAN PROVE IInv /\ KeepBranch(br, skip) => IInv'
<1>. SUFFICES ASSUME IInv, KeepBranch(br, skip) PROVE IInv'
  OBVIOUS
<1>1. /\ work # NoWork /\ work.br = br /\ work.stage = "check" /\ SyncGit /\ Remember(br)
      /\ Modified(br) => Override(br)
      /\ current' = (IF skip THEN current ELSE BaseOf[br]) /\ Goto("automerge", FALSE)
      /\ UNCHANGED <<base, head, made, checks, prs, rel, proposed, fresh, phase, attempt, snapshot,
                     prList, left, list, todo, saved, merged, committed>>
  BY DEF KeepBranch, MayUpdate, Proceeds, At, worldVars, remoteVars, keptVars
<1>2. work' \in Work /\ work'.br = br /\ work'.stage = "automerge" /\ work' # NoWork
  BY <1>1, GotoFacts, WorkFacts, NullsAssumption
<1>3. /\ cloned' = TRUE /\ origin' = Fetched /\ origin' \in Heads
      /\ originBase' \in [Bases -> Nat] /\ CloneInv'
  BY <1>1, SyncFacts, WorkFacts
<1>4. current' \in Bases
  BY <1>1, ConstantsAssumption DEF IInv, TypeInv
<1>5. TypeInv'
  BY <1>1, <1>2, <1>3, <1>4, RememberFacts DEF IInv, TypeInv
<1>6. LoopInv' /\ NumberInv' /\ AutoInv'
  BY <1>1, <1>2 DEF IInv, LoopInv, NumberInv, AutoInv
<1>7. EditInv'
  BY <1>1, <1>2, RememberFacts, WorkFacts DEF IInv, EditInv
<1>8. PassInv'
  <2>1. CASE Modified(br)
    BY <1>1, <1>2, <1>3, <2>1 DEF Override, PassInv
  <2>2. CASE ~Modified(br)
    <3>1. edited[br] = "unset"
      BY <1>1 DEF IInv, EditInv
    <3>2. ~IsUsers(origin'[br]) \/ ~IsUsers(snapshot[br])
      BY <1>3, <2>2, <3>1 DEF Modified, Cached, IsUsers
    <3>. QED  BY <1>1, <1>2, <1>3, <3>2 DEF PassInv
  <2>. QED  BY <2>1, <2>2
<1>9. CommitInv'
  BY <1>1 DEF IInv, CommitInv
<1>. QED  BY <1>3, <1>5, <1>6, <1>7, <1>8, <1>9 DEF IInv

LEMMA CommitBranchIInv == ASSUME NEW br \in Branches PROVE IInv /\ CommitBranch(br) => IInv'
<1>. SUFFICES ASSUME IInv, CommitBranch(br) PROVE IInv'
  OBVIOUS
<1>. DEFINE h == Made(br)
            l == CountCommit(left)
            stage == IF work.existed THEN "automerge" ELSE "pr"
<1>1. /\ work # NoWork /\ work.br = br /\ work.stage = "check" /\ ~OverLimit(br)
      /\ cloned' = TRUE /\ originBase' = FetchedBase /\ current' = BaseOf[br]
      /\ made' = [made EXCEPT ![br] = made[br] + 1] /\ head' = [head EXCEPT ![br] = h]
      /\ checks' = [checks EXCEPT ![br] = "yellow"]
      /\ origin' = [Fetched EXCEPT ![br] = h] /\ snapshot' = [snapshot EXCEPT ![br] = h]
      /\ edited' = [edited EXCEPT ![br] = "no"]
      /\ committed' = IF br \in Alerts THEN committed ELSE committed + 1
      /\ \/ work' = NoWork /\ left' = CountBranch(l, snapshot')
         \/ Goto(stage, FALSE) /\ left' = l
      /\ UNCHANGED <<base, prs, rel, proposed, fresh, phase, attempt, prList, list, todo, saved, merged>>
  BY DEF CommitBranch, NeedsCommit, MayUpdate, Proceeds, At
<1>2. /\ made[br] \in Nat /\ made' \in [Branches -> Nat] /\ made'[br] = made[br] + 1
      /\ \A b \in Branches : b # br => made'[b] = made[b]
  BY <1>1 DEF IInv, TypeInv
<1>3. h \in Head /\ h.n = made[br] + 1 /\ h.by = "renovate"
  <2>1. FetchedBase[BaseOf[br]] \in Nat /\ rel[br] \in Nat
    BY FetchedFacts, ValueFacts, ConstantsAssumption
  <2>. QED  BY <1>2, <2>1 DEF Made, Head
<1>4. l \in Lefts /\ l.commits = left.commits - 1
  BY DEF CountCommit, IInv, TypeInv, Lefts
<1>. HIDE DEF h, l
<1>5. /\ head' \in Heads /\ snapshot' \in Heads /\ origin' \in Heads
      /\ head'[br] = h /\ snapshot'[br] = h /\ origin'[br] = h
      /\ \A b \in Branches : b # br => /\ head'[b] = head[b] /\ snapshot'[b] = snapshot[b]
                                       /\ origin'[b] = Fetched[b]
  BY <1>1, <1>3, FetchedFacts DEF IInv, TypeInv, Heads
<1>6. left' \in Lefts /\ left'.commits = left.commits - 1
  BY <1>1, <1>4, CountFacts, WorkFacts
<1>7. /\ work' \in Work \cup {NoWork}
      /\ work' # NoWork => work' \in Work /\ work'.br = br /\ work'.stage \in {"automerge", "pr"}
  <2>1. stage \in {"automerge", "pr"}
    OBVIOUS
  <2>2. Goto(stage, FALSE) => work' \in Work /\ work'.br = work.br /\ work'.stage = stage
    BY <1>1, GotoFacts, WorkFacts
  <2>. QED  BY <1>1, <2>1, <2>2
<1>8. TypeInv'
  <2>1. checks' \in [Branches -> {"yellow", "green", "red"}]
    BY <1>1 DEF IInv, TypeInv
  <2>2. committed' \in Nat
    BY <1>1 DEF IInv, TypeInv
  <2>3. edited' \in [Branches -> {"unset", "yes", "no"}]
    BY <1>1 DEF IInv, TypeInv
  <2>4. current' \in Bases
    BY <1>1, ConstantsAssumption
  <2>5. originBase' \in [Bases -> Nat]
    BY <1>1, FetchedFacts
  <2>. QED  BY <1>1, <1>2, <1>5, <1>6, <1>7, <2>1, <2>2, <2>3, <2>4, <2>5
       DEF IInv, TypeInv
<1>9. LoopInv'
  BY <1>1, <1>7 DEF IInv, LoopInv
<1>10. NumberInv'
  <2>1. prs[br].head # NoHead => prs[br].head.n \in Nat
    BY ValueFacts DEF Head
  <2>2. prs[br].head # NoHead => prs[br].head.n <= made[br] + 1
    BY <1>2, <2>1 DEF IInv, NumberInv
  <2>3. h.n <= made'[br] /\ prs' = prs
    BY <1>1, <1>2, <1>3
  <2>4. /\ head'[br] # NoHead => head'[br].n <= made'[br]
        /\ snapshot'[br] # NoHead => snapshot'[br].n <= made'[br]
        /\ prs'[br].head # NoHead => prs'[br].head.n <= made'[br]
    BY <1>2, <1>5, <2>2, <2>3
  <2>. QED  BY <1>2, <1>5, <2>3, <2>4 DEF IInv, NumberInv
<1>11. AutoInv'
  BY <1>1, <1>5, <1>7, WorkFacts DEF IInv, AutoInv
<1>12. CloneInv'
  BY <1>1, <1>5, WorkFacts, FetchedFacts DEF CloneInv
<1>13. EditInv'
  <2>1. \A b \in Branches : b # br => edited'[b] = edited[b]
    BY <1>1 DEF IInv, TypeInv
  <2>. QED  BY <1>1, <1>7, <2>1, WorkFacts DEF IInv, EditInv
<1>14. PassInv'
  BY <1>1, <1>3, <1>5, <1>7 DEF PassInv, IsUsers
<1>15. CommitInv'
  <2>. SUFFICES ASSUME CommitLimit # 0
                PROVE  committed' <= CommitLimit /\ committed' + left'.commits <= CommitLimit
    BY DEF CommitInv
  <2>1. /\ committed \in Nat /\ left.commits \in Int /\ CommitLimit \in Nat
        /\ committed <= CommitLimit /\ committed + left.commits <= CommitLimit
    <3>1. phase # "idle"
      BY <1>1, WorkFacts
    <3>2. committed \in Nat /\ left.commits \in Int
      BY DEF IInv, TypeInv, Lefts
    <3>. QED  BY <3>1, <3>2, ConstantsAssumption DEF IInv, CommitInv
  <2>2. CASE br \in Alerts
    BY <1>1, <1>6, <2>1, <2>2
  <2>3. CASE br \notin Alerts
    <3>1. left.commits > 0
      BY <1>1, <2>1, <2>3 DEF OverLimit, LimitReached
    <3>. QED  BY <1>1, <1>6, <2>1, <2>3, <3>1
  <2>. QED  BY <2>2, <2>3
<1>. QED  BY <1>8, <1>9, <1>10, <1>11, <1>12, <1>13, <1>14, <1>15 DEF IInv
----------------------------------------------------------------------------
(* Merges *)

\* The attempt is over after a merge, or its loop is.
LEMMA MergedIInv ==
    ASSUME IInv, work # NoWork, NEW br \in Branches, NEW known \in Prs, StopAfterMerge(br, known),
           base' \in [Bases -> Nat], merged' \in [Bases -> Nat], prs' \in Prs,
           proposed' \subseteq Branches, left' \in Lefts, left'.commits <= left.commits,
           \A b \in Branches :
              /\ prs'[b].head \in {prs[b].head, head[b]}
              /\ prs'[b].state = "autoclosed" <=> prs[b].state = "autoclosed"
              /\ known[b].state = "autoclosed" <=> prList[b].state = "autoclosed",
           UNCHANGED <<made, checks, rel, fresh, attempt, saved, committed>>
    PROVE  IInv'
<1>1. phase = "write" /\ committed \in Nat /\ left.commits \in Int /\ left'.commits \in Int
  BY WorkFacts DEF IInv, TypeInv, Lefts
<1>2. /\ head' = [head EXCEPT ![br] = NoHead] /\ head' \in Heads /\ head'[br] = NoHead
      /\ \A b \in Branches : b # br => head'[b] = head[b]
  BY DEF StopAfterMerge, IInv, TypeInv, Heads
<1>3. phase' # "idle" /\ CommitInv'
  <2>1. phase' # "idle"
    BY <1>1 DEF StopAfterMerge
  <2>. QED  BY <1>1, <2>1, ConstantsAssumption DEF IInv, CommitInv
<1>4. CASE phase' = "again" /\ AttemptOver
  <2>1. \A b \in Branches : /\ head'[b] \in {head[b], NoHead}
                            /\ prs'[b].head \in {prs[b].head, head[b]}
                            /\ prs'[b].state = "autoclosed" => prs[b].state = "autoclosed"
    BY <1>2
  <2>2. /\ snapshot' \in Heads /\ origin' \in Heads /\ originBase' \in [Bases -> Nat]
        /\ cloned' = FALSE /\ current' \in Bases /\ prList' \in Prs /\ work' = NoWork
        /\ list' = {} /\ todo' = {} /\ edited' = [b \in Branches |-> "unset"]
        /\ LoopInv' /\ NumberInv' /\ AutoInv' /\ CloneInv' /\ EditInv' /\ PassInv'
    BY <1>4, <2>1, OverFacts
  <2>3. TypeInv'
    <3>1. edited' \in [Branches -> {"unset", "yes", "no"}]
      BY <2>2
    <3>. QED  BY <1>2, <1>4, <2>2, <3>1 DEF IInv, TypeInv
  <2>. QED  BY <1>3, <2>2, <2>3 DEF IInv
<1>5. CASE /\ UNCHANGED <<phase, current, edited, list>>
           /\ cloned' = TRUE /\ originBase' = FetchedBase
           /\ origin' = [Fetched EXCEPT ![br] = NoHead]
           /\ snapshot' = [snapshot EXCEPT ![br] = NoHead]
           /\ prList' = known /\ todo' = {} /\ work' = NoWork
  <2>1. /\ origin' \in Heads /\ snapshot' \in Heads /\ snapshot'[br] = NoHead
        /\ \A b \in Branches : b # br => snapshot'[b] = snapshot[b] /\ origin'[b] = Fetched[b]
    BY <1>5, FetchedFacts DEF IInv, TypeInv, Heads
  <2>2. TypeInv'
    BY <1>1, <1>2, <1>5, <2>1, FetchedFacts DEF IInv, TypeInv
  <2>3. NumberInv'
    BY <1>2, <2>1 DEF IInv, NumberInv
  <2>4. AutoInv'
    BY <1>1, <1>2, <1>5, <2>1 DEF IInv, AutoInv
  <2>5. CloneInv'
    BY <1>1, <1>2, <1>5, <2>1, FetchedFacts DEF CloneInv
  <2>6. LoopInv' /\ EditInv' /\ PassInv'
    BY <1>1, <1>5 DEF IInv, LoopInv, EditInv, PassInv
  <2>. QED  BY <1>3, <2>2, <2>3, <2>4, <2>5, <2>6 DEF IInv
<1>. QED  BY <1>4, <1>5 DEF StopAfterMerge

LEMMA MergeBranchIInv == ASSUME NEW br \in Branches PROVE IInv /\ MergeBranch(br) => IInv'
<1>. SUFFICES ASSUME IInv, MergeBranch(br) PROVE IInv'
  OBVIOUS
<1>. DEFINE state == IF prs[br].state = "open" THEN "merged" ELSE prs[br].state
            pr == [prs[br] EXCEPT !.state = state]
<1>1. /\ work # NoWork /\ base' = [base EXCEPT ![current] = base[current] + 1]
      /\ merged' = [merged EXCEPT ![current] = base'[current]]
      /\ prs' = [prs EXCEPT ![br].state = IF prs[br].state = "open" THEN "merged" ELSE prs[br].state]
      /\ proposed' = (IF current = BaseOf[br] THEN proposed \ {br} ELSE proposed)
      /\ left' = CountCommit(left) /\ StopAfterMerge(br, prList)
      /\ UNCHANGED <<made, checks, rel, fresh, attempt, saved, committed>>
  BY DEF MergeBranch, MergeReady, At
<1>2. base' \in [Bases -> Nat] /\ merged' \in [Bases -> Nat] /\ proposed' \subseteq Branches
  <2>1. base' \in [Bases -> Nat] /\ current \in Bases
    BY <1>1 DEF IInv, TypeInv
  <2>. QED  BY <1>1, <2>1 DEF IInv, TypeInv
<1>3. left' \in Lefts /\ left'.commits <= left.commits
  BY <1>1 DEF CountCommit, IInv, TypeInv, Lefts
<1>4. prs' = [prs EXCEPT ![br] = pr]
  BY <1>1 DEF IInv, TypeInv, Prs
<1>5. pr \in Pr /\ pr.head = prs[br].head /\ pr.state = state
  <2>1. prs[br] \in Pr /\ state \in States
    BY ValueFacts DEF States, Pr
  <2>. QED  BY <2>1, PrTurned
<1>. HIDE DEF pr
<1>6. /\ prs' \in Prs
      /\ \A b \in Branches : /\ prs'[b].head = prs[b].head
                             /\ prs'[b].state = "autoclosed" <=> prs[b].state = "autoclosed"
  BY <1>4, <1>5 DEF IInv, TypeInv, Prs
<1>7. prList \in Prs
  BY DEF IInv, TypeInv
<1>. QED  BY <1>1, <1>2, <1>3, <1>6, <1>7, MergedIInv

LEMMA MergePrIInv == ASSUME NEW br \in Branches PROVE IInv /\ MergePr(br) => IInv'
<1>. SUFFICES ASSUME IInv, MergePr(br) PROVE IInv'
  OBVIOUS
<1>. DEFINE pr == [prs[br] EXCEPT !.state = "merged", !.head = head[br]]
            known == [prList EXCEPT ![br] = prs'[br]]
<1>1. /\ work # NoWork /\ work.br = br /\ prs[br].state = "open"
      /\ base' = [base EXCEPT ![BaseOf[br]] = base[BaseOf[br]] + 1]
      /\ merged' = [merged EXCEPT ![BaseOf[br]] = base'[BaseOf[br]]]
      /\ prs' = [prs EXCEPT ![br] = pr]
      /\ proposed' = proposed \ {br} /\ StopAfterMerge(br, known)
      /\ UNCHANGED <<made, checks, rel, fresh, attempt, left, saved, committed>>
  BY DEF MergePr, At, Open
<1>2. base' \in [Bases -> Nat] /\ merged' \in [Bases -> Nat] /\ proposed' \subseteq Branches
  <2>1. base' \in [Bases -> Nat] /\ BaseOf[br] \in Bases
    BY <1>1, ConstantsAssumption DEF IInv, TypeInv
  <2>. QED  BY <1>1, <2>1 DEF IInv, TypeInv
<1>3. left' \in Lefts /\ left'.commits <= left.commits
  BY <1>1 DEF IInv, TypeInv, Lefts
<1>4. pr \in Pr /\ pr.head = head[br] /\ pr.state = "merged"
  <2>1. prs[br] \in Pr /\ head[br] \in Head \cup {NoHead}
    BY ValueFacts
  <2>. QED  BY <2>1 DEF Pr
<1>. HIDE DEF pr
<1>5. /\ prs' \in Prs /\ prs'[br] = pr
      /\ \A b \in Branches : /\ prs'[b].head \in {prs[b].head, head[b]}
                             /\ prs'[b].state = "autoclosed" <=> prs[b].state = "autoclosed"
  BY <1>1, <1>4 DEF IInv, TypeInv, Prs
<1>6. /\ known \in Prs
      /\ \A b \in Branches : known[b].state = "autoclosed" <=> prList[b].state = "autoclosed"
  <2>1. prList[br].state # "autoclosed"
    BY <1>1, WorkFacts
  <2>. QED  BY <1>4, <1>5, <2>1 DEF IInv, TypeInv, Prs
<1>7. \A b \in Branches :
         /\ prs'[b].head \in {prs[b].head, head[b]}
         /\ prs'[b].state = "autoclosed" <=> prs[b].state = "autoclosed"
         /\ known[b].state = "autoclosed" <=> prList[b].state = "autoclosed"
  BY <1>5, <1>6
<1>8. known \in Prs /\ StopAfterMerge(br, known)
  BY <1>1, <1>6
<1>. HIDE DEF known
<1>. QED  BY <1>1, <1>2, <1>3, <1>5, <1>7, <1>8, MergedIInv
----------------------------------------------------------------------------
(* ensurePr *)

\* br has an open pull request, which the run may know of
LEMMA PrEnsuredIInv ==
    ASSUME IInv, work # NoWork, NEW br \in Branches, prs' \in Prs, prList' \in Prs,
           \A b \in Branches :
              /\ prs'[b].head \in {prs[b].head, NoHead}
              /\ prs'[b].state = "autoclosed" <=> prs[b].state = "autoclosed"
              /\ prList'[b].state = "autoclosed" <=> prList[b].state = "autoclosed",
           fresh' \in Nat, left' \in Lefts, left'.commits = left.commits,
           work' = NoWork \/ Goto("merge", work.forcePr),
           UNCHANGED <<base, head, made, checks, rel, proposed, phase, attempt, gitVars, list, todo,
                       keptVars>>
    PROVE  IInv'
<1>1. UNCHANGED <<base, head, made, checks, rel, proposed, phase, attempt, snapshot, cloned, origin,
                  originBase, current, edited, list, todo, saved, merged, committed>>
  BY DEF gitVars, keptVars
<1>2. work' # NoWork => work' \in Work /\ work'.br = work.br /\ work'.stage = "merge"
  <2>1. work \in Work /\ work.forcePr \in BOOLEAN
    BY WorkFacts DEF Work
  <2>. QED  BY <2>1, GotoFacts
<1>3. TypeInv'
  BY <1>1, <1>2 DEF IInv, TypeInv
<1>4. LoopInv' /\ EditInv' /\ PassInv'
  BY <1>1, <1>2 DEF IInv, LoopInv, EditInv, PassInv
<1>5. NumberInv' /\ AutoInv'
  <2>1. NumberInv'
    BY <1>1 DEF IInv, NumberInv
  <2>2. \A b \in Branches : prs'[b].state = "autoclosed" => head'[b] = NoHead /\ snapshot'[b] = NoHead
    BY <1>1 DEF IInv, AutoInv
  <2>3. work.br \in Branches /\ prList[work.br].state # "autoclosed" /\ phase = "write"
    BY WorkFacts
  <2>. QED  BY <1>1, <1>2, <2>1, <2>2, <2>3 DEF IInv, AutoInv
<1>6. CloneInv' /\ CommitInv'
  BY <1>1 DEF IInv, CloneInv, CommitInv
<1>. QED  BY <1>3, <1>4, <1>5, <1>6 DEF IInv

LEMMA WithExistingPrIInv == ASSUME NEW br \in Branches PROVE IInv /\ WithExistingPr(br) => IInv'
<1>. SUFFICES ASSUME IInv, WithExistingPr(br) PROVE IInv'
  OBVIOUS
<1>. DEFINE pr == [prs[br] EXCEPT !.rel = rel[br]]
<1>1. /\ work # NoWork /\ work.br = br /\ prList[br].state = "open"
      /\ \/ UNCHANGED <<prs, prList>>
         \/ /\ prs' = [prs EXCEPT ![br].rel = rel[br]]
            /\ prList' = [prList EXCEPT ![br] = prs'[br]]
      /\ Goto("merge", work.forcePr)
      /\ UNCHANGED <<base, head, made, checks, rel, proposed, fresh, phase, attempt, gitVars, left,
                     list, todo, keptVars>>
  BY DEF WithExistingPr, At, Open
<1>2. prs \in Prs /\ prList \in Prs /\ fresh' \in Nat /\ left' \in Lefts /\ left'.commits = left.commits
  BY <1>1 DEF IInv, TypeInv
<1>3. CASE UNCHANGED <<prs, prList>>
  BY <1>1, <1>2, <1>3, PrEnsuredIInv
<1>4. CASE /\ prs' = [prs EXCEPT ![br].rel = rel[br]]
           /\ prList' = [prList EXCEPT ![br] = prs'[br]]
  <2>1. prs' = [prs EXCEPT ![br] = pr]
    BY <1>4, <1>2 DEF Prs
  <2>2. pr \in Pr /\ pr.head = prs[br].head /\ pr.state = prs[br].state
    BY PrTitled, ValueFacts
  <2>. HIDE DEF pr
  <2>3. prs[br].state # "autoclosed" /\ prList[br].state # "autoclosed"
    BY <1>1, WorkFacts
  <2>4. prs' \in Prs /\ prs'[br] = pr /\ \A b \in Branches : b # br => prs'[b] = prs[b]
    BY <1>2, <2>1, <2>2 DEF Prs
  <2>5. prList' \in Prs /\ prList'[br] = pr /\ \A b \in Branches : b # br => prList'[b] = prList[b]
    BY <1>2, <1>4, <2>2, <2>4 DEF Prs
  <2>6. \A b \in Branches :
           /\ prs'[b].head \in {prs[b].head, NoHead}
           /\ prs'[b].state = "autoclosed" <=> prs[b].state = "autoclosed"
           /\ prList'[b].state = "autoclosed" <=> prList[b].state = "autoclosed"
    BY <2>2, <2>3, <2>4, <2>5
  <2>. QED  BY <1>1, <1>2, <2>4, <2>5, <2>6, PrEnsuredIInv
<1>. QED  BY <1>1, <1>3, <1>4

LEMMA OpenPrFacts ==
    ASSUME IInv, NEW br \in Branches, OpenPr(br)
    PROVE  /\ prs' \in Prs /\ prs'[br].state = "open" /\ prs'[br].head = NoHead
           /\ \A b \in Branches : b # br => prs'[b] = prs[b]
           /\ fresh' \in Nat
<1>. DEFINE pr == [state |-> "open", rel |-> rel[br], head |-> NoHead]
<1>1. prs' = [prs EXCEPT ![br] = pr] /\ fresh' = IF HourlyLimit = 0 THEN fresh ELSE fresh + 1
  BY DEF OpenPr
<1>2. pr \in Pr /\ pr.state = "open" /\ pr.head = NoHead
  BY ValueFacts DEF Pr
<1>. HIDE DEF pr
<1>. QED  BY <1>1, <1>2 DEF IInv, TypeInv, Prs

LEMMA CreatePrIInv == ASSUME NEW br \in Branches PROVE IInv /\ CreatePr(br) => IInv'
<1>. SUFFICES ASSUME IInv, CreatePr(br) PROVE IInv'
  OBVIOUS
<1>1. /\ work # NoWork /\ work.br = br /\ OpenPr(br)
      /\ prList' = [prList EXCEPT ![br] = prs'[br]] /\ left' = CountPr(left)
      /\ Goto("merge", work.forcePr)
      /\ UNCHANGED <<base, head, made, checks, rel, proposed, phase, attempt, gitVars, list, todo,
                     keptVars>>
  BY DEF CreatePr, MayCreatePr, At
<1>2. /\ prs' \in Prs /\ prs'[br].state = "open" /\ prs'[br].head = NoHead /\ fresh' \in Nat
      /\ \A b \in Branches : b # br => prs'[b] = prs[b]
  BY <1>1, OpenPrFacts
<1>3. /\ prList' \in Prs /\ prList'[br] = prs'[br]
      /\ \A b \in Branches : b # br => prList'[b] = prList[b]
  BY <1>1, <1>2 DEF IInv, TypeInv, Prs
<1>4. prs[br].state # "autoclosed" /\ prList[br].state # "autoclosed"
  BY <1>1, WorkFacts
<1>5. left' \in Lefts /\ left'.commits = left.commits
  BY <1>1 DEF CountPr, IInv, TypeInv, Lefts
<1>6. \A b \in Branches :
         /\ prs'[b].head \in {prs[b].head, NoHead}
         /\ prs'[b].state = "autoclosed" <=> prs[b].state = "autoclosed"
         /\ prList'[b].state = "autoclosed" <=> prList[b].state = "autoclosed"
  BY <1>2, <1>3, <1>4
<1>. QED  BY <1>1, <1>2, <1>3, <1>5, <1>6, PrEnsuredIInv

LEMMA LoseAnswerIInv == ASSUME NEW br \in Branches PROVE IInv /\ LoseAnswer(br) => IInv'
<1>. SUFFICES ASSUME IInv, LoseAnswer(br) PROVE IInv'
  OBVIOUS
<1>1. /\ work # NoWork /\ work.br = br /\ OpenPr(br)
      /\ work' = NoWork /\ left' = CountBranch(left, snapshot) /\ prList' = prList
      /\ UNCHANGED <<base, head, made, checks, rel, proposed, phase, attempt, gitVars, list, todo,
                     keptVars>>
  BY DEF LoseAnswer, MayCreatePr, At, Leave
<1>2. /\ prs' \in Prs /\ prs'[br].state = "open" /\ prs'[br].head = NoHead /\ fresh' \in Nat
      /\ \A b \in Branches : b # br => prs'[b] = prs[b]
  BY <1>1, OpenPrFacts
<1>3. prs[br].state # "autoclosed" /\ prList' \in Prs
  BY <1>1, WorkFacts DEF IInv, TypeInv
<1>4. left' \in Lefts /\ left'.commits = left.commits
  BY <1>1, CountFacts, WorkFacts DEF IInv, TypeInv
<1>5. \A b \in Branches :
         /\ prs'[b].head \in {prs[b].head, NoHead}
         /\ prs'[b].state = "autoclosed" <=> prs[b].state = "autoclosed"
         /\ prList'[b].state = "autoclosed" <=> prList[b].state = "autoclosed"
  BY <1>1, <1>2, <1>3
<1>. QED  BY <1>1, <1>2, <1>3, <1>4, <1>5, PrEnsuredIInv
----------------------------------------------------------------------------
(* finaliseRepo *)

LEMMA AutoClosedFacts ==
    ASSUME IInv, NEW br \in Branches
    PROVE  /\ AutoClosed(br) \in Pr
           /\ AutoClosed(br).head \in {prs[br].head, head[br]}
<1>1. prs[br] \in Pr /\ head[br] \in Head \cup {NoHead}
  BY ValueFacts
<1>2. CASE prs[br].state = "open"
  <2>. DEFINE pr == [prs[br] EXCEPT !.state = "autoclosed", !.head = head[br]]
  <2>1. AutoClosed(br) = pr
    BY <1>2 DEF AutoClosed
  <2>2. pr \in Pr /\ pr.head = head[br]
    BY <1>1 DEF Pr
  <2>. QED  BY <2>1, <2>2
<1>3. CASE prs[br].state = "closed"
  <2>1. AutoClosed(br) = [prs[br] EXCEPT !.state = "autoclosed"]
    BY <1>3 DEF AutoClosed
  <2>2. [prs[br] EXCEPT !.state = "autoclosed"] \in Pr
    BY <1>1 DEF Pr
  <2>3. [prs[br] EXCEPT !.state = "autoclosed"].head = prs[br].head
    BY <1>1 DEF Pr
  <2>. QED  BY <2>1, <2>2, <2>3
<1>4. CASE prs[br].state = "merged"
  <2>1. AutoClosed(br) = [prs[br] EXCEPT !.rel = 0]
    BY <1>4 DEF AutoClosed
  <2>. QED  BY <1>1, <2>1, PrTitled
<1>5. CASE prs[br].state \notin {"open", "closed", "merged"}
  BY <1>1, <1>5 DEF AutoClosed
<1>. QED  BY <1>2, <1>3, <1>4, <1>5

LEMMA PruneBranchIInv == ASSUME NEW br \in Branches PROVE IInv /\ PruneBranch(br) => IInv'
<1>. SUFFICES ASSUME IInv, PruneBranch(br) PROVE IInv'
  OBVIOUS
<1>1. /\ phase = "prune" /\ br \in todo /\ Delete(br) /\ Remember(br) /\ todo' = todo \ {br}
      /\ prs' = prs \/ prs' = [prs EXCEPT ![br] = AutoClosed(br)]
      /\ UNCHANGED <<base, made, checks, rel, proposed, fresh, phase, attempt, current, prList, left,
                     list, work, saved, merged, committed>>
  BY DEF PruneBranch, keptVars
<1>2. /\ head' \in Heads /\ origin' \in Heads /\ snapshot' \in Heads
      /\ originBase' \in [Bases -> Nat] /\ cloned' = TRUE
      /\ head'[br] = NoHead /\ snapshot'[br] = NoHead
      /\ \A b \in Branches : b # br => head'[b] = head[b] /\ snapshot'[b] = snapshot[b]
      /\ CloneInv'
  BY <1>1, DeleteFacts
<1>3. /\ prs' \in Prs /\ prs'[br].head \in {prs[br].head, head[br]}
      /\ \A b \in Branches : b # br => prs'[b] = prs[b]
  BY <1>1, AutoClosedFacts DEF IInv, TypeInv, Prs
<1>4. work' = NoWork
  BY <1>1 DEF IInv, LoopInv
<1>5. TypeInv'
  BY <1>1, <1>2, <1>3, RememberFacts DEF IInv, TypeInv
<1>6. LoopInv' /\ NumberInv' /\ AutoInv'
  BY <1>1, <1>2, <1>3, <1>4 DEF IInv, LoopInv, NumberInv, AutoInv
<1>7. EditInv'
  BY <1>1, <1>4, RememberFacts DEF IInv, EditInv
<1>8. PassInv' /\ CommitInv'
  BY <1>1, <1>4 DEF IInv, PassInv, CommitInv
<1>. QED  BY <1>2, <1>5, <1>6, <1>7, <1>8 DEF IInv

LEMMA SkipPruneIInv == ASSUME NEW br \in Branches PROVE IInv /\ SkipPrune(br) => IInv'
<1>. SUFFICES ASSUME IInv, SkipPrune(br) PROVE IInv'
  OBVIOUS
<1>1. /\ phase = "prune" /\ br \in todo /\ todo' = todo \ {br}
      /\ SyncGit \/ UNCHANGED <<cloned, origin, originBase>>
      /\ edited' = edited \/ edited' = [edited EXCEPT ![br] = "yes"]
      /\ UNCHANGED <<base, head, made, checks, prs, rel, proposed, fresh, phase, attempt, snapshot,
                     current, prList, left, list, work, saved, merged, committed>>
  BY DEF SkipPrune, AskGit, worldVars, remoteVars, keptVars
<1>2. /\ cloned' \in BOOLEAN /\ origin' \in Heads /\ originBase' \in [Bases -> Nat] /\ CloneInv'
  BY <1>1, AskFacts
<1>3. /\ edited' \in [Branches -> {"unset", "yes", "no"}]
      /\ \A b \in Branches : b # br => edited'[b] = edited[b]
  BY <1>1 DEF IInv, TypeInv
<1>4. work' = NoWork
  BY <1>1 DEF IInv, LoopInv
<1>5. TypeInv'
  BY <1>1, <1>2, <1>3 DEF IInv, TypeInv
<1>6. LoopInv' /\ NumberInv' /\ AutoInv'
  BY <1>1, <1>4 DEF IInv, LoopInv, NumberInv, AutoInv
<1>7. EditInv' /\ PassInv' /\ CommitInv'
  BY <1>1, <1>3, <1>4 DEF IInv, EditInv, PassInv, CommitInv
<1>. QED  BY <1>2, <1>5, <1>6, <1>7 DEF IInv
----------------------------------------------------------------------------
(* Every step *)

LEMMA ProcessBranchIInv == ASSUME NEW br \in Branches PROVE IInv /\ ProcessBranch(br) => IInv'
<1>. SUFFICES ASSUME IInv, ProcessBranch(br) PROVE IInv'
  OBVIOUS
<1>1. CASE SkipOverLimit(br) \/ EarlyReturn(br) \/ WithoutPr(br) \/ NoPrCreated(br) \/ NoMerge(br)
  <2>1. /\ work # NoWork /\ Leave(snapshot)
        /\ UNCHANGED <<worldVars, phase, attempt, gitVars, prList, list, todo, keptVars>>
    BY <1>1 DEF SkipOverLimit, EarlyReturn, WithoutPr, NoPrCreated, MayCreatePr, NoMerge, At
  <2>. QED  BY <2>1, LeaveIInv
<1>2. ASSUME NEW failed \in BOOLEAN, NoBranchAutomerge(br) \/ MergeBranchFails(br, failed) PROVE IInv'
  <2>1. /\ work # NoWork /\ work.stage = "automerge" /\ \E force \in BOOLEAN : Goto("pr", force)
        /\ UNCHANGED <<worldVars, phase, attempt, gitVars, prList, left, list, todo, keptVars>>
    <3>1. CASE NoBranchAutomerge(br)
      <4>1. (checks[br] = "red") \in BOOLEAN
        OBVIOUS
      <4>. QED  BY <3>1, <4>1 DEF NoBranchAutomerge, At
    <3>2. CASE MergeBranchFails(br, failed)
      BY <3>2 DEF MergeBranchFails, MergeReady, At
    <3>. QED  BY <1>2, <3>1, <3>2
  <2>2. PICK force \in BOOLEAN : Goto("pr", force)
    BY <2>1
  <2>. QED  BY <2>1, <2>2, GotoPrIInv
<1>3. CASE RepositoryChanged(br)
  BY <1>3, AbortIInv DEF RepositoryChanged, Abort
<1>4. ASSUME NEW skip \in BOOLEAN, KeepBranch(br, skip) PROVE IInv'
  BY <1>4, KeepBranchIInv
<1>5. CASE StartBranch(br) \/ HandlePr(br) \/ PrEdited(br) \/ CommitBranch(br)
  BY <1>5, StartBranchIInv, HandlePrIInv, PrEditedIInv, CommitBranchIInv
<1>6. CASE MergeBranch(br) \/ MergePr(br)
  BY <1>6, MergeBranchIInv, MergePrIInv
<1>7. CASE WithExistingPr(br) \/ CreatePr(br) \/ LoseAnswer(br) \/ CreateFails(br)
  BY <1>7, WithExistingPrIInv, CreatePrIInv, LoseAnswerIInv, CreateFailsIInv
<1>8. CASE NoBranchAutomerge(br)
  BY <1>2, <1>8
<1>. QED  BY <1>1, <1>2, <1>3, <1>4, <1>5, <1>6, <1>7, <1>8 DEF ProcessBranch

LEMMA StepIInv == IInv /\ [Next]_vars => IInv'
<1>. SUFFICES ASSUME IInv, [Next]_vars PROVE IInv'
  OBVIOUS
<1>1. CASE World
  BY <1>1, WorldIInv
<1>2. CASE InitRepo \/ Extract \/ SetLimits \/ \E lost \in SUBSET list : EndWrite(lost)
  BY <1>2, InitRepoIInv, ExtractIInv, SetLimitsIInv, EndWriteIInv
<1>3. ASSUME NEW br \in Branches, ProcessBranch(br) PROVE IInv'
  BY <1>3, ProcessBranchIInv
<1>4. ASSUME NEW br \in Branches, PruneBranch(br) \/ SkipPrune(br) PROVE IInv'
  BY <1>4, PruneBranchIInv, SkipPruneIInv
<1>5. CASE EndRun \/ Killed
  BY <1>5, AbortIInv DEF EndRun, Killed, Abort
<1>6. CASE UNCHANGED vars
  <2>1. UNCHANGED <<base, head, made, checks, prs, rel, proposed, fresh, saved, merged, committed>>
    BY <1>6 DEF vars, worldVars, remoteVars, keptVars
  <2>2. UNCHANGED runVars
    BY <1>6 DEF vars
  <2>3. TypeInv'
    BY <2>1, <2>2 DEF IInv, TypeInv, runVars, gitVars
  <2>. QED  BY <2>1, <2>2, <2>3, QuietIInv
<1>. QED  BY <1>1, <1>2, <1>3, <1>4, <1>5, <1>6 DEF Next, Run

THEOREM Invariant == Spec => []IInv
<1>1. Init => IInv
  BY InitIInv
<1>2. IInv /\ [Next]_vars => IInv'
  BY StepIInv
<1>. QED  BY <1>1, <1>2, PTL DEF Spec
----------------------------------------------------------------------------
(* What a run deletes *)

\* a person's commit on br goes, and no merge deleted its branch
EditDeleted(br) ==
    /\ phase # "idle" /\ head[br] # NoHead /\ head[br].by = "user"
    /\ head'[br] = NoHead /\ base' = base

MayDelete(br) ==
    head[br] = snapshot[br] => prList[br].state = "closed" \/ prList[br].head = head[br]

LEMMA DeletedByRun ==
    ASSUME IInv, NEW br \in Branches, EditDeleted(br), NEW x \in Branches, Delete(x)
    PROVE  br = x
<1>1. head' = [head EXCEPT ![x] = NoHead] /\ head[br] # NoHead /\ head'[br] = NoHead
  BY DEF Delete, EditDeleted
<1>. QED  BY <1>1 DEF IInv, TypeInv, Heads

LEMMA ProcessMayDelete ==
    ASSUME IInv, NEW br \in Branches, EditDeleted(br), NEW x \in Branches, ProcessBranch(x)
    PROVE  MayDelete(br)
<1>1. head[br] # NoHead /\ head[br].by = "user" /\ head'[br] = NoHead /\ base' = base
  BY DEF EditDeleted
<1>2. CASE HandlePr(x)
  <2>1. prList[x].state = "closed" /\ Delete(x)
    BY <1>1, <1>2 DEF HandlePr
  <2>. QED  BY <2>1, DeletedByRun DEF MayDelete
<1>3. CASE CreateFails(x)
  <2>1. br = x
    BY <1>3, DeletedByRun DEF CreateFails
  <2>2. work # NoWork /\ work.br = br /\ work.stage = "pr"
    BY <1>3, <2>1 DEF CreateFails, MayCreatePr, At
  <2>3. ASSUME head[br] = snapshot[br] PROVE prList[br].head = head[br]
    <3>1. /\ cloned
          /\ prList[br].head = snapshot[br] \/ ~IsUsers(origin[br]) \/ ~IsUsers(snapshot[br])
      BY <2>2 DEF IInv, PassInv
    <3>2. origin[br] = head[br]
      BY <1>1, <2>3, <3>1 DEF IInv, CloneInv
    <3>. QED  BY <1>1, <2>3, <3>1, <3>2 DEF IsUsers
  <2>. QED  BY <2>3 DEF MayDelete
<1>4. ASSUME StartBranch(x) PROVE FALSE
  <2>1. /\ ReopenPrs(prList, {x}) /\ phase = "write"
    BY <1>4 DEF StartBranch
  <2>2. /\ prList \in Prs /\ {x} \in SUBSET Branches
        /\ \A b \in Branches : prList[b].state = "autoclosed" => prs[b].state = "autoclosed"
    BY <2>1 DEF IInv, TypeInv, AutoInv
  <2>3. head'[br] = head[br] \/ head[br] = NoHead
    BY <2>1, <2>2, ReopenFacts
  <2>. QED  BY <1>1, <2>3
<1>5. ASSUME CommitBranch(x) PROVE FALSE
  <2>1. head' = [head EXCEPT ![x] = Made(x)]
    BY <1>5 DEF CommitBranch
  <2>2. Made(x) \in Head
    <3>1. FetchedBase[BaseOf[x]] \in Nat /\ rel[x] \in Nat /\ made[x] \in Nat
      BY FetchedFacts, ValueFacts, ConstantsAssumption
    <3>. QED  BY <3>1 DEF Made, Head
  <2>3. head'[br] = head[br] \/ head'[br] = Made(x)
    BY <2>1 DEF IInv, TypeInv, Heads
  <2>. QED  BY <1>1, <2>2, <2>3, NullsAssumption
<1>6. ASSUME MergeBranch(x) PROVE FALSE
  <2>1. base' = [base EXCEPT ![current] = base[current] + 1] /\ current \in Bases
    BY <1>6 DEF MergeBranch, IInv, TypeInv
  <2>2. base[current] \in Nat /\ base'[current] = base[current] + 1
    BY <2>1 DEF IInv, TypeInv
  <2>. QED  BY <1>1, <2>2
<1>7. ASSUME MergePr(x) PROVE FALSE
  <2>1. base' = [base EXCEPT ![BaseOf[x]] = base[BaseOf[x]] + 1] /\ BaseOf[x] \in Bases
    BY <1>7, ConstantsAssumption DEF MergePr
  <2>2. base[BaseOf[x]] \in Nat /\ base'[BaseOf[x]] = base[BaseOf[x]] + 1
    BY <2>1 DEF IInv, TypeInv
  <2>. QED  BY <1>1, <2>2
<1>8. CASE \/ SkipOverLimit(x) \/ EarlyReturn(x) \/ PrEdited(x) \/ RepositoryChanged(x)
           \/ \E skip \in BOOLEAN : KeepBranch(x, skip)
           \/ NoBranchAutomerge(x) \/ \E failed \in BOOLEAN : MergeBranchFails(x, failed)
           \/ WithoutPr(x) \/ WithExistingPr(x) \/ CreatePr(x) \/ LoseAnswer(x)
           \/ NoPrCreated(x) \/ NoMerge(x)
  <2>1. head' = head
    BY <1>8 DEF SkipOverLimit, EarlyReturn, PrEdited, RepositoryChanged, Abort, KeepBranch,
                NoBranchAutomerge, MergeBranchFails, WithoutPr, WithExistingPr, CreatePr,
                LoseAnswer, NoPrCreated, NoMerge, worldVars, remoteVars
  <2>. QED  BY <1>1, <2>1
<1>. QED  BY <1>2, <1>3, <1>4, <1>5, <1>6, <1>7, <1>8 DEF ProcessBranch

LEMMA PruneMayDelete ==
    ASSUME IInv, NEW br \in Branches, EditDeleted(br), NEW x \in Branches, PruneBranch(x)
    PROVE  MayDelete(br)
<1>1. head[br] # NoHead /\ head[br].by = "user"
  BY DEF EditDeleted
<1>2. br = x
  BY DeletedByRun DEF PruneBranch
<1>3. edited[br] = "unset"
  BY <1>2 DEF PruneBranch, IInv, EditInv
<1>4. (IF Cached(br) THEN saved[br].by ELSE Fetched[br].by) # "user"
  BY <1>2, <1>3 DEF PruneBranch, MayPrune, Modified
<1>5. ASSUME head[br] = snapshot[br] PROVE FALSE
  <2>1. Fetched[br] = head[br]
    BY <1>1, <1>5, FetchedFacts
  <2>. QED  BY <1>1, <1>4, <1>5, <2>1 DEF Cached
<1>. QED  BY <1>5 DEF MayDelete

LEMMA WorldKeepsEdits ==
    ASSUME IInv, NEW br \in Branches, EditDeleted(br), World
    PROVE  FALSE
<1>1. head[br] # NoHead /\ head'[br] = NoHead /\ base' = base
  BY DEF EditDeleted
<1>2. ASSUME NEW x \in Branches, UserPush(x) PROVE FALSE
  <2>. DEFINE h == [head[x] EXCEPT !.n = made'[x], !.by = "user"]
  <2>1. head[x] # NoHead /\ head' = [head EXCEPT ![x] = h] /\ made' = [made EXCEPT ![x] = made[x] + 1]
    BY <1>2 DEF UserPush
  <2>2. head[x] \in Head /\ made'[x] \in Nat
    BY <2>1, ValueFacts DEF IInv, TypeInv
  <2>3. h \in Head
    BY <2>2 DEF Head
  <2>. HIDE DEF h
  <2>4. head'[br] = head[br] \/ head'[br] = h
    BY <2>1 DEF IInv, TypeInv, Heads
  <2>. QED  BY <1>1, <2>3, <2>4, NullsAssumption
<1>3. ASSUME NEW x \in Branches, NEW delete \in BOOLEAN, UserMerges(x, delete) PROVE FALSE
  <2>1. base' = [base EXCEPT ![BaseOf[x]] = base[BaseOf[x]] + 1] /\ BaseOf[x] \in Bases
    BY <1>3, ConstantsAssumption DEF UserMerges
  <2>2. base[BaseOf[x]] \in Nat /\ base'[BaseOf[x]] = base[BaseOf[x]] + 1
    BY <2>1 DEF IInv, TypeInv
  <2>. QED  BY <1>1, <2>2
<1>4. CASE \/ \E b \in Bases : BaseMoves(b)
           \/ \E x \in Branches, result \in CheckResults : ChecksEnd(x, result)
           \/ \E x \in Branches : UserCloses(x) \/ Withdraw(x) \/ Return(x) \/ Release(x)
           \/ HourPasses
  <2>1. head' = head
    BY <1>4 DEF BaseMoves, ChecksEnd, UserCloses, Withdraw, Return, Release, HourPasses, remoteVars
  <2>. QED  BY <1>1, <2>1
<1>. QED  BY <1>2, <1>3, <1>4 DEF World

LEMMA StepMayDelete ==
    ASSUME IInv, [Next]_vars, NEW br \in Branches, EditDeleted(br)
    PROVE  MayDelete(br)
<1>1. head[br] # NoHead /\ head'[br] = NoHead
  BY DEF EditDeleted
<1>2. ASSUME SetLimits PROVE FALSE
  <2>1. ReopenPrs(prs, IF PrLimit = 0 THEN {} ELSE list)
    BY <1>2 DEF SetLimits
  <2>2. prs \in Prs /\ (IF PrLimit = 0 THEN {} ELSE list) \in SUBSET Branches
    BY DEF IInv, TypeInv
  <2>3. head'[br] = head[br] \/ head[br] = NoHead
    BY <2>1, <2>2, ReopenFacts
  <2>. QED  BY <1>1, <2>3
<1>3. CASE \/ InitRepo \/ Extract \/ \E lost \in SUBSET list : EndWrite(lost)
           \/ EndRun \/ Killed \/ UNCHANGED vars
           \/ \E x \in Branches : SkipPrune(x)
  <2>1. head' = head
    BY <1>3 DEF InitRepo, Extract, EndWrite, EndRun, Killed, Abort, SkipPrune, vars, worldVars, remoteVars
  <2>. QED  BY <1>1, <2>1
<1>. QED  BY <1>2, <1>3, ProcessMayDelete, PruneMayDelete, WorldKeepsEdits DEF Next, Run
----------------------------------------------------------------------------
(* The theorems *)

\* Every variable has its type in every reachable state, whatever the limits,
\* the configuration and the number of branches (workers/repository/process/write.ts).
THEOREM TypeCorrect == Spec => []TypeOK
<1>1. IInv => TypeOK
  BY DEF IInv, TypeInv, LoopInv, TypeOK, Heads, Prs, Lefts
<1>. QED  BY <1>1, Invariant, PTL

\* A process, in both of its attempts, pushes no more commits than allowed to
\* update branches without an alert (limitCommitsPerRun, pushCommit, processBranch).
THEOREM CommitsStayLimited == Spec => []CommitsLimited
<1>1. IInv => CommitsLimited
  BY DEF IInv, CommitInv, CommitsLimited
<1>. QED  BY <1>1, Invariant, PTL

\* The run deletes a person's commit that its list of branches shows only if the
\* pull request was closed, or ended on that commit (cleanUpBranches, deleteBranch,
\* processBranch's PrEdited returns).
THEOREM SeenEditsStay == Spec => SeenEditsNotDeleted
<1>1. IInv /\ [Next]_vars => \A br \in Branches : EditDeleted(br) => MayDelete(br)
  BY StepMayDelete
<1>2. IInv /\ [Next]_vars => [\A br \in Branches : EditDeleted(br) => MayDelete(br)]_vars
  BY <1>1
<1>3. Spec => [][\A br \in Branches : EditDeleted(br) => MayDelete(br)]_vars
  BY <1>2, Invariant, PTL DEF Spec
<1>4. (\A br \in Branches : EditDeleted(br) => MayDelete(br))
      <=> \A br \in Branches :
            /\ phase # "idle" /\ head[br] # NoHead /\ head[br].by = "user"
            /\ head'[br] = NoHead /\ base' = base
            /\ head[br] = snapshot[br]
            => prList[br].state = "closed" \/ prList[br].head = head[br]
  BY DEF EditDeleted, MayDelete
<1>. QED  BY <1>3, <1>4, PTL DEF SeenEditsNotDeleted
----------------------------------------------------------------------------
(* What the limits count *)

Processed(br) == work # NoWork /\ work.br = br

\* known to be open; opened, but the answer was lost; counted as existing
OpenKnown == {br \in list : Open(prList, br)}
Unanswered == {br \in Branches : prs[br].rel # prList[br].rel}
Counted == {br \in list : Exists(br) /\ ~(Processed(br) /\ ~work.existed)}

NoneInv ==
    \A br \in Branches :
        /\ rel[br] > 0
        /\ prs[br].state = "none" => prs[br].rel = 0 /\ prList[br].state = "none"
        /\ prList[br].state = "none" => prList[br].rel = 0

\* a pull request the run does not know of has another title than the one it knows
TitleInv ==
    /\ phase = "write" =>
          \A br \in Branches :
              /\ Open(prs, br) /\ ~Open(prList, br) => br \in Unanswered
              /\ br \in todo \/ Processed(br) => br \notin Unanswered
    /\ work # NoWork /\ work.stage \in {"automerge", "pr"} => ~AlreadyExisted(work.br)
    /\ work # NoWork /\ work.stage = "check" => (work.existed <=> Exists(work.br))

PrsInv ==
    phase = "write" /\ PrLimit # 0 =>
        /\ \A br \in list : prList[br].state # "autoclosed"
        /\ left.prs > 0 => left.prs + Cardinality(OpenKnown) <= PrLimit

HourInv ==
    phase = "write" /\ HourlyLimit # 0 /\ left.prs > 0 =>
        left.prs + fresh - Cardinality(Unanswered) <= HourlyLimit

BranchesInv ==
    phase = "write" /\ BranchLimit # 0 /\ left.branches > 0 =>
        left.branches + Cardinality(Counted) <= BranchLimit

LInv == NoneInv /\ TitleInv /\ PrsInv /\ HourInv /\ BranchesInv

LEMMA SubsetCard ==
    ASSUME NEW S, NEW T, IsFiniteSet(T), S \subseteq T
    PROVE  /\ Cardinality(S) \in Nat /\ Cardinality(T) \in Nat
           /\ Cardinality(S) <= Cardinality(T)
BY FS_Subset, FS_CardinalityType

LEMMA AddedCard ==
    ASSUME NEW S, NEW T, NEW x, IsFiniteSet(T)
    PROVE  /\ S \subseteq T \cup {x} => Cardinality(S) <= Cardinality(T) + 1
           /\ x \notin T /\ IsFiniteSet(S) /\ T \cup {x} \subseteq S =>
                 Cardinality(T) + 1 <= Cardinality(S)
<1>1. /\ IsFiniteSet(T \cup {x}) /\ Cardinality(T) \in Nat
      /\ x \in T => Cardinality(T \cup {x}) = Cardinality(T)
      /\ x \notin T => Cardinality(T \cup {x}) = Cardinality(T) + 1
  BY FS_AddElement, FS_CardinalityType
<1>2. S \subseteq T \cup {x} => Cardinality(S) <= Cardinality(T \cup {x}) /\ Cardinality(S) \in Nat
  BY <1>1, SubsetCard
<1>3. IsFiniteSet(S) /\ T \cup {x} \subseteq S =>
         Cardinality(T \cup {x}) <= Cardinality(S) /\ Cardinality(S) \in Nat
  BY <1>1, SubsetCard
<1>4. Cardinality(T \cup {x}) \in Nat /\ Cardinality(T \cup {x}) <= Cardinality(T) + 1
  BY <1>1
<1>. QED  BY <1>1, <1>2, <1>3, <1>4

FiniteInv ==
    /\ IsFiniteSet(OpenKnown) /\ IsFiniteSet(Unanswered) /\ IsFiniteSet(Counted)
    /\ Cardinality(OpenKnown) \in Nat /\ Cardinality(Unanswered) \in Nat
    /\ Cardinality(Counted) \in Nat

LEMMA FiniteCounts == IInv => FiniteInv
<1>. SUFFICES ASSUME IInv PROVE FiniteInv
  OBVIOUS
<1>1. IsFiniteSet(Branches) /\ list \subseteq Branches
  BY ConstantsAssumption DEF IInv, TypeInv
<1>2. OpenKnown \subseteq Branches /\ Unanswered \subseteq Branches /\ Counted \subseteq Branches
  BY <1>1 DEF OpenKnown, Unanswered, Counted
<1>. QED  BY <1>1, <1>2, FS_Subset, FS_CardinalityType DEF FiniteInv

\* each count goes down, or what is left of the limit
LEMMA PrsKept ==
    ASSUME IInv, PrsInv, IInv', phase = "write", list' = list,
           \A br \in list : prList'[br].state = "autoclosed" => prList[br].state = "autoclosed",
           PrLimit # 0 =>
              \/ left'.prs <= left.prs /\ OpenKnown' \subseteq OpenKnown
              \/ left'.prs = left.prs - 1 /\ \E br \in Branches : OpenKnown' \subseteq OpenKnown \cup {br}
    PROVE  PrsInv'
<1>. SUFFICES ASSUME PrLimit # 0, left'.prs > 0
              PROVE  left'.prs + Cardinality(OpenKnown') <= PrLimit
  BY DEF PrsInv
<1>1. /\ left.prs \in Int /\ left'.prs \in Int /\ PrLimit \in Nat
      /\ IsFiniteSet(OpenKnown) /\ Cardinality(OpenKnown) \in Nat
  BY FiniteCounts, ConstantsAssumption DEF FiniteInv, IInv, TypeInv, Lefts
<1>2. Cardinality(OpenKnown') \in Nat
  <2>1. IInv' => FiniteInv'
    BY FiniteCounts, PTL
  <2>. QED  BY <2>1 DEF FiniteInv
<1>3. left.prs > 0
  BY <1>1
<1>4. left.prs + Cardinality(OpenKnown) <= PrLimit
  BY <1>3 DEF PrsInv
<1>5. CASE left'.prs <= left.prs /\ OpenKnown' \subseteq OpenKnown
  <2>1. Cardinality(OpenKnown') <= Cardinality(OpenKnown)
    BY <1>1, <1>5, SubsetCard
  <2>. QED  BY <1>1, <1>2, <1>4, <1>5, <2>1
<1>6. CASE left'.prs = left.prs - 1 /\ \E br \in Branches : OpenKnown' \subseteq OpenKnown \cup {br}
  <2>1. Cardinality(OpenKnown') <= Cardinality(OpenKnown) + 1
    BY <1>1, <1>6, AddedCard
  <2>. QED  BY <1>1, <1>2, <1>4, <1>6, <2>1
<1>. QED  BY <1>5, <1>6

LEMMA HourKept ==
    ASSUME IInv, HourInv, IInv', phase = "write",
           HourlyLimit # 0 =>
              \/ left'.prs <= left.prs /\ fresh' <= fresh /\ Unanswered \subseteq Unanswered'
              \/ left'.prs = left.prs - 1 /\ fresh' = fresh + 1 /\ Unanswered \subseteq Unanswered'
              \/ /\ left'.prs = left.prs /\ fresh' = fresh + 1
                 /\ \E br \in Branches \ Unanswered : Unanswered \cup {br} \subseteq Unanswered'
    PROVE  HourInv'
<1>. SUFFICES ASSUME HourlyLimit # 0, left'.prs > 0
              PROVE  left'.prs + fresh' - Cardinality(Unanswered') <= HourlyLimit
  BY DEF HourInv
<1>1. /\ left.prs \in Int /\ left'.prs \in Int /\ HourlyLimit \in Nat /\ fresh \in Nat /\ fresh' \in Nat
      /\ IsFiniteSet(Unanswered) /\ Cardinality(Unanswered) \in Nat
  BY FiniteCounts, ConstantsAssumption DEF FiniteInv, IInv, TypeInv, Lefts
<1>2. IsFiniteSet(Unanswered') /\ Cardinality(Unanswered') \in Nat
  <2>1. IInv' => FiniteInv'
    BY FiniteCounts, PTL
  <2>. QED  BY <2>1 DEF FiniteInv
<1>3. left.prs > 0
  BY <1>1
<1>4. left.prs + fresh - Cardinality(Unanswered) <= HourlyLimit
  BY <1>3 DEF HourInv
<1>5. Unanswered \subseteq Unanswered' => Cardinality(Unanswered) <= Cardinality(Unanswered')
  BY <1>2, SubsetCard
<1>6. ASSUME NEW br \in Branches \ Unanswered, Unanswered \cup {br} \subseteq Unanswered'
      PROVE  Cardinality(Unanswered) + 1 <= Cardinality(Unanswered')
  BY <1>1, <1>2, <1>6, AddedCard
<1>. QED  BY <1>1, <1>2, <1>4, <1>5, <1>6

LEMMA BranchesKept ==
    ASSUME IInv, BranchesInv, IInv', phase = "write",
           \/ left'.branches <= left.branches /\ Counted' \subseteq Counted
           \/ left'.branches = left.branches - 1 /\ \E br \in Branches : Counted' \subseteq Counted \cup {br}
    PROVE  BranchesInv'
<1>. SUFFICES ASSUME BranchLimit # 0, left'.branches > 0
              PROVE  left'.branches + Cardinality(Counted') <= BranchLimit
  BY DEF BranchesInv
<1>1. /\ left.branches \in Int /\ left'.branches \in Int /\ BranchLimit \in Nat
      /\ IsFiniteSet(Counted) /\ Cardinality(Counted) \in Nat
  BY FiniteCounts, ConstantsAssumption DEF FiniteInv, IInv, TypeInv, Lefts
<1>2. Cardinality(Counted') \in Nat
  <2>1. IInv' => FiniteInv'
    BY FiniteCounts, PTL
  <2>. QED  BY <2>1 DEF FiniteInv
<1>3. left.branches > 0
  BY <1>1
<1>4. left.branches + Cardinality(Counted) <= BranchLimit
  BY <1>3 DEF BranchesInv
<1>5. CASE left'.branches <= left.branches /\ Counted' \subseteq Counted
  <2>1. Cardinality(Counted') <= Cardinality(Counted)
    BY <1>1, <1>5, SubsetCard
  <2>. QED  BY <1>1, <1>2, <1>4, <1>5, <2>1
<1>6. CASE left'.branches = left.branches - 1 /\ \E br \in Branches : Counted' \subseteq Counted \cup {br}
  <2>1. Cardinality(Counted') <= Cardinality(Counted) + 1
    BY <1>1, <1>6, AddedCard
  <2>. QED  BY <1>1, <1>2, <1>4, <1>6, <2>1
<1>. QED  BY <1>5, <1>6
----------------------------------------------------------------------------
(* The counts are kept *)

LEMMA CountedFacts ==
    ASSUME NEW l \in Lefts, work \in Work, NEW heads
    PROVE  /\ CountBranch(l, heads).prs = l.prs
           /\ \/ CountBranch(l, heads).branches = l.branches - 1
              \/ /\ work.existed \/ heads[work.br] = NoHead
                 /\ CountBranch(l, heads).branches = l.branches
BY DEF CountBranch, Lefts, Work

LEMMA OutsideLInv ==
    ASSUME IInv', phase' # "write", NoneInv'
    PROVE  LInv'
<1>1. work' = NoWork
  BY DEF IInv, LoopInv
<1>. QED  BY <1>1 DEF LInv, TitleInv, PrsInv, HourInv, BranchesInv

LEMMA NoneKept ==
    ASSUME NoneInv, UNCHANGED rel, prList' = prList \/ prList' = NoPrs,
           \A br \in Branches : /\ prs'[br].state = "none" <=> prs[br].state = "none"
                                /\ prs'[br].state = "none" => prs'[br].rel = prs[br].rel
    PROVE  NoneInv'
<1>1. \A br \in Branches : NoPrs[br].state = "none" /\ NoPrs[br].rel = 0
  BY DEF NoPrs, NoPr
<1>. QED  BY <1>1 DEF NoneInv

\* processBranch returns
LEMMA LeaveLInv ==
    ASSUME IInv, LInv, IInv', work # NoWork, work' = NoWork, left'.prs = left.prs,
           \/ left'.branches = left.branches - 1
           \/ left'.branches = left.branches /\ (work.existed \/ snapshot'[work.br] = NoHead),
           \A br \in Branches : br # work.br => snapshot'[br] \in {snapshot[br], NoHead},
           work.existed /\ snapshot'[work.br] # NoHead => Exists(work.br),
           UNCHANGED <<prs, prList, rel, fresh, phase, list, todo>>
    PROVE  LInv'
<1>1. phase = "write" /\ work.br \in Branches /\ list \subseteq Branches
      /\ left.prs \in Int /\ fresh \in Nat /\ left.branches \in Int
  BY WorkFacts DEF IInv, TypeInv, Lefts
<1>2. NoneInv'
  BY NoneKept DEF LInv
<1>3. TitleInv'
  BY DEF LInv, TitleInv, Processed, Unanswered
<1>4. PrsInv'
  <2>1. OpenKnown' = OpenKnown
    BY DEF OpenKnown
  <2>. QED  BY <1>1, <2>1, PrsKept DEF LInv
<1>5. HourInv'
  <2>1. Unanswered' = Unanswered
    BY DEF Unanswered
  <2>. QED  BY <1>1, <2>1, HourKept DEF LInv
<1>6. BranchesInv'
  <2>1. Counted' \subseteq Counted \cup {work.br}
    BY <1>1 DEF Counted, Exists, Processed
  <2>2. work.existed \/ snapshot'[work.br] = NoHead => Counted' \subseteq Counted
    BY <1>1 DEF Counted, Exists, Processed
  <2>3. \/ left'.branches <= left.branches /\ Counted' \subseteq Counted
        \/ left'.branches = left.branches - 1 /\ \E br \in Branches : Counted' \subseteq Counted \cup {br}
    BY <1>1, <2>1, <2>2
  <2>. QED  BY <1>1, <2>3, BranchesKept DEF LInv
<1>. QED  BY <1>2, <1>3, <1>4, <1>5, <1>6 DEF LInv

\* processBranch goes on
LEMMA GotoLInv ==
    ASSUME IInv, LInv, IInv', work # NoWork, work' # NoWork, work'.br = work.br,
           work'.existed = work.existed, work'.stage # "check",
           work'.stage \in {"automerge", "pr"} => ~AlreadyExisted(work.br),
           \A br \in Branches : br # work.br => snapshot'[br] = snapshot[br],
           work.existed => (Exists(work.br) <=> snapshot'[work.br] # NoHead),
           left'.prs = left.prs, left'.branches = left.branches,
           UNCHANGED <<prs, prList, rel, fresh, phase, list, todo>>
    PROVE  LInv'
<1>1. phase = "write" /\ work.br \in Branches /\ list \subseteq Branches
      /\ left.prs \in Int /\ fresh \in Nat /\ left.branches \in Int
  BY WorkFacts DEF IInv, TypeInv, Lefts
<1>2. NoneInv'
  BY NoneKept DEF LInv
<1>3. TitleInv'
  BY DEF LInv, TitleInv, Processed, Unanswered, AlreadyExisted
<1>4. PrsInv'
  <2>1. OpenKnown' = OpenKnown
    BY DEF OpenKnown
  <2>. QED  BY <1>1, <2>1, PrsKept DEF LInv
<1>5. HourInv'
  <2>1. Unanswered' = Unanswered
    BY DEF Unanswered
  <2>. QED  BY <1>1, <2>1, HourKept DEF LInv
<1>6. BranchesInv'
  <2>1. Counted' \subseteq Counted
    BY <1>1 DEF Counted, Exists, Processed
  <2>. QED  BY <1>1, <2>1, BranchesKept DEF LInv
<1>. QED  BY <1>2, <1>3, <1>4, <1>5, <1>6 DEF LInv

\* the work goes on, or not, with other pull requests; and what is left does not grow
LEMMA PrsLInv ==
    ASSUME IInv, LInv, IInv', work # NoWork, NoneInv',
           \A br \in Branches \ {work.br} : prs'[br] = prs[br] /\ prList'[br] = prList[br],
           Open(prs', work.br) /\ ~Open(prList', work.br) => work.br \in Unanswered',
           work' # NoWork => /\ work'.br = work.br /\ work'.existed = work.existed
                             /\ work'.stage = "merge" /\ work.br \notin Unanswered',
           \A br \in Branches : br # work.br => snapshot'[br] = snapshot[br],
           snapshot'[work.br] \in {snapshot[work.br], NoHead},
           PrsInv', HourInv',
           \/ work' # NoWork /\ left'.branches <= left.branches
           \/ work' = NoWork /\ left'.branches = left.branches - 1
           \/ /\ work' = NoWork /\ left'.branches = left.branches
              /\ work.existed \/ snapshot'[work.br] = NoHead,
           todo' \subseteq todo, UNCHANGED <<rel, phase, list>>
    PROVE  LInv'
<1>1. phase = "write" /\ work.br \in Branches /\ list \subseteq Branches /\ work.br \notin todo
      /\ todo \subseteq Branches /\ left.branches \in Int
  BY WorkFacts DEF IInv, TypeInv, Lefts
<1>2. \A br \in Branches \ {work.br} : br \in Unanswered' <=> br \in Unanswered
  BY DEF Unanswered
<1>3. TitleInv'
  <2>1. ASSUME NEW br \in Branches, Open(prs', br), ~Open(prList', br) PROVE br \in Unanswered'
    BY <1>1, <1>2, <2>1 DEF LInv, TitleInv, Open
  <2>2. ASSUME NEW br \in Branches, br \in todo' \/ (work' # NoWork /\ work'.br = br)
        PROVE  br \notin Unanswered'
    BY <1>1, <1>2, <2>2 DEF LInv, TitleInv
  <2>. QED  BY <2>1, <2>2 DEF TitleInv, Processed
<1>4. BranchesInv'
  <2>1. Counted' \subseteq Counted \cup {work.br}
    BY <1>1 DEF Counted, Exists, Processed
  <2>2. work' # NoWork \/ work.existed \/ snapshot'[work.br] = NoHead => Counted' \subseteq Counted
    BY <1>1 DEF Counted, Exists, Processed
  <2>3. \/ left'.branches <= left.branches /\ Counted' \subseteq Counted
        \/ left'.branches = left.branches - 1 /\ \E br \in Branches : Counted' \subseteq Counted \cup {br}
    BY <1>1, <2>1, <2>2
  <2>. QED  BY <1>1, <2>3, BranchesKept DEF LInv
<1>. QED  BY <1>3, <1>4 DEF LInv
----------------------------------------------------------------------------
(* The limits are kept, action by action *)

LEMMA QuietLInv ==
    ASSUME IInv, LInv, IInv', UNCHANGED runVars, fresh' <= fresh,
           phase = "write" => rel' = rel,
           \A br \in Branches : /\ rel'[br] > 0
                                /\ prs'[br].state = "none" <=> prs[br].state = "none"
                                /\ prs'[br].rel = prs[br].rel
                                /\ prs'[br].state = "open" => prs[br].state = "open"
    PROVE  LInv'
<1>1. UNCHANGED <<phase, snapshot, prList, left, list, todo, work>>
  BY DEF runVars, gitVars
<1>2. NoneInv'
  BY <1>1 DEF LInv, NoneInv
<1>3. CASE phase # "write"
  BY <1>1, <1>2, <1>3, OutsideLInv
<1>4. CASE phase = "write"
  <2>1. Unanswered' = Unanswered /\ OpenKnown' = OpenKnown /\ Counted' = Counted
    BY <1>1 DEF Unanswered, OpenKnown, Counted, Exists, Processed
  <2>2. TitleInv'
    <3>1. \A br \in Branches : Open(prs', br) => Open(prs, br)
      BY DEF Open
    <3>. QED  BY <1>1, <1>4, <2>1, <3>1 DEF LInv, TitleInv, Processed, Open, AlreadyExisted, Exists
  <2>3. left.prs \in Int /\ left.branches \in Int
    BY DEF IInv, TypeInv, Lefts
  <2>4. PrsInv'
    BY <1>1, <1>4, <2>1, <2>3, PrsKept DEF LInv
  <2>5. HourInv'
    BY <1>1, <1>4, <2>1, <2>3, HourKept DEF LInv
  <2>6. BranchesInv'
    BY <1>1, <1>4, <2>1, <2>3, BranchesKept DEF LInv
  <2>. QED  BY <1>2, <2>2, <2>4, <2>5, <2>6 DEF LInv
<1>. QED  BY <1>3, <1>4

LEMMA EndedLInv ==
    ASSUME IInv, LInv, IInv', NEW br \in Branches, NEW state \in {"closed", "merged"},
           prs[br].state = "open",
           prs' = [prs EXCEPT ![br] = [prs[br] EXCEPT !.state = state, !.head = head[br]]],
           UNCHANGED <<rel, fresh, runVars>>
    PROVE  LInv'
<1>. DEFINE pr == [prs[br] EXCEPT !.state = state, !.head = head[br]]
<1>1. pr.state = state /\ pr.rel = prs[br].rel
  <2>1. prs[br] \in Pr
    BY ValueFacts
  <2>. QED  BY <2>1 DEF Pr
<1>2. prs' = [prs EXCEPT ![br] = pr]
  OBVIOUS
<1>. HIDE DEF pr
<1>3. prs'[br] = pr /\ \A b \in Branches : b # br => prs'[b] = prs[b]
  BY <1>2 DEF IInv, TypeInv, Prs
<1>4. \A b \in Branches : /\ rel'[b] > 0
                          /\ prs'[b].state = "none" <=> prs[b].state = "none"
                          /\ prs'[b].rel = prs[b].rel
                          /\ prs'[b].state = "open" => prs[b].state = "open"
  BY <1>1, <1>3 DEF LInv, NoneInv
<1>5. fresh' <= fresh
  BY DEF IInv, TypeInv
<1>. QED  BY <1>4, <1>5, QuietLInv

LEMMA WorldLInv == IInv /\ LInv /\ IInv' /\ World => LInv'
<1>. SUFFICES ASSUME IInv, LInv, IInv', World PROVE LInv'
  OBVIOUS
<1>0. fresh \in Nat /\ (\A br \in Branches : rel[br] \in Nat /\ rel[br] > 0)
  BY DEF IInv, TypeInv, LInv, NoneInv
<1>1. CASE UNCHANGED <<prs, rel, runVars>> /\ fresh' \in {fresh, 0}
  BY <1>0, <1>1, QuietLInv
<1>2. ASSUME NEW br \in Branches, UserCloses(br) PROVE LInv'
  BY <1>2, EndedLInv DEF UserCloses
<1>3. ASSUME NEW br \in Branches, NEW delete \in BOOLEAN, UserMerges(br, delete) PROVE LInv'
  BY <1>3, EndedLInv DEF UserMerges
<1>4. ASSUME NEW br \in Branches, Release(br) PROVE LInv'
  <2>1. /\ phase = "idle" /\ rel' = [rel EXCEPT ![br] = rel[br] + 1]
        /\ UNCHANGED <<prs, fresh, runVars>>
    BY <1>4 DEF Release, remoteVars
  <2>2. \A b \in Branches : rel'[b] > 0
    BY <1>0, <2>1 DEF IInv, TypeInv
  <2>. QED  BY <1>0, <2>1, <2>2, QuietLInv
<1>5. CASE \/ \E b \in Bases : BaseMoves(b)
           \/ \E br \in Branches, result \in CheckResults : ChecksEnd(br, result)
           \/ \E br \in Branches : UserPush(br) \/ Withdraw(br) \/ Return(br)
           \/ HourPasses
  <2>1. UNCHANGED <<prs, rel, runVars>> /\ fresh' \in {fresh, 0}
    BY <1>5 DEF BaseMoves, ChecksEnd, UserPush, Withdraw, Return, HourPasses, remoteVars
  <2>. QED  BY <1>1, <2>1
<1>. QED  BY <1>2, <1>3, <1>4, <1>5 DEF World

\* steps outside the loop, and those that end it
LEMMA EndsLInv ==
    ASSUME IInv, LInv, IInv',
           \/ InitRepo \/ Extract \/ \E lost \in SUBSET list : EndWrite(lost)
           \/ \E br \in Branches : PruneBranch(br) \/ SkipPrune(br)
           \/ RunOver /\ UNCHANGED <<worldVars, saved, merged>>
    PROVE  LInv'
<1>1. CASE \/ InitRepo \/ Extract \/ \E lost \in SUBSET list : EndWrite(lost)
           \/ \E br \in Branches : SkipPrune(br)
  <2>1. UNCHANGED <<prs, rel, prList>>
    BY <1>1 DEF InitRepo, Extract, EndWrite, SkipPrune, worldVars, remoteVars
  <2>2. phase' # "write"
    BY <1>1 DEF InitRepo, Extract, EndWrite, SkipPrune
  <2>3. NoneInv'
    BY <2>1, NoneKept DEF LInv
  <2>. QED  BY <2>2, <2>3, OutsideLInv
<1>2. ASSUME NEW br \in Branches, PruneBranch(br) PROVE LInv'
  <2>1. /\ phase' # "write" /\ UNCHANGED <<rel, prList>>
        /\ prs' = prs \/ prs' = [prs EXCEPT ![br] = AutoClosed(br)]
    BY <1>2 DEF PruneBranch
  <2>2. /\ AutoClosed(br).state = "none" <=> prs[br].state = "none"
        /\ AutoClosed(br).state = "none" => AutoClosed(br).rel = prs[br].rel
    <3>1. prs[br] \in Pr
      BY ValueFacts
    <3>2. CASE prs[br].state = "open"
      <4>. DEFINE pr == [prs[br] EXCEPT !.state = "autoclosed", !.head = head[br]]
      <4>1. AutoClosed(br) = pr
        BY <3>2 DEF AutoClosed
      <4>2. pr.state = "autoclosed" /\ pr.rel = prs[br].rel
        BY <3>1 DEF Pr
      <4>. QED  BY <3>2, <4>1, <4>2
    <3>3. CASE prs[br].state = "closed"
      <4>. DEFINE pr == [prs[br] EXCEPT !.state = "autoclosed"]
      <4>1. AutoClosed(br) = pr
        BY <3>3 DEF AutoClosed
      <4>2. pr.state = "autoclosed" /\ pr.rel = prs[br].rel
        BY <3>1 DEF Pr
      <4>. QED  BY <3>3, <4>1, <4>2
    <3>4. CASE prs[br].state = "merged"
      <4>. DEFINE pr == [prs[br] EXCEPT !.rel = 0]
      <4>1. AutoClosed(br) = pr
        BY <3>4 DEF AutoClosed
      <4>2. pr.state = "merged"
        BY <3>1, <3>4 DEF Pr
      <4>. QED  BY <3>4, <4>1, <4>2
    <3>5. CASE prs[br].state \notin {"open", "closed", "merged"}
      BY <3>5 DEF AutoClosed
    <3>. QED  BY <3>2, <3>3, <3>4, <3>5
  <2>3. \A b \in Branches : prs'[b] = prs[b] \/ (b = br /\ prs'[b] = AutoClosed(br))
    BY <2>1 DEF IInv, TypeInv, Prs
  <2>4. NoneInv'
    BY <2>1, <2>2, <2>3, NoneKept DEF LInv
  <2>. QED  BY <2>1, <2>4, OutsideLInv
<1>3. CASE RunOver /\ UNCHANGED <<worldVars, saved, merged>>
  <2>1. phase' # "write" /\ prList' = NoPrs /\ UNCHANGED <<prs, rel>>
    BY <1>3 DEF RunOver, AttemptOver, worldVars, remoteVars
  <2>2. NoneInv'
    BY <2>1, NoneKept DEF LInv
  <2>. QED  BY <2>1, <2>2, OutsideLInv
<1>. QED  BY <1>1, <1>2, <1>3

LEMMA RemainingFacts ==
    /\ \A m, c \in Nat : Remaining(m, c) \in Nat /\ (Remaining(m, c) > 0 => Remaining(m, c) + c <= m)
    /\ \A x, y \in Nat : MinOf(x, y) \in Nat /\ MinOf(x, y) <= x /\ MinOf(x, y) <= y
BY DEF Remaining, MinOf

LEMMA SetLimitsLInv == IInv /\ LInv /\ IInv' /\ SetLimits => LInv'
<1>. SUFFICES ASSUME IInv, LInv, IInv', SetLimits PROVE LInv'
  OBVIOUS
<1>. DEFINE S == IF PrLimit = 0 THEN {} ELSE list
            n == Cardinality({br \in list : Open(prList', br)})
            k == Cardinality({br \in list : Exists(br)})
            p == ConcurrentPrsRemaining(prList')
            r == ConcurrentBranchesRemaining
            h == PrHourlyRemaining
<1>1. /\ phase = "limits" /\ phase' = "write" /\ ReopenPrs(prs, S)
      /\ left' = [left EXCEPT !.prs = MinOf(h, p), !.branches = MinOf(h, r)]
      /\ UNCHANGED <<rel, fresh, list, work, snapshot>>
  BY DEF SetLimits, gitVars
<1>2. S \in SUBSET Branches /\ prs \in Prs /\ work = NoWork /\ work' = NoWork
  BY <1>1 DEF IInv, TypeInv, LoopInv
<1>3. \A br \in Branches :
         /\ prList'[br] = prs'[br]
         /\ prs'[br] = prs[br] \/ prs'[br].state = "open"
         /\ br \in S => prList'[br].state # "autoclosed"
  BY <1>1, <1>2, ReopenFacts
<1>4. NoneInv'
  BY <1>1, <1>3 DEF LInv, NoneInv
<1>5. Unanswered' = {}
  BY <1>3 DEF Unanswered
<1>6. TitleInv'
  BY <1>1, <1>2, <1>3, <1>5 DEF TitleInv, Processed, Open
<1>7. n = Cardinality(OpenKnown)' /\ k = Cardinality(Counted)' /\ n \in Nat /\ k \in Nat
  <2>1. {br \in list : Open(prList', br)} = OpenKnown'
    BY <1>1 DEF OpenKnown
  <2>2. {br \in list : Exists(br)} = Counted'
    BY <1>1, <1>2 DEF Counted, Exists, Processed
  <2>3. IInv' => FiniteInv'
    BY FiniteCounts, PTL
  <2>. QED  BY <2>1, <2>2, <2>3 DEF FiniteInv
<1>8. /\ p = (IF PrLimit = 0 THEN NoLimit ELSE Remaining(PrLimit, n))
      /\ r = (IF BranchLimit = 0 THEN NoLimit ELSE Remaining(BranchLimit, k))
      /\ h = (IF HourlyLimit = 0 THEN NoLimit ELSE Remaining(HourlyLimit, fresh))
  BY Zenon DEF ConcurrentPrsRemaining, ConcurrentBranchesRemaining, PrHourlyRemaining
<1>. HIDE DEF n, k, p, r, h
<1>9. PrLimit \in Nat /\ BranchLimit \in Nat /\ HourlyLimit \in Nat /\ fresh \in Nat /\ left \in Lefts
  BY ConstantsAssumption DEF IInv, TypeInv
<1>10. p \in Nat /\ r \in Nat /\ h \in Nat
  BY <1>7, <1>8, <1>9, RemainingFacts DEF NoLimit
<1>11. left'.prs = MinOf(h, p) /\ left'.branches = MinOf(h, r)
  BY <1>1, <1>9 DEF Lefts
<1>12. /\ left'.prs \in Nat /\ left'.branches \in Nat
       /\ left'.prs <= h /\ left'.prs <= p /\ left'.branches <= r
  BY <1>10, <1>11, RemainingFacts
<1>13. PrsInv'
  <2>. SUFFICES ASSUME PrLimit # 0
                PROVE  /\ \A br \in list : prList'[br].state # "autoclosed"
                       /\ left'.prs > 0 => left'.prs + Cardinality(OpenKnown)' <= PrLimit
    BY <1>1 DEF PrsInv
  <2>1. \A br \in list : prList'[br].state # "autoclosed"
    BY <1>2, <1>3
  <2>2. p > 0 => p + n <= PrLimit
    BY <1>7, <1>8, <1>9, RemainingFacts
  <2>. QED  BY <1>7, <1>9, <1>10, <1>12, <2>1, <2>2
<1>14. HourInv'
  <2>. SUFFICES ASSUME HourlyLimit # 0, left'.prs > 0
                PROVE  left'.prs + fresh - Cardinality(Unanswered)' <= HourlyLimit
    BY <1>1 DEF HourInv
  <2>1. Cardinality(Unanswered)' = 0
    BY <1>5, FS_EmptySet
  <2>2. h > 0 => h + fresh <= HourlyLimit
    BY <1>8, <1>9, RemainingFacts
  <2>. QED  BY <1>9, <1>10, <1>12, <2>1, <2>2
<1>15. BranchesInv'
  <2>. SUFFICES ASSUME BranchLimit # 0, left'.branches > 0
                PROVE  left'.branches + Cardinality(Counted)' <= BranchLimit
    BY <1>1 DEF BranchesInv
  <2>1. r > 0 => r + k <= BranchLimit
    BY <1>7, <1>8, <1>9, RemainingFacts
  <2>. QED  BY <1>7, <1>9, <1>10, <1>12, <2>1
<1>. QED  BY <1>4, <1>6, <1>13, <1>14, <1>15 DEF LInv

LEMMA StartBranchLInv ==
    ASSUME NEW br \in Branches PROVE IInv /\ LInv /\ IInv' /\ StartBranch(br) => LInv'
<1>. SUFFICES ASSUME IInv, LInv, IInv', StartBranch(br) PROVE LInv'
  OBVIOUS
<1>1. /\ phase = "write" /\ work = NoWork /\ br \in todo /\ todo' = todo \ {br}
      /\ ReopenPrs(prList, {br})
      /\ work' = [br |-> br, stage |-> "check", existed |-> Exists(br), forcePr |-> FALSE]
      /\ UNCHANGED <<rel, fresh, phase, snapshot, left, list>>
  BY DEF StartBranch, gitVars
<1>2. /\ prList \in Prs /\ {br} \in SUBSET Branches /\ br \in list /\ list \subseteq Branches
      /\ \A b \in Branches : prList[b].state = "autoclosed" <=> prs[b].state = "autoclosed"
  BY <1>1 DEF IInv, TypeInv, AutoInv, LoopInv
<1>3. \A b \in Branches :
         \/ prs'[b] = prs[b] /\ prList'[b] = prList[b]
         \/ /\ b = br /\ prList[b].state = "autoclosed"
            /\ prs'[b].state = "open" /\ prList'[b] = prs'[b]
  BY <1>1, <1>2, ReopenFacts
<1>4. work'.br = br /\ work'.stage = "check" /\ work'.existed = Exists(br) /\ Exists(br)' = Exists(br)
  BY <1>1 DEF Exists
<1>5. NoneInv'
  BY <1>1, <1>3 DEF LInv, NoneInv
<1>6. br \notin Unanswered
  BY <1>1 DEF LInv, TitleInv
<1>7. Unanswered' = Unanswered
  BY <1>3, <1>6 DEF Unanswered
<1>8. TitleInv'
  <2>1. ASSUME NEW b \in Branches, Open(prs', b), ~Open(prList', b) PROVE b \in Unanswered'
    BY <1>1, <1>3, <1>7, <2>1 DEF LInv, TitleInv, Open
  <2>2. ASSUME NEW b \in Branches, b \in todo' \/ Processed(b)' PROVE b \notin Unanswered'
    BY <1>1, <1>4, <1>6, <1>7, <2>2 DEF LInv, TitleInv, Processed
  <2>. QED  BY <1>4, <2>1, <2>2 DEF TitleInv
<1>9. left.prs \in Int /\ left.branches \in Int /\ fresh \in Nat
  BY DEF IInv, TypeInv, Lefts
<1>10. PrsInv'
  <2>1. ASSUME PrLimit # 0 PROVE OpenKnown' \subseteq OpenKnown
    <3>1. prList[br].state # "autoclosed"
      BY <1>1, <1>2, <2>1 DEF LInv, PrsInv
    <3>2. \A b \in Branches : prList'[b] = prList[b]
      BY <1>3, <3>1
    <3>. QED  BY <1>1, <1>2, <3>2 DEF OpenKnown, Open
  <2>2. \A b \in list : prList'[b].state = "autoclosed" => prList[b].state = "autoclosed"
    BY <1>2, <1>3
  <2>. QED  BY <1>1, <1>9, <2>1, <2>2, PrsKept DEF LInv
<1>11. HourInv'
  BY <1>1, <1>7, <1>9, HourKept DEF LInv
<1>12. BranchesInv'
  <2>1. Counted' \subseteq Counted
    BY <1>1 DEF Counted, Processed, Exists
  <2>. QED  BY <1>1, <1>9, <2>1, BranchesKept DEF LInv
<1>. QED  BY <1>5, <1>8, <1>10, <1>11, <1>12 DEF LInv

LEMMA ReturnsLInv ==
    ASSUME NEW br \in Branches, IInv, LInv, IInv',
           \/ HandlePr(br) \/ SkipOverLimit(br) \/ EarlyReturn(br) \/ PrEdited(br)
           \/ WithoutPr(br) \/ NoPrCreated(br) \/ NoMerge(br) \/ CreateFails(br)
    PROVE  LInv'
<1>1. /\ work # NoWork /\ work.br = br /\ Leave(snapshot')
      /\ Delete(br) \/ UNCHANGED snapshot
      /\ UNCHANGED <<prs, prList, rel, fresh, phase, list, todo>>
  <2>1. CASE SkipOverLimit(br) \/ EarlyReturn(br) \/ WithoutPr(br) \/ NoPrCreated(br) \/ NoMerge(br)
    <3>1. UNCHANGED <<snapshot, prs, prList, rel, fresh, phase, list, todo>>
      BY <2>1 DEF SkipOverLimit, EarlyReturn, WithoutPr, NoPrCreated, NoMerge, worldVars, remoteVars,
                  gitVars
    <3>2. work # NoWork /\ work.br = br /\ Leave(snapshot)
      BY <2>1 DEF SkipOverLimit, EarlyReturn, WithoutPr, NoPrCreated, MayCreatePr, NoMerge, At
    <3>. QED  BY <3>1, <3>2
  <2>2. CASE PrEdited(br)
    BY <2>2 DEF PrEdited, Proceeds, At, worldVars, remoteVars, gitVars
  <2>3. CASE HandlePr(br) \/ CreateFails(br)
    BY <2>3 DEF HandlePr, CreateFails, MayCreatePr, At
  <2>. QED  BY <2>1, <2>2, <2>3
<1>2. \A b \in Branches : snapshot'[b] \in {snapshot[b], NoHead}
  BY <1>1 DEF Delete, IInv, TypeInv, Heads
<1>3. work' = NoWork /\ left' = CountBranch(left, snapshot') /\ left \in Lefts /\ work \in Work
  BY <1>1, WorkFacts DEF Leave, IInv, TypeInv
<1>4. /\ left'.prs = left.prs
      /\ \/ left'.branches = left.branches - 1
         \/ left'.branches = left.branches /\ (work.existed \/ snapshot'[work.br] = NoHead)
  BY <1>3, CountedFacts
<1>5. snapshot'[br] # NoHead => Exists(br)
  BY <1>2 DEF Exists
<1>. QED  BY <1>1, <1>2, <1>3, <1>4, <1>5, LeaveLInv

LEMMA GoneToFacts ==
    ASSUME work \in Work, NEW stage, NEW force, Goto(stage, force)
    PROVE  work'.br = work.br /\ work'.existed = work.existed /\ work'.stage = stage
BY DEF Goto, Work

LEMMA GoOnLInv ==
    ASSUME NEW br \in Branches, IInv, LInv, IInv',
           \/ \E skip \in BOOLEAN : KeepBranch(br, skip)
           \/ NoBranchAutomerge(br)
           \/ \E failed \in BOOLEAN : MergeBranchFails(br, failed)
    PROVE  LInv'
<1>1. /\ work # NoWork /\ work.br = br
      /\ \/ work.stage = "check" /\ ~AlreadyExisted(br) /\ \E f \in BOOLEAN : Goto("automerge", f)
         \/ work.stage = "automerge" /\ \E f \in BOOLEAN : Goto("pr", f)
      /\ UNCHANGED <<prs, prList, rel, fresh, phase, list, todo, left, snapshot>>
  <2>1. ASSUME NEW skip \in BOOLEAN, KeepBranch(br, skip)
        PROVE  /\ work # NoWork /\ work.br = br
               /\ work.stage = "check" /\ ~AlreadyExisted(br) /\ Goto("automerge", FALSE)
               /\ UNCHANGED <<prs, prList, rel, fresh, phase, list, todo, left, snapshot>>
    BY <2>1 DEF KeepBranch, MayUpdate, Proceeds, At, worldVars, remoteVars, gitVars
  <2>2. CASE NoBranchAutomerge(br)
    <3>1. work # NoWork /\ work.br = br /\ work.stage = "automerge"
      BY <2>2 DEF NoBranchAutomerge, At
    <3>2. \E f \in BOOLEAN : Goto("pr", f)
      <4>1. (checks[br] = "red") \in BOOLEAN
        OBVIOUS
      <4>. QED  BY <2>2, <4>1 DEF NoBranchAutomerge
    <3>3. UNCHANGED <<prs, prList, rel, fresh, phase, list, todo, left, snapshot>>
      BY <2>2 DEF NoBranchAutomerge, worldVars, remoteVars, gitVars
    <3>. QED  BY <3>1, <3>2, <3>3
  <2>3. ASSUME NEW failed \in BOOLEAN, MergeBranchFails(br, failed)
        PROVE  /\ work # NoWork /\ work.br = br /\ work.stage = "automerge" /\ Goto("pr", failed)
               /\ UNCHANGED <<prs, prList, rel, fresh, phase, list, todo, left, snapshot>>
    BY <2>3 DEF MergeBranchFails, MergeReady, At, worldVars, remoteVars, gitVars
  <2>. QED  BY <2>1, <2>2, <2>3
<1>2. work \in Work /\ work.br \in Branches
  BY <1>1, WorkFacts
<1>3. PICK stage \in {"automerge", "pr"}, f \in BOOLEAN : Goto(stage, f)
  BY <1>1
<1>4. work'.br = work.br /\ work'.existed = work.existed /\ work'.stage = stage /\ work' # NoWork
  <2>1. work' \in Work
    BY <1>2, <1>3, GotoFacts
  <2>. QED  BY <1>2, <1>3, <2>1, GoneToFacts, NullsAssumption
<1>5. ~AlreadyExisted(work.br)
  BY <1>1 DEF LInv, TitleInv
<1>6. work'.stage # "check"
  BY <1>4
<1>7. /\ \A b \in Branches : b # work.br => snapshot'[b] = snapshot[b]
      /\ work.existed => (Exists(work.br) <=> snapshot'[work.br] # NoHead)
      /\ left'.prs = left.prs /\ left'.branches = left.branches
  BY <1>1 DEF Exists
<1>. QED  BY <1>1, <1>4, <1>5, <1>6, <1>7, GotoLInv

LEMMA CommitBranchLInv ==
    ASSUME NEW br \in Branches, IInv, LInv, IInv', CommitBranch(br)
    PROVE  LInv'
<1>. DEFINE l == CountCommit(left)
            stage == IF work.existed THEN "automerge" ELSE "pr"
<1>1. /\ work # NoWork /\ work.br = br /\ work.stage = "check" /\ ~AlreadyExisted(br)
      /\ snapshot' = [snapshot EXCEPT ![br] = Made(br)]
      /\ \/ work' = NoWork /\ left' = CountBranch(l, snapshot')
         \/ Goto(stage, FALSE) /\ left' = l
      /\ UNCHANGED <<prs, prList, rel, fresh, phase, list, todo>>
  BY DEF CommitBranch, NeedsCommit, MayUpdate, Proceeds, At
<1>2. work \in Work /\ work.existed = Exists(br) /\ work.existed \in BOOLEAN
  <2>1. work.existed \in BOOLEAN /\ Exists(br) \in BOOLEAN
    BY <1>1, WorkFacts DEF Exists
  <2>. QED  BY <1>1, <2>1, WorkFacts DEF LInv, TitleInv
<1>3. l \in Lefts /\ l.prs = left.prs /\ l.branches = left.branches
  BY DEF CountCommit, IInv, TypeInv, Lefts
<1>4. /\ \A b \in Branches : b # br => snapshot'[b] = snapshot[b]
      /\ snapshot'[br] # NoHead
  <2>1. Made(br) \in Head
    <3>1. FetchedBase[BaseOf[br]] \in Nat /\ rel[br] \in Nat /\ made[br] \in Nat
      BY FetchedFacts, ValueFacts, ConstantsAssumption
    <3>. QED  BY <3>1 DEF Made, Head
  <2>. QED  BY <1>1, <2>1, NullsAssumption DEF IInv, TypeInv, Heads
<1>. HIDE DEF l
<1>5. CASE work' = NoWork /\ left' = CountBranch(l, snapshot')
  <2>1. /\ left'.prs = left.prs
        /\ \/ left'.branches = left.branches - 1
           \/ left'.branches = left.branches /\ (work.existed \/ snapshot'[work.br] = NoHead)
    BY <1>2, <1>3, <1>5, CountedFacts
  <2>. QED  BY <1>1, <1>2, <1>4, <1>5, <2>1, LeaveLInv
<1>6. CASE Goto(stage, FALSE) /\ left' = l
  <2>1. stage \in {"automerge", "pr"}
    OBVIOUS
  <2>. HIDE DEF stage
  <2>2. work'.br = work.br /\ work'.existed = work.existed /\ work'.stage = stage /\ work' # NoWork
    <3>1. work' \in Work
      BY <1>2, <1>6, <2>1, GotoFacts
    <3>. QED  BY <1>2, <1>6, <3>1, GoneToFacts, NullsAssumption
  <2>3. left'.prs = left.prs /\ left'.branches = left.branches /\ work'.stage # "check"
    BY <1>3, <1>6, <2>1, <2>2
  <2>. QED  BY <1>1, <1>2, <1>4, <2>2, <2>3, GotoLInv
<1>. QED  BY <1>1, <1>5, <1>6

LEMMA WithExistingPrLInv ==
    ASSUME NEW br \in Branches, IInv, LInv, IInv', WithExistingPr(br)
    PROVE  LInv'
<1>. DEFINE pr == [prs[br] EXCEPT !.rel = rel[br]]
<1>1. /\ work # NoWork /\ work.br = br /\ prList[br].state = "open"
      /\ \/ UNCHANGED <<prs, prList>>
         \/ /\ prs' = [prs EXCEPT ![br].rel = rel[br]]
            /\ prList' = [prList EXCEPT ![br] = prs'[br]]
      /\ Goto("merge", work.forcePr)
      /\ UNCHANGED <<rel, fresh, phase, left, list, todo, snapshot>>
  BY DEF WithExistingPr, At, Open, gitVars
<1>2. work \in Work /\ phase = "write" /\ prs \in Prs /\ prList \in Prs
      /\ left.prs \in Int /\ left.branches \in Int /\ fresh \in Nat
  BY <1>1, WorkFacts DEF IInv, TypeInv, Lefts
<1>3. work'.br = br /\ work'.existed = work.existed /\ work'.stage = "merge"
  BY <1>1, <1>2, GoneToFacts
<1>4. pr.state = prs[br].state /\ pr.rel = rel[br]
  BY ValueFacts DEF Pr
<1>5. /\ \A b \in Branches \ {br} : prs'[b] = prs[b] /\ prList'[b] = prList[b]
      /\ \/ prs'[br] = prs[br] /\ prList'[br] = prList[br]
         \/ prs'[br] = pr /\ prList'[br] = pr
  <2>1. CASE UNCHANGED <<prs, prList>>
    BY <2>1
  <2>2. CASE /\ prs' = [prs EXCEPT ![br].rel = rel[br]]
             /\ prList' = [prList EXCEPT ![br] = prs'[br]]
    <3>1. prs' = [prs EXCEPT ![br] = pr]
      BY <1>2, <2>2 DEF Prs
    <3>. HIDE DEF pr
    <3>2. prs'[br] = pr /\ \A b \in Branches \ {br} : prs'[b] = prs[b]
      BY <1>2, <3>1 DEF Prs
    <3>3. prList'[br] = prs'[br] /\ \A b \in Branches \ {br} : prList'[b] = prList[b]
      BY <1>2, <2>2 DEF Prs
    <3>. QED  BY <3>2, <3>3
  <2>. QED  BY <1>1, <2>1, <2>2
<1>. HIDE DEF pr
<1>6. prs[br].state # "none" /\ br \notin Unanswered
  <2>1. prList[br].state # "none" /\ prs[br].state = "none" => FALSE
    BY DEF LInv, NoneInv
  <2>. QED  BY <1>1, <1>2, <2>1 DEF LInv, TitleInv, Processed
<1>7. NoneInv'
  BY <1>1, <1>4, <1>5, <1>6 DEF LInv, NoneInv
<1>8. br \notin Unanswered' /\ Unanswered' = Unanswered
  BY <1>5, <1>6 DEF Unanswered
<1>9. Open(prs', br) /\ ~Open(prList', br) => FALSE
  BY <1>1, <1>4, <1>5 DEF Open
<1>10. OpenKnown' \subseteq OpenKnown
  <2>1. list \subseteq Branches
    BY DEF IInv, TypeInv
  <2>. QED  BY <1>1, <1>5, <2>1 DEF OpenKnown, Open
<1>11. PrsInv'
  <2>1. \A b \in list : prList'[b].state = "autoclosed" => prList[b].state = "autoclosed"
    <3>1. prs[br].state # "autoclosed" /\ list \subseteq Branches
      BY <1>1, WorkFacts DEF IInv, TypeInv
    <3>. QED  BY <1>4, <1>5, <3>1
  <2>. QED  BY <1>1, <1>2, <1>10, <2>1, PrsKept DEF LInv
<1>12. HourInv'
  BY <1>1, <1>2, <1>8, HourKept DEF LInv
<1>13. /\ \A b \in Branches \ {work.br} : prs'[b] = prs[b] /\ prList'[b] = prList[b]
       /\ Open(prs', work.br) /\ ~Open(prList', work.br) => work.br \in Unanswered'
       /\ work.br \notin Unanswered' /\ left'.branches <= left.branches
  BY <1>1, <1>2, <1>5, <1>8, <1>9
<1>14. work' # NoWork
  BY <1>1, <1>2, GotoFacts, NullsAssumption DEF Work
<1>. QED  BY <1>1, <1>3, <1>7, <1>11, <1>12, <1>13, <1>14, PrsLInv

\* what the step opens: known, or with the answer lost
LEMMA OpenedFacts ==
    ASSUME NEW br \in Branches, IInv, LInv, MayCreatePr(br), OpenPr(br)
    PROVE  /\ work # NoWork /\ work.br = br /\ phase = "write"
           /\ \A b \in Branches \ {br} : prs'[b] = prs[b]
           /\ prs'[br].state = "open" /\ prs'[br].rel = rel[br] /\ rel[br] > 0
           /\ prList[br].rel # rel[br] /\ ~Open(prList, br) /\ prList[br].state # "autoclosed"
           /\ br \notin Unanswered
           /\ HourlyLimit # 0 => fresh' = fresh + 1
<1>1. /\ work # NoWork /\ work.br = br /\ work.stage = "pr" /\ prList[br].state # "open"
      /\ prs' = [prs EXCEPT ![br] = [state |-> "open", rel |-> rel[br], head |-> NoHead]]
      /\ HourlyLimit # 0 => fresh' = fresh + 1
  BY DEF MayCreatePr, At, OpenPr, Open
<1>2. /\ prs'[br].state = "open" /\ prs'[br].rel = rel[br]
      /\ \A b \in Branches \ {br} : prs'[b] = prs[b]
  BY <1>1 DEF IInv, TypeInv, Prs
<1>3. phase = "write" /\ prList[br].state # "autoclosed" /\ prList[br] \in Pr
  BY <1>1, WorkFacts, ValueFacts
<1>4. rel[br] > 0 /\ rel[br] \in Nat /\ (prList[br].state = "none" => prList[br].rel = 0)
  BY ValueFacts DEF LInv, NoneInv
<1>5. ~AlreadyExisted(br) /\ br \notin Unanswered
  BY <1>1, <1>3 DEF LInv, TitleInv, Processed
<1>6. prList[br].state \in {"none", "closed", "merged"}
  BY <1>1, <1>3 DEF Pr
<1>7. prList[br].rel # rel[br]
  BY <1>4, <1>5, <1>6 DEF AlreadyExisted
<1>. QED  BY <1>1, <1>2, <1>3, <1>4, <1>5, <1>7 DEF Open

LEMMA CreatePrLInv ==
    ASSUME NEW br \in Branches, IInv, LInv, IInv', CreatePr(br)
    PROVE  LInv'
<1>1. /\ MayCreatePr(br) /\ OpenPr(br) /\ prList' = [prList EXCEPT ![br] = prs'[br]]
      /\ left' = CountPr(left) /\ Goto("merge", work.forcePr)
      /\ UNCHANGED <<rel, phase, list, todo, snapshot>>
  BY DEF CreatePr, gitVars
<1>2. /\ work # NoWork /\ work.br = br /\ phase = "write"
      /\ prs'[br].state = "open" /\ prs'[br].rel = rel[br] /\ rel[br] > 0
      /\ \A b \in Branches \ {br} : prs'[b] = prs[b]
      /\ br \notin Unanswered
      /\ HourlyLimit # 0 => fresh' = fresh + 1
  BY <1>1, OpenedFacts
<1>3. prList'[br] = prs'[br] /\ \A b \in Branches \ {br} : prList'[b] = prList[b]
  BY <1>1 DEF IInv, TypeInv, Prs
<1>4. work'.br = br /\ work'.existed = work.existed /\ work'.stage = "merge"
  BY <1>1, <1>2, WorkFacts, GoneToFacts
<1>5. left'.prs = left.prs - 1 /\ left'.branches = left.branches
  BY <1>1 DEF CountPr, IInv, TypeInv, Lefts
<1>6. NoneInv'
  BY <1>1, <1>2, <1>3 DEF LInv, NoneInv
<1>7. Unanswered' = Unanswered
  BY <1>2, <1>3 DEF Unanswered
<1>8. left.prs \in Int /\ left.branches \in Int /\ list \subseteq Branches
  BY DEF IInv, TypeInv, Lefts
<1>9. PrsInv'
  <2>1. OpenKnown' \subseteq OpenKnown \cup {br}
    BY <1>1, <1>3, <1>8 DEF OpenKnown, Open
  <2>2. \A b \in list : prList'[b].state = "autoclosed" => prList[b].state = "autoclosed"
    BY <1>2, <1>3, <1>8
  <2>. QED  BY <1>1, <1>2, <1>5, <2>1, <2>2, PrsKept DEF LInv
<1>10. HourInv'
  BY <1>2, <1>5, <1>7, HourKept DEF LInv
<1>11. Open(prs', br) /\ ~Open(prList', br) => FALSE
  BY <1>3 DEF Open
<1>12. /\ \A b \in Branches \ {work.br} : prs'[b] = prs[b] /\ prList'[b] = prList[b]
       /\ Open(prs', work.br) /\ ~Open(prList', work.br) => work.br \in Unanswered'
       /\ work.br \notin Unanswered' /\ left'.branches <= left.branches
  BY <1>2, <1>3, <1>5, <1>7, <1>8, <1>11
<1>13. work' # NoWork
  <2>1. work \in Work /\ work.forcePr \in BOOLEAN
    BY <1>2, WorkFacts DEF Work
  <2>. QED  BY <1>1, <2>1, GotoFacts, NullsAssumption
<1>. QED  BY <1>1, <1>2, <1>4, <1>6, <1>9, <1>10, <1>12, <1>13, PrsLInv

LEMMA LoseAnswerLInv ==
    ASSUME NEW br \in Branches, IInv, LInv, IInv', LoseAnswer(br)
    PROVE  LInv'
<1>1. /\ MayCreatePr(br) /\ OpenPr(br) /\ prList' = prList
      /\ work' = NoWork /\ left' = CountBranch(left, snapshot)
      /\ UNCHANGED <<rel, phase, list, todo, snapshot>>
  BY DEF LoseAnswer, Leave, gitVars
<1>2. /\ work # NoWork /\ work.br = br /\ phase = "write"
      /\ prs'[br].state = "open" /\ prs'[br].rel = rel[br] /\ rel[br] > 0
      /\ \A b \in Branches \ {br} : prs'[b] = prs[b]
      /\ br \notin Unanswered /\ prList[br].rel # rel[br]
      /\ HourlyLimit # 0 => fresh' = fresh + 1
  BY <1>1, OpenedFacts
<1>3. /\ left'.prs = left.prs
      /\ \/ left'.branches = left.branches - 1
         \/ left'.branches = left.branches /\ (work.existed \/ snapshot'[br] = NoHead)
  BY <1>1, <1>2, WorkFacts, CountedFacts DEF IInv, TypeInv
<1>4. prList[br].state # "none" \/ prList[br].rel = 0
  BY DEF LInv, NoneInv
<1>5. NoneInv'
  BY <1>1, <1>2 DEF LInv, NoneInv
<1>6. Unanswered \cup {br} \subseteq Unanswered' /\ br \in Unanswered'
  BY <1>1, <1>2 DEF Unanswered
<1>7. OpenKnown' = OpenKnown /\ left.prs \in Int
  BY <1>1 DEF OpenKnown, IInv, TypeInv, Lefts
<1>8. PrsInv'
  BY <1>1, <1>2, <1>3, <1>7, PrsKept DEF LInv
<1>9. HourInv'
  BY <1>2, <1>3, <1>6, HourKept DEF LInv
<1>. QED  BY <1>1, <1>2, <1>3, <1>5, <1>6, <1>8, <1>9, PrsLInv

\* the attempt ends with a merge, or its loop does
LEMMA MergedLInv ==
    ASSUME NEW br \in Branches, IInv, LInv, IInv', work # NoWork, work.br = br,
           NEW known \in Prs, StopAfterMerge(br, known),
           \A b \in Branches \ {br} : prs'[b] = prs[b] /\ known[b] = prList[b],
           prs'[br].state # "open", prs'[br].state = "none" <=> prs[br].state = "none",
           prs'[br].state = "autoclosed" => prs[br].state = "autoclosed",
           prs'[br].rel = prs[br].rel,
           known[br] = prList[br] \/ (known[br] = prs'[br] /\ prs[br].state = "open"),
           left'.prs = left.prs, left'.branches = left.branches, UNCHANGED <<rel, fresh>>
    PROVE  LInv'
<1>1. CASE phase' = "again" /\ AttemptOver
  <2>1. prList' = NoPrs
    BY <1>1 DEF AttemptOver
  <2>2. NoneInv'
    BY <2>1, NoneKept DEF LInv
  <2>. QED  BY <1>1, <2>2, OutsideLInv
<1>2. CASE /\ UNCHANGED <<phase, list>> /\ prList' = known /\ todo' = {} /\ work' = NoWork
           /\ snapshot' = [snapshot EXCEPT ![br] = NoHead]
  <2>1. /\ snapshot'[br] = NoHead /\ \A b \in Branches : b # br => snapshot'[b] = snapshot[b]
        /\ phase = "write" /\ list \subseteq Branches /\ left.prs \in Int /\ fresh \in Nat
    BY <1>2, WorkFacts DEF IInv, TypeInv, Heads, Lefts
  <2>2. NoneInv'
    <3>1. \A b \in Branches : prs[b].state = "none" => prList[b].state = "none"
      BY DEF LInv, NoneInv
    <3>2. prs[br].state = "open" => prs[br].state # "none"
      OBVIOUS
    <3>. QED  BY <1>2, <3>1, <3>2 DEF LInv, NoneInv
  <2>3. br \notin Unanswered
    BY <2>1 DEF LInv, TitleInv, Processed
  <2>4. Unanswered' = Unanswered /\ OpenKnown' \subseteq OpenKnown
    BY <1>2, <2>1, <2>3 DEF Unanswered, OpenKnown, Open
  <2>5. PrsInv'
    <3>1. \A b \in list : prList'[b].state = "autoclosed" => prList[b].state = "autoclosed"
      BY <1>2, <2>1
    <3>. QED  BY <1>2, <2>1, <2>4, <3>1, PrsKept DEF LInv
  <2>6. HourInv'
    BY <2>1, <2>4, HourKept DEF LInv
  <2>7. /\ \A b \in Branches \ {work.br} : prs'[b] = prs[b] /\ prList'[b] = prList[b]
        /\ ~Open(prs', work.br) /\ snapshot'[work.br] = NoHead /\ todo' \subseteq todo
        /\ \A b \in Branches : b # work.br => snapshot'[b] = snapshot[b]
    BY <1>2, <2>1 DEF Open
  <2>. QED  BY <1>2, <2>2, <2>5, <2>6, <2>7, PrsLInv
<1>. QED  BY <1>1, <1>2 DEF StopAfterMerge

LEMMA MergeBranchLInv ==
    ASSUME NEW br \in Branches, IInv, LInv, IInv', MergeBranch(br)
    PROVE  LInv'
<1>. DEFINE state == IF prs[br].state = "open" THEN "merged" ELSE prs[br].state
            pr == [prs[br] EXCEPT !.state = state]
<1>1. /\ work # NoWork /\ work.br = br /\ StopAfterMerge(br, prList)
      /\ prs' = [prs EXCEPT ![br].state = IF prs[br].state = "open" THEN "merged" ELSE prs[br].state]
      /\ left' = CountCommit(left) /\ UNCHANGED <<rel, fresh>>
  BY DEF MergeBranch, MergeReady, At
<1>2. prs' = [prs EXCEPT ![br] = pr] /\ prs \in Prs /\ prList \in Prs
  BY <1>1 DEF IInv, TypeInv, Prs
<1>3. pr.rel = prs[br].rel /\ pr.state = state
  BY ValueFacts DEF Pr
<1>4. /\ state # "open" /\ (state = "none" <=> prs[br].state = "none")
      /\ state = "autoclosed" => prs[br].state = "autoclosed"
  OBVIOUS
<1>. HIDE DEF pr, state
<1>5. prs'[br] = pr /\ \A b \in Branches \ {br} : prs'[b] = prs[b]
  BY <1>2 DEF Prs
<1>6. left'.prs = left.prs /\ left'.branches = left.branches
  BY <1>1 DEF CountCommit, IInv, TypeInv, Lefts
<1>. QED  BY <1>1, <1>2, <1>3, <1>4, <1>5, <1>6, MergedLInv

LEMMA MergePrLInv ==
    ASSUME NEW br \in Branches, IInv, LInv, IInv', MergePr(br)
    PROVE  LInv'
<1>. DEFINE pr == [prs[br] EXCEPT !.state = "merged", !.head = head[br]]
            known == [prList EXCEPT ![br] = prs'[br]]
<1>1. /\ work # NoWork /\ work.br = br /\ prs[br].state = "open"
      /\ prs' = [prs EXCEPT ![br] = pr] /\ StopAfterMerge(br, known)
      /\ UNCHANGED <<rel, fresh, left>>
  BY DEF MergePr, At, Open
<1>2. prs \in Prs /\ prList \in Prs /\ prs' \in Prs
  BY DEF IInv, TypeInv
<1>3. pr.rel = prs[br].rel /\ pr.state = "merged"
  BY ValueFacts DEF Pr
<1>. HIDE DEF pr
<1>4. prs'[br] = pr /\ \A b \in Branches \ {br} : prs'[b] = prs[b]
  BY <1>1, <1>2 DEF Prs
<1>5. known \in Prs /\ known[br] = prs'[br] /\ \A b \in Branches \ {br} : known[b] = prList[b]
  BY <1>2 DEF Prs
<1>6. StopAfterMerge(br, known)
  BY <1>1
<1>. HIDE DEF known
<1>. QED  BY <1>1, <1>3, <1>4, <1>5, <1>6, MergedLInv
----------------------------------------------------------------------------

LEMMA InitLInv == Init => LInv
<1>. SUFFICES ASSUME Init PROVE LInv
  OBVIOUS
<1>1. /\ prs = NoPrs /\ prList = NoPrs /\ rel = [br \in Branches |-> 1]
      /\ phase = "idle" /\ work = NoWork
  BY DEF Init
<1>2. NoneInv
  BY <1>1 DEF NoneInv, NoPrs, NoPr
<1>. QED  BY <1>1, <1>2 DEF LInv, TitleInv, PrsInv, HourInv, BranchesInv

LEMMA StepLInv == IInv /\ LInv /\ IInv' /\ [Next]_vars => LInv'
<1>. SUFFICES ASSUME IInv, LInv, IInv', [Next]_vars PROVE LInv'
  OBVIOUS
<1>1. ASSUME NEW br \in Branches, ProcessBranch(br) PROVE LInv'
  <2>1. CASE RepositoryChanged(br)
    BY <2>1, EndsLInv DEF RepositoryChanged, Abort
  <2>2. CASE \/ HandlePr(br) \/ SkipOverLimit(br) \/ EarlyReturn(br) \/ PrEdited(br)
             \/ WithoutPr(br) \/ NoPrCreated(br) \/ NoMerge(br) \/ CreateFails(br)
    BY <2>2, ReturnsLInv
  <2>3. CASE \/ \E skip \in BOOLEAN : KeepBranch(br, skip)
             \/ NoBranchAutomerge(br)
             \/ \E failed \in BOOLEAN : MergeBranchFails(br, failed)
    BY <2>3, GoOnLInv
  <2>4. CASE StartBranch(br) \/ CommitBranch(br) \/ MergeBranch(br) \/ MergePr(br)
    BY <2>4, StartBranchLInv, CommitBranchLInv, MergeBranchLInv, MergePrLInv
  <2>5. CASE WithExistingPr(br) \/ CreatePr(br) \/ LoseAnswer(br)
    BY <2>5, WithExistingPrLInv, CreatePrLInv, LoseAnswerLInv
  <2>. QED  BY <1>1, <2>1, <2>2, <2>3, <2>4, <2>5 DEF ProcessBranch
<1>2. CASE World
  BY <1>2, WorldLInv
<1>3. CASE \/ InitRepo \/ Extract \/ \E lost \in SUBSET list : EndWrite(lost)
           \/ \E br \in Branches : PruneBranch(br) \/ SkipPrune(br)
  BY <1>3, EndsLInv
<1>4. CASE SetLimits
  BY <1>4, SetLimitsLInv
<1>5. CASE EndRun \/ Killed
  BY <1>5, EndsLInv DEF EndRun, Killed, Abort
<1>6. CASE UNCHANGED vars
  <2>1. UNCHANGED <<prs, rel, fresh, runVars>>
    BY <1>6 DEF vars, worldVars, remoteVars
  <2>2. \A br \in Branches : rel'[br] > 0
    BY <2>1 DEF LInv, NoneInv
  <2>3. fresh' <= fresh
    BY <2>1 DEF IInv, TypeInv
  <2>. QED  BY <2>1, <2>2, <2>3, QuietLInv
<1>. QED  BY <1>1, <1>2, <1>3, <1>4, <1>5, <1>6 DEF Next, Run

THEOREM LimitInvariant == Spec => []LInv
<1>1. Init => LInv
  BY InitLInv
<1>2. IInv /\ IInv' /\ LInv /\ [Next]_vars => LInv'
  BY StepLInv
<1>. QED  BY <1>1, <1>2, Invariant, PTL DEF Spec
----------------------------------------------------------------------------
(* What is opened and created *)

\* a pull request that is opened while br is in ensurePr was created for br
LEMMA OpensStep ==
    ASSUME IInv, [Next]_vars, NEW br \in Branches, Opens(br)
    PROVE  CreatePr(br) \/ LoseAnswer(br)
<1>1. /\ work # NoWork /\ work.br = br /\ work.stage = "pr"
      /\ prs[br].state # "open" /\ prs'[br].state = "open"
  BY DEF Opens, At, Open
<1>2. phase = "write" /\ prs \in Prs
  BY <1>1, WorkFacts DEF IInv, TypeInv
<1>3. ASSUME prs' = prs PROVE FALSE
  BY <1>1, <1>3
<1>4. ASSUME World PROVE FALSE
  <2>1. ASSUME NEW x \in Branches, NEW state \in {"closed", "merged"},
               prs' = [prs EXCEPT ![x] = [prs[x] EXCEPT !.state = state, !.head = head[x]]]
        PROVE  FALSE
    <3>. DEFINE pr == [prs[x] EXCEPT !.state = state, !.head = head[x]]
    <3>1. pr.state = state
      BY ValueFacts DEF Pr
    <3>2. prs' = [prs EXCEPT ![x] = pr]
      BY <2>1
    <3>. HIDE DEF pr
    <3>3. prs'[br] = prs[br] \/ prs'[br] = pr
      BY <1>2, <3>2 DEF Prs
    <3>. QED  BY <1>1, <3>1, <3>3
  <2>2. ASSUME NEW x \in Branches, UserCloses(x) PROVE FALSE
    BY <2>1, <2>2 DEF UserCloses
  <2>3. ASSUME NEW x \in Branches, NEW delete \in BOOLEAN, UserMerges(x, delete) PROVE FALSE
    BY <2>1, <2>3 DEF UserMerges
  <2>4. CASE \/ \E b \in Bases : BaseMoves(b)
             \/ \E x \in Branches, result \in CheckResults : ChecksEnd(x, result)
             \/ \E x \in Branches : UserPush(x) \/ Withdraw(x) \/ Return(x) \/ Release(x)
             \/ HourPasses
    <3>1. prs' = prs
      BY <2>4 DEF BaseMoves, ChecksEnd, UserPush, Withdraw, Return, Release, HourPasses, remoteVars
    <3>. QED  BY <1>3, <3>1
  <2>. QED  BY <1>4, <2>2, <2>3, <2>4 DEF World
<1>5. ASSUME NEW x \in Branches, ProcessBranch(x) PROVE CreatePr(br) \/ LoseAnswer(br)
  <2>1. CASE \/ SkipOverLimit(x) \/ EarlyReturn(x) \/ PrEdited(x) \/ RepositoryChanged(x) \/ HandlePr(x)
             \/ CommitBranch(x) \/ \E skip \in BOOLEAN : KeepBranch(x, skip)
             \/ NoBranchAutomerge(x) \/ \E failed \in BOOLEAN : MergeBranchFails(x, failed)
             \/ WithoutPr(x) \/ NoPrCreated(x) \/ NoMerge(x) \/ CreateFails(x)
    <3>1. prs' = prs
      BY <2>1 DEF SkipOverLimit, EarlyReturn, PrEdited, RepositoryChanged, Abort, HandlePr,
                  CommitBranch, KeepBranch, NoBranchAutomerge, MergeBranchFails, WithoutPr,
                  NoPrCreated, NoMerge, CreateFails, worldVars, remoteVars
    <3>. QED  BY <1>3, <3>1
  <2>2. CASE StartBranch(x) \/ MergeBranch(x) \/ MergePr(x)
    BY <1>1, <2>2 DEF StartBranch, MergeBranch, MergeReady, MergePr, At
  <2>3. CASE WithExistingPr(x)
    <3>1. prs' = prs \/ prs' = [prs EXCEPT ![x].rel = rel[x]]
      BY <2>3 DEF WithExistingPr
    <3>2. prs'[br].state = prs[br].state
      BY <1>2, <3>1 DEF Prs, Pr
    <3>. QED  BY <1>1, <3>2
  <2>4. CASE CreatePr(x) \/ LoseAnswer(x)
    <3>1. x = br
      BY <1>1, <2>4 DEF CreatePr, LoseAnswer, MayCreatePr, At
    <3>. QED  BY <2>4, <3>1
  <2>. QED  BY <1>5, <2>1, <2>2, <2>3, <2>4 DEF ProcessBranch
<1>6. ASSUME \/ InitRepo \/ Extract \/ SetLimits \/ \E lost \in SUBSET list : EndWrite(lost)
             \/ EndRun \/ Killed \/ UNCHANGED vars
             \/ \E x \in Branches : PruneBranch(x) \/ SkipPrune(x)
      PROVE  FALSE
  <2>1. \/ prs' = prs
        \/ phase # "write"
    BY <1>6 DEF InitRepo, Extract, SetLimits, EndWrite, EndRun, Killed, Abort, PruneBranch, SkipPrune,
                vars, worldVars, remoteVars
  <2>. QED  BY <1>2, <1>3, <2>1
<1>. QED  BY <1>4, <1>5, <1>6 DEF Next, Run

\* a branch that comes into the run's list was committed to
LEMMA CreatesStep ==
    ASSUME IInv, [Next]_vars, NEW br \in Branches, At(br, "check"), ~Exists(br), snapshot'[br] # NoHead
    PROVE  CommitBranch(br)
<1>1. /\ work # NoWork /\ work.br = br /\ work.stage = "check" /\ phase = "write"
      /\ snapshot[br] = NoHead /\ snapshot \in Heads
  BY WorkFacts DEF At, Exists, IInv, TypeInv
<1>2. ASSUME snapshot' = snapshot \/ snapshot' = NoHeads \/ \E x \in Branches : Delete(x) PROVE FALSE
  BY <1>1, <1>2 DEF Delete, NoHeads, Heads
<1>3. ASSUME World PROVE FALSE
  <2>1. snapshot' = snapshot
    BY <1>3 DEF World, BaseMoves, ChecksEnd, UserPush, UserCloses, UserMerges, Withdraw, Return, Release,
                HourPasses, runVars, gitVars
  <2>. QED  BY <1>2, <2>1
<1>4. ASSUME NEW x \in Branches, ProcessBranch(x) PROVE CommitBranch(br)
  <2>1. CASE \/ SkipOverLimit(x) \/ EarlyReturn(x) \/ PrEdited(x)
             \/ \E skip \in BOOLEAN : KeepBranch(x, skip)
             \/ NoBranchAutomerge(x) \/ \E failed \in BOOLEAN : MergeBranchFails(x, failed)
             \/ WithoutPr(x) \/ NoPrCreated(x) \/ NoMerge(x)
             \/ WithExistingPr(x) \/ CreatePr(x) \/ LoseAnswer(x) \/ StartBranch(x)
    <3>1. snapshot' = snapshot
      BY <2>1 DEF SkipOverLimit, EarlyReturn, PrEdited, KeepBranch, NoBranchAutomerge,
                  MergeBranchFails, WithoutPr, NoPrCreated, NoMerge, WithExistingPr, CreatePr,
                  LoseAnswer, StartBranch, gitVars
    <3>. QED  BY <1>2, <3>1
  <2>2. CASE RepositoryChanged(x) \/ HandlePr(x) \/ CreateFails(x)
    BY <1>2, <2>2 DEF RepositoryChanged, Abort, RunOver, AttemptOver, HandlePr, CreateFails
  <2>3. CASE MergeBranch(x) \/ MergePr(x)
    BY <1>1, <2>3 DEF MergeBranch, MergeReady, MergePr, At
  <2>4. CASE CommitBranch(x)
    <3>1. x = br
      BY <1>1, <2>4 DEF CommitBranch, NeedsCommit, MayUpdate, Proceeds, At
    <3>. QED  BY <2>4, <3>1
  <2>. QED  BY <1>4, <2>1, <2>2, <2>3, <2>4 DEF ProcessBranch
<1>5. ASSUME \/ InitRepo \/ Extract \/ SetLimits \/ \E lost \in SUBSET list : EndWrite(lost)
             \/ EndRun \/ Killed \/ UNCHANGED vars
             \/ \E x \in Branches : PruneBranch(x) \/ SkipPrune(x)
      PROVE  FALSE
  <2>1. \/ phase # "write" \/ snapshot' = snapshot \/ snapshot' = NoHeads
    BY <1>5 DEF InitRepo, Extract, SetLimits, EndWrite, EndRun, Killed, Abort, RunOver, AttemptOver,
                PruneBranch, SkipPrune, vars, runVars, gitVars
  <2>. QED  BY <1>1, <1>2, <2>1
<1>. QED  BY <1>3, <1>4, <1>5 DEF Next, Run

LEMMA OpensLimited ==
    ASSUME IInv, LInv, LInv', IInv', [Next]_vars, NEW br \in Branches, Opens(br)
    PROVE  /\ PrLimit # 0 =>
                 Cardinality({b \in list : prs'[b].state = "open" /\ Answered(b)}) <= PrLimit
           /\ HourlyLimit # 0 =>
                 fresh' - Cardinality({b \in Branches : ~Answered(b)}) <= HourlyLimit
<1>. DEFINE S == {b \in list : prs'[b].state = "open" /\ Answered(b)}
            U == {b \in Branches : ~Answered(b)}
<1>1. /\ CreatePr(br) \/ LoseAnswer(br)
      /\ br \notin Alerts
  BY OpensStep DEF Opens
<1>2. /\ MayCreatePr(br) /\ ~RateLimited(br) /\ OpenPr(br)
      /\ prList' = prList \/ prList' = [prList EXCEPT ![br] = prs'[br]]
      /\ UNCHANGED <<phase, list>>
  BY <1>1 DEF CreatePr, LoseAnswer
<1>3. left.prs > 0 /\ left.prs \in Int /\ fresh \in Nat /\ fresh' \in Nat /\ list \subseteq Branches
      /\ PrLimit \in Nat /\ HourlyLimit \in Nat
  <2>1. left.prs \in Int
    BY DEF IInv, TypeInv, Lefts
  <2>. QED  BY <1>1, <1>2, <2>1, ConstantsAssumption DEF RateLimited, LimitReached, IInv, TypeInv
<1>4. /\ phase = "write" /\ br \notin Unanswered /\ \A b \in Branches \ {br} : prs'[b] = prs[b]
      /\ HourlyLimit # 0 => fresh' = fresh + 1
  BY <1>2, OpenedFacts
<1>5. \A b \in Branches \ {br} : prList'[b] = prList[b]
  BY <1>2 DEF IInv, TypeInv, Prs
<1>6. /\ IsFiniteSet(OpenKnown) /\ IsFiniteSet(Unanswered)
      /\ Cardinality(OpenKnown) \in Nat /\ Cardinality(Unanswered) \in Nat
  BY FiniteCounts DEF FiniteInv
<1>7. IsFiniteSet(Unanswered') /\ Cardinality(Unanswered') \in Nat
  <2>1. IInv' => FiniteInv'
    BY FiniteCounts, PTL
  <2>. QED  BY <2>1 DEF FiniteInv
<1>8. ASSUME PrLimit # 0 PROVE Cardinality(S) <= PrLimit
  <2>1. S \subseteq OpenKnown \cup {br}
    <3>. SUFFICES ASSUME NEW b \in list, b # br, prs'[b].state = "open", Answered(b)
                  PROVE  Open(prList, b)
      BY DEF OpenKnown
    <3>1. b \in Branches /\ prs[b].state = "open" /\ prs[b].rel = prList[b].rel
      BY <1>3, <1>4, <1>5 DEF Answered
    <3>. QED  BY <1>4, <3>1 DEF LInv, TitleInv, Open, Unanswered
  <2>2. Cardinality(S) <= Cardinality(OpenKnown) + 1 /\ Cardinality(S) \in Nat
    <3>1. IsFiniteSet(OpenKnown \cup {br})
      BY <1>6, FS_AddElement
    <3>. HIDE DEF S
    <3>2. Cardinality(S) <= Cardinality(OpenKnown) + 1
      BY <1>6, <2>1, AddedCard
    <3>3. Cardinality(S) \in Nat
      BY <2>1, <3>1, SubsetCard
    <3>. QED  BY <3>2, <3>3
  <2>3. left.prs + Cardinality(OpenKnown) <= PrLimit
    BY <1>3, <1>4, <1>8 DEF LInv, PrsInv
  <2>. HIDE DEF S
  <2>. QED  BY <1>3, <1>6, <2>2, <2>3
<1>9. ASSUME HourlyLimit # 0 PROVE fresh' - Cardinality(U) <= HourlyLimit
  <2>1. U = Unanswered'
    BY DEF Answered, Unanswered
  <2>2. Unanswered \subseteq Unanswered'
    BY <1>4, <1>5 DEF Unanswered
  <2>3. Cardinality(Unanswered) <= Cardinality(Unanswered')
    BY <1>7, <2>2, SubsetCard
  <2>4. left.prs + fresh - Cardinality(Unanswered) <= HourlyLimit
    BY <1>3, <1>4, <1>9 DEF LInv, HourInv
  <2>5. fresh' = fresh + 1
    BY <1>4, <1>9
  <2>. HIDE DEF U
  <2>. QED  BY <1>3, <1>6, <1>7, <2>1, <2>3, <2>4, <2>5
<1>. QED  BY <1>8, <1>9

LEMMA CreatesLimited ==
    ASSUME IInv, LInv, [Next]_vars, NEW br \in Branches \ Alerts,
           At(br, "check"), ~Exists(br), snapshot'[br] # NoHead, BranchLimit # 0
    PROVE  Cardinality({b \in list : snapshot'[b] # NoHead}) <= BranchLimit
<1>. DEFINE S == {b \in list : snapshot'[b] # NoHead}
<1>1. CommitBranch(br)
  BY CreatesStep
<1>2. ~OverLimit(br) /\ snapshot' = [snapshot EXCEPT ![br] = Made(br)]
  BY <1>1 DEF CommitBranch, NeedsCommit, MayUpdate, Proceeds
<1>3. left.branches > 0 /\ left.branches \in Int /\ list \subseteq Branches /\ BranchLimit \in Nat
  <2>1. left.branches \in Int
    BY DEF IInv, TypeInv, Lefts
  <2>. QED  BY <1>2, <2>1, ConstantsAssumption DEF OverLimit, LimitReached, IInv, TypeInv
<1>4. work # NoWork /\ work.br = br /\ phase = "write"
  BY WorkFacts DEF At
<1>5. S \subseteq Counted \cup {br}
  BY <1>2, <1>3, <1>4 DEF Counted, Exists, Processed, IInv, TypeInv, Heads
<1>6. IsFiniteSet(Counted) /\ Cardinality(Counted) \in Nat
  BY FiniteCounts DEF FiniteInv
<1>7. left.branches + Cardinality(Counted) <= BranchLimit
  BY <1>3, <1>4 DEF LInv, BranchesInv
<1>. HIDE DEF S
<1>8. Cardinality(S) <= Cardinality(Counted) + 1 /\ Cardinality(S) \in Nat
  <2>1. IsFiniteSet(Counted \cup {br})
    BY <1>6, FS_AddElement
  <2>2. Cardinality(S) \in Nat
    BY <1>5, <2>1, SubsetCard
  <2>. QED  BY <1>5, <1>6, <2>2, AddedCard
<1>9. Cardinality(S) <= BranchLimit
  BY <1>3, <1>6, <1>7, <1>8
<1>. QED  BY <1>9 DEF S

\* What a run opens and creates is within the limits of open pull requests, of pull
\* requests per hour and of branches, for all the platform answered for, whatever
\* alerts, people and other branches do meanwhile (writeUpdates, processBranch,
\* ensurePr, workers/global/limits.ts).
THEOREM LimitsHold == Spec => WithinLimits
<1>1. IInv /\ IInv' /\ LInv /\ LInv' /\ [Next]_vars =>
        /\ \A br \in Branches : Opens(br) /\ PrLimit # 0 =>
              Cardinality({b \in list : prs'[b].state = "open" /\ Answered(b)}) <= PrLimit
        /\ \A br \in Branches : Opens(br) /\ HourlyLimit # 0 =>
              fresh' - Cardinality({b \in Branches : ~Answered(b)}) <= HourlyLimit
        /\ \A br \in Branches \ Alerts :
              At(br, "check") /\ ~Exists(br) /\ snapshot'[br] # NoHead /\ BranchLimit # 0 =>
              Cardinality({b \in list : snapshot'[b] # NoHead}) <= BranchLimit
  BY OpensLimited, CreatesLimited
<1>2. Spec => OpensWithinLimit
  BY <1>1, Invariant, LimitInvariant, PTL DEF Spec, OpensWithinLimit
<1>3. Spec => OpensWithinHour
  BY <1>1, Invariant, LimitInvariant, PTL DEF Spec, OpensWithinHour
<1>4. Spec => CreatesWithinLimit
  BY <1>1, Invariant, LimitInvariant, PTL DEF Spec, CreatesWithinLimit
<1>. QED  BY <1>2, <1>3, <1>4 DEF WithinLimits
----------------------------------------------------------------------------
(* What is merged follows what was merged, with one base branch *)

SingleBase == Bases = {DefaultBase}

\* the clone is still to be worked with, no merge has made it old
Fresh == phase \in {"extract", "limits"} \/ (phase = "write" /\ (todo # {} \/ work # NoWork))

BaseInv ==
    /\ \A b \in Bases : merged[b] <= base[b]
    /\ cloned /\ Fresh => \A b \in Bases : merged[b] <= originBase[b]

\* others only add commits: a branch stays on the base commit the clone has it on
OntoInv ==
    cloned => \A br \in Branches :
        /\ head[br] # NoHead /\ origin[br] # NoHead => head[br].onto = origin[br].onto
        /\ prs[br].state = "autoclosed" => origin[br] = NoHead

FollowInv ==
    work # NoWork /\ work.stage # "check" =>
        /\ cloned /\ edited[work.br] # "unset"
        /\ Automerge[work.br] # "none" /\ edited[work.br] = "no" =>
              origin[work.br] # NoHead /\ merged[BaseOf[work.br]] <= origin[work.br].onto

MInv == BaseInv /\ OntoInv /\ FollowInv

\* what a step may do to a branch whose head and clone agree
OntoKept(br) ==
    \/ head'[br] = NoHead \/ origin'[br] = NoHead \/ head'[br] = origin'[br]
    \/ head[br] # NoHead /\ head'[br].onto = head[br].onto /\ origin'[br] = Fetched[br]
StaysGone(br) ==
    prs'[br].state = "autoclosed" =>
        origin'[br] = NoHead \/ (prs[br].state = "autoclosed" /\ origin'[br] = Fetched[br])

LEMMA GitMInv ==
    ASSUME IInv, MInv, IInv', \A b \in Bases : merged'[b] <= base'[b],
           cloned' /\ Fresh' => Fresh /\ merged' = merged,
           cloned' => originBase' = FetchedBase /\ \A br \in Branches : OntoKept(br) /\ StaysGone(br)
    PROVE  BaseInv' /\ OntoInv'
<1>1. \A b \in Bases : /\ merged[b] \in Nat /\ base[b] \in Nat /\ merged[b] <= base[b]
                       /\ cloned /\ Fresh => merged[b] <= originBase[b]
  BY DEF IInv, TypeInv, MInv, BaseInv
<1>2. ASSUME cloned', Fresh', NEW b \in Bases PROVE merged'[b] <= originBase'[b]
  BY <1>1, <1>2 DEF FetchedBase
<1>3. BaseInv'
  BY <1>2 DEF BaseInv
<1>4. ASSUME cloned', NEW br \in Branches
      PROVE  /\ head'[br] # NoHead /\ origin'[br] # NoHead => head'[br].onto = origin'[br].onto
             /\ prs'[br].state = "autoclosed" => origin'[br] = NoHead
  <2>1. /\ head[br] # NoHead /\ Fetched[br] # NoHead => head[br].onto = Fetched[br].onto
        /\ prs[br].state = "autoclosed" => Fetched[br] = NoHead
    BY DEF Fetched, MInv, OntoInv, IInv, AutoInv
  <2>. QED  BY <1>4, <2>1 DEF OntoKept, StaysGone
<1>. QED  BY <1>3, <1>4 DEF OntoInv

\* the git client may look, and nothing else happens to git
LEMMA LookMInv ==
    ASSUME IInv, MInv, IInv', UNCHANGED <<base, head, merged>>, Fresh' => Fresh,
           SyncGit \/ UNCHANGED <<cloned, origin, originBase>>,
           \A br \in Branches : prs'[br].state = "autoclosed" => prs[br].state = "autoclosed"
    PROVE  BaseInv' /\ OntoInv'
<1>1. cloned' => originBase' = FetchedBase /\ origin' = Fetched
  BY DEF SyncGit, Fetched, FetchedBase
<1>2. cloned' => originBase' = FetchedBase /\ \A br \in Branches : OntoKept(br) /\ StaysGone(br)
  BY <1>1 DEF OntoKept, StaysGone
<1>. QED  BY <1>2, GitMInv DEF MInv, BaseInv

LEMMA UnclonedMInv ==
    ASSUME IInv', \A b \in Bases : merged'[b] <= base'[b], cloned' = FALSE, work' = NoWork
    PROVE  MInv'
BY DEF MInv, BaseInv, OntoInv, FollowInv

LEMMA WorldMInv == IInv /\ MInv /\ IInv' /\ World => MInv'
<1>. SUFFICES ASSUME IInv, MInv, IInv', World PROVE MInv'
  OBVIOUS
<1>1. UNCHANGED <<phase, attempt, snapshot, cloned, origin, originBase, current, edited, prList,
                  left, list, todo, work, merged>>
  BY DEF World, BaseMoves, ChecksEnd, UserPush, UserCloses, UserMerges, Withdraw, Return, Release,
         HourPasses, runVars, gitVars, keptVars
<1>2. Fresh' = Fresh
  BY <1>1 DEF Fresh
<1>3. ASSUME \A b \in Bases : base'[b] >= base[b],
             \A br \in Branches : /\ head'[br] = NoHead \/ (head[br] # NoHead /\ head'[br].onto = head[br].onto)
                                  /\ prs'[br].state = "autoclosed" => prs[br].state = "autoclosed"
      PROVE  MInv'
  <2>1. \A b \in Bases : merged'[b] <= base'[b]
    <3>1. \A b \in Bases : merged[b] \in Nat /\ base[b] \in Nat /\ merged[b] <= base[b]
      BY DEF IInv, TypeInv, MInv, BaseInv
    <3>2. \A b \in Bases : base'[b] \in Nat
      BY DEF IInv, TypeInv
    <3>. QED  BY <1>1, <1>3, <3>1, <3>2
  <2>2. cloned' => originBase' = FetchedBase /\ \A br \in Branches : OntoKept(br) /\ StaysGone(br)
    BY <1>1, <1>3 DEF FetchedBase, Fetched, OntoKept, StaysGone
  <2>3. BaseInv' /\ OntoInv'
    BY <1>1, <1>2, <2>1, <2>2, GitMInv
  <2>4. FollowInv'
    BY <1>1 DEF MInv, FollowInv
  <2>. QED  BY <2>3, <2>4 DEF MInv
<1>4. ASSUME base' = base, head' = head, prs' = prs PROVE MInv'
  <2>1. \A b \in Bases : base'[b] >= base[b]
    BY <1>4 DEF IInv, TypeInv
  <2>. QED  BY <1>3, <1>4, <2>1
<1>5. ASSUME NEW b \in Bases, BaseMoves(b) PROVE MInv'
  <2>1. base' = [base EXCEPT ![b] = base[b] + 1] /\ head' = head /\ prs' = prs
    BY <1>5 DEF BaseMoves
  <2>2. \A x \in Bases : base'[x] >= base[x]
    BY <2>1 DEF IInv, TypeInv
  <2>. QED  BY <1>3, <2>1, <2>2
<1>6. ASSUME NEW br \in Branches, UserPush(br) PROVE MInv'
  <2>. DEFINE h == [head[br] EXCEPT !.n = made'[br], !.by = "user"]
  <2>1. head[br] # NoHead /\ head' = [head EXCEPT ![br] = h] /\ base' = base /\ prs' = prs
    BY <1>6 DEF UserPush
  <2>2. h.onto = head[br].onto
    <3>1. head[br] \in Head
      BY <2>1, ValueFacts
    <3>. QED  BY <3>1 DEF Head
  <2>. HIDE DEF h
  <2>3. \A b \in Branches : head'[b] = head[b] \/ (b = br /\ head'[b] = h)
    BY <2>1 DEF IInv, TypeInv, Heads
  <2>4. \A b \in Bases : base'[b] >= base[b]
    BY <2>1 DEF IInv, TypeInv
  <2>. QED  BY <1>3, <2>1, <2>2, <2>3, <2>4
<1>7. ASSUME NEW br \in Branches, NEW state \in {"closed", "merged"},
             prs' = [prs EXCEPT ![br] = [prs[br] EXCEPT !.state = state, !.head = head[br]]],
             head' = head \/ head' = [head EXCEPT ![br] = NoHead],
             base' = base \/ base' = [base EXCEPT ![BaseOf[br]] = base[BaseOf[br]] + 1]
      PROVE  MInv'
  <2>. DEFINE pr == [prs[br] EXCEPT !.state = state, !.head = head[br]]
  <2>1. pr.state = state
    BY ValueFacts DEF Pr
  <2>2. prs' = [prs EXCEPT ![br] = pr]
    BY <1>7
  <2>. HIDE DEF pr
  <2>3. \A b \in Branches : prs'[b] = prs[b] \/ prs'[b] = pr
    BY <2>2 DEF IInv, TypeInv, Prs
  <2>4. \A b \in Branches : head'[b] \in {head[b], NoHead}
    BY <1>7 DEF IInv, TypeInv, Heads
  <2>5. \A b \in Bases : base'[b] >= base[b]
    BY <1>7 DEF IInv, TypeInv
  <2>. QED  BY <1>3, <2>1, <2>3, <2>4, <2>5
<1>8. ASSUME NEW br \in Branches, UserCloses(br) PROVE MInv'
  BY <1>7, <1>8 DEF UserCloses
<1>9. ASSUME NEW br \in Branches, NEW delete \in BOOLEAN, UserMerges(br, delete) PROVE MInv'
  BY <1>7, <1>9 DEF UserMerges
<1>10. CASE \/ \E br \in Branches, result \in CheckResults : ChecksEnd(br, result)
            \/ \E br \in Branches : Withdraw(br) \/ Return(br) \/ Release(br)
            \/ HourPasses
  BY <1>4, <1>10 DEF ChecksEnd, Withdraw, Return, Release, HourPasses, remoteVars
<1>. QED  BY <1>5, <1>6, <1>8, <1>9, <1>10 DEF World
----------------------------------------------------------------------------
(* What is merged follows, action by action *)

\* outside the loop over branches nothing is said of a branch
LEMMA FreshFacts ==
    /\ IInv /\ work # NoWork => Fresh
    /\ IInv /\ work = NoWork => FollowInv
BY DEF IInv, LoopInv, Fresh, FollowInv

\* the work on a branch goes on, if it does, with what is known of the branch
LEMMA WorkMInv ==
    ASSUME IInv, MInv, IInv', BaseInv' /\ OntoInv',
           \/ work' = NoWork \/ work'.stage = "check"
           \/ /\ work # NoWork /\ work.stage # "check" /\ work'.br = work.br
              /\ UNCHANGED <<cloned, origin, edited, merged>>
    PROVE  MInv'
BY DEF MInv, FollowInv

LEMMA ReopenMInv ==
    ASSUME IInv, MInv, IInv', NEW known \in Prs, NEW S \in SUBSET Branches, ReopenPrs(known, S),
           \A br \in Branches : known[br].state = "autoclosed" => prs[br].state = "autoclosed",
           UNCHANGED <<base, merged, cloned, origin, originBase>>, Fresh' => Fresh
    PROVE  BaseInv' /\ OntoInv'
<1>1. \A br \in Branches :
         \/ head'[br] = head[br] /\ prs'[br] = prs[br]
         \/ prs[br].state = "autoclosed" /\ prs'[br].state = "open"
  BY ReopenFacts
<1>2. cloned' => originBase' = FetchedBase /\ origin' = Fetched
  BY DEF FetchedBase, Fetched
<1>3. ASSUME cloned', NEW br \in Branches PROVE OntoKept(br) /\ StaysGone(br)
  <2>1. prs[br].state = "autoclosed" => origin'[br] = NoHead
    BY <1>3 DEF MInv, OntoInv
  <2>. QED  BY <1>1, <1>2, <1>3, <2>1 DEF OntoKept, StaysGone
<1>. QED  BY <1>2, <1>3, GitMInv DEF MInv, BaseInv

LEMMA DeleteMInv ==
    ASSUME IInv, MInv, IInv', NEW br \in Branches, \A b \in Bases : merged'[b] <= base'[b],
           Fresh' => Fresh /\ merged' = merged,
           cloned' = TRUE /\ originBase' = FetchedBase,
           head' = [head EXCEPT ![br] = NoHead], origin' = [Fetched EXCEPT ![br] = NoHead],
           \A b \in Branches : b # br /\ prs'[b].state = "autoclosed" => prs[b].state = "autoclosed"
    PROVE  BaseInv' /\ OntoInv'
<1>1. /\ head'[br] = NoHead /\ origin'[br] = NoHead
      /\ \A b \in Branches : b # br => head'[b] = head[b] /\ origin'[b] = Fetched[b]
  BY FetchedFacts DEF IInv, TypeInv, Heads
<1>2. \A b \in Branches : OntoKept(b) /\ StaysGone(b)
  BY <1>1 DEF OntoKept, StaysGone
<1>. QED  BY <1>2, GitMInv

LEMMA EndsMInv ==
    ASSUME IInv, MInv, IInv', InitRepo \/ RunOver, UNCHANGED <<base, merged>>
    PROVE  MInv'
<1>1. cloned' = FALSE /\ work' = NoWork
  <2>1. CASE InitRepo
    BY <2>1 DEF InitRepo, IInv, CloneInv, LoopInv, TypeInv
  <2>2. CASE RunOver
    BY <2>2 DEF RunOver, AttemptOver
  <2>. QED  BY <2>1, <2>2
<1>. QED  BY <1>1, UnclonedMInv DEF MInv, BaseInv

\* the start and the end of the loop, and the pruning of branches
LEMMA OutsideMInv ==
    ASSUME IInv, MInv, IInv',
           \/ Extract \/ SetLimits \/ \E lost \in SUBSET list : EndWrite(lost)
           \/ \E br \in Branches : PruneBranch(br) \/ SkipPrune(br)
    PROVE  MInv'
<1>1. work' = NoWork
  BY DEF Extract, SetLimits, EndWrite, PruneBranch, SkipPrune, IInv, LoopInv
<1>2. CASE \/ Extract \/ \E lost \in SUBSET list : EndWrite(lost)
           \/ \E br \in Branches : SkipPrune(br)
  <2>1. /\ UNCHANGED <<base, head, prs, merged>>
        /\ Fresh' => Fresh
        /\ SyncGit \/ UNCHANGED <<cloned, origin, originBase>>
    BY <1>1, <1>2 DEF Extract, EndWrite, SkipPrune, AskGit, Fresh, worldVars, remoteVars, keptVars, gitVars
  <2>. QED  BY <1>1, <2>1, LookMInv, WorkMInv
<1>3. CASE SetLimits
  <2>1. /\ ReopenPrs(prs, IF PrLimit = 0 THEN {} ELSE list) /\ phase = "limits"
        /\ UNCHANGED <<base, merged, cloned, origin, originBase>>
    BY <1>3 DEF SetLimits, gitVars, keptVars
  <2>2. prs \in Prs /\ (IF PrLimit = 0 THEN {} ELSE list) \in SUBSET Branches /\ Fresh
    BY <2>1 DEF IInv, TypeInv, Fresh
  <2>. QED  BY <1>1, <2>1, <2>2, ReopenMInv, WorkMInv
<1>4. ASSUME NEW br \in Branches, PruneBranch(br) PROVE MInv'
  <2>1. /\ cloned' = TRUE /\ originBase' = FetchedBase /\ phase' = "prune"
        /\ head' = [head EXCEPT ![br] = NoHead] /\ origin' = [Fetched EXCEPT ![br] = NoHead]
        /\ prs' = [prs EXCEPT ![br] = AutoClosed(br)] \/ prs' = prs
        /\ UNCHANGED <<base, merged>>
    BY <1>4 DEF PruneBranch, Delete, keptVars
  <2>2. \A b \in Branches : b # br => prs'[b] = prs[b]
    BY <2>1 DEF IInv, TypeInv, Prs
  <2>. QED  BY <1>1, <2>1, <2>2, DeleteMInv, WorkMInv DEF Fresh, MInv, BaseInv
<1>. QED  BY <1>2, <1>3, <1>4

\* processBranch returns, or leaves the branch to ensurePr
LEMMA QuietMInv ==
    ASSUME IInv, MInv, IInv', NEW br \in Branches,
           \/ SkipOverLimit(br) \/ EarlyReturn(br) \/ WithoutPr(br) \/ NoPrCreated(br) \/ NoMerge(br)
           \/ NoBranchAutomerge(br) \/ \E failed \in BOOLEAN : MergeBranchFails(br, failed)
    PROVE  MInv'
<1>1. work # NoWork /\ UNCHANGED <<worldVars, gitVars, phase, todo, merged>>
  BY DEF SkipOverLimit, EarlyReturn, WithoutPr, NoPrCreated, MayCreatePr, NoMerge, NoBranchAutomerge,
         MergeBranchFails, MergeReady, At, keptVars
<1>2. UNCHANGED <<base, head, prs, cloned, origin, originBase, edited>>
  BY <1>1 DEF worldVars, remoteVars, gitVars
<1>3. BaseInv' /\ OntoInv'
  BY <1>1, <1>2, FreshFacts, LookMInv
<1>4. work' = NoWork \/ (work.stage = "automerge" /\ \E f \in BOOLEAN : Goto("pr", f))
  <2>1. CASE SkipOverLimit(br) \/ EarlyReturn(br) \/ WithoutPr(br) \/ NoPrCreated(br) \/ NoMerge(br)
    BY <2>1 DEF SkipOverLimit, EarlyReturn, WithoutPr, NoPrCreated, NoMerge, Leave
  <2>2. CASE NoBranchAutomerge(br)
    <3>1. (checks[br] = "red") \in BOOLEAN
      OBVIOUS
    <3>. QED  BY <2>2, <3>1 DEF NoBranchAutomerge, At
  <2>3. ASSUME NEW failed \in BOOLEAN, MergeBranchFails(br, failed)
        PROVE  work.stage = "automerge" /\ Goto("pr", failed)
    BY <2>3 DEF MergeBranchFails, MergeReady, At
  <2>. QED  BY <2>1, <2>2, <2>3
<1>5. work' = NoWork \/ (work.stage # "check" /\ work'.br = work.br)
  BY <1>1, <1>4, WorkFacts, GotoFacts
<1>. QED  BY <1>1, <1>2, <1>3, <1>5, WorkMInv

\* the branch is deleted, or is edited, or is taken up
LEMMA ReturnsMInv ==
    ASSUME IInv, MInv, IInv', NEW br \in Branches,
           StartBranch(br) \/ HandlePr(br) \/ CreateFails(br) \/ PrEdited(br)
    PROVE  MInv'
<1>1. CASE StartBranch(br)
  <2>1. /\ ReopenPrs(prList, {br}) /\ work'.stage = "check" /\ phase = "write" /\ br \in todo
        /\ UNCHANGED <<base, merged, cloned, origin, originBase>>
    BY <1>1 DEF StartBranch, gitVars, keptVars
  <2>2. /\ prList \in Prs /\ {br} \in SUBSET Branches /\ Fresh
        /\ \A b \in Branches : prList[b].state = "autoclosed" => prs[b].state = "autoclosed"
    BY <2>1 DEF IInv, TypeInv, AutoInv, Fresh
  <2>. QED  BY <2>1, <2>2, ReopenMInv, WorkMInv
<1>2. CASE (HandlePr(br) \/ CreateFails(br)) /\ Delete(br)
  <2>1. /\ work # NoWork /\ work' = NoWork /\ UNCHANGED <<base, prs, merged>>
    BY <1>2 DEF HandlePr, CreateFails, MayCreatePr, At, Leave, keptVars
  <2>2. /\ cloned' = TRUE /\ originBase' = FetchedBase
        /\ head' = [head EXCEPT ![br] = NoHead] /\ origin' = [Fetched EXCEPT ![br] = NoHead]
    BY <1>2 DEF Delete
  <2>. QED  BY <2>1, <2>2, DeleteMInv, WorkMInv, FreshFacts DEF MInv, BaseInv
<1>3. CASE PrEdited(br) \/ (HandlePr(br) /\ UNCHANGED <<head, cloned, origin, originBase>>)
  <2>1. /\ work # NoWork /\ work' = NoWork /\ UNCHANGED <<base, head, prs, merged>>
        /\ SyncGit \/ UNCHANGED <<cloned, origin, originBase>>
    BY <1>3 DEF HandlePr, PrEdited, AskGit, Proceeds, At, Leave, worldVars, remoteVars, keptVars
  <2>. QED  BY <2>1, LookMInv, WorkMInv, FreshFacts
<1>. QED  BY <1>1, <1>2, <1>3 DEF HandlePr, CreateFails

\* A branch that is kept and may be automerged contains the current base branch
\* as the clone has it, which no merge of this attempt has made old; with one
\* base branch the current one is its own.
LEMMA KeepBranchMInv ==
    ASSUME IInv, MInv, IInv', SingleBase, NEW br \in Branches, NEW skip, KeepBranch(br, skip)
    PROVE  MInv'
<1>1. /\ work # NoWork /\ work.br = br /\ Goto("automerge", FALSE) /\ SyncGit /\ Remember(br)
      /\ Fetched[br] # NoHead /\ UpToDate(br) /\ UNCHANGED <<base, head, prs, merged, phase, todo>>
  BY DEF KeepBranch, UpToDate, MayUpdate, Proceeds, At, worldVars, remoteVars, keptVars
<1>2. cloned' = TRUE /\ origin' = Fetched /\ work'.br = br
  BY <1>1, WorkFacts, GotoFacts DEF SyncGit
<1>3. BaseInv' /\ OntoInv'
  BY <1>1, FreshFacts, LookMInv
<1>4. edited'[br] = (IF Modified(br) THEN "yes" ELSE "no")
  BY <1>1 DEF Remember, IInv, TypeInv
<1>5. BaseOf[br] = current
  BY ConstantsAssumption DEF SingleBase, IInv, TypeInv
<1>6. /\ merged[current] \in Nat /\ FetchedBase[current] \in Nat
      /\ merged[current] <= FetchedBase[current]
  BY <1>1, FetchedFacts, FreshFacts DEF FetchedBase, MInv, BaseInv, IInv, TypeInv
<1>7. Fetched[br].onto \in Nat
  BY <1>1, FetchedFacts DEF Heads, Head
<1>8. Automerge[br] # "none" /\ ~Modified(br) => merged[BaseOf[br]] <= origin'[br].onto
  BY <1>1, <1>2, <1>5, <1>6, <1>7 DEF UpToDate, Contains
<1>9. FollowInv'
  BY <1>1, <1>2, <1>4, <1>8 DEF FollowInv
<1>. QED  BY <1>3, <1>9 DEF MInv

\* a new commit is made on top of the branch's base branch as the clone has it
LEMMA CommitBranchMInv ==
    ASSUME IInv, MInv, IInv', NEW br \in Branches, CommitBranch(br)
    PROVE  MInv'
<1>. DEFINE h == Made(br)
<1>1. /\ work # NoWork /\ work.br = br /\ cloned' = TRUE /\ originBase' = FetchedBase
      /\ head' = [head EXCEPT ![br] = h] /\ origin' = [Fetched EXCEPT ![br] = h]
      /\ edited' = [edited EXCEPT ![br] = "no"]
      /\ work' = NoWork \/ Goto(IF work.existed THEN "automerge" ELSE "pr", FALSE)
      /\ UNCHANGED <<base, prs, phase, merged>>
  BY DEF CommitBranch, NeedsCommit, MayUpdate, Proceeds, At
<1>2. FetchedBase[BaseOf[br]] \in Nat /\ merged[BaseOf[br]] <= FetchedBase[BaseOf[br]]
  BY <1>1, FetchedFacts, FreshFacts, ConstantsAssumption DEF FetchedBase, MInv, BaseInv
<1>3. h \in Head /\ h.onto = FetchedBase[BaseOf[br]]
  <2>1. rel[br] \in Nat /\ made[br] \in Nat
    BY ValueFacts
  <2>. QED  BY <1>2, <2>1 DEF Made, Head
<1>. HIDE DEF h
<1>4. /\ head'[br] = h /\ origin'[br] = h /\ edited'[br] = "no" /\ h # NoHead
      /\ \A b \in Branches : b # br => head'[b] = head[b] /\ origin'[b] = Fetched[b]
  BY <1>1, <1>3, FetchedFacts, NullsAssumption DEF IInv, TypeInv, Heads
<1>5. \A b \in Branches : OntoKept(b) /\ StaysGone(b)
  <2>1. prs[br].state # "autoclosed"
    BY <1>1, WorkFacts
  <2>. QED  BY <1>1, <1>4, <2>1 DEF OntoKept, StaysGone
<1>6. BaseInv' /\ OntoInv'
  BY <1>1, <1>5, FreshFacts, GitMInv DEF MInv, BaseInv
<1>7. work' = NoWork \/ work'.br = br
  BY <1>1, WorkFacts, GotoFacts
<1>8. FollowInv'
  BY <1>1, <1>2, <1>3, <1>4, <1>7 DEF FollowInv
<1>. QED  BY <1>6, <1>8 DEF MInv

LEMMA EnsurePrMInv ==
    ASSUME IInv, MInv, IInv', NEW br \in Branches,
           WithExistingPr(br) \/ CreatePr(br) \/ LoseAnswer(br)
    PROVE  MInv'
<1>1. /\ work # NoWork /\ work.br = br /\ work.stage = "pr"
      /\ work' = NoWork \/ Goto("merge", work.forcePr)
      /\ UNCHANGED <<base, head, merged, cloned, origin, originBase, edited>>
  BY DEF WithExistingPr, CreatePr, LoseAnswer, MayCreatePr, At, Leave, gitVars, keptVars
<1>2. \A b \in Branches : prs'[b].state = "autoclosed" => prs[b].state = "autoclosed"
  <2>1. CASE WithExistingPr(br)
    <3>1. prs' = prs \/ prs' = [prs EXCEPT ![br] = [prs[br] EXCEPT !.rel = rel[br]]]
      BY <2>1 DEF WithExistingPr, IInv, TypeInv, Prs
    <3>2. [prs[br] EXCEPT !.rel = rel[br]].state = prs[br].state
      BY ValueFacts, PrTitled
    <3>. QED  BY <3>1, <3>2 DEF IInv, TypeInv, Prs
  <2>2. CASE CreatePr(br) \/ LoseAnswer(br)
    <3>1. prs' = [prs EXCEPT ![br] = [state |-> "open", rel |-> rel[br], head |-> NoHead]]
      BY <2>2 DEF CreatePr, LoseAnswer, OpenPr
    <3>. QED  BY <3>1 DEF IInv, TypeInv, Prs
  <2>. QED  BY <2>1, <2>2
<1>3. BaseInv' /\ OntoInv'
  BY <1>1, <1>2, FreshFacts, LookMInv
<1>4. work' = NoWork \/ work'.br = br
  <2>1. work.forcePr \in BOOLEAN
    BY <1>1, WorkFacts DEF Work
  <2>. QED  BY <1>1, <2>1, WorkFacts, GotoFacts
<1>. QED  BY <1>1, <1>3, <1>4, WorkMInv

\* after a merge the loop stops, with or without a second attempt
LEMMA MergedMInv ==
    ASSUME IInv, MInv, IInv', NEW br \in Branches, NEW b \in Bases, NEW known, work # NoWork,
           base' = [base EXCEPT ![b] = base[b] + 1], merged' = [merged EXCEPT ![b] = base'[b]],
           StopAfterMerge(br, known),
           \A x \in Branches : x # br => prs'[x] = prs[x]
    PROVE  MInv'
<1>1. \A x \in Bases : merged'[x] <= base'[x]
  BY DEF MInv, BaseInv, IInv, TypeInv
<1>2. CASE AttemptOver
  BY <1>1, <1>2, UnclonedMInv DEF AttemptOver
<1>3. CASE /\ cloned' = TRUE /\ originBase' = FetchedBase /\ origin' = [Fetched EXCEPT ![br] = NoHead]
           /\ todo' = {} /\ work' = NoWork /\ UNCHANGED phase
  <2>1. head' = [head EXCEPT ![br] = NoHead]
    BY DEF StopAfterMerge
  <2>2. ~Fresh'
    BY <1>3, WorkFacts DEF Fresh
  <2>. QED  BY <1>1, <1>3, <2>1, <2>2, DeleteMInv, WorkMInv
<1>. QED  BY <1>2, <1>3 DEF StopAfterMerge

LEMMA MergesMInv ==
    ASSUME IInv, MInv, IInv', NEW br \in Branches, MergeBranch(br) \/ MergePr(br)
    PROVE  MInv'
<1>1. CASE MergeBranch(br)
  <2>1. /\ work # NoWork /\ StopAfterMerge(br, prList) /\ current \in Bases
        /\ base' = [base EXCEPT ![current] = base[current] + 1]
        /\ merged' = [merged EXCEPT ![current] = base'[current]]
        /\ prs' = [prs EXCEPT ![br].state = IF prs[br].state = "open" THEN "merged" ELSE prs[br].state]
    BY <1>1 DEF MergeBranch, MergeReady, At, IInv, TypeInv
  <2>2. \A b \in Branches : b # br => prs'[b] = prs[b]
    BY <2>1 DEF IInv, TypeInv, Prs
  <2>. QED  BY <2>1, <2>2, MergedMInv
<1>2. CASE MergePr(br)
  <2>. DEFINE pr == [prs[br] EXCEPT !.state = "merged", !.head = head[br]]
              known == [prList EXCEPT ![br] = prs'[br]]
  <2>1. /\ work # NoWork /\ StopAfterMerge(br, known) /\ BaseOf[br] \in Bases
        /\ base' = [base EXCEPT ![BaseOf[br]] = base[BaseOf[br]] + 1]
        /\ merged' = [merged EXCEPT ![BaseOf[br]] = base'[BaseOf[br]]]
        /\ prs' = [prs EXCEPT ![br] = pr]
    BY <1>2, ConstantsAssumption DEF MergePr, At
  <2>. HIDE DEF pr, known
  <2>2. \A b \in Branches : b # br => prs'[b] = prs[b]
    BY <2>1 DEF IInv, TypeInv, Prs
  <2>. QED  BY <2>1, <2>2, MergedMInv
<1>. QED  BY <1>1, <1>2

----------------------------------------------------------------------------

LEMMA InitMInv == Init => MInv
<1>. SUFFICES ASSUME Init PROVE MInv
  OBVIOUS
<1>1. /\ base = [b \in Bases |-> 0] /\ merged = [b \in Bases |-> 0]
      /\ cloned = FALSE /\ work = NoWork
  BY DEF Init
<1>2. \A b \in Bases : merged[b] <= base[b]
  BY <1>1
<1>. QED  BY <1>1, <1>2 DEF MInv, BaseInv, OntoInv, FollowInv

LEMMA StepMInv == ASSUME SingleBase PROVE IInv /\ MInv /\ IInv' /\ [Next]_vars => MInv'
<1>. SUFFICES ASSUME IInv, MInv, IInv', [Next]_vars PROVE MInv'
  OBVIOUS
<1>1. ASSUME RunOver, UNCHANGED <<worldVars, saved, merged>> PROVE MInv'
  <2>1. UNCHANGED <<base, merged>>
    BY <1>1 DEF worldVars, remoteVars
  <2>. QED  BY <1>1, <2>1, EndsMInv
<1>2. ASSUME NEW br \in Branches, ProcessBranch(br) PROVE MInv'
  <2>1. CASE RepositoryChanged(br)
    BY <1>1, <2>1 DEF RepositoryChanged, Abort
  <2>2. CASE \/ SkipOverLimit(br) \/ EarlyReturn(br) \/ WithoutPr(br) \/ NoPrCreated(br) \/ NoMerge(br)
             \/ NoBranchAutomerge(br) \/ \E failed \in BOOLEAN : MergeBranchFails(br, failed)
    BY <2>2, QuietMInv
  <2>3. CASE StartBranch(br) \/ HandlePr(br) \/ CreateFails(br) \/ PrEdited(br)
    BY <2>3, ReturnsMInv
  <2>4. CASE CommitBranch(br) \/ \E skip \in BOOLEAN : KeepBranch(br, skip)
    BY <2>4, CommitBranchMInv, KeepBranchMInv
  <2>5. CASE WithExistingPr(br) \/ CreatePr(br) \/ LoseAnswer(br)
    BY <2>5, EnsurePrMInv
  <2>6. CASE MergeBranch(br) \/ MergePr(br)
    BY <2>6, MergesMInv
  <2>. QED  BY <1>2, <2>1, <2>2, <2>3, <2>4, <2>5, <2>6 DEF ProcessBranch
<1>3. CASE World
  BY <1>3, WorldMInv
<1>4. CASE InitRepo
  <2>1. UNCHANGED <<base, merged>>
    BY <1>4 DEF InitRepo, worldVars, remoteVars
  <2>. QED  BY <1>4, <2>1, EndsMInv
<1>5. CASE \/ Extract \/ SetLimits \/ \E lost \in SUBSET list : EndWrite(lost)
           \/ \E br \in Branches : PruneBranch(br) \/ SkipPrune(br)
  BY <1>5, OutsideMInv
<1>6. CASE EndRun \/ Killed
  BY <1>1, <1>6 DEF EndRun, Killed, Abort
<1>7. CASE UNCHANGED vars
  BY <1>7 DEF vars, worldVars, remoteVars, runVars, gitVars, keptVars, MInv, BaseInv, OntoInv,
              FollowInv, Fresh
<1>. QED  BY <1>2, <1>3, <1>4, <1>5, <1>6, <1>7 DEF Next, Run

LEMMA MergedStep ==
    ASSUME IInv, [Next]_vars
    PROVE  merged' = merged \/ \E br \in Branches : MergeBranch(br) \/ MergePr(br)
<1>1. CASE World \/ Killed \/ UNCHANGED vars
  BY <1>1 DEF World, BaseMoves, ChecksEnd, UserPush, UserCloses, UserMerges, Withdraw, Return, Release,
              HourPasses, Killed, Abort, vars, keptVars
<1>2. CASE InitRepo \/ Extract \/ SetLimits \/ (\E lost \in SUBSET list : EndWrite(lost)) \/ EndRun
           \/ \E br \in Branches : PruneBranch(br) \/ SkipPrune(br)
  BY <1>2 DEF InitRepo, Extract, SetLimits, EndWrite, EndRun, PruneBranch, SkipPrune, keptVars
<1>3. ASSUME NEW br \in Branches, ProcessBranch(br) PROVE merged' = merged \/ MergeBranch(br) \/ MergePr(br)
  BY <1>3 DEF ProcessBranch, StartBranch, HandlePr, SkipOverLimit, EarlyReturn, PrEdited, CommitBranch,
              RepositoryChanged, Abort, KeepBranch, NoBranchAutomerge, MergeBranchFails, WithoutPr,
              WithExistingPr, CreatePr, LoseAnswer, NoPrCreated, CreateFails, NoMerge, keptVars
<1>. QED  BY <1>1, <1>2, <1>3 DEF Next, Run

\* what is merged contains what was merged into its base before
LEMMA StepFollows ==
    ASSUME IInv, MInv, [Next]_vars, NEW br \in Branches, NEW b \in Bases, Merges(br, b)
    PROVE  Contains(br, MergedHead(br), b, merged[b])
<1>1. work # NoWork /\ work.br = br /\ merged'[b] # merged[b] /\ Fresh
  BY FreshFacts DEF Merges
<1>2. MergeBranch(br) \/ MergePr(br)
  BY <1>1, MergedStep DEF MergeBranch, MergeReady, MergePr, At
<1>3. origin \in Heads /\ head \in Heads /\ merged \in [Bases -> Nat] /\ originBase \in [Bases -> Nat]
      /\ cloned /\ edited[br] # "unset" /\ edited[br] \in {"unset", "yes", "no"}
  BY <1>1, <1>2 DEF IInv, TypeInv, MInv, FollowInv, MergeBranch, MergeReady, MergePr, At
<1>4. CASE MergeBranch(br)
  <2>1. /\ work.stage = "automerge" /\ origin[br] # NoHead
        /\ Contains(br, origin[br], current, originBase[current])
        /\ merged' = [merged EXCEPT ![current] = base'[current]]
    BY <1>4 DEF MergeBranch, MergeReady, FastForwards, At
  <2>2. b = current /\ MergedHead(br) = origin[br] /\ origin[br].onto \in Nat
    BY <1>1, <1>3, <2>1 DEF MergedHead, At, Heads, Head
  <2>3. merged[b] <= originBase[b]
    BY <1>1, <1>3 DEF MInv, BaseInv
  <2>. QED  BY <1>3, <2>1, <2>2, <2>3 DEF Contains
<1>5. CASE MergePr(br)
  <2>1. /\ work.stage = "merge" /\ Automerge[br] # "none" /\ ~Modified(br) /\ head[br] # NoHead
        /\ merged' = [merged EXCEPT ![BaseOf[br]] = base'[BaseOf[br]]]
    BY <1>5 DEF MergePr, At
  <2>2. b = BaseOf[br] /\ MergedHead(br) = head[br]
    BY <1>1, <1>3, <2>1 DEF MergedHead, At
  <2>3. edited[br] = "no"
    BY <1>3, <2>1 DEF Modified
  <2>4. origin[br] # NoHead /\ merged[b] <= origin[br].onto
    BY <1>1, <2>1, <2>2, <2>3 DEF MInv, FollowInv
  <2>5. head[br].onto = origin[br].onto
    BY <1>3, <2>1, <2>4 DEF MInv, OntoInv
  <2>. QED  BY <2>2, <2>4, <2>5 DEF Contains
<1>. QED  BY <1>2, <1>4, <1>5

\* With one base branch, whatever Renovate merges into it contains all that it
\* merged there before: as a branch it is fast-forwarded from the clone, as a pull
\* request it was found up to date, or made anew, in this attempt, which no merge
\* precedes (writeUpdates stops after a merge, shouldReuseExistingBranch rebases).
THEOREM MergesFollowOneBase == ASSUME SingleBase PROVE Spec => MergesFollow
<1>1. Init => MInv
  BY InitMInv
<1>2. IInv /\ IInv' /\ MInv /\ [Next]_vars => MInv'
  BY StepMInv
<1>3. IInv /\ MInv /\ [Next]_vars =>
         [\A br \in Branches, b \in Bases :
            Merges(br, b) => Contains(br, MergedHead(br), b, merged[b])]_vars
  BY StepFollows
<1>4. Spec => [][\A br \in Branches, b \in Bases :
            Merges(br, b) => Contains(br, MergedHead(br), b, merged[b])]_vars
  BY <1>1, <1>2, <1>3, Invariant, PTL DEF Spec
<1>. QED  BY <1>4 DEF MergesFollow
============================================================================
