-------------------------- MODULE DashboardProofs --------------------------
(***************************************************************************)
(* That ticks are kept, for every number of branches and of issues, and    *)
(* whatever is ticked, fails, is aborted or starts again.                  *)
(*                                                                         *)
(* A run rewrites the issue from what it remembers of it, so the argument  *)
(* is about what it remembers: up to the last look, a tick that nobody     *)
(* acted on is no check of the run (ProcessInv); from then on, a tick that *)
(* is not in the remembered body came after that look (EnsureInv).         *)
(***************************************************************************)
EXTENDS Dashboard, TLAPS

(* The inductive invariant *)

IsOrdered(numbers, before) ==
    \A m, n \in numbers : m # n => m \in before[n] \/ n \in before[m]

OrderInv == IsOrdered(Issues, later) /\ IsOrdered(Listed, order)

\* Before it looks, a run remembers nothing.
BeginInv ==
    /\ phase \in {"idle", "list", "find"} => memory = NotAsked /\ dashboard = NoIssue /\ next = 1
    /\ phase \in {"idle", "list"} => NotBegun

\* Without a dashboard found, nothing is ticked on what was listed, or only later.
UnfoundInv ==
    ~RebaseAllInRun /\ phase \in {"find", "process", "ensure"} /\ memory.status = "none" =>
        /\ \A o \in owed : list[o[1]] = "closed" => o \in late
        /\ phase # "find" => ListedOpen = {} /\ dashboard = NoIssue

\* With one, it is the one that ensureIssue chooses.
FoundInv ==
    phase \in {"process", "ensure"} =>
        /\ memory.status = "ok" => dashboard # NoIssue
        /\ dashboard # NoIssue => dashboard \in ListedOpen /\ IsChosen(dashboard)
        /\ phase = "process" /\ dashboard # NoIssue => memory.status = "ok"

\* A run closes the dashboard only when it has no box.
CloseInv == phase = "close" => \A b \in All : result[b] = "none"

BodyOf(n) == issue[n].body

ProcessInv ==
    ~RebaseAllInRun /\ phase = "process" /\ dashboard # NoIssue =>
        /\ "rebase" \in BodyOf(dashboard).all => rebaseAll
        /\ \A b \in checks : \/ b \in BodyOf(dashboard).ticked
                             \/ BodyOf(dashboard).types[b] \in {"approve", "unlimit"}
        /\ \A b \in checks : b < next => result[b] \in {"none", "rebase", "retry"}
        /\ \A o \in owed :
              /\ o[1] = dashboard /\ o[2] < next
              /\ BodyOf(dashboard).types[o[2]] = result[o[2]] /\ ~FailedAsked(o[2])
              => /\ o[2] \notin checks
                 /\ BodyOf(dashboard).types[o[2]] = "rebase" /\ "rebase" \in BodyOf(dashboard).all
                       => o[2] \in BodyOf(dashboard).ticked

EnsureInv ==
    ~RebaseAllInRun /\ phase = "ensure" /\ memory.status = "ok" =>
        /\ BodyOf(dashboard).types = memory.body.types
        /\ \A o \in owed \ late :
              /\ o[1] = dashboard /\ memory.body.types[o[2]] = result[o[2]]
              /\ ~FailedAsked(o[2])
              => o[2] \in Carried(memory.body)

\* The last look does not read "rebase all": see TicksStay.
Kept == ~RebaseAllInRun => TicksKept

Memories == {NotAsked, Failed} \cup {Answered(body) : body \in Bodies}

Lists == [Numbers -> {"none", "open", "closed"}]

Types ==
    /\ TypeOK
    /\ memory \in Memories /\ rebaseAll \in BOOLEAN /\ result \in [All -> Results]
    /\ issue \in [Numbers -> [state : {"none", "open", "closed"}, body : Bodies]]
    /\ list \in Lists

IInv ==
    /\ Types /\ OrderInv /\ BeginInv /\ UnfoundInv /\ FoundInv /\ CloseInv
    /\ ProcessInv /\ EnsureInv /\ Kept
----------------------------------------------------------------------------
(* What the operators do *)

\* What is ticked, box by box or by a box for all.
LEMMA Boxes ==
    ASSUME NEW body \in Bodies, NEW b \in All
    PROVE  /\ b \in Asked(body) <=> b \in body.ticked \/ body.types[b] \in body.all
           /\ b \in Parsed(body) <=> \/ b \in body.ticked
                                     \/ body.types[b] \in body.all \ {"rebase"}
BY DEF Asked, Parsed, OfType, Bodies

LEMMA ParsedType == \A body \in Bodies : Parsed(body) \subseteq All
BY DEF Parsed, OfType, Bodies

LEMMA NoBodyType == NoBody \in Bodies
BY DEF NoBody, NewBody, Bodies, Results, Stages

LEMMA MemoryStatus ==
    ASSUME memory \in Memories
    PROVE  /\ memory.status \in {"none", "failed", "ok"} /\ memory.body \in Bodies
           /\ memory = NotAsked <=> memory.status = "none"
           /\ memory = Failed <=> memory.status = "failed"
BY NoBodyType DEF Memories, NotAsked, Failed, Answered

LEMMA ListType == Types => list \in Lists /\ \A n \in Numbers : list[n] \in {list[n], "none"}
BY DEF Types

LEMMA BodyType ==
    ASSUME Types
    PROVE  Body \in Bodies
<1>1. Carried(memory.body) \subseteq All
  BY MemoryStatus, ParsedType DEF Types, Carried
<1>. QED  BY <1>1 DEF Types, Body, NewBody, Bodies

\* An update keeps the issues in one order.
LEMMA UpdateOrder ==
    ASSUME Types, OrderInv, NEW n \in Numbers, Update(n), Issues' = Issues \cup {n}
    PROVE  later' \in [Numbers -> SUBSET Issues'] /\ IsOrdered(Issues, later)'
<1>1. \A m \in Numbers : later'[m] = IF m \in Issues \ {n} THEN later[m] \cup {n} ELSE {}
  BY DEF Update
<1>2. later' \in [Numbers -> SUBSET Issues']
  BY <1>1 DEF Update, Types, TypeOK
<1>3. Issues \subseteq Numbers
  BY DEF Issues
<1>4. ASSUME NEW m \in Issues', NEW k \in Issues', m # k
      PROVE  m \in later'[k] \/ k \in later'[m]
  BY <1>1, <1>3, <1>4 DEF OrderInv, IsOrdered
<1>. QED  BY <1>2, <1>4 DEF IsOrdered
----------------------------------------------------------------------------
(* The initial states, and steps that end a run or start it again *)

\* The issues, and what is owed of them.
PeopleInv ==
    /\ stage \in [All -> Stages]
    /\ issue \in [Numbers -> [state : {"none", "open", "closed"}, body : Bodies]]
    /\ later \in [Numbers -> SUBSET Issues] /\ IsOrdered(Issues, later)
    /\ owed \subseteq Numbers \X All /\ late \subseteq Numbers \X All
    /\ ticks \in 0..MaxTicks /\ events \in 0..MaxEvents /\ failures \in 0..MaxFailures
    /\ Kept

LEMMA IInvPeople == IInv => PeopleInv
BY DEF IInv, Types, TypeOK, OrderInv, PeopleInv

Restarted == NotBegun /\ phase \in {"idle", "list"}

LEMMA NotBegunInv == PeopleInv /\ Restarted => IInv
<1>. SUFFICES ASSUME PeopleInv, Restarted PROVE IInv
  OBVIOUS
<1>. USE DEF Restarted, NotBegun, EmptyList, Unordered, NotAsked
<1>1. Listed = {}
  BY DEF Listed
<1>2. memory \in Memories /\ memory.status = "none"
  BY DEF Memories
<1>3. TypeOK
  BY <1>1, DashboardAssumption DEF PeopleInv, TypeOK, NoIssue, All
<1>4. Types
  BY <1>2, <1>3 DEF PeopleInv, Types, Lists, Results, Stages
<1>5. OrderInv
  BY <1>1 DEF PeopleInv, OrderInv, IsOrdered
<1>6. UnfoundInv
  BY <1>2 DEF UnfoundInv
<1>. QED
  BY <1>4, <1>5, <1>6 DEF IInv, PeopleInv, BeginInv, FoundInv, CloseInv, ProcessInv, EnsureInv

LEMMA InitIInv == Init => IInv
<1>. SUFFICES ASSUME Init PROVE IInv
  OBVIOUS
<1>1. issue \in [Numbers -> [state : {"none", "open", "closed"}, body : Bodies]]
  BY NoBodyType DEF Init
<1>2. Issues = {} /\ stage \in [All -> Stages]
  BY DashboardAssumption DEF Init, Issues, All, Stages
<1>3. later \in [Numbers -> SUBSET Issues] /\ IsOrdered(Issues, later)
  BY <1>2 DEF Init, Unordered, IsOrdered
<1>4. ticks \in 0..MaxTicks /\ events \in 0..MaxEvents /\ failures \in 0..MaxFailures
  BY DashboardAssumption DEF Init
<1>. QED
  BY <1>1, <1>2, <1>3, <1>4, NotBegunInv DEF Init, Restarted, PeopleInv, Kept, TicksKept

LEMMA RestartIInv == PeopleInv' /\ Restarted' => IInv'
BY NotBegunInv, PTL

LEMMA ForgetRestarts == Forget /\ phase' \in {"idle", "list"} => Restarted'
BY DEF Forget, Restarted, NotBegun

LEMMA BeginRunIInv == IInv /\ BeginRun => IInv'
<1>. SUFFICES ASSUME IInv, BeginRun PROVE IInv'
  OBVIOUS
<1>1. PeopleInv /\ NotBegun
  BY IInvPeople DEF IInv, BeginInv, BeginRun
<1>2. PeopleInv'
  BY <1>1 DEF BeginRun, people, PeopleInv, Kept, TicksKept, Issues, IsOrdered
<1>3. Restarted'
  BY <1>1 DEF BeginRun, issueList, NotBegun, Restarted
<1>. QED  BY <1>2, <1>3, RestartIInv

LEMMA AbortIInv == IInv /\ (Abort \/ RequestFails \/ Closed) => IInv'
<1>. SUFFICES ASSUME IInv, Abort \/ RequestFails \/ Closed PROVE IInv'
  OBVIOUS
<1>1. PeopleInv'
  <2>1. UNCHANGED people /\ owed' = owed /\ late' = {} /\ ticks' = ticks /\ events' = events
    BY DEF Abort, RequestFails, Closed
  <2>2. failures' \in 0..MaxFailures
    BY IInvPeople, DashboardAssumption DEF PeopleInv, Abort, RequestFails, Closed
  <2>. QED  BY <2>1, <2>2, IInvPeople DEF people, PeopleInv, Kept, TicksKept, Issues, IsOrdered
<1>2. Restarted'
  BY ForgetRestarts DEF Abort, RequestFails, Closed, EndRun
<1>. QED  BY <1>1, <1>2, RestartIInv

LEMMA AutomergeIInv == IInv /\ Automerge => IInv'
<1>. SUFFICES ASSUME IInv, Automerge PROVE IInv'
  OBVIOUS
<1>1. PeopleInv'
  <2>1. stage' \in [All -> Stages]
    BY IInvPeople DEF Automerge, PeopleInv, Stages
  <2>2. owed' \subseteq owed
    BY DEF Automerge, Settle
  <2>3. Kept'
    BY <2>2, IInvPeople DEF Automerge, PeopleInv, Kept, TicksKept
  <2>. QED
    BY <2>1, <2>2, <2>3, IInvPeople DEF Automerge, PeopleInv, Issues, IsOrdered
<1>2. Restarted'
  BY ForgetRestarts DEF Automerge, Retry, EndRun
<1>. QED  BY <1>1, <1>2, RestartIInv
----------------------------------------------------------------------------
(* Writing the issue: what is not carried over was not asked for in time *)

LEMMA CreateIInv == IInv /\ Create => IInv'
<1>. SUFFICES ASSUME IInv, Create PROVE IInv'
  OBVIOUS
<1>1. PICK n \in Numbers : /\ n \notin Issues
                           /\ issue' = [issue EXCEPT ![n] = [state |-> "open", body |-> Body]]
                           /\ Update(n)
  BY DEF Create, IsNextNumber
<1>2. issue' \in [Numbers -> [state : {"none", "open", "closed"}, body : Bodies]]
  BY <1>1, BodyType, IInvPeople DEF IInv, PeopleInv
<1>3. Issues' = Issues \cup {n}
  BY <1>1, IInvPeople DEF Issues, PeopleInv
<1>4. Kept'
  BY <1>1, IInvPeople DEF PeopleInv, Kept, TicksKept, Create, Issues
<1>5. PeopleInv'
  BY <1>1, <1>2, <1>3, <1>4, UpdateOrder, IInvPeople DEF IInv, PeopleInv, Create
<1>6. Restarted'
  BY ForgetRestarts DEF Create, EndRun
<1>. QED  BY <1>5, <1>6, RestartIInv

\* What is still owed of a dashboard that is rewritten is in the new body.
LEMMA WriteTicksKept ==
    ASSUME IInv, NEW n \in Listed, IsChosen(n), Duplicates = {}, phase = "ensure",
           Got(n) # Failed, ~RebaseAllInRun
    PROVE  \A o \in owed \ Dropped(n) : o[1] = n => o[2] \in Body.ticked
<1>. SUFFICES ASSUME NEW o \in owed \ Dropped(n), o[1] = n PROVE o[2] \in Body.ticked
  OBVIOUS
<1>1. o \notin late /\ BodyOf(n).types[o[2]] = result[o[2]] /\ ~FailedAsked(o[2])
  BY DEF Dropped, BodyOf
<1>2. Listed \subseteq Numbers /\ list[n] \in {"open", "closed"}
  BY DEF IInv, Types, Lists, Listed
<1>3. memory.status = "ok"
  <2>1. CASE memory.status = "none"
    <3>1. ListedOpen = {}
      BY <2>1 DEF IInv, UnfoundInv
    <3>2. list[n] = "closed"
      BY <1>2, <3>1 DEF ListedOpen
    <3>. QED  BY <1>1, <2>1, <3>2 DEF IInv, UnfoundInv
  <2>2. memory.status # "failed"
    BY MemoryStatus DEF IInv, Types, Got, NotAsked
  <2>. QED  BY <2>1, <2>2, MemoryStatus DEF IInv, Types
<1>4. dashboard \in ListedOpen /\ IsChosen(dashboard)
  BY <1>3 DEF IInv, FoundInv
<1>5. n = dashboard
  BY <1>4 DEF IInv, OrderInv, IsOrdered, IsChosen, ListedOpen, Listed
<1>6. o[2] \in Carried(memory.body)
  BY <1>1, <1>3, <1>5 DEF IInv, EnsureInv
<1>7. dashboard # NoIssue
  BY <1>4, DashboardAssumption DEF ListedOpen, NoIssue
<1>. QED  BY <1>6, <1>7 DEF Body, NewBody

LEMMA WriteIInv == IInv /\ Write => IInv'
<1>. SUFFICES ASSUME IInv, Write PROVE IInv'
  OBVIOUS
<1>1. PeopleInv'
  <2>1. CASE UNCHANGED <<issue, later, owed>>
    BY <2>1, IInvPeople DEF Write, EndRun, PeopleInv, Kept, TicksKept, Issues, IsOrdered
  <2>2. ASSUME NEW n \in Listed, IsChosen(n), Got(n) # Failed,
               issue' = [issue EXCEPT ![n] = [state |-> "open", body |-> Body]],
               Update(n), owed' = owed \ Dropped(n)
        PROVE  PeopleInv'
    <3>1. n \in Numbers /\ Issues' = Issues \cup {n}
      BY <2>2, IInvPeople DEF Listed, Issues, PeopleInv
    <3>2. issue' \in [Numbers -> [state : {"none", "open", "closed"}, body : Bodies]]
      BY <2>2, BodyType, IInvPeople DEF IInv, PeopleInv
    <3>3. ~RebaseAllInRun => \A o \in owed' : o[1] = n => o[2] \in Body.ticked
      BY <2>2, WriteTicksKept DEF Write
    <3>4. Kept'
      <4>. SUFFICES ASSUME ~RebaseAllInRun, NEW o \in owed'
                    PROVE  issue'[o[1]].state = "open" /\ o[2] \in Asked(issue'[o[1]].body)
        BY DEF Kept, TicksKept
      <4>1. o \in owed /\ o[1] \in Numbers
        BY <2>2, IInvPeople DEF PeopleInv
      <4>2. CASE o[1] = n
        BY <2>2, <3>1, <3>3, <4>2, IInvPeople DEF PeopleInv, Asked
      <4>3. CASE o[1] # n
        BY <2>2, <4>1, <4>3, IInvPeople DEF PeopleInv, Kept, TicksKept
      <4>. QED  BY <4>2, <4>3
    <3>. QED
      BY <2>2, <3>1, <3>2, <3>4, UpdateOrder, IInvPeople DEF IInv, PeopleInv, Write
  <2>. QED  BY <2>1, <2>2 DEF Write
<1>2. Restarted'
  BY ForgetRestarts DEF Write, EndRun
<1>. QED  BY <1>1, <1>2, RestartIInv
----------------------------------------------------------------------------
(* Steps that leave the bodies of the issues as they are *)

\* issues may leave the list, and ticks be settled
LEMMA DropIInv ==
    ASSUME IInv, PeopleInv', FoundInv', Issues \subseteq Issues', owed' \subseteq owed,
           \A n \in Numbers : issue'[n].body = issue[n].body,
           \A n \in Numbers : list'[n] \in {list[n], "none"}, list' \in Lists,
           UNCHANGED <<phase, order, dashboard, checks, rebaseAll, next, result, memory, late>>,
           phase \in {"idle", "list"} => list' = list
    PROVE  IInv'
<1>1. Listed' \subseteq Listed /\ ListedOpen' \subseteq ListedOpen
  BY DEF Listed, ListedOpen, IInv, Types, Lists
<1>3. TypeOK'
  BY <1>1 DEF IInv, Types, Lists, TypeOK, PeopleInv
<1>4. Types'
  BY <1>3 DEF IInv, Types, PeopleInv
<1>5. OrderInv'
  BY <1>1 DEF IInv, OrderInv, IsOrdered, PeopleInv
<1>6. BeginInv'
  BY DEF IInv, BeginInv, NotBegun
<1>7. UnfoundInv'
  <2>1. \A n \in Numbers : list'[n] = "closed" => list[n] = "closed"
    OBVIOUS
  <2>2. \A o \in owed' : o[1] \in Numbers
    BY DEF IInv, Types, TypeOK
  <2>. QED  BY <1>1, <2>1, <2>2 DEF IInv, UnfoundInv
<1>8. dashboard \in Numbers \cup {NoIssue}
  BY DEF IInv, Types, TypeOK
<1>9. ProcessInv' /\ CloseInv'
  BY <1>8 DEF IInv, ProcessInv, CloseInv, FailedAsked, BodyOf
<1>10. EnsureInv'
  <2>1. ASSUME phase = "ensure" /\ memory.status = "ok" PROVE dashboard \in Numbers
    BY <2>1 DEF IInv, FoundInv, ListedOpen
  <2>2. Carried(memory.body)' = Carried(memory.body)
    BY DEF Carried, Parsed, OfType
  <2>. QED  BY <2>1, <2>2 DEF IInv, EnsureInv, FailedAsked, BodyOf
<1>. QED  BY <1>4, <1>5, <1>6, <1>7, <1>9, <1>10 DEF IInv, PeopleInv

\* an issue is closed on which nothing is owed any more
LEMMA CloseDrops ==
    ASSUME IInv, NEW n \in Issues, Close(n), UNCHANGED <<stage, late, ticks>>,
           owed' \subseteq owed, ~RebaseAllInRun => \A o \in owed' : o[1] # n,
           events' \in 0..MaxEvents, failures' \in 0..MaxFailures
    PROVE  /\ PeopleInv' /\ Issues' = Issues
           /\ \A m \in Numbers : issue'[m].body = issue[m].body
<1>1. n \in Numbers
  BY DEF Issues
<1>2. Issues' = Issues
  BY <1>1, IInvPeople DEF Close, Issues, PeopleInv
<1>3. issue' \in [Numbers -> [state : {"none", "open", "closed"}, body : Bodies]]
  BY <1>1, IInvPeople DEF Close, PeopleInv
<1>4. \A m \in Numbers : issue'[m].body = issue[m].body /\ (m # n => issue'[m] = issue[m])
  BY <1>1, IInvPeople DEF Close, PeopleInv
<1>5. Kept'
  BY <1>4, IInvPeople DEF Close, PeopleInv, Kept, TicksKept
<1>6. later' \in [Numbers -> SUBSET Issues'] /\ IsOrdered(Issues, later)'
  BY <1>1, <1>2, UpdateOrder DEF IInv, Close
<1>. QED
  BY <1>2, <1>3, <1>4, <1>5, <1>6, IInvPeople DEF PeopleInv, Close

LEMMA PersonClosesIInv == IInv /\ Event /\ PersonCloses => IInv'
<1>. SUFFICES ASSUME IInv, Event, PersonCloses PROVE IInv'
  OBVIOUS
<1>1. PICK n \in Open : Close(n) /\ owed' = {o \in owed : o[1] # n}
  BY DEF PersonCloses
<1>2. n \in Issues
  BY DEF Open, Issues
<1>3. events' \in 0..MaxEvents /\ failures' \in 0..MaxFailures
  BY DashboardAssumption, IInvPeople DEF PeopleInv, Event, PersonCloses
<1>4. UNCHANGED <<stage, run, late, ticks>>
  BY DEF PersonCloses
<1>5. FoundInv'
  BY <1>4 DEF IInv, FoundInv, run, issueList, IsChosen, ListedOpen, Listed
<1>. QED
  BY <1>1, <1>2, <1>3, <1>4, <1>5, CloseDrops, DropIInv, ListType DEF run, issueList, IInv

LEMMA PersonReopensIInv == IInv /\ Event /\ PersonReopens => IInv'
<1>. SUFFICES ASSUME IInv, Event, PersonReopens PROVE IInv'
  OBVIOUS
<1>1. PICK n \in Numbers : /\ issue[n].state = "closed"
                           /\ issue' = [issue EXCEPT ![n].state = "open"]
                           /\ Update(n)
  BY DEF PersonReopens
<1>2. UNCHANGED <<stage, run, owed, late, ticks, failures>>
  BY DEF PersonReopens
<1>3. Issues' = Issues /\ Issues = Issues \cup {n}
  BY <1>1, IInvPeople DEF Issues, PeopleInv
<1>4. issue' \in [Numbers -> [state : {"none", "open", "closed"}, body : Bodies]]
  BY <1>1, IInvPeople DEF PeopleInv
<1>5. \A m \in Numbers : issue'[m].body = issue[m].body /\ (m # n => issue'[m] = issue[m])
  BY <1>1, IInvPeople DEF PeopleInv
<1>6. Kept'
  BY <1>1, <1>2, <1>5, IInvPeople DEF PeopleInv, Kept, TicksKept, Asked, OfType
<1>7. later' \in [Numbers -> SUBSET Issues'] /\ IsOrdered(Issues, later)'
  BY <1>1, <1>3, UpdateOrder DEF IInv
<1>8. events' \in 0..MaxEvents
  BY DashboardAssumption, IInvPeople DEF PeopleInv, Event
<1>9. PeopleInv'
  BY <1>2, <1>4, <1>6, <1>7, <1>8, IInvPeople DEF PeopleInv
<1>10. FoundInv'
  BY <1>2 DEF IInv, FoundInv, run, issueList, IsChosen, ListedOpen, Listed
<1>. QED
  BY <1>2, <1>3, <1>5, <1>9, <1>10, DropIInv, ListType DEF run, issueList, IInv

LEMMA StageChangesIInv == IInv /\ Event /\ StageChanges => IInv'
<1>. SUFFICES ASSUME IInv, Event, StageChanges PROVE IInv'
  OBVIOUS
<1>1. UNCHANGED <<issue, later, run, late, ticks, failures>> /\ owed' \subseteq owed
  BY DEF StageChanges, Settle
<1>2. stage' \in [All -> Stages]
  BY IInvPeople DEF PeopleInv, StageChanges
<1>3. events' \in 0..MaxEvents
  BY DashboardAssumption, IInvPeople DEF PeopleInv, Event
<1>4. Issues' = Issues
  BY <1>1 DEF Issues
<1>5. PeopleInv'
  BY <1>1, <1>2, <1>3, <1>4, IInvPeople DEF PeopleInv, Kept, TicksKept, IsOrdered
<1>6. FoundInv'
  BY <1>1 DEF IInv, FoundInv, run, issueList, IsChosen, ListedOpen, Listed
<1>. QED
  BY <1>1, <1>4, <1>5, <1>6, DropIInv, ListType DEF run, issueList, IInv

LEMMA CloseListedIInv ==
    ASSUME IInv, NEW n \in ListedOpen, CloseListed(n), owed' \subseteq owed,
           ~RebaseAllInRun => \A o \in owed' : o[1] # n,
           phase = "close" \/ (phase = "ensure" /\ ~IsChosen(n))
    PROVE  IInv'
<1>1. n \in Issues
  BY DEF IInv, Types, TypeOK, ListedOpen, Listed
<1>2. /\ list' \in Lists /\ \A m \in Numbers : list'[m] \in {list[m], "none"}
      /\ ListedOpen' = ListedOpen \ {n} /\ Listed' = Listed \ {n}
  BY DEF CloseListed, IInv, Types, Lists, ListedOpen, Listed
<1>3. FoundInv'
  <2>. SUFFICES ASSUME phase = "ensure" PROVE FoundInv'
    BY DEF CloseListed, FoundInv
  <2>1. dashboard # NoIssue => dashboard \in ListedOpen /\ IsChosen(dashboard)
    BY DEF IInv, FoundInv
  <2>2. dashboard # NoIssue => dashboard \in ListedOpen' /\ IsChosen(dashboard)'
    BY <1>2, <2>1 DEF CloseListed, IsChosen
  <2>. QED  BY <2>2 DEF CloseListed, IInv, FoundInv
<1>4. events' \in 0..MaxEvents /\ failures' \in 0..MaxFailures
  BY IInvPeople DEF CloseListed, PeopleInv
<1>. QED
  BY <1>1, <1>2, <1>3, <1>4, CloseDrops, DropIInv DEF CloseListed

\* The run never closes the dashboard it has read as a duplicate.
LEMMA CloseDuplicateIInv == IInv /\ CloseDuplicate => IInv'
<1>. SUFFICES ASSUME IInv, CloseDuplicate PROVE IInv'
  OBVIOUS
<1>1. PICK n \in Duplicates : /\ CloseListed(n)
                              /\ owed' = {o \in owed : o[1] # n \/ n = dashboard}
  BY DEF CloseDuplicate
<1>2. n \in ListedOpen /\ ~IsChosen(n) /\ phase = "ensure"
  BY DEF Duplicates, CloseDuplicate
<1>3. n # NoIssue
  BY <1>2, DashboardAssumption DEF ListedOpen, NoIssue
<1>4. n # dashboard
  BY <1>2, <1>3 DEF IInv, FoundInv
<1>. QED  BY <1>1, <1>2, <1>4, CloseListedIInv

LEMMA CloseDashboardIInv == IInv /\ CloseDashboard => IInv'
<1>. SUFFICES ASSUME IInv, CloseDashboard PROVE IInv'
  OBVIOUS
<1>1. PICK n \in ListedOpen : /\ CloseListed(n)
                              /\ owed' = {o \in owed : o[1] # n \/ result[o[2]] # "none"}
  BY DEF CloseDashboard
<1>2. phase = "close" /\ \A o \in owed : o[2] \in All /\ result[o[2]] = "none"
  BY DEF CloseDashboard, IInv, Types, TypeOK, CloseInv
<1>. QED  BY <1>1, <1>2, CloseListedIInv
----------------------------------------------------------------------------
(* Steps of a run that read: the issues, and twice the dashboard *)

LEMMA ListIssuesIInv == IInv /\ ListIssues => IInv'
<1>. SUFFICES ASSUME IInv, ListIssues PROVE IInv'
  OBVIOUS
<1>1. PICK listed \in SUBSET Issues :
         /\ list' = [n \in Numbers |-> IF n \in listed THEN issue[n].state ELSE "none"]
         /\ order' = [n \in Numbers |-> IF n \in listed THEN later[n] ELSE {}]
         /\ failures' = IF listed = Issues THEN failures ELSE failures + 1
         /\ listed = Issues \/ failures < MaxFailures
  BY DEF ListIssues
<1>2. /\ UNCHANGED <<people, canRetry, dashboard, checks, rebaseAll, next, result, memory, owed,
                     ticks, events>>
      /\ phase = "list" /\ phase' = "find" /\ late' = {}
  BY DEF ListIssues
<1>3. listed \subseteq Numbers /\ \A n \in listed : issue[n].state \in {"open", "closed"}
  BY IInvPeople DEF PeopleInv, Issues
<1>4. Listed' = listed /\ list' \in Lists
  BY <1>1, <1>3 DEF Listed, Lists
<1>5. failures' \in 0..MaxFailures
  BY <1>1, DashboardAssumption, IInvPeople DEF PeopleInv
<1>6. PeopleInv'
  BY <1>2, <1>5, IInvPeople DEF people, PeopleInv, Kept, TicksKept, Issues, IsOrdered
<1>7. Issues' = Issues
  BY <1>2 DEF people, Issues
<1>8. order' \in [Numbers -> SUBSET Issues]
  BY <1>1, IInvPeople DEF PeopleInv
<1>9. TypeOK'
  BY <1>2, <1>4, <1>6, <1>7, <1>8 DEF IInv, Types, Lists, TypeOK, PeopleInv
<1>10. Types'
  BY <1>2, <1>4, <1>6, <1>9 DEF IInv, Types, PeopleInv
<1>11. OrderInv'
  BY <1>1, <1>3, <1>4, <1>6, IInvPeople DEF PeopleInv, OrderInv, IsOrdered
<1>12. BeginInv'
  BY <1>2 DEF IInv, BeginInv, NotBegun
<1>13. UnfoundInv'
  <2>. SUFFICES ASSUME ~RebaseAllInRun PROVE UnfoundInv'
    BY DEF UnfoundInv
  <2>1. \A o \in owed : o[1] \in Numbers /\ issue[o[1]].state = "open"
    BY IInvPeople DEF PeopleInv, Kept, TicksKept
  <2>2. \A o \in owed : list'[o[1]] # "closed"
    BY <1>1, <2>1
  <2>. QED  BY <1>2, <2>2 DEF UnfoundInv
<1>. QED
  BY <1>2, <1>6, <1>10, <1>11, <1>12, <1>13
     DEF IInv, PeopleInv, FoundInv, CloseInv, ProcessInv, EnsureInv

\* What a look leaves as it is
LEMMA LookKeeps ==
    ASSUME IInv, UNCHANGED <<people, canRetry, issueList, next, result, owed, ticks, events>>,
           late' \in {late, {}}, failures' \in {failures, failures + 1},
           failures' # failures => failures < MaxFailures,
           phase' \in {"process", "ensure", "close"}, dashboard' \in Numbers \cup {NoIssue},
           checks' \in SUBSET All, memory' \in Memories, rebaseAll' \in BOOLEAN
    PROVE  Types' /\ OrderInv' /\ BeginInv' /\ Kept'
<1>1. failures' \in 0..MaxFailures
  BY DashboardAssumption, IInvPeople DEF PeopleInv
<1>2. Issues' = Issues /\ Listed' = Listed
  BY DEF people, issueList, Issues, Listed
<1>3. TypeOK'
  BY <1>1, <1>2 DEF IInv, Types, Lists, TypeOK, people, issueList
<1>4. Types'
  BY <1>3 DEF IInv, Types, people, issueList
<1>5. OrderInv'
  BY <1>2 DEF IInv, OrderInv, IsOrdered, people, issueList
<1>. QED
  BY <1>4, <1>5 DEF IInv, BeginInv, Kept, TicksKept, people

LEMMA FindIssueIInv == IInv /\ FindIssue => IInv'
<1>. SUFFICES ASSUME IInv, FindIssue PROVE IInv'
  OBVIOUS
<1>0. /\ UNCHANGED <<people, canRetry, issueList, next, result, owed, ticks, events>>
      /\ phase = "find" /\ phase' = "process"
      /\ memory = NotAsked /\ dashboard = NoIssue /\ next = 1
  BY DEF FindIssue, IInv, BeginInv
<1>1. CASE ListedOpen = {} /\ UNCHANGED <<dashboard, checks, rebaseAll, memory, late, failures>>
  <2>1. Types' /\ OrderInv' /\ BeginInv' /\ Kept'
    BY <1>0, <1>1, LookKeeps DEF IInv, Types, TypeOK
  <2>2. ListedOpen' = {} /\ memory'.status = "none"
    BY <1>0, <1>1 DEF issueList, ListedOpen, NotAsked
  <2>3. UnfoundInv'
    BY <1>0, <1>1, <2>2 DEF IInv, UnfoundInv, issueList
  <2>. QED
    BY <1>0, <1>1, <2>1, <2>2, <2>3 DEF IInv, FoundInv, CloseInv, ProcessInv, EnsureInv
<1>2. ASSUME NEW n \in ListedOpen, IsChosen(n), dashboard' = n,
             memory' = Answered(issue[n].body),
             checks' = Parsed(issue[n].body), rebaseAll' = ("rebase" \in issue[n].body.all),
             late' = {}, UNCHANGED failures
      PROVE  IInv'
  <2>1. n \in Numbers /\ issue[n].body \in Bodies /\ checks' \in SUBSET All
    BY <1>2, ParsedType, IInvPeople DEF ListedOpen, PeopleInv
  <2>2. memory' \in Memories /\ memory'.status = "ok"
    BY <1>2, <2>1 DEF Memories, Answered
  <2>3. Types' /\ OrderInv' /\ BeginInv' /\ Kept'
    BY <1>0, <1>2, <2>1, <2>2, LookKeeps
  <2>4. UnfoundInv' /\ EnsureInv'
    BY <1>0, <2>2 DEF UnfoundInv, EnsureInv
  <2>5. FoundInv' /\ CloseInv'
    <3>1. n # NoIssue
      BY <2>1, DashboardAssumption DEF NoIssue
    <3>. QED
      BY <1>0, <1>2, <2>2, <3>1
         DEF FoundInv, CloseInv, issueList, IsChosen, ListedOpen, Listed
  <2>6. ProcessInv'
    <3>1. BodyOf(dashboard)' = issue[n].body
      BY <1>0, <1>2 DEF BodyOf, people
    <3>2. "rebase" \in issue[n].body.all => rebaseAll'
      BY <1>2
    <3>3. \A b \in checks' : \/ b \in issue[n].body.ticked
                             \/ issue[n].body.types[b] \in {"approve", "unlimit"}
      BY <1>2, <2>1, Boxes DEF Bodies
    <3>4. \A b \in checks' : b \in All /\ ~(b < 1)
      BY <2>1, DashboardAssumption DEF All
    <3>5. \A o \in owed' : o[2] \in All /\ ~(o[2] < 1)
      BY <1>0, DashboardAssumption DEF IInv, Types, TypeOK, All
    <3>. QED  BY <1>0, <3>1, <3>2, <3>3, <3>4, <3>5 DEF ProcessInv
  <2>. QED  BY <2>3, <2>4, <2>5, <2>6 DEF IInv
<1>3. ASSUME ListedOpen # {}, failures < MaxFailures, failures' = failures + 1,
             memory' = Failed, late' = {}, UNCHANGED <<dashboard, checks, rebaseAll>>
      PROVE  IInv'
  <2>1. memory' \in Memories /\ memory'.status = "failed"
    BY <1>3 DEF Memories, Failed
  <2>2. Types' /\ OrderInv' /\ BeginInv' /\ Kept'
    BY <1>0, <1>3, <2>1, LookKeeps DEF IInv, Types, TypeOK
  <2>. QED
    BY <1>0, <1>3, <2>1, <2>2
       DEF IInv, UnfoundInv, FoundInv, CloseInv, ProcessInv, EnsureInv
<1>. QED  BY <1>1, <1>2, <1>3 DEF FindIssue

\* The last look finds ticked what is owed and was not read before.
LEMMA RefreshCarries ==
    ASSUME IInv, ~RebaseAllInRun, phase = "process", dashboard # NoIssue, ~(next <= Branches),
           NEW o \in owed, o[1] = dashboard, BodyOf(dashboard).types[o[2]] = result[o[2]],
           ~FailedAsked(o[2])
    PROVE  o[2] \in Parsed(BodyOf(dashboard)) \ checks
<1>1. dashboard \in Numbers /\ o[2] \in All /\ BodyOf(dashboard) \in Bodies
  BY IInvPeople DEF IInv, Types, TypeOK, PeopleInv, BodyOf
<1>2. o[2] < next
  BY <1>1, DashboardAssumption DEF IInv, Types, TypeOK, All
<1>3. o[2] \in Asked(BodyOf(dashboard))
  BY DEF IInv, Kept, TicksKept, BodyOf
<1>. QED  BY <1>1, <1>2, <1>3, Boxes DEF IInv, ProcessInv

LEMMA RefreshIInv == IInv /\ Refresh => IInv'
<1>. SUFFICES ASSUME IInv, Refresh PROVE IInv'
  OBVIOUS
<1>0. /\ UNCHANGED <<people, canRetry, issueList, dashboard, checks, rebaseAll, next, result, owed,
                     ticks, events>>
      /\ phase = "process" /\ phase' \in {"close", "ensure"} /\ ~(next <= Branches)
      /\ CloseInv'
  BY DashboardAssumption DEF Refresh, HasBranches, CloseInv, IInv, Types, TypeOK
<1>1. CASE UNCHANGED <<memory, late, failures>> /\ (dashboard = NoIssue \/ phase' = "close")
  <2>1. Types' /\ OrderInv' /\ BeginInv' /\ Kept'
    BY <1>0, <1>1, LookKeeps DEF IInv, Types, TypeOK
  <2>2. UnfoundInv'
    BY <1>0, <1>1 DEF IInv, UnfoundInv, issueList, ListedOpen
  <2>3. FoundInv'
    BY <1>0, <1>1 DEF IInv, FoundInv, issueList, ListedOpen, Listed, IsChosen
  <2>4. dashboard = NoIssue => memory.status # "ok"
    BY <1>0 DEF IInv, FoundInv
  <2>. QED
    BY <1>0, <1>1, <2>1, <2>2, <2>3, <2>4 DEF IInv, ProcessInv, EnsureInv
<1>2. CASE dashboard # NoIssue /\ memory' = Answered(issue[dashboard].body) /\ late' = {}
           /\ UNCHANGED failures
  <2>1. dashboard \in Numbers /\ issue[dashboard].body \in Bodies
    BY <1>2, IInvPeople DEF IInv, Types, TypeOK, PeopleInv
  <2>2. /\ memory' \in Memories /\ memory'.status = "ok"
        /\ memory'.body = BodyOf(dashboard)
    BY <1>2, <2>1 DEF Memories, Answered, BodyOf
  <2>3. Types' /\ OrderInv' /\ BeginInv' /\ Kept'
    BY <1>0, <1>2, <2>2, LookKeeps DEF IInv, Types, TypeOK
  <2>4. FoundInv'
    BY <1>0, <1>2, <2>2 DEF IInv, FoundInv, issueList, ListedOpen, Listed, IsChosen
  <2>5. EnsureInv'
    <3>. SUFFICES ASSUME ~RebaseAllInRun PROVE EnsureInv'
      BY DEF EnsureInv
    <3>1. BodyOf(dashboard)' = BodyOf(dashboard)
      BY <1>0 DEF BodyOf, people
    <3>2. \A o \in owed : /\ o[1] = dashboard
                          /\ BodyOf(dashboard).types[o[2]] = result[o[2]]
                          /\ ~FailedAsked(o[2])
                          => o[2] \in Carried(BodyOf(dashboard))
      BY <1>0, <1>2, RefreshCarries DEF Carried
    <3>3. Carried(memory.body)' = Carried(BodyOf(dashboard))
      BY <1>0, <2>2 DEF Carried
    <3>. QED  BY <1>0, <2>2, <3>1, <3>2, <3>3 DEF EnsureInv, FailedAsked
  <2>. QED
    BY <1>0, <2>2, <2>3, <2>4, <2>5 DEF IInv, UnfoundInv, ProcessInv
<1>3. CASE failures < MaxFailures /\ memory' = Failed /\ failures' = failures + 1 /\ late' = {}
           /\ phase' = "ensure"
  <2>1. memory' \in Memories /\ memory'.status = "failed"
    BY <1>3 DEF Memories, Failed
  <2>2. Types' /\ OrderInv' /\ BeginInv' /\ Kept'
    BY <1>0, <1>3, <2>1, LookKeeps DEF IInv, Types, TypeOK
  <2>3. FoundInv'
    BY <1>0, <1>3, <2>1 DEF IInv, FoundInv, issueList, ListedOpen, Listed, IsChosen
  <2>. QED
    BY <1>0, <1>3, <2>1, <2>2, <2>3 DEF IInv, UnfoundInv, ProcessInv, EnsureInv
<1>. QED  BY <1>1, <1>2, <1>3 DEF Refresh
----------------------------------------------------------------------------
(* A branch is processed: the ticks that were read are acted on *)

\* The next branch is left in stage s, with box r.
Processed(s, r) ==
    /\ stage' = [stage EXCEPT ![next] = s] /\ result' = [result EXCEPT ![next] = r]
    /\ s \in Stages /\ r \in Results
    /\ phase = "process" /\ next <= Branches /\ next' = next + 1
    /\ UNCHANGED <<issue, later, phase, canRetry, issueList, dashboard, checks, rebaseAll,
                   memory, late, ticks, events>>
    /\ failures' \in 0..MaxFailures
    /\ owed' \subseteq owed
    /\ next \in checks => r \in {"none", "rebase", "retry"}
    /\ \A o \in owed' : o[2] = next => r = "retry" \/ ~ActedOn(next, r)

LEMMA ProcessedIInv ==
    ASSUME IInv, NEW s, NEW r, Processed(s, r)
    PROVE  IInv'
<1>1. /\ stage' = [stage EXCEPT ![next] = s] /\ result' = [result EXCEPT ![next] = r]
      /\ \A o \in owed' : o[2] = next => r = "retry" \/ ~ActedOn(next, r)
  BY DEF Processed
<1>2. /\ UNCHANGED <<issue, later, phase, canRetry, issueList, dashboard, checks, rebaseAll,
                     memory, late, ticks, events>>
      /\ failures' \in 0..MaxFailures
      /\ phase = "process" /\ next' = next + 1 /\ next \in 1..Branches
  BY DashboardAssumption DEF Processed, IInv, Types, TypeOK
<1>3. /\ s \in Stages /\ r \in Results
      /\ next \in checks => r \in {"none", "rebase", "retry"}
  BY DEF Processed
<1>4. owed' \subseteq owed
  BY DEF Processed
<1>5. Issues' = Issues /\ Listed' = Listed
  BY <1>2 DEF Issues, issueList, Listed
<1>6. stage' \in [All -> Stages] /\ result' \in [All -> Results]
  BY <1>1, <1>3 DEF IInv, Types, TypeOK
<1>7. TypeOK'
  <2>1. next' \in 1..Branches + 1
    BY <1>2, DashboardAssumption
  <2>2. \A b \in next'..Branches : result'[b] = "none"
    BY <1>1, <1>2, DashboardAssumption DEF IInv, Types, TypeOK, All
  <2>. QED
    BY <1>2, <1>4, <1>5, <1>6, <2>1, <2>2 DEF IInv, Types, Lists, TypeOK, issueList
<1>8. Types'
  BY <1>2, <1>6, <1>7 DEF IInv, Types, issueList
<1>9. OrderInv'
  BY <1>2, <1>5 DEF IInv, OrderInv, IsOrdered, issueList
<1>10. BeginInv'
  BY <1>2 DEF IInv, BeginInv
<1>11. UnfoundInv'
  BY <1>2, <1>4 DEF IInv, UnfoundInv, issueList, ListedOpen
<1>12. FoundInv'
  BY <1>2 DEF IInv, FoundInv, issueList, ListedOpen, Listed, IsChosen
<1>13. Kept' /\ CloseInv'
  BY <1>2, <1>4 DEF IInv, Kept, TicksKept, CloseInv
<1>14. ProcessInv'
  <2>. SUFFICES ASSUME ~RebaseAllInRun, dashboard # NoIssue PROVE ProcessInv'
    BY <1>2 DEF ProcessInv
  <2>0. BodyOf(dashboard)' = BodyOf(dashboard)
    BY <1>2 DEF BodyOf
  <2>1. \A b \in checks : b < next + 1 => result'[b] \in {"none", "rebase", "retry"}
    <3>. SUFFICES ASSUME NEW b \in checks, b < next + 1
                  PROVE  result'[b] \in {"none", "rebase", "retry"}
      OBVIOUS
    <3>1. b \in All /\ (b < next \/ b = next)
      BY <1>2, DashboardAssumption DEF IInv, Types, TypeOK, All
    <3>. QED  BY <1>1, <1>2, <1>3, <3>1 DEF IInv, ProcessInv, Types, TypeOK
  <2>2. ASSUME NEW o \in owed', o[1] = dashboard, o[2] < next + 1,
               BodyOf(dashboard).types[o[2]] = result'[o[2]], ~FailedAsked(o[2])'
        PROVE  /\ o[2] \notin checks
               /\ BodyOf(dashboard).types[o[2]] = "rebase" /\ "rebase" \in BodyOf(dashboard).all
                     => o[2] \in BodyOf(dashboard).ticked
    <3>1. o \in owed /\ o[2] \in All /\ (o[2] < next \/ o[2] = next)
      BY <1>2, <1>4, <2>2, DashboardAssumption DEF IInv, Types, TypeOK, All
    <3>2. CASE o[2] < next
      <4>1. o[2] # next
        BY <1>2, <3>1, <3>2 DEF All
      <4>2. result'[o[2]] = result[o[2]]
        BY <1>1, <3>1, <4>1 DEF IInv, Types
      <4>3. ~FailedAsked(o[2])
        BY <1>2, <2>2, <4>2 DEF FailedAsked
      <4>. QED  BY <1>2, <2>2, <3>1, <3>2, <4>2, <4>3 DEF IInv, ProcessInv
    <3>3. CASE o[2] = next
      <4>1. result'[o[2]] = r
        BY <1>1, <3>1, <3>3 DEF IInv, Types
      <4>2. CASE r = "retry"
        BY <1>2, <2>2, <4>1, <4>2 DEF FailedAsked
      <4>3. CASE ~ActedOn(next, r)
        BY <1>2, <2>2, <3>3, <4>1, <4>3 DEF ActedOn, IInv, ProcessInv
      <4>. QED  BY <1>1, <2>2, <3>3, <4>2, <4>3
    <3>. QED  BY <3>1, <3>2, <3>3
  <2>3. "rebase" \in BodyOf(dashboard).all => rebaseAll
    BY <1>2 DEF IInv, ProcessInv
  <2>4. \A b \in checks : \/ b \in BodyOf(dashboard).ticked
                          \/ BodyOf(dashboard).types[b] \in {"approve", "unlimit"}
    BY <1>2 DEF IInv, ProcessInv
  <2>. QED  BY <1>2, <2>0, <2>1, <2>2, <2>3, <2>4 DEF ProcessInv
<1>. QED
  BY <1>2, <1>8, <1>9, <1>10, <1>11, <1>12, <1>13, <1>14 DEF IInv, EnsureInv

LEMMA ProcessBranchIInv == IInv /\ (ProcessBranch \/ FailBranch) => IInv'
<1>. SUFFICES ASSUME IInv, ProcessBranch \/ FailBranch PROVE IInv'
  OBVIOUS
<1>1. next \in All /\ stage[next] \in Stages
  BY DashboardAssumption DEF ProcessBranch, FailBranch, IInv, Types, TypeOK, All
<1>2. \A s \in After(next) : s \in Stages /\ s \in Results
                            /\ (next \in checks => s \in {"none", "rebase", "retry"})
  BY <1>1 DEF After, Stages, Results
<1>3. CASE ProcessBranch
  <2>1. PICK s \in After(next) :
           /\ stage' = [stage EXCEPT ![next] = s] /\ result' = [result EXCEPT ![next] = s]
           /\ IF ActedOn(next, s) THEN Settle(next) ELSE UNCHANGED owed
    BY <1>3 DEF ProcessBranch
  <2>2. owed' \subseteq owed /\ \A o \in owed' : o[2] = next => ~ActedOn(next, s)
    BY <2>1 DEF Settle
  <2>3. failures' \in 0..MaxFailures
    BY <1>3 DEF ProcessBranch, IInv, Types, TypeOK
  <2>4. Processed(s, s)
    BY <1>2, <1>3, <2>1, <2>2, <2>3 DEF ProcessBranch, Processed
  <2>. QED  BY <2>4, ProcessedIInv
<1>4. CASE FailBranch
  <2>1. PICK s \in {stage[next]} \cup After(next) : stage' = [stage EXCEPT ![next] = s]
    BY <1>4 DEF FailBranch
  <2>2. s \in Stages /\ "retry" \in Results
    BY <1>1, <1>2 DEF Results
  <2>3. failures' \in 0..MaxFailures
    BY <1>4, DashboardAssumption DEF FailBranch, IInv, Types, TypeOK
  <2>4. Processed(s, "retry")
    BY <1>4, <2>1, <2>2, <2>3 DEF FailBranch, Processed
  <2>. QED  BY <2>4, ProcessedIInv
<1>. QED  BY <1>3, <1>4
----------------------------------------------------------------------------
(* People tick boxes, and the theorems *)

\* The body of issue n gets more ticks, `asked` for what nobody asked for before.
Ticks(n, body, asked) ==
    /\ n \in Open /\ body \in Bodies /\ asked \subseteq {n} \X All
    /\ issue' = [issue EXCEPT ![n].body = body] /\ Update(n)
    /\ owed' = owed \cup asked /\ late' = late \cup asked
    /\ ticks < MaxTicks /\ ticks' = ticks + 1
    /\ UNCHANGED <<stage, run, events, failures>>
    /\ body.types = BodyOf(n).types
    /\ BodyOf(n).ticked \subseteq body.ticked /\ BodyOf(n).all \subseteq body.all
    /\ ~RebaseAllInRun /\ phase = "process" /\ "rebase" \in body.all => "rebase" \in BodyOf(n).all
    /\ \A o \in asked :
          /\ o[2] \in Asked(body) /\ o[2] \notin BodyOf(n).ticked
          /\ ~RebaseAllInRun /\ phase = "process" => o[2] \in body.ticked \/ body.types[o[2]] # "rebase"

LEMMA TicksIInv ==
    ASSUME IInv, NEW n, NEW body, NEW asked, Ticks(n, body, asked)
    PROVE  IInv'
<1>1. n \in Numbers /\ n \in Issues
  BY DEF Ticks, Open, Issues
<1>2. issue' \in [Numbers -> [state : {"none", "open", "closed"}, body : Bodies]]
  BY <1>1, IInvPeople DEF PeopleInv, Ticks
<1>3. /\ issue'[n].body = body /\ issue'[n].state = "open"
      /\ \A m \in Numbers : m # n => issue'[m] = issue[m]
  BY <1>1, IInvPeople DEF PeopleInv, Ticks, Open
<1>4. Issues' = Issues
  BY <1>1, <1>3 DEF Issues
<1>5. UNCHANGED <<phase, canRetry, list, order, dashboard, checks, rebaseAll, next, result, memory>>
  BY DEF Ticks, run, issueList
<1>6. later' \in [Numbers -> SUBSET Issues'] /\ IsOrdered(Issues, later)'
  BY <1>1, <1>4, UpdateOrder DEF IInv, Ticks
<1>7. owed' \subseteq Numbers \X All /\ late' \subseteq Numbers \X All
  BY <1>1, IInvPeople DEF PeopleInv, Ticks
<1>8. ticks' \in 0..MaxTicks
  BY DashboardAssumption, IInvPeople DEF PeopleInv, Ticks
<1>9. Kept'
  <2>. SUFFICES ASSUME ~RebaseAllInRun, NEW o \in owed'
                PROVE  issue'[o[1]].state = "open" /\ o[2] \in Asked(issue'[o[1]].body)
    BY DEF Kept, TicksKept
  <2>1. CASE o \in asked
    BY <1>3, <2>1 DEF Ticks
  <2>2. CASE o \in owed /\ o[1] # n
    BY <1>3, <1>7, <2>2 DEF IInv, Kept, TicksKept
  <2>3. CASE o \in owed /\ o[1] = n
    BY <1>3, <1>7, <2>3, IInvPeople, Boxes DEF PeopleInv, Kept, TicksKept, Ticks, BodyOf
  <2>. QED  BY <2>1, <2>2, <2>3 DEF Ticks
<1>10. PeopleInv'
  BY <1>2, <1>6, <1>7, <1>8, <1>9, IInvPeople DEF PeopleInv, Ticks
<1>11. Listed' = Listed /\ ListedOpen' = ListedOpen
  BY <1>5 DEF Listed, ListedOpen
<1>12. TypeOK'
  BY <1>4, <1>5, <1>10, <1>11 DEF IInv, Types, Lists, TypeOK, PeopleInv
<1>13. Types'
  BY <1>5, <1>10, <1>12 DEF IInv, Types, PeopleInv
<1>14. OrderInv' /\ BeginInv'
  BY <1>5, <1>10, <1>11 DEF IInv, OrderInv, PeopleInv, BeginInv, NotBegun, IsOrdered
<1>15. UnfoundInv'
  BY <1>5, <1>11 DEF IInv, UnfoundInv, Ticks
<1>16. FoundInv'
  BY <1>5, <1>11 DEF IInv, FoundInv, IsChosen
<1>17. ProcessInv'
  <2>. SUFFICES ASSUME ~RebaseAllInRun, phase = "process", dashboard # NoIssue
                PROVE  ProcessInv'
    BY <1>5 DEF ProcessInv
  <2>0. dashboard \in Numbers
    BY DEF IInv, Types, TypeOK
  <2>1. CASE dashboard # n
    <3>1. BodyOf(dashboard)' = BodyOf(dashboard)
      BY <1>3, <1>5, <2>0, <2>1 DEF BodyOf
    <3>2. \A o \in owed' : o[1] = dashboard => o \in owed
      BY <2>1 DEF Ticks
    <3>. QED  BY <1>5, <3>1, <3>2 DEF IInv, ProcessInv, FailedAsked
  <2>2. CASE dashboard = n
    <3>1. BodyOf(dashboard)' = body
      BY <1>3, <1>5, <2>2 DEF BodyOf
    <3>2. \A b \in checks : \/ b \in body.ticked \/ body.types[b] \in {"approve", "unlimit"}
      BY <2>2 DEF IInv, ProcessInv, Ticks
    <3>3. ASSUME NEW o \in owed', o[1] = dashboard, o[2] < next,
                 body.types[o[2]] = result[o[2]], ~FailedAsked(o[2])
          PROVE  /\ o[2] \notin checks
                 /\ body.types[o[2]] = "rebase" /\ "rebase" \in body.all => o[2] \in body.ticked
      <4>1. CASE o \in owed
        BY <2>2, <3>3, <4>1 DEF IInv, ProcessInv, Ticks
      <4>2. CASE o \in asked
        <5>1. o[2] \in checks => body.types[o[2]] \in {"approve", "unlimit"}
          BY <2>2, <4>2 DEF IInv, ProcessInv, Ticks
        <5>2. o[2] \in checks => result[o[2]] \in {"none", "rebase", "retry"}
          BY <3>3 DEF IInv, ProcessInv
        <5>. QED  BY <3>3, <4>2, <5>1, <5>2 DEF Ticks
      <4>. QED  BY <4>1, <4>2 DEF Ticks
    <3>4. "rebase" \in body.all => rebaseAll
      BY <2>2 DEF IInv, ProcessInv, Ticks
    <3>5. \A b \in checks : b < next => result[b] \in {"none", "rebase", "retry"}
      BY DEF IInv, ProcessInv
    <3>. QED  BY <1>5, <3>1, <3>2, <3>3, <3>4, <3>5 DEF ProcessInv, FailedAsked
  <2>. QED  BY <2>1, <2>2
<1>18. EnsureInv'
  <2>. SUFFICES ASSUME ~RebaseAllInRun, phase = "ensure", memory.status = "ok"
                PROVE  EnsureInv'
    BY <1>5 DEF EnsureInv
  <2>1. dashboard \in Numbers
    BY DEF IInv, FoundInv, ListedOpen
  <2>2. issue'[dashboard].body.types = issue[dashboard].body.types
    BY <1>3, <2>1 DEF Ticks, BodyOf
  <2>3. owed' \ late' \subseteq owed \ late
    BY DEF Ticks
  <2>4. Carried(memory.body)' = Carried(memory.body)
    BY <1>5 DEF Carried
  <2>. QED  BY <1>5, <2>2, <2>3, <2>4 DEF IInv, EnsureInv, FailedAsked, BodyOf
<1>19. CloseInv'
  BY <1>5 DEF IInv, CloseInv
<1>. QED
  BY <1>9, <1>13, <1>14, <1>15, <1>16, <1>17, <1>18, <1>19 DEF IInv

LEMMA TickBoxIInv == IInv /\ TickBox => IInv'
<1>. SUFFICES ASSUME IInv, TickBox PROVE IInv'
  OBVIOUS
<1>1. PICK n \in Open, b \in All :
         /\ b \notin issue[n].body.ticked
         /\ issue' = [issue EXCEPT ![n].body.ticked = @ \cup {b}]
         /\ Update(n)
         /\ owed' = owed \cup {<<n, b>>} /\ late' = late \cup {<<n, b>>}
  BY DEF TickBox
<1>. DEFINE body == [issue[n].body EXCEPT !.ticked = @ \cup {b}]
            asked == {<<n, b>>}
<1>2. n \in Numbers /\ issue[n].body \in Bodies
  BY IInvPeople DEF PeopleInv, Open
<1>3. body \in Bodies /\ body.types = issue[n].body.types /\ body.all = issue[n].body.all
      /\ body.ticked = issue[n].body.ticked \cup {b}
  BY <1>2 DEF Bodies
<1>4. issue' = [issue EXCEPT ![n].body = body]
  BY <1>1, <1>2
<1>5. b \in Asked(body)
  BY <1>3, Boxes
<1>6. \A o \in asked : o \in {n} \X All /\ o[2] = b
  OBVIOUS
<1>7. Ticks(n, body, asked)
  <2>1. owed' = owed \cup asked /\ late' = late \cup asked
    BY <1>1
  <2>2. ticks < MaxTicks /\ ticks' = ticks + 1 /\ UNCHANGED <<stage, run, events, failures>>
    BY DEF TickBox
  <2>. HIDE DEF body, asked
  <2>. QED  BY <1>1, <1>3, <1>4, <1>5, <1>6, <2>1, <2>2 DEF Ticks, BodyOf
<1>. QED  BY <1>7, TicksIInv

LEMMA TickAllIInv == IInv /\ TickAll => IInv'
<1>. SUFFICES ASSUME IInv, TickAll PROVE IInv'
  OBVIOUS
<1>1. PICK n \in Open : \E t \in AllBoxes(issue[n].body) \ issue[n].body.all :
         /\ t # "rebase" \/ phase = "idle" \/ RebaseAllInRun
         /\ issue' = [issue EXCEPT ![n].body.all = @ \cup {t}]
         /\ Update(n)
         /\ owed' = owed \cup {<<n, b>> : b \in OfType(issue[n].body, t) \ Asked(issue[n].body)}
         /\ late' = late \cup {<<n, b>> : b \in OfType(issue[n].body, t) \ Asked(issue[n].body)}
  BY DEF TickAll
<1>2. PICK t \in AllBoxes(issue[n].body) \ issue[n].body.all :
         /\ t # "rebase" \/ phase = "idle" \/ RebaseAllInRun
         /\ issue' = [issue EXCEPT ![n].body.all = @ \cup {t}]
         /\ Update(n)
         /\ owed' = owed \cup {<<n, b>> : b \in OfType(issue[n].body, t) \ Asked(issue[n].body)}
         /\ late' = late \cup {<<n, b>> : b \in OfType(issue[n].body, t) \ Asked(issue[n].body)}
  BY <1>1
<1>. DEFINE body == [issue[n].body EXCEPT !.all = @ \cup {t}]
            asked == {<<n, b>> : b \in OfType(issue[n].body, t) \ Asked(issue[n].body)}
<1>3. n \in Numbers /\ issue[n].body \in Bodies
  BY IInvPeople DEF PeopleInv, Open
<1>4. t \in {"approve", "unlimit", "rebase"}
  BY DEF AllBoxes
<1>5. body \in Bodies /\ body.types = issue[n].body.types
      /\ body.ticked = issue[n].body.ticked /\ body.all = issue[n].body.all \cup {t}
  BY <1>3, <1>4 DEF Bodies
<1>6. issue' = [issue EXCEPT ![n].body = body]
  BY <1>2, <1>3
<1>7. \A o \in asked : /\ o \in {n} \X All /\ o[2] \notin issue[n].body.ticked
                       /\ o[2] \in Asked(body) /\ body.types[o[2]] = t
  <2>. SUFFICES ASSUME NEW b \in OfType(issue[n].body, t) \ Asked(issue[n].body)
                PROVE  /\ b \in All /\ b \notin issue[n].body.ticked
                       /\ b \in Asked(body) /\ body.types[b] = t
    OBVIOUS
  <2>1. b \in All /\ issue[n].body.types[b] = t /\ b \notin Asked(issue[n].body)
    BY DEF OfType
  <2>. QED  BY <1>3, <1>5, <2>1, Boxes
<1>8. /\ body.types = BodyOf(n).types
      /\ BodyOf(n).ticked \subseteq body.ticked /\ BodyOf(n).all \subseteq body.all
      /\ ~RebaseAllInRun /\ phase = "process" /\ "rebase" \in body.all => "rebase" \in BodyOf(n).all
  BY <1>2, <1>5 DEF BodyOf
<1>9. \A o \in asked :
          /\ o[2] \in Asked(body) /\ o[2] \notin BodyOf(n).ticked
          /\ ~RebaseAllInRun /\ phase = "process" => o[2] \in body.ticked \/ body.types[o[2]] # "rebase"
  BY <1>2, <1>7 DEF BodyOf
<1>10. /\ owed' = owed \cup asked /\ late' = late \cup asked
       /\ asked \subseteq {n} \X All /\ Update(n)
  BY <1>2, <1>7
<1>11. ticks < MaxTicks /\ ticks' = ticks + 1 /\ UNCHANGED <<stage, run, events, failures>>
  BY DEF TickAll
<1>12. Ticks(n, body, asked)
  <2>. HIDE DEF body, asked
  <2>. QED  BY <1>5, <1>6, <1>8, <1>9, <1>10, <1>11 DEF Ticks
<1>. QED  BY <1>12, TicksIInv

LEMMA StepIInv == IInv /\ [Next]_vars => IInv'
<1>. SUFFICES ASSUME IInv, [Next]_vars PROVE IInv'
  OBVIOUS
<1>1. CASE Work
  BY <1>1, ListIssuesIInv, FindIssueIInv, ProcessBranchIInv, RefreshIInv, CloseDuplicateIInv,
     CloseDashboardIInv, WriteIInv, CreateIInv, AbortIInv DEF Work
<1>2. CASE Event
  BY <1>2, PersonClosesIInv, PersonReopensIInv, StageChangesIInv DEF Event
<1>3. CASE BeginRun \/ Automerge \/ Abort \/ FailBranch \/ RequestFails
  BY <1>3, BeginRunIInv, AutomergeIInv, AbortIInv, ProcessBranchIInv
<1>4. CASE TickBox \/ TickAll
  BY <1>4, TickBoxIInv, TickAllIInv
<1>5. CASE UNCHANGED vars
  <2>1. /\ UNCHANGED <<people, owed, late, ticks, events, failures>>
        /\ UNCHANGED <<phase, list, order, dashboard, checks, rebaseAll, next, result, memory>>
    BY <1>5 DEF vars, run, issueList
  <2>2. Issues' = Issues /\ Listed' = Listed /\ ListedOpen' = ListedOpen
    BY <2>1 DEF people, Issues, Listed, ListedOpen
  <2>3. PeopleInv'
    BY <2>1, <2>2, IInvPeople DEF people, PeopleInv, Kept, TicksKept, IsOrdered
  <2>4. FoundInv'
    BY <2>1, <2>2 DEF IInv, FoundInv, IsChosen
  <2>. QED  BY <2>1, <2>2, <2>3, <2>4, DropIInv, ListType DEF IInv, people
<1>. QED  BY <1>1, <1>2, <1>3, <1>4, <1>5 DEF Next

(***************************************************************************)
(* The variables have their types in every reachable state: in particular, *)
(* a run knows results of the branches it processed, and of no other, also *)
(* when it starts again after an automerge (resetCaches).                  *)
(***************************************************************************)
THEOREM TypeCorrect == Spec => []TypeOK
<1>1. IInv => TypeOK
  BY DEF IInv, Types
<1>. QED  BY <1>1, InitIInv, StepIInv, PTL DEF Spec

(***************************************************************************)
(* While nobody ticks "rebase all" during a run, which the last look does  *)
(* not read, a tick nobody acted on is still on the open issue, unless it  *)
(* was lost in one of the five ways TicksKept names: whatever requests     *)
(* fail, runs abort or restart.  In particular a run never closes as a     *)
(* duplicate the issue whose ticks it read, carries over what was ticked   *)
(* between its two looks, and overwrites only what it did not see, what it *)
(* has another box for, and what failed (readDashboardBody,                *)
(* ensureDependencyDashboard, ensureIssue).                                *)
(***************************************************************************)
THEOREM TicksStay == ~RebaseAllInRun => (Spec => []TicksKept)
<1>. SUFFICES ASSUME ~RebaseAllInRun PROVE Spec => []TicksKept
  OBVIOUS
<1>1. IInv => TicksKept
  BY DEF IInv, Kept
<1>. QED  BY <1>1, InitIInv, StepIInv, PTL DEF Spec
=============================================================================
