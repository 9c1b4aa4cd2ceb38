-------------------------- MODULE GithubPrsProofs --------------------------
(***************************************************************************)
(* What GithubPrs does for every number of pull requests, every page size  *)
(* and every page limit.                                                   *)
(*                                                                         *)
(* CopyInv: the copy of a run, and the file, only hold what GitHub had.    *)
(* ListingInv: how far a listing got.  With `pageIdx` the page to ask for  *)
(* next, an unchanged pull request above that page is known, and no known  *)
(* one is on that page or below it, above one that is not known; what      *)
(* breaks this is in `hidden`.  So a page that ends with a known one ends  *)
(* the listing without a loss.                                             *)
(***************************************************************************)
EXTENDS GithubPrs, FiniteSetTheorems, TLAPS

(* The inductive invariant *)

\* GitHub had every item of the copy, and has it still if the version says so
IsCopy(cache, prs, authored) ==
    \A n \in Numbers :
        /\ cache[n] = NoItem \/ (n \in authored /\ cache[n].ver > 0)
        /\ cache[n].ver <= prs[n].ver
        /\ cache[n].ver = prs[n].ver => cache[n] = prs[n]

ServerInv ==
    \A n \in Numbers :
        /\ server[n].ver <= clock
        /\ IF Exists(n) THEN server[n].ver > 0 ELSE server[n] = NoItem /\ n \notin mine

ReceivedItems == [n \in Numbers |-> received[n].item]

CopyInv ==
    /\ IsCopy(mem, server, mine)
    /\ disk # NoCache => IsCopy(disk, server, mine)
    /\ oldHash # NoCache => IsCopy(oldHash, server, mine)
    /\ IsCopy(ReceivedItems, server, mine)
    /\ \A n \in Numbers : received[n].page = 0 <=> received[n].item = NoItem

\* what a run has before and after it lists
PhaseInv ==
    /\ phase # "listing" => ~isInitial
    /\ ~isInitial => received = NothingReceived /\ pending = {}
    /\ isInitial => mem = EmptyCache
    /\ PageOne \in pending => received = NothingReceived
    /\ phase = "idle" => mem = EmptyCache
    /\ phase \in {"idle", "begun"} => hidden = {} /\ still = {}

\* a later listing: the pages above pageIdx are read
PagesRead(n) ==
    n \in StaleIn(mem) =>
        /\ n \in still => PageIndex(n, PerPage) >= pageIdx
        /\ \A m \in mine \ StaleIn(mem) :
              Above(m, n) => PageIndex(m, PerPage) < pageIdx /\ pageIdx <= PageIndex(n, PerPage)

\* the first listing: received, or on a page to come
PagesReceived(n) ==
    IF received[n].page = 0 THEN PageIndex(n, FirstPerPage) \in ToCome
    ELSE received[n].item = server[n]

ListingInv ==
    \A n \in mine \ hidden :
        /\ phase = "listing" => IF isInitial THEN PagesReceived(n) ELSE PagesRead(n)
        /\ phase \in {"ready", "saved"} /\ n \in still => mem[n] = server[n]

BaseInv == TypeOK /\ ServerInv /\ CopyInv /\ PhaseInv /\ ListMatchesCache
IInv == BaseInv /\ ListingInv

-----------------------------------------------------------------------------
(* Lemmas about pages *)

\* \div by a page size
LEMMA DivisionFacts ==
    ASSUME NEW r \in Nat, NEW s \in Nat, NEW z \in Nat \ {0}, NEW k \in Nat
    PROVE  /\ r \div z \in Nat
           /\ r < k * z <=> r \div z < k
           /\ r <= s => r \div z <= s \div z
<1>1. r \div z \in Nat
  OBVIOUS
<1>2. r < k * z <=> r \div z < k
  OBVIOUS
<1>3. r <= s => r \div z <= s \div z
  OBVIOUS
<1> QED
  BY <1>1, <1>2, <1>3

LEMMA NumbersFinite ==
    ASSUME NEW S, S \subseteq Numbers
    PROVE  IsFiniteSet(S) /\ Cardinality(S) \in Nat
<1>1. MaxPrs \in Nat
  BY ConstantsAssumption
<1>2. IsFiniteSet(Numbers)
  BY <1>1, FS_Interval DEF Numbers
<1>3. IsFiniteSet(S)
  BY <1>2, FS_Subset
<1> QED
  BY <1>3, FS_CardinalityType

LEMMA PageIndexType ==
    ASSUME NEW n \in Numbers, NEW size \in Nat \ {0}
    PROVE  Rank(n) \in Nat /\ PageIndex(n, size) \in Nat /\ PageIndex(n, size) >= 1
<1>1. Rank(n) \in Nat
  BY NumbersFinite DEF Rank
<1>2. Rank(n) \div size \in Nat
  BY <1>1
<1> QED
  BY <1>1, <1>2 DEF PageIndex

\* a pull request is on no earlier page than those above it
LEMMA OlderIsLower ==
    ASSUME TypeOK, NEW m \in Numbers, NEW n \in Numbers, NEW size \in Nat \ {0},
           server[n].ver <= server[m].ver
    PROVE  PageIndex(m, size) <= PageIndex(n, size)
<1> DEFINE A == {k \in Numbers : Above(k, m)}
           B == {k \in Numbers : Above(k, n)}
<1>1. A \subseteq B
  BY DEF Above, TypeOK, Items, Item
<1>2. IsFiniteSet(B)
  BY NumbersFinite
<1>3. Cardinality(A) <= Cardinality(B)
  BY <1>1, <1>2, FS_Subset
<1>4. Rank(m) <= Rank(n)
  BY <1>3 DEF Rank
<1>5. Rank(m) \div size <= Rank(n) \div size
  BY <1>4, PageIndexType, DivisionFacts
<1> QED
  BY <1>5, PageIndexType DEF PageIndex

\* there is a next page for what is below a page
LEMMA BelowIsNext ==
    ASSUME TypeOK, ServerInv, NEW n \in Numbers, Exists(n), NEW size \in Nat \ {0}, NEW k \in Nat,
           PageIndex(n, size) > k
    PROVE  HasNextPage(k, size)
<1> DEFINE A == {m \in Numbers : Above(m, n)}
           E == {m \in Numbers : Exists(m)}
<1>1. Rank(n) \in Nat /\ Rank(n) \div size \in Nat
  BY PageIndexType
<1>2. ~(Rank(n) \div size < k)
  BY <1>1 DEF PageIndex
<1>3. k * size <= Rank(n)
  <2>1. k * size \in Nat
    OBVIOUS
  <2> QED
    BY <1>1, <1>2, <2>1, DivisionFacts
<1>4. A \subseteq E \ {n} /\ n \in E
  BY DEF Above, ServerInv, NoItem, TypeOK, Items, Item
<1>5. /\ IsFiniteSet(E) /\ Cardinality(E) \in Nat
      /\ IsFiniteSet(E \ {n}) /\ Cardinality(E \ {n}) = Cardinality(E) - 1
  BY <1>4, NumbersFinite, FS_RemoveElement
<1>6. Cardinality(A) <= Cardinality(E) - 1
  BY <1>4, <1>5, FS_Subset
<1> QED
  BY <1>1, <1>3, <1>5, <1>6 DEF Rank, HasNextPage

-----------------------------------------------------------------------------
(* Lemmas about changes of pull requests *)

\* n gets a new version; the others stay as they are
Changes(n, new) ==
    /\ new \in Item /\ new.state # "none" /\ new.ver > clock
    /\ clock' = new.ver
    /\ server' = [server EXCEPT ![n] = new]
    /\ mine \subseteq mine' /\ mine' \subseteq mine \cup {n}

LEMMA PutChanges ==
    ASSUME TypeOK, NEW n \in Numbers, NEW s \in States \ {"none"},
           NEW b \in Branches \cup {NoBranch}, Put(n, s, b),
           mine \subseteq mine', mine' \subseteq mine \cup {n}
    PROVE  /\ server'[n] = [ver |-> clock + 1, state |-> s, branch |-> b]
           /\ Changes(n, server'[n])
BY ConstantsAssumption DEF Put, Changes, TypeOK, Items, Item

LEMMA ChangeTypes ==
    ASSUME TypeOK, NEW n \in Numbers, NEW new, Changes(n, new)
    PROVE  server' \in Items /\ mine' \subseteq Numbers /\ clock' \in 0..MaxClock
BY DEF Changes, TypeOK, Items, Item

LEMMA ChangeServerInv ==
    ASSUME TypeOK, ServerInv, NEW n \in Numbers, NEW new, Changes(n, new)
    PROVE  ServerInv'
BY DEF Changes, ServerInv, TypeOK, Items, Item, Exists

LEMMA ChangeIsCopy ==
    ASSUME TypeOK, ServerInv, NEW n \in Numbers, NEW new, Changes(n, new),
           NEW cache \in Items, IsCopy(cache, server, mine)
    PROVE  IsCopy(cache, server', mine') /\ cache[n].ver < new.ver
<1>1. server[n].ver \in Nat /\ new.ver \in Nat /\ cache[n].ver \in Nat /\ clock \in Nat
  <2>1. server[n] \in Item /\ new \in Item /\ cache[n] \in Item /\ clock \in 0..MaxClock
    BY DEF Changes, TypeOK, Items
  <2>2. \A i \in Item : i.ver \in Nat
    BY ConstantsAssumption DEF Item
  <2> QED
    BY <2>1, <2>2, ConstantsAssumption
<1>2. cache[n].ver <= server[n].ver /\ server[n].ver <= clock /\ clock < new.ver
  BY DEF IsCopy, ServerInv, Changes
<1>3. server'[n] = new /\ \A m \in Numbers \ {n} : server'[m] = server[m]
  BY DEF Changes, TypeOK, Items
<1>4. cache[n].ver < new.ver
  BY <1>1, <1>2
<1>5. ASSUME NEW m \in Numbers
      PROVE  /\ cache[m] = NoItem \/ (m \in mine' /\ cache[m].ver > 0)
             /\ cache[m].ver <= server'[m].ver
             /\ cache[m].ver = server'[m].ver => cache[m] = server'[m]
  <2>1. CASE m = n
    BY <1>1, <1>3, <1>4, <2>1 DEF IsCopy, Changes
  <2>2. CASE m # n
    BY <1>3, <2>2 DEF IsCopy, Changes
  <2> QED
    BY <2>1, <2>2
<1> QED
  BY <1>4, <1>5 DEF IsCopy

LEMMA ReceivedType ==
    ASSUME TypeOK
    PROVE  ReceivedItems \in Items
BY DEF TypeOK, Items, Received, ReceivedItems

LEMMA ChangeCopyInv ==
    ASSUME TypeOK, ServerInv, CopyInv, NEW n \in Numbers, NEW new, Changes(n, new),
           UNCHANGED <<disk, oldHash, received>>, IsCopy(mem', server', mine')
    PROVE  CopyInv'
<1>1. disk # NoCache => IsCopy(disk, server', mine')
  BY ChangeIsCopy DEF CopyInv, TypeOK
<1>2. oldHash # NoCache => IsCopy(oldHash, server', mine')
  BY ChangeIsCopy DEF CopyInv, TypeOK
<1>3. IsCopy(ReceivedItems, server', mine')
  BY ChangeIsCopy, ReceivedType DEF CopyInv
<1>4. ReceivedItems' = ReceivedItems
  BY DEF ReceivedItems
<1> QED
  BY <1>1, <1>2, <1>3, <1>4 DEF CopyInv

\* the others move down, or stay
LEMMA ChangeMovesDown ==
    ASSUME TypeOK, ServerInv, NEW n \in Numbers, NEW new, Changes(n, new),
           NEW m \in Numbers \ {n}, NEW size \in Nat \ {0}
    PROVE  PageIndex(m, size) <= PageIndex(m, size)'
<1> DEFINE A == {k \in Numbers : Above(k, m)}
           B == {k \in Numbers : server'[k].ver > server'[m].ver}
<1>1. A \subseteq B
  BY DEF Above, TypeOK, ServerInv, Items, Item, Changes
<1>2. IsFiniteSet(B) /\ Cardinality(A) \in Nat /\ Cardinality(B) \in Nat
  BY NumbersFinite
<1>3. Cardinality(A) <= Cardinality(B)
  BY <1>1, <1>2, FS_Subset
<1>4. Rank(m) = Cardinality(A) /\ Rank(m)' = Cardinality(B)
  BY DEF Rank, Above
<1>5. Cardinality(A) \div size <= Cardinality(B) \div size
  BY <1>2, <1>3, DivisionFacts
<1>6. Cardinality(A) \div size \in Nat /\ Cardinality(B) \div size \in Nat
  BY <1>2
<1> QED
  BY <1>4, <1>5, <1>6 DEF PageIndex

-----------------------------------------------------------------------------
(* Steps: what people and the run do to pull requests *)

LEMMA PeopleChange ==
    ASSUME BaseInv, People
    PROVE  \E n \in Numbers :
              /\ Changes(n, server'[n])
              /\ UNCHANGED <<mine, disk, phase, run, failures>>
              /\ still' = still \ {n}
              /\ Shift
<1>1. CASE PersonOpens
  <2>1. PICK n \in Foreign : IsNextNumber(n) /\ Put(n, "open", NoBranch)
    BY <1>1 DEF PersonOpens
  <2>2. n \in Numbers /\ UNCHANGED mine
    BY <1>1, <2>1, ConstantsAssumption DEF PersonOpens, Numbers
  <2>3. Changes(n, server'[n])
    BY <2>1, <2>2, PutChanges DEF BaseInv, States
  <2> QED
    BY <1>1, <2>1, <2>2, <2>3 DEF PersonOpens, Put
<1>2. ASSUME NEW n \in Numbers, PersonChanges(n)
      PROVE  /\ Changes(n, server'[n])
             /\ UNCHANGED <<mine, disk, phase, run, failures>>
             /\ still' = still \ {n}
             /\ Shift
  <2>1. PICK s \in States \ {"none"} : Put(n, s, server[n].branch)
    BY <1>2 DEF PersonChanges, Exists, States
  <2>2. server[n].branch \in Branches \cup {NoBranch}
    BY DEF BaseInv, TypeOK, Items, Item
  <2>3. Changes(n, server'[n])
    BY <1>2, <2>1, <2>2, PutChanges DEF BaseInv, PersonChanges
  <2> QED
    BY <1>2, <2>1, <2>3 DEF PersonChanges, Put
<1> QED
  BY <1>1, <1>2 DEF People

\* what the run writes to its copy, of a pull request it changed to `new`
Writes(n, item, new) ==
    /\ Changes(n, new) /\ n \in mine'
    /\ \/ CachePr(n, item) /\ item.ver > 0
       \/ UNCHANGED <<mem, prList, appended>> /\ item = mem[n]
    /\ item \in Item
    /\ mem[n].ver <= item.ver /\ item.ver <= new.ver
    /\ item.ver = new.ver => item = new
    /\ still' = still \ {n}
    /\ UNCHANGED <<disk, phase, listState, failures>>

LEMMA FoundIsMine ==
    ASSUME BaseInv, phase \in {"ready", "saved"}, NEW b \in Branches, NEW states,
           NEW n \in Numbers, IsFound(n, b, states)
    PROVE  /\ prList[n] = mem[n] /\ mem[n] \in Item /\ n \in mine
           /\ 0 < mem[n].ver /\ mem[n].ver <= server[n].ver /\ Exists(n)
           /\ server[n].state \in States \ {"none"}
<1>1. prList = mem
  BY DEF BaseInv, ListMatchesCache
<1>2. mem[n] # NoItem
  BY <1>1, BranchAssumption DEF IsFound, Hits, NoItem
<1>3. n \in mine /\ mem[n].ver > 0 /\ mem[n].ver <= server[n].ver
  BY <1>2 DEF BaseInv, CopyInv, IsCopy
<1>4. Exists(n)
  BY <1>3 DEF BaseInv, ServerInv
<1>5. server[n].state \in States \ {"none"}
  BY <1>4 DEF Exists, BaseInv, TypeOK, Items, Item
<1> QED
  BY <1>1, <1>3, <1>4, <1>5 DEF BaseInv, TypeOK, Items

LEMMA ItemVersions == \A i \in Item : i.ver \in Nat
BY ConstantsAssumption DEF Item

LEMMA VersionsNat ==
    ASSUME TypeOK
    PROVE  /\ clock \in Nat
           /\ \A n \in Numbers : /\ server[n].ver \in Nat /\ mem[n].ver \in Nat
                                 /\ received[n].item.ver \in Nat
<1>1. \A i \in Item : i.ver \in Nat
  BY ConstantsAssumption DEF Item
<1>2. \A n \in Numbers : server[n] \in Item /\ mem[n] \in Item /\ received[n].item \in Item
  BY DEF TypeOK, Items, Received
<1> QED
  BY <1>1, <1>2, ConstantsAssumption DEF TypeOK

\* updatePr, mergePr, the reopening and the autoclosing change one that is listed
LEMMA FoundWritten ==
    ASSUME BaseInv, phase \in {"ready", "saved"}, NEW b \in Branches, NEW states,
           NEW n \in Numbers, IsFound(n, b, states),
           NEW s \in States \ {"none"}, Put(n, s, b),
           NEW item, CachePr(n, item),
           item = server'[n] \/ item = [prList[n] EXCEPT !.state = s],
           UNCHANGED <<mine, disk, phase, listState, failures>>
    PROVE  Writes(n, item, server'[n])
<1>1. Changes(n, server'[n]) /\ server'[n].ver = clock + 1
  <2>1. /\ server'[n] = [ver |-> clock + 1, state |-> s, branch |-> b]
        /\ Changes(n, server'[n])
    BY PutChanges DEF BaseInv
  <2> QED
    BY <2>1
<1>2. /\ prList[n] = mem[n] /\ mem[n] \in Item /\ n \in mine
      /\ 0 < mem[n].ver /\ mem[n].ver <= server[n].ver
  BY FoundIsMine
<1>3. server[n].ver <= clock /\ clock \in Nat /\ mem[n].ver \in Nat /\ server[n].ver \in Nat
  BY VersionsNat DEF BaseInv, ServerInv
<1>4. CASE item = server'[n]
  BY <1>1, <1>2, <1>3, <1>4 DEF Writes, Changes, Put
<1>5. CASE item = [prList[n] EXCEPT !.state = s]
  <2>1. item \in Item /\ item.ver = mem[n].ver
    BY <1>2, <1>5 DEF Item
  <2> QED
    BY <1>1, <1>2, <1>3, <2>1 DEF Writes, Put
<1> QED
  BY <1>4, <1>5

LEMMA OwnWriteWrites ==
    ASSUME BaseInv, OwnWrite
    PROVE  \E n \in Numbers : \E item : Writes(n, item, server'[n]) /\ phase \in {"ready", "saved"}
<1>1. PICK b \in Branches : \/ CreatePr(b) \/ LoseCreated(b) \/ UpdatePr(b)
                           \/ MergePr(b) \/ ReopenPr(b) \/ AutoclosePr(b)
  BY DEF OwnWrite
<1>2. CASE CreatePr(b)
  <2>1. PICK n \in Numbers, changes \in {1, 2} :
          /\ IsNextNumber(n) /\ clock + changes <= MaxClock
          /\ CachePr(n, [ver |-> clock + 1, state |-> "open", branch |-> b])
          /\ server' = [server EXCEPT ![n] = [ver |-> clock + changes, state |-> "open", branch |-> b]]
          /\ clock' = clock + changes
          /\ mine' = mine \cup {n}
    BY <1>2 DEF CreatePr
  <2>2. clock \in Nat /\ MaxClock \in Nat /\ mem[n].ver \in Nat
    BY VersionsNat, ConstantsAssumption DEF BaseInv
  <2> DEFINE item == [ver |-> clock + 1, state |-> "open", branch |-> b]
  <2>3. server'[n] = [ver |-> clock + changes, state |-> "open", branch |-> b]
    BY <2>1 DEF BaseInv, TypeOK, Items
  <2>4. item \in Item /\ server'[n] \in Item
    BY <2>1, <2>2, <2>3 DEF Item, States
  <2>5. n \notin mine /\ mem[n].ver <= clock
    BY <2>1, <2>2, VersionsNat DEF IsNextNumber, BaseInv, ServerInv, CopyInv, IsCopy
  <2>6. still' = still \ {n}
    BY <1>2, <2>5 DEF CreatePr, BaseInv, TypeOK
  <2>7. Changes(n, server'[n])
    <3>1. server'[n].ver = clock + changes /\ server'[n].state = "open"
      BY <2>3
    <3>2. server'[n].ver > clock
      BY <2>2, <3>1
    <3>3. server' = [server EXCEPT ![n] = server'[n]]
      BY <2>1, <2>3
    <3> QED
      BY <2>1, <2>4, <3>1, <3>2, <3>3 DEF Changes
  <2>8. Writes(n, item, server'[n])
    BY <1>2, <2>1, <2>2, <2>3, <2>4, <2>5, <2>6, <2>7 DEF Writes, CreatePr
  <2> QED
    BY <1>2, <2>8 DEF CreatePr
<1>3. CASE UpdatePr(b)
  <2>1. PICK n \in Numbers : /\ IsFound(n, b, {"open"})
                             /\ Put(n, Titled(server[n].state), b) /\ CachePr(n, server'[n])
    BY <1>3 DEF UpdatePr
  <2>2. Titled(server[n].state) \in States \ {"none"}
    <3>1. server[n].state \in States \ {"none"}
      BY <1>3, <2>1, FoundIsMine DEF UpdatePr
    <3> QED
      BY <3>1 DEF Titled, States
  <2> QED
    BY <1>3, <2>1, <2>2, FoundWritten DEF UpdatePr
<1>4. CASE MergePr(b)
  <2>1. PICK n \in Numbers :
          /\ IsFound(n, b, {"open"}) /\ Put(n, "merged", b)
          /\ CachePr(n, [prList[n] EXCEPT !.state = "merged"])
    BY <1>4 DEF MergePr
  <2> QED
    BY <1>4, <2>1, FoundWritten DEF MergePr, States
<1>5. CASE ReopenPr(b)
  <2>1. PICK n \in Numbers :
          /\ IsFound(n, b, {"closed", "autoclosed"})
          /\ Put(n, "open", b) /\ CachePr(n, server'[n])
    BY <1>5 DEF ReopenPr
  <2> QED
    BY <1>5, <2>1, FoundWritten DEF ReopenPr, States
<1>6. CASE AutoclosePr(b)
  <2>1. PICK n \in Numbers :
          /\ IsFound(n, b, {"open"})
          /\ Put(n, Autoclosed(server[n].state), b)
          /\ CachePr(n, server'[n])
    BY <1>6 DEF AutoclosePr
  <2>2. Autoclosed(server[n].state) \in States \ {"none"}
    BY DEF Autoclosed, States
  <2> QED
    BY <1>6, <2>1, <2>2, FoundWritten DEF AutoclosePr
<1>7. CASE LoseCreated(b)
  <2>1. PICK n \in Numbers : IsNextNumber(n) /\ Put(n, "open", b) /\ mine' = mine \cup {n}
    BY <1>7 DEF LoseCreated
  <2>2. Changes(n, server'[n])
    <3>1. "open" \in States \ {"none"} /\ b \in Branches \cup {NoBranch} /\ TypeOK
      BY DEF States, BaseInv
    <3>2. mine' \subseteq mine \cup {n} /\ mine \subseteq mine'
      BY <2>1
    <3> QED
      BY <2>1, <3>1, <3>2, PutChanges
  <2>3. /\ clock \in Nat /\ mem[n].ver \in Nat /\ mem[n].ver <= clock /\ mem[n] \in Item
    BY <2>1, VersionsNat DEF IsNextNumber, BaseInv, TypeOK, Items, ServerInv, CopyInv, IsCopy
  <2>4. server'[n].ver = clock + 1 /\ n \in mine'
    BY <2>1 DEF Put, BaseInv, TypeOK, Items
  <2>5. Writes(n, mem[n], server'[n])
    BY <1>7, <2>1, <2>2, <2>3, <2>4 DEF Writes, LoseCreated, Put
  <2> QED
    BY <1>7, <2>5 DEF LoseCreated
<1> QED
  BY <1>1, <1>2, <1>3, <1>4, <1>5, <1>6, <1>7

-----------------------------------------------------------------------------
(* BaseInv: types, copies, phases, and the list *)

LEMMA InitBaseInv == Init => BaseInv
<1> SUFFICES ASSUME Init PROVE BaseInv
  OBVIOUS
<1>1. NoItem \in Item /\ EmptyCache \in Items /\ NothingReceived \in [Numbers -> Received]
  BY ConstantsAssumption DEF NoItem, Item, EmptyCache, Items, States, NothingReceived, Received
<1>2. TypeOK
  <2>1. /\ server \in Items /\ mine \subseteq Numbers /\ clock \in 0..MaxClock
        /\ disk \in Items \cup {NoCache} /\ oldHash \in Items \cup {NoCache}
        /\ phase \in {"idle", "begun", "listing", "ready", "saved"}
        /\ mode \in CacheModes
        /\ mem \in Items /\ prList \in Items /\ appended \subseteq Numbers
    BY <1>1, ConstantsAssumption DEF Init
  <2>2. isInitial \in BOOLEAN
    BY DEF Init
  <2>4. pageIdx \in Nat \ {0}
    BY DEF Init
  <2>3. /\ pending \subseteq 1..PageLimit /\ received \in [Numbers -> Received]
        /\ still \subseteq mine /\ hidden \subseteq mine /\ failures \in 0..MaxFailures
    BY <1>1, ConstantsAssumption DEF Init
  <2> QED
    BY <2>1, <2>2, <2>3, <2>4 DEF TypeOK
<1>3. IsCopy(EmptyCache, server, mine)
  BY DEF Init, EmptyCache, NoItem, IsCopy
<1>4. ReceivedItems = EmptyCache
  BY DEF Init, ReceivedItems, NothingReceived, EmptyCache
<1>5. CopyInv
  BY <1>3, <1>4 DEF Init, CopyInv, NothingReceived, NoItem
<1>6. ServerInv
  BY DEF Init, ServerInv, Exists, EmptyCache, NoItem
<1>7. PhaseInv /\ ListMatchesCache
  BY DEF Init, PhaseInv, ListMatchesCache
<1> QED
  BY <1>2, <1>5, <1>6, <1>7 DEF BaseInv

LEMMA PeopleBaseInv ==
    ASSUME BaseInv, People
    PROVE  BaseInv'
<1>1. PICK n \in Numbers : /\ Changes(n, server'[n])
                           /\ UNCHANGED <<mine, disk, phase, run, failures>>
                           /\ still' = still \ {n}
                           /\ Shift
  BY PeopleChange
<1>2. server' \in Items /\ clock' \in 0..MaxClock
  BY <1>1, ChangeTypes DEF BaseInv
<1>3. hidden' \subseteq mine
  <2>1. MissedBy(mem)' \subseteq mine'
    BY DEF MissedBy, StaleIn
  <2> QED
    BY <1>1, <2>1 DEF Shift, BaseInv, TypeOK
<1>4. TypeOK'
  BY <1>1, <1>2, <1>3 DEF BaseInv, TypeOK, run
<1>5. ServerInv'
  BY <1>1, ChangeServerInv DEF BaseInv
<1>6. IsCopy(mem', server', mine')
  <2>1. IsCopy(mem, server', mine')
    BY <1>1, ChangeIsCopy DEF BaseInv, CopyInv, TypeOK
  <2> QED
    BY <1>1, <2>1 DEF run
<1>7. CopyInv'
  BY <1>1, <1>6, ChangeCopyInv DEF BaseInv, run
<1>8. PhaseInv' /\ ListMatchesCache'
  BY <1>1 DEF BaseInv, PhaseInv, ListMatchesCache, run, Shift
<1> QED
  BY <1>4, <1>5, <1>7, <1>8 DEF BaseInv

LEMMA WritesBaseInv ==
    ASSUME BaseInv, NEW n \in Numbers, NEW item, Writes(n, item, server'[n]),
           phase \in {"ready", "saved"}
    PROVE  BaseInv'
<1>0. mem' = [mem EXCEPT ![n] = item] /\ (prList = mem => prList' = mem')
  BY DEF Writes, CachePr, BaseInv, TypeOK, Items
<1>1. /\ Changes(n, server'[n]) /\ n \in mine' /\ item \in Item
      /\ still' = still \ {n} /\ UNCHANGED <<disk, phase, listState, failures>>
  BY DEF Writes
<1>2. server' \in Items /\ mine' \subseteq Numbers /\ clock' \in 0..MaxClock
  BY <1>1, ChangeTypes DEF BaseInv
<1>3. mem' \in Items /\ prList' \in Items /\ appended' \subseteq Numbers
  BY <1>1 DEF Writes, CachePr, BaseInv, TypeOK, Items
<1>4. TypeOK'
  BY <1>1, <1>2, <1>3 DEF BaseInv, TypeOK, listState, Changes
<1>5. ServerInv'
  BY <1>1, ChangeServerInv DEF BaseInv
<1>6. IsCopy(mem', server', mine')
  <2>1. IsCopy(mem, server', mine')
    BY <1>1, ChangeIsCopy DEF BaseInv, CopyInv, TypeOK
  <2>2. mem' = [mem EXCEPT ![n] = item]
    BY <1>0
  <2> QED
    BY <2>1, <2>2, <1>1 DEF IsCopy, Writes, BaseInv, TypeOK, Items
<1>7. CopyInv'
  BY <1>1, <1>6, ChangeCopyInv DEF BaseInv, listState
<1>8. PhaseInv' /\ ListMatchesCache'
  BY <1>0, <1>1 DEF BaseInv, PhaseInv, ListMatchesCache, listState
<1> QED
  BY <1>4, <1>5, <1>7, <1>8 DEF BaseInv

\* a copy that is the server's where it is read, and the old one elsewhere
LEMMA PageType ==
    ASSUME TypeOK, NEW page, NEW size
    PROVE  /\ Reconcile(page) \in Items
           /\ \A k \in 1..PageLimit : PageOf(k, size) \subseteq mine
BY DEF TypeOK, Reconcile, Items, PageOf

LEMMA ReconcileIsCopy ==
    ASSUME BaseInv, NEW page, page \subseteq mine
    PROVE  IsCopy(Reconcile(page), server, mine)
<1> SUFFICES ASSUME NEW n \in Numbers
             PROVE  LET c == Reconcile(page)[n]
                    IN  /\ c = NoItem \/ (n \in mine /\ c.ver > 0)
                        /\ c.ver <= server[n].ver
                        /\ c.ver = server[n].ver => c = server[n]
  BY DEF IsCopy
<1>1. CASE n \in page
  BY <1>1, VersionsNat DEF Reconcile, BaseInv, ServerInv
<1>2. CASE n \notin page
  BY <1>2 DEF Reconcile, BaseInv, CopyInv, IsCopy
<1> QED
  BY <1>1, <1>2

\* nothing changes at GitHub
LEMMA QuietBaseInv ==
    ASSUME BaseInv, UNCHANGED <<server, mine, clock>>, TypeOK', PhaseInv', ListMatchesCache',
           IsCopy(mem', server, mine),
           disk' # NoCache => IsCopy(disk', server, mine),
           oldHash' # NoCache => IsCopy(oldHash', server, mine),
           received' \in {received, NothingReceived}
    PROVE  BaseInv'
<1>1. ServerInv'
  BY DEF BaseInv, ServerInv, Exists
<1>2. CASE received' = received
  <2>1. ReceivedItems' = ReceivedItems
    BY <1>2 DEF ReceivedItems
  <2>2. CopyInv'
    BY <1>2, <2>1 DEF BaseInv, CopyInv
  <2> QED
    BY <1>1, <2>2 DEF BaseInv
<1>3. CASE received' = NothingReceived
  <2>1. ReceivedItems' = EmptyCache
    BY <1>3 DEF ReceivedItems, NothingReceived, EmptyCache
  <2>2. IsCopy(EmptyCache, server, mine)
    BY VersionsNat DEF IsCopy, EmptyCache, NoItem, BaseInv, ServerInv, Exists
  <2>3. CopyInv'
    BY <1>3, <2>1, <2>2 DEF CopyInv, NothingReceived, NoItem
  <2> QED
    BY <1>1, <2>3 DEF BaseInv
<1> QED
  BY <1>2, <1>3

LEMMA EmptyIsCopy ==
    ASSUME BaseInv
    PROVE  EmptyCache \in Items /\ IsCopy(EmptyCache, server, mine)
<1>1. NoItem \in Item
  BY ConstantsAssumption DEF NoItem, Item, States
<1>2. \A n \in Numbers : NoItem.ver = server[n].ver => NoItem = server[n]
  BY VersionsNat DEF NoItem, BaseInv, ServerInv
<1> QED
  BY <1>1, <1>2, VersionsNat DEF IsCopy, EmptyCache, Items, NoItem, BaseInv

LEMMA BeginRunBaseInv ==
    ASSUME BaseInv, BeginRun
    PROVE  BaseInv'
<1>1. oldHash' \in {disk, NoCache} /\ disk' \in {disk, EmptyCache}
  BY DEF BeginRun
<1>2. mem' = IF oldHash' = NoCache THEN EmptyCache ELSE oldHash'
  BY DEF BeginRun
<1>3. failures' \in 0..MaxFailures
  BY ConstantsAssumption DEF BeginRun, BaseInv, TypeOK
<1>4. TypeOK'
  BY <1>1, <1>2, <1>3, EmptyIsCopy DEF BeginRun, BaseInv, TypeOK, remote
<1>5. PhaseInv' /\ ListMatchesCache'
  BY DEF BeginRun, BaseInv, PhaseInv, ListMatchesCache, remote
<1>6. IsCopy(mem', server, mine) /\ (oldHash' # NoCache => IsCopy(oldHash', server, mine))
  BY <1>1, <1>2, EmptyIsCopy DEF BaseInv, CopyInv
<1>7. disk' # NoCache => IsCopy(disk', server, mine)
  BY <1>1, EmptyIsCopy DEF BaseInv, CopyInv
<1> QED
  BY <1>4, <1>5, <1>6, <1>7, QuietBaseInv DEF BeginRun, remote

LEMMA SaveBaseInv ==
    ASSUME BaseInv, Save
    PROVE  BaseInv'
<1>1. disk' \in {disk, mem}
  BY DEF Save
<1>2. TypeOK' /\ PhaseInv' /\ ListMatchesCache'
  BY <1>1 DEF Save, BaseInv, TypeOK, PhaseInv, ListMatchesCache, remote, run
<1> QED
  BY <1>1, <1>2, QuietBaseInv DEF Save, BaseInv, CopyInv, remote, run

LEMMA EndRunBaseInv ==
    ASSUME BaseInv, EndRun
    PROVE  BaseInv'
<1>1. failures' \in 0..MaxFailures
  BY ConstantsAssumption DEF EndRun, BaseInv, TypeOK
<1>2. NothingReceived \in [Numbers -> Received]
  BY ConstantsAssumption DEF NothingReceived, Received, NoItem, Item, States
<1>3. TypeOK'
  <2>1. /\ server' \in Items /\ mine' \subseteq Numbers /\ clock' \in 0..MaxClock
        /\ disk' \in Items \cup {NoCache} /\ oldHash' \in Items \cup {NoCache}
        /\ phase' \in {"idle", "begun", "listing", "ready", "saved"}
        /\ mode' \in CacheModes
        /\ mem' \in Items /\ prList' \in Items /\ appended' \subseteq Numbers
    BY EmptyIsCopy DEF EndRun, BaseInv, TypeOK
  <2>2. isInitial' \in BOOLEAN
    BY DEF EndRun
  <2>4. pageIdx' \in Nat \ {0}
    BY DEF EndRun
  <2>3. /\ pending' \subseteq 1..PageLimit /\ received' \in [Numbers -> Received]
        /\ still' \subseteq mine' /\ hidden' \subseteq mine'
    BY <1>2 DEF EndRun
  <2> QED
    BY <1>1, <2>1, <2>2, <2>3, <2>4 DEF TypeOK
<1>4. PhaseInv' /\ ListMatchesCache'
  BY DEF EndRun, PhaseInv, ListMatchesCache
<1> QED
  BY <1>3, <1>4, EmptyIsCopy, QuietBaseInv DEF EndRun, BaseInv, CopyInv

LEMMA BeginListingBaseInv ==
    ASSUME BaseInv, BeginListing
    PROVE  BaseInv'
<1>1. isInitial' => mem = EmptyCache
  BY DEF BeginListing, Known, EmptyCache, BaseInv, TypeOK, Items
<1>2. hidden' \subseteq mine
  BY DEF BeginListing, MissedBy, StaleIn
<1>3. received = NothingReceived
  BY DEF BeginListing, BaseInv, PhaseInv
<1>4. pending' \subseteq 1..PageLimit /\ isInitial' \in BOOLEAN /\ pageIdx' \in Nat \ {0}
  BY ConstantsAssumption DEF BeginListing, PageOne
<1>5. TypeOK'
  BY <1>2, <1>4 DEF BeginListing, BaseInv, TypeOK
<1>6. PhaseInv' /\ ListMatchesCache'
  BY <1>1, <1>3 DEF BeginListing, BaseInv, PhaseInv, ListMatchesCache
<1> QED
  BY <1>5, <1>6, QuietBaseInv DEF BeginListing, BaseInv, CopyInv

LEMMA ListPageBaseInv ==
    ASSUME BaseInv, ListPage
    PROVE  BaseInv'
<1> DEFINE page == PageOf(pageIdx, PerPage)
<1>1. mem' = Reconcile(page)
  BY DEF ListPage, EndListing
<1>2. mem' \in Items /\ IsCopy(mem', server, mine)
  <2>1. page \subseteq mine
    BY DEF PageOf
  <2> QED
    BY <1>1, <2>1, PageType, ReconcileIsCopy DEF BaseInv
<1>3. received' = received /\ received = NothingReceived
  BY DEF ListPage, EndListing, BaseInv, PhaseInv
<1>4. pageIdx' \in Nat \ {0}
  BY DEF ListPage, EndListing, BaseInv, TypeOK
<1>5. TypeOK'
  BY <1>2, <1>3, <1>4 DEF ListPage, EndListing, BaseInv, TypeOK, remote
<1>6. PhaseInv' /\ ListMatchesCache'
  BY <1>3 DEF ListPage, EndListing, BaseInv, PhaseInv, ListMatchesCache, remote
<1> QED
  BY <1>2, <1>3, <1>5, <1>6, QuietBaseInv DEF ListPage, EndListing, BaseInv, CopyInv, remote

\* a page of the first listing
LEMMA ReceiveBaseInv ==
    ASSUME BaseInv, NEW k \in 1..PageLimit, Receive(k), phase = "listing", isInitial,
           pending' \subseteq 2..PageLimit,
           UNCHANGED <<remote, disk, phase, mode, mem, oldHash, isInitial, pageIdx, prList,
                       appended, hidden, failures>>
    PROVE  BaseInv'
<1>1. \A n \in Numbers : received'[n] \in {received[n], [page |-> k, item |-> server[n]]}
  BY DEF Receive
<1>2. received' \in [Numbers -> Received]
  <2>1. \A n \in Numbers : received'[n] \in Received
    BY <1>1, ConstantsAssumption DEF Received, BaseInv, TypeOK, Items
  <2> QED
    BY <2>1 DEF Receive
<1>3. TypeOK'
  BY <1>2, ConstantsAssumption DEF BaseInv, TypeOK, remote
<1>4. PhaseInv' /\ ListMatchesCache' /\ ServerInv'
  BY DEF BaseInv, PhaseInv, ListMatchesCache, ServerInv, PageOne, remote, Exists
<1>5. \A n \in Numbers :
        received'[n] = received[n] \/ (n \in mine /\ received'[n] = [page |-> k, item |-> server[n]])
  BY DEF Receive, PageOf
<1>6. ASSUME NEW n \in Numbers
      PROVE  LET c == received'[n].item
             IN  /\ c = NoItem \/ (n \in mine /\ c.ver > 0)
                 /\ c.ver <= server[n].ver
                 /\ c.ver = server[n].ver => c = server[n]
                 /\ received'[n].page = 0 <=> c = NoItem
  <2>1. CASE received'[n] = received[n]
    BY <2>1 DEF BaseInv, CopyInv, IsCopy, ReceivedItems
  <2>2. CASE n \in mine /\ received'[n] = [page |-> k, item |-> server[n]]
    BY <2>2, VersionsNat DEF BaseInv, ServerInv, NoItem
  <2> QED
    BY <1>5, <2>1, <2>2
<1>7. IsCopy(ReceivedItems', server', mine')
  BY <1>6 DEF IsCopy, ReceivedItems, remote
<1>8. CopyInv'
  BY <1>6, <1>7 DEF BaseInv, CopyInv, remote
<1> QED
  BY <1>3, <1>4, <1>8 DEF BaseInv

LEMMA AllPagesBaseInv ==
    ASSUME BaseInv, AllPages
    PROVE  BaseInv'
<1> DEFINE merged == [n \in Numbers |->
                        IF received[n].page # 0 THEN received[n].item ELSE mem[n]]
<1>1. mem' = merged /\ prList' = merged
  BY DEF AllPages, EndListing
<1>2. merged \in Items
  BY DEF BaseInv, TypeOK, Items, Received
<1>3. IsCopy(merged, server, mine)
  BY DEF BaseInv, CopyInv, IsCopy, ReceivedItems
<1>4. NothingReceived \in [Numbers -> Received]
  BY ConstantsAssumption DEF NothingReceived, Received, NoItem, Item, States
<1>5. TypeOK'
  <2>1. /\ server' \in Items /\ mine' \subseteq Numbers /\ clock' \in 0..MaxClock
        /\ disk' \in Items \cup {NoCache} /\ oldHash' \in Items \cup {NoCache}
        /\ phase' \in {"idle", "begun", "listing", "ready", "saved"}
        /\ mode' \in CacheModes
        /\ mem' \in Items /\ prList' \in Items /\ appended' \subseteq Numbers
    BY <1>1, <1>2 DEF AllPages, EndListing, BaseInv, TypeOK, remote
  <2>2. isInitial' \in BOOLEAN
    BY DEF AllPages, EndListing
  <2>4. pageIdx' \in Nat \ {0}
    BY DEF AllPages, EndListing
  <2>3. /\ pending' \subseteq 1..PageLimit /\ received' \in [Numbers -> Received]
        /\ still' \subseteq mine' /\ hidden' \subseteq mine' /\ failures' \in 0..MaxFailures
    BY <1>4 DEF AllPages, EndListing, BaseInv, TypeOK, remote
  <2> QED
    BY <2>1, <2>2, <2>3, <2>4 DEF TypeOK
<1>6. PhaseInv' /\ ListMatchesCache'
  BY <1>1 DEF AllPages, EndListing, BaseInv, PhaseInv, ListMatchesCache, remote
<1> QED
  BY <1>1, <1>3, <1>5, <1>6, QuietBaseInv DEF AllPages, EndListing, BaseInv, CopyInv, remote

LEMMA StepBaseInv == BaseInv /\ [Next]_vars => BaseInv'
<1> SUFFICES ASSUME BaseInv, [Next]_vars PROVE BaseInv'
  OBVIOUS
<1>1. CASE People
  BY <1>1, PeopleBaseInv
<1>2. CASE BeginRun
  BY <1>2, BeginRunBaseInv
<1>3. CASE Save
  BY <1>3, SaveBaseInv
<1>4. CASE EndRun
  BY <1>4, EndRunBaseInv
<1>5. CASE BeginListing
  BY <1>5, BeginListingBaseInv
<1>6. CASE ListPage
  BY <1>6, ListPageBaseInv
<1>7. CASE FirstPage
  BY <1>7, ReceiveBaseInv, ConstantsAssumption DEF FirstPage, PageOne
<1>8. ASSUME NEW k \in 2..PageLimit, OtherPage(k) PROVE BaseInv'
  <2>1. pending' \subseteq 2..PageLimit /\ k \in 1..PageLimit
    BY <1>8, ConstantsAssumption DEF OtherPage, PageOne, BaseInv, TypeOK
  <2> QED
    BY <1>8, <2>1, ReceiveBaseInv DEF OtherPage
<1>9. CASE AllPages
  BY <1>9, AllPagesBaseInv
<1>10. CASE OwnWrite
  BY <1>10, OwnWriteWrites, WritesBaseInv
<1>11. CASE UNCHANGED vars
  BY <1>11 DEF vars, remote, run, BaseInv, TypeOK, ServerInv, Exists, CopyInv, ReceivedItems,
               IsCopy, PhaseInv, ListMatchesCache
<1> QED
  BY <1>1, <1>2, <1>3, <1>4, <1>5, <1>6, <1>7, <1>8, <1>9, <1>10, <1>11 DEF Next, Listing

-----------------------------------------------------------------------------
(* ListingInv: how far the listing got *)

LEMMA NewestIsFirst ==
    ASSUME BaseInv, NEW n \in Numbers, NEW new, Changes(n, new), NEW size \in Nat \ {0}
    PROVE  PageIndex(n, size)' = 1
<1>1. \A m \in Numbers : ~(server'[m].ver > server'[n].ver)
  <2>1. server'[n] = new /\ \A m \in Numbers \ {n} : server'[m] = server[m]
    BY DEF Changes, BaseInv, TypeOK, Items
  <2>2. \A m \in Numbers : server[m].ver <= clock
    BY DEF BaseInv, ServerInv
  <2>3. new.ver \in Nat /\ new.ver > clock /\ clock \in Nat
    BY VersionsNat, ConstantsAssumption DEF BaseInv, Changes, Item
  <2> QED
    BY <2>1, <2>2, <2>3, VersionsNat DEF BaseInv
<1>2. {m \in Numbers : server'[m].ver > server'[n].ver} = {}
  BY <1>1
<1>3. Rank(n)' = 0
  BY <1>2, FS_EmptySet DEF Rank, Above
<1>4. 0 \div size = 0
  OBVIOUS
<1> QED
  BY <1>3, <1>4 DEF PageIndex

LEMMA PeopleReceived ==
    ASSUME IInv, People, phase = "listing", isInitial,
           NEW n \in mine' \ hidden'
    PROVE  PagesReceived(n)'
<1>1. PICK n0 \in Numbers : /\ Changes(n0, server'[n0])
                            /\ UNCHANGED <<mine, disk, phase, run, failures>>
                            /\ still' = still \ {n0}
                            /\ Shift
  BY PeopleChange DEF IInv
<1>2. n \in Numbers /\ n \in mine \ hidden /\ n \notin MissedBy(mem)'
  BY <1>1 DEF Shift, IInv, BaseInv, TypeOK
<1>3. /\ received' = received /\ isInitial' = isInitial /\ pending' = pending
      /\ ToCome' = ToCome
  BY <1>1 DEF run, ToCome
<1>4. received[n].item = server'[n] \/ PageIndex(n, FirstPerPage)' \in ToCome
  BY <1>1, <1>2, <1>3 DEF MissedBy
<1>5. BaseInv'
  BY PeopleBaseInv DEF IInv
<1>6. CASE received[n].page = 0
  <2>1. received[n].item = NoItem
    BY <1>2, <1>6 DEF IInv, BaseInv, CopyInv
  <2>2. server'[n] # NoItem
    BY <1>1, <1>2, <1>5 DEF BaseInv, ServerInv, Exists, NoItem
  <2> QED
    BY <1>3, <1>4, <1>6, <2>1, <2>2 DEF PagesReceived
<1>7. CASE received[n].page # 0
  <2>1. CASE n = n0
    <3>1. PageIndex(n, FirstPerPage)' = 1
      BY <1>1, <2>1, NewestIsFirst, ConstantsAssumption DEF IInv
    <3>2. PageOne \notin pending
      BY <1>2, <1>7 DEF IInv, BaseInv, PhaseInv, NothingReceived
    <3>3. PageIndex(n, FirstPerPage)' \notin ToCome
      BY <3>1, <3>2 DEF ToCome, PageOne
    <3> QED
      BY <1>3, <1>4, <1>7, <3>3 DEF PagesReceived
  <2>2. CASE n # n0
    <3>1. received[n].item = server[n]
      BY <1>2, <1>7 DEF IInv, ListingInv, PagesReceived
    <3>2. server'[n] = server[n]
      BY <1>1, <1>2, <2>2 DEF Changes, IInv, BaseInv, TypeOK, Items
    <3> QED
      BY <1>3, <1>7, <3>1, <3>2 DEF PagesReceived
  <2> QED
    BY <2>1, <2>2
<1> QED
  BY <1>6, <1>7

LEMMA PeopleRead ==
    ASSUME IInv, People, phase = "listing", ~isInitial,
           NEW n \in mine' \ hidden'
    PROVE  PagesRead(n)'
<1>1. PICK n0 \in Numbers : /\ Changes(n0, server'[n0])
                            /\ UNCHANGED <<mine, disk, phase, run, failures>>
                            /\ still' = still \ {n0}
                            /\ Shift
  BY PeopleChange DEF IInv
<1>2. n \in Numbers /\ n \in mine \ hidden /\ n \notin MissedBy(mem)'
  BY <1>1 DEF Shift, IInv, BaseInv, TypeOK
<1>3. mem' = mem /\ pageIdx' = pageIdx /\ isInitial' = isInitial /\ pageIdx \in Nat
  BY <1>1 DEF run, IInv, BaseInv, TypeOK
<1>4. server'[n0].ver > clock /\ \A m \in Numbers \ {n0} : server'[m] = server[m]
  BY <1>1 DEF Changes, IInv, BaseInv, TypeOK, Items
<1>5. \A m \in Numbers : server[m].ver <= clock /\ mem[m].ver <= server[m].ver
  BY DEF IInv, BaseInv, ServerInv, CopyInv, IsCopy
<1>6. /\ clock \in Nat
      /\ \A m \in Numbers : server[m].ver \in Nat /\ mem[m].ver \in Nat /\ server'[m].ver \in Nat
  <2>1. BaseInv'
    BY PeopleBaseInv DEF IInv
  <2> QED
    BY <2>1, VersionsNat, ItemVersions DEF IInv, BaseInv, TypeOK, Items
<1>7. mem[n0].ver < server'[n0].ver
  BY <1>4, <1>5, <1>6
<1>8. PagesRead(n)
  BY <1>2 DEF IInv, ListingInv
<1>9. mine \subseteq Numbers /\ mine' = mine
  BY <1>1 DEF IInv, BaseInv, TypeOK
<1> SUFFICES ASSUME n \in StaleIn(mem)'
             PROVE  /\ n \in still' => PageIndex(n, PerPage)' >= pageIdx
                    /\ \A m \in mine \ StaleIn(mem)' :
                          Above(m, n)' => /\ PageIndex(m, PerPage)' < pageIdx
                                          /\ pageIdx <= PageIndex(n, PerPage)'
  BY <1>3, <1>9 DEF PagesRead
<1>10. CASE n = n0
  <2>1. n \notin still'
    BY <1>1, <1>10
  <2>2. \A m \in Numbers : ~Above(m, n)'
    BY <1>4, <1>5, <1>6, <1>10 DEF Above
  <2> QED
    BY <1>9, <2>1, <2>2
<1>11. CASE n # n0
  <2>1. n \in StaleIn(mem) /\ (n \in still' => n \in still)
    BY <1>1, <1>2, <1>3, <1>4, <1>11 DEF StaleIn
  <2>2. PageIndex(n, PerPage) <= PageIndex(n, PerPage)'
    BY <1>1, <1>2, <1>11, ChangeMovesDown, ConstantsAssumption DEF IInv, BaseInv
  <2>3. PageIndex(n, PerPage) \in Nat /\ PageIndex(n, PerPage)' \in Nat
    <3>1. \A k \in Numbers : Rank(k)' \in Nat
      BY NumbersFinite DEF Rank
    <3>2. Rank(n)' \div PerPage \in Nat
      BY <1>2, <3>1, ConstantsAssumption
    <3> QED
      BY <1>2, <3>2, PageIndexType, ConstantsAssumption DEF PageIndex
  <2>4. n \in still' => PageIndex(n, PerPage)' >= pageIdx
    BY <1>3, <1>8, <2>1, <2>2, <2>3 DEF PagesRead
  <2>5. ASSUME NEW m \in mine, m \notin StaleIn(mem)', Above(m, n)'
        PROVE  PageIndex(m, PerPage)' < pageIdx /\ pageIdx <= PageIndex(n, PerPage)'
    <3>1. m # n0
      BY <1>3, <1>7, <1>9, <2>5 DEF StaleIn
    <3>2. m \in mine \ StaleIn(mem) /\ Above(m, n)
      BY <1>2, <1>3, <1>4, <1>9, <1>11, <2>5, <3>1 DEF StaleIn, Above
    <3>3. pageIdx <= PageIndex(n, PerPage)
      BY <1>8, <2>1, <3>2 DEF PagesRead
    <3>4. ~(PageIndex(m, PerPage)' >= pageIdx)
      BY <1>2, <1>3, <1>9, <2>5 DEF MissedBy, IInv
    <3>5. PageIndex(m, PerPage)' \in Nat
      <4>1. \A k \in Numbers : Rank(k)' \in Nat
        BY NumbersFinite DEF Rank
      <4>2. Rank(m)' \div PerPage \in Nat
        BY <1>9, <4>1, ConstantsAssumption
      <4> QED
        BY <4>2 DEF PageIndex
    <3> QED
      BY <1>3, <2>2, <2>3, <3>3, <3>4, <3>5
  <2> QED
    BY <2>4, <2>5
<1> QED
  BY <1>10, <1>11

LEMMA PeopleListingInv ==
    ASSUME IInv, People
    PROVE  ListingInv'
<1>1. PICK n0 \in Numbers : /\ Changes(n0, server'[n0])
                            /\ UNCHANGED <<mine, disk, phase, run, failures>>
                            /\ still' = still \ {n0}
                            /\ Shift
  BY PeopleChange DEF IInv
<1> SUFFICES ASSUME NEW n \in mine' \ hidden'
             PROVE  /\ phase' = "listing" => IF isInitial' THEN PagesReceived(n)' ELSE PagesRead(n)'
                    /\ phase' \in {"ready", "saved"} /\ n \in still' => mem'[n] = server'[n]
  BY DEF ListingInv
<1>2. phase' = phase /\ isInitial' = isInitial /\ mem' = mem /\ mine' = mine
  BY <1>1 DEF run
<1>3. CASE phase = "listing"
  BY <1>2, <1>3, PeopleReceived, PeopleRead
<1>4. CASE phase # "listing"
  <2>1. ASSUME phase' \in {"ready", "saved"}, n \in still'
        PROVE  mem'[n] = server'[n]
    <3>1. n \in mine \ hidden /\ n \in still /\ n # n0 /\ n \in Numbers
      BY <1>1, <1>4, <2>1 DEF Shift, IInv, BaseInv, TypeOK
    <3>2. mem[n] = server[n]
      BY <1>2, <2>1, <3>1 DEF IInv, ListingInv
    <3> QED
      BY <1>1, <1>2, <3>1, <3>2 DEF Changes, IInv, BaseInv, TypeOK, Items
  <2> QED
    BY <1>2, <1>4, <2>1
<1> QED
  BY <1>3, <1>4

LEMMA WritesListingInv ==
    ASSUME IInv, OwnWrite
    PROVE  ListingInv'
<1>1. PICK n0 \in Numbers : \E item : Writes(n0, item, server'[n0]) /\ phase \in {"ready", "saved"}
  BY OwnWriteWrites DEF IInv
<1>2. PICK item : Writes(n0, item, server'[n0])
  BY <1>1
<1>3. /\ phase' = phase /\ phase \in {"ready", "saved"} /\ hidden' = hidden
      /\ still' = still \ {n0} /\ mine' \subseteq mine \cup {n0}
      /\ \A n \in Numbers \ {n0} : mem'[n] = mem[n] /\ server'[n] = server[n]
  BY <1>1, <1>2 DEF Writes, Changes, CachePr, listState, IInv, BaseInv, TypeOK, Items
<1>4. ASSUME NEW n \in mine' \ hidden', n \in still'
      PROVE  mem'[n] = server'[n]
  <2>1. n \in mine \ hidden /\ n \in still /\ n # n0 /\ n \in Numbers
    BY <1>3, <1>4 DEF IInv, BaseInv, TypeOK
  <2> QED
    BY <1>3, <2>1 DEF IInv, ListingInv
<1> QED
  BY <1>3, <1>4 DEF ListingInv

LEMMA BeginListingListingInv ==
    ASSUME IInv, BeginListing
    PROVE  ListingInv'
<1>1. /\ phase' = "listing" /\ pageIdx' = 1 /\ mem' = mem /\ server' = server /\ mine' = mine
      /\ received' = received /\ hidden' = MissedBy(mem)'
      /\ pending' = IF isInitial' THEN {1} ELSE {}
  BY DEF BeginListing, PageOne
<1>2. received = NothingReceived
  BY DEF BeginListing, IInv, BaseInv, PhaseInv
<1>3. \A n \in Numbers : /\ Rank(n)' = Rank(n)
                         /\ \A size \in Nat \ {0} : PageIndex(n, size)' = PageIndex(n, size)
  BY <1>1 DEF Rank, Above, PageIndex
<1> SUFFICES ASSUME NEW n \in mine' \ hidden'
             PROVE  IF isInitial' THEN PagesReceived(n)' ELSE PagesRead(n)'
  BY <1>1 DEF ListingInv
<1>4. n \in Numbers /\ n \in mine
  BY <1>1 DEF IInv, BaseInv, TypeOK
<1>5. CASE isInitial'
  <2>1. received'[n] = [page |-> 0, item |-> NoItem]
    BY <1>1, <1>2, <1>4 DEF NothingReceived
  <2>2. server[n] # NoItem
    BY <1>4 DEF IInv, BaseInv, ServerInv, Exists, NoItem
  <2>3. PageIndex(n, FirstPerPage)' \in ToCome'
    BY <1>1, <1>4, <1>5, <2>1, <2>2 DEF MissedBy
  <2> QED
    BY <1>5, <2>1, <2>3 DEF PagesReceived
<1>6. CASE ~isInitial'
  <2>1. \A m \in Numbers : PageIndex(m, PerPage)' >= 1
    BY <1>3, PageIndexType, ConstantsAssumption
  <2>2. \A m \in mine : m \in Numbers
    BY DEF IInv, BaseInv, TypeOK
  <2>3. n \in StaleIn(mem)' => \A m \in mine' \ StaleIn(mem)' : ~Above(m, n)'
    BY <1>1, <1>4, <1>6, <2>1, <2>2 DEF MissedBy
  <2> QED
    BY <1>1, <1>4, <1>6, <2>1, <2>3 DEF PagesRead
<1> QED
  BY <1>5, <1>6

\* after a page is read, all that was said of the pages above it holds of it
LEMMA PageIsRead ==
    ASSUME IInv, phase = "listing", ~isInitial, UNCHANGED <<remote, hidden>>,
           mem' = Reconcile(PageOf(pageIdx, PerPage)),
           NEW n \in mine \ hidden, n \in StaleIn(mem)'
    PROVE  /\ n \in StaleIn(mem) /\ n \notin PageOf(pageIdx, PerPage)
           /\ n \in still => PageIndex(n, PerPage) > pageIdx
           /\ \A m \in mine \ StaleIn(mem)' :
                 Above(m, n) => PageIndex(m, PerPage) <= pageIdx /\ PageIndex(n, PerPage) > pageIdx
<1> DEFINE page == PageOf(pageIdx, PerPage)
<1>1. mine \subseteq Numbers /\ pageIdx \in Nat /\ server' = server /\ mine' = mine
  BY DEF IInv, BaseInv, TypeOK, remote
<1>2. \A m \in Numbers : mem'[m] = IF m \in page THEN server[m] ELSE mem[m]
  BY DEF Reconcile
<1>3. n \notin page /\ n \in StaleIn(mem)
  BY <1>1, <1>2, VersionsNat DEF StaleIn, IInv, BaseInv
<1>4. PageIndex(n, PerPage) # pageIdx /\ PageIndex(n, PerPage) \in Nat
  BY <1>1, <1>3, PageIndexType, ConstantsAssumption DEF PageOf
<1>5. PagesRead(n)
  BY DEF IInv, ListingInv
<1>6. n \in still => PageIndex(n, PerPage) > pageIdx
  BY <1>1, <1>3, <1>4, <1>5 DEF PagesRead
<1>7. ASSUME NEW m \in mine, m \notin StaleIn(mem)', Above(m, n)
      PROVE  PageIndex(m, PerPage) <= pageIdx /\ PageIndex(n, PerPage) > pageIdx
  <2>1. PageIndex(m, PerPage) \in Nat
    BY <1>1, PageIndexType, ConstantsAssumption
  <2>2. CASE m \in page
    <3>1. PageIndex(m, PerPage) = pageIdx
      BY <2>2 DEF PageOf
    <3>2. server[n].ver <= server[m].ver
      BY <1>1, <1>7, VersionsNat DEF Above, IInv, BaseInv
    <3>3. PageIndex(m, PerPage) <= PageIndex(n, PerPage)
      BY <1>1, <3>2, OlderIsLower, ConstantsAssumption DEF IInv, BaseInv
    <3> QED
      BY <1>1, <1>4, <2>1, <3>1, <3>3
  <2>3. CASE m \notin page
    <3>1. m \notin StaleIn(mem)
      BY <1>1, <1>2, <1>7, <2>3 DEF StaleIn
    <3>2. PageIndex(m, PerPage) < pageIdx /\ pageIdx <= PageIndex(n, PerPage)
      BY <1>3, <1>5, <1>7, <3>1 DEF PagesRead
    <3> QED
      BY <1>1, <1>4, <2>1, <3>2
  <2> QED
    BY <2>2, <2>3
<1> QED
  BY <1>1, <1>3, <1>6, <1>7

\* a listing that ends below a page, or at a page whose last is known, has missed nothing
LEMMA LastPageIsLast ==
    ASSUME IInv, phase = "listing", ~isInitial, UNCHANGED <<remote, hidden>>,
           mem' = Reconcile(PageOf(pageIdx, PerPage)),
           ~(NeedNextPage(PageOf(pageIdx, PerPage)) /\ HasNextPage(pageIdx, PerPage)),
           NEW n \in mine \ hidden, n \in StaleIn(mem)'
    PROVE  n \notin still /\ n \notin HiddenIn(mem)'
<1> DEFINE page == PageOf(pageIdx, PerPage)
<1>1. mine \subseteq Numbers /\ pageIdx \in Nat /\ server' = server /\ mine' = mine
  BY DEF IInv, BaseInv, TypeOK, remote
<1> SUFFICES ASSUME PageIndex(n, PerPage) > pageIdx PROVE FALSE
  <2>1. \A m \in mine : Above(m, n)' <=> Above(m, n)
    BY <1>1 DEF Above
  <2> QED
    BY <1>1, <2>1, PageIsRead DEF HiddenIn
<1>2. Exists(n)
  BY <1>1 DEF IInv, BaseInv, ServerInv
<1>3. HasNextPage(pageIdx, PerPage)
  BY <1>1, <1>2, BelowIsNext, ConstantsAssumption DEF IInv, BaseInv
<1>4. PICK o \in page : ~Fresh(mem[o], server[o])
  BY <1>3 DEF NeedNextPage
<1>5. o \in mine /\ o \in Numbers /\ PageIndex(o, PerPage) = pageIdx
  BY <1>1 DEF PageOf
<1>6. o \notin StaleIn(mem)
  BY <1>4 DEF StaleIn, Fresh
<1>7. Above(o, n)
  <2>1. ~(server[o].ver <= server[n].ver)
    BY <1>1, <1>5, OlderIsLower, PageIndexType, ConstantsAssumption DEF IInv, BaseInv
  <2> QED
    BY <1>1, <1>5, <2>1, VersionsNat DEF Above, IInv, BaseInv
<1>8. n \in StaleIn(mem) /\ PagesRead(n)
  BY PageIsRead DEF IInv, ListingInv
<1>9. PageIndex(o, PerPage) < pageIdx
  BY <1>5, <1>6, <1>7, <1>8 DEF PagesRead
<1> QED
  BY <1>1, <1>5, <1>9

LEMMA ListPageListingInv ==
    ASSUME IInv, ListPage
    PROVE  ListingInv'
<1> DEFINE page == PageOf(pageIdx, PerPage)
<1>1. /\ phase = "listing" /\ ~isInitial /\ UNCHANGED <<remote, hidden>>
      /\ mem' = Reconcile(page)
  BY DEF ListPage, EndListing
<1>2. mine \subseteq Numbers /\ pageIdx \in Nat /\ server' = server /\ mine' = mine /\ still' = still
  BY <1>1 DEF IInv, BaseInv, TypeOK, remote
<1>3. CASE NeedNextPage(page) /\ HasNextPage(pageIdx, PerPage)
  <2>1. phase' = "listing" /\ ~isInitial' /\ pageIdx' = pageIdx + 1
    BY <1>3 DEF ListPage
  <2>2. ASSUME NEW n \in mine \ hidden, n \in StaleIn(mem)'
        PROVE  /\ n \in still' => PageIndex(n, PerPage)' >= pageIdx'
               /\ \A m \in mine' \ StaleIn(mem)' :
                    Above(m, n)' => PageIndex(m, PerPage)' < pageIdx' /\ pageIdx' <= PageIndex(n, PerPage)'
    <3>1. \A m \in mine : /\ PageIndex(m, PerPage)' = PageIndex(m, PerPage)
                          /\ PageIndex(m, PerPage) \in Nat
                          /\ Above(m, n)' <=> Above(m, n)
      BY <1>2, PageIndexType, ConstantsAssumption DEF PageIndex, Rank, Above
    <3> QED
      BY <1>1, <1>2, <2>1, <2>2, <3>1, PageIsRead
  <2> QED
    BY <1>1, <1>2, <2>1, <2>2 DEF ListingInv, PagesRead
<1>4. CASE ~(NeedNextPage(page) /\ HasNextPage(pageIdx, PerPage))
  <2>1. phase' = "ready"
    BY <1>4 DEF ListPage, EndListing
  <2>2. ASSUME NEW n \in mine \ hidden, n \in still
        PROVE  mem'[n] = server'[n]
    <3>1. n \notin StaleIn(mem)'
      BY <1>1, <1>4, <2>2, LastPageIsLast
    <3>2. BaseInv'
      BY ListPageBaseInv DEF IInv
    <3>3. mem'[n].ver <= server'[n].ver /\ (mem'[n].ver = server'[n].ver => mem'[n] = server'[n])
      BY <1>2, <3>2 DEF BaseInv, CopyInv, IsCopy
    <3>4. mem'[n].ver \in Nat /\ server'[n].ver \in Nat
      BY <1>2, <3>2, ItemVersions DEF BaseInv, TypeOK, Items
    <3> QED
      BY <1>2, <3>1, <3>3, <3>4 DEF StaleIn
  <2> QED
    BY <1>1, <1>2, <2>1, <2>2 DEF ListingInv
<1> QED
  BY <1>3, <1>4

LEMMA ReceiveListingInv ==
    ASSUME IInv, NEW k \in 1..PageLimit, Receive(k), phase = "listing", isInitial,
           UNCHANGED <<remote, phase, isInitial, hidden>>,
           ToCome \ {k} \subseteq {j \in Nat : \A n \in mine : PageIndex(n, FirstPerPage) = j => j \in ToCome'}
    PROVE  ListingInv'
<1>1. mine \subseteq Numbers /\ server' = server /\ mine' = mine
  BY DEF IInv, BaseInv, TypeOK, remote
<1>2. \A n \in mine : PageIndex(n, FirstPerPage)' = PageIndex(n, FirstPerPage)
  BY <1>1 DEF PageIndex, Rank, Above
<1>3. ASSUME NEW n \in mine \ hidden
      PROVE  PagesReceived(n)'
  <2>1. PagesReceived(n)
    BY <1>3 DEF IInv, ListingInv
  <2>2. n \in Numbers /\ k # 0 /\ k \in Nat
    BY <1>1, ConstantsAssumption
  <2>3. CASE received'[n] = [page |-> k, item |-> server[n]]
    BY <1>1, <2>2, <2>3 DEF PagesReceived
  <2>4. CASE received'[n] = received[n] /\ received[n].page # 0
    BY <1>1, <2>1, <2>4 DEF PagesReceived
  <2>5. CASE received'[n] = received[n] /\ received[n].page = 0
    <3>1. n \notin PageOf(k, FirstPerPage)
      BY <2>2, <2>5 DEF Receive
    <3>2. PageIndex(n, FirstPerPage) # k /\ PageIndex(n, FirstPerPage) \in ToCome
      BY <2>1, <2>5, <3>1 DEF PageOf, PagesReceived
    <3>3. PageIndex(n, FirstPerPage) \in ToCome'
      BY <3>2
    <3> QED
      BY <1>2, <2>5, <3>3 DEF PagesReceived
  <2> QED
    BY <2>2, <2>3, <2>4, <2>5 DEF Receive
<1> QED
  BY <1>1, <1>3 DEF ListingInv

LEMMA FirstPageListingInv ==
    ASSUME IInv, FirstPage
    PROVE  ListingInv'
<1>1. /\ PageOne \in pending /\ Receive(1) /\ phase = "listing" /\ isInitial
      /\ UNCHANGED <<remote, phase, isInitial, hidden>>
      /\ pending' = {k \in 2..PageLimit : HasNextPage(k - 1, FirstPerPage)}
  BY DEF FirstPage, PageOne
<1>2. ToCome = 1..PageLimit /\ ToCome' = pending'
  BY <1>1 DEF ToCome, PageOne
<1>3. ASSUME NEW n \in mine, PageIndex(n, FirstPerPage) \in ToCome \ {1}
      PROVE  PageIndex(n, FirstPerPage) \in ToCome'
  <2> DEFINE j == PageIndex(n, FirstPerPage)
  <2>1. n \in Numbers /\ Exists(n)
    BY DEF IInv, BaseInv, TypeOK, ServerInv
  <2>2. j \in 2..PageLimit /\ j - 1 \in Nat /\ j > j - 1
    BY <1>2, <1>3, ConstantsAssumption
  <2>3. HasNextPage(j - 1, FirstPerPage)
    BY <2>1, <2>2, BelowIsNext, ConstantsAssumption DEF IInv, BaseInv
  <2> QED
    BY <1>1, <1>2, <2>2, <2>3
<1>4. 1 \in 1..PageLimit /\ ToCome \subseteq Nat
  BY <1>2, ConstantsAssumption
<1> QED
  BY <1>1, <1>3, <1>4, ReceiveListingInv

LEMMA OtherPageListingInv ==
    ASSUME IInv, NEW k \in 2..PageLimit, OtherPage(k)
    PROVE  ListingInv'
<1>1. /\ PageOne \notin pending /\ Receive(k) /\ phase = "listing" /\ isInitial
      /\ UNCHANGED <<remote, phase, isInitial, hidden>>
      /\ pending' = pending \ {k}
  BY DEF OtherPage
<1>2. ToCome = pending /\ ToCome' = pending \ {k}
  BY <1>1 DEF ToCome
<1>3. k \in 1..PageLimit /\ ToCome \subseteq Nat
  BY <1>2, ConstantsAssumption DEF IInv, BaseInv, TypeOK
<1> QED
  BY <1>1, <1>2, <1>3, ReceiveListingInv

LEMMA AllPagesListingInv ==
    ASSUME IInv, AllPages
    PROVE  /\ ListingInv'
           /\ \A n \in mine \ hidden : n \notin StaleIn(mem)'
<1>1. /\ phase = "listing" /\ isInitial /\ pending = {} /\ phase' = "ready"
      /\ UNCHANGED <<remote, hidden>>
      /\ mem' = [n \in Numbers |-> IF received[n].page # 0 THEN received[n].item ELSE mem[n]]
  BY DEF AllPages, EndListing
<1>2. ToCome = {}
  BY <1>1 DEF ToCome
<1>3. ASSUME NEW n \in mine \ hidden
      PROVE  mem'[n] = server'[n] /\ mine' = mine
  BY <1>1, <1>2 DEF IInv, ListingInv, PagesReceived, BaseInv, TypeOK, remote
<1>4. \A n \in mine \ hidden : n \notin StaleIn(mem)'
  <2>1. \A n \in mine : server'[n].ver \in Nat
    BY <1>1, VersionsNat DEF remote, IInv, BaseInv, TypeOK
  <2> QED
    BY <1>3, <2>1 DEF StaleIn
<1> QED
  BY <1>1, <1>3, <1>4 DEF ListingInv, remote

LEMMA InitIInv == Init => IInv
BY InitBaseInv DEF IInv, ListingInv, Init

LEMMA StepIInv == IInv /\ [Next]_vars => IInv'
<1> SUFFICES ASSUME IInv, [Next]_vars PROVE IInv'
  OBVIOUS
<1>0. BaseInv'
  BY StepBaseInv DEF IInv
<1>1. CASE People
  BY <1>0, <1>1, PeopleListingInv DEF IInv
<1>2. CASE BeginRun \/ EndRun
  BY <1>0, <1>2 DEF BeginRun, EndRun, IInv, ListingInv
<1>3. CASE Save
  BY <1>0, <1>3 DEF Save, IInv, ListingInv, remote, run
<1>4. CASE BeginListing
  BY <1>0, <1>4, BeginListingListingInv DEF IInv
<1>5. CASE ListPage
  BY <1>0, <1>5, ListPageListingInv DEF IInv
<1>6. CASE FirstPage
  BY <1>0, <1>6, FirstPageListingInv DEF IInv
<1>7. ASSUME NEW k \in 2..PageLimit, OtherPage(k) PROVE IInv'
  BY <1>0, <1>7, OtherPageListingInv DEF IInv
<1>8. CASE AllPages
  BY <1>0, <1>8, AllPagesListingInv DEF IInv
<1>9. CASE OwnWrite
  BY <1>0, <1>9, WritesListingInv DEF IInv
<1>10. CASE UNCHANGED vars
  <2>1. /\ UNCHANGED <<server, mine, still, hidden, phase, isInitial, mem>>
        /\ UNCHANGED <<received, pending, pageIdx>>
    BY <1>10 DEF vars, remote, run
  <2>2. \A n, size : PageIndex(n, size)' = PageIndex(n, size)
    BY <2>1 DEF PageIndex, Rank, Above
  <2>3. \A n : PagesReceived(n)' <=> PagesReceived(n)
    BY <2>1, <2>2 DEF PagesReceived, ToCome
  <2>4. \A n : PagesRead(n)' <=> PagesRead(n)
    BY <2>1, <2>2 DEF PagesRead, StaleIn, Above
  <2> QED
    BY <1>0, <2>1, <2>3, <2>4 DEF IInv, ListingInv
<1> QED
  BY <1>1, <1>2, <1>3, <1>4, <1>5, <1>6, <1>7, <1>8, <1>9, <1>10 DEF Next, Listing

-----------------------------------------------------------------------------
(* The invariants and the action properties *)

LEMMA InductiveInvariant == Spec => []IInv
BY InitIInv, StepIInv, PTL DEF Spec

\* Whatever people do and whenever runs fail, the run's data are of their
\* types: no page before the first is asked for, no copy has what GitHub never had.
THEOREM TypeCorrect == Spec => []TypeOK
BY InductiveInvariant, PTL DEF IInv, BaseInv

\* cachePr keeps config.prList and the persistent cache the same.
THEOREM ListIsCached == Spec => []ListMatchesCache
BY InductiveInvariant, PTL DEF IInv, BaseInv

LEMMA PeopleHideNothing ==
    ASSUME IInv, People
    PROVE  HiddenIn(mem)' \subseteq HiddenIn(mem)
<1>1. PICK n0 \in Numbers : /\ Changes(n0, server'[n0])
                            /\ UNCHANGED <<mine, disk, phase, run, failures>>
  BY PeopleChange DEF IInv
<1>2. mem' = mem /\ mine' = mine /\ mine \subseteq Numbers
  BY <1>1 DEF run, IInv, BaseInv, TypeOK
<1>3. server'[n0].ver > clock /\ \A m \in Numbers \ {n0} : server'[m] = server[m]
  BY <1>1 DEF Changes, IInv, BaseInv, TypeOK, Items
<1>4. \A m \in Numbers : server[m].ver <= clock /\ mem[m].ver <= server[m].ver
  BY DEF IInv, BaseInv, ServerInv, CopyInv, IsCopy
<1>5. /\ clock \in Nat
      /\ \A m \in Numbers : server[m].ver \in Nat /\ mem[m].ver \in Nat /\ server'[m].ver \in Nat
  <2>1. BaseInv'
    BY PeopleBaseInv DEF IInv
  <2> QED
    BY <2>1, VersionsNat, ItemVersions DEF IInv, BaseInv, TypeOK, Items
<1> SUFFICES ASSUME NEW n \in StaleIn(mem)', NEW m \in mine' \ StaleIn(mem)', Above(m, n)'
             PROVE  n \in HiddenIn(mem)
  BY DEF HiddenIn
<1>6. n \in mine /\ m \in mine /\ n \in Numbers /\ m \in Numbers
  BY <1>2 DEF StaleIn
<1>7. m # n0
  BY <1>2, <1>3, <1>4, <1>5, <1>6 DEF StaleIn
<1>8. n # n0
  BY <1>3, <1>4, <1>5, <1>6, <1>7 DEF Above
<1> QED
  BY <1>2, <1>3, <1>6, <1>7, <1>8 DEF HiddenIn, StaleIn, Above

\* A listing hides nothing that was not hidden when it began or moved from page
\* to page by others, and neither a save nor people hide anything later.
THEOREM OthersHideNothing == Spec => OnlyOwnWritesHide
<1>1. ASSUME IInv, [Next]_vars
      PROVE  [phase' \in {"ready", "saved"} /\ ~OwnWrite =>
                HiddenIn(mem)' \subseteq IF phase = "listing" THEN hidden ELSE HiddenIn(mem)]_vars
  <2> SUFFICES ASSUME Next, phase' \in {"ready", "saved"}, ~OwnWrite
               PROVE  HiddenIn(mem)' \subseteq IF phase = "listing" THEN hidden ELSE HiddenIn(mem)
    BY <1>1
  <2>1. CASE People
    <3>1. phase' = phase /\ (phase = "listing" => FALSE)
      BY <1>1, <2>1, PeopleChange DEF IInv
    <3> QED
      BY <1>1, <2>1, <3>1, PeopleHideNothing
  <2>2. CASE Save
    BY <2>2 DEF Save, remote, run, HiddenIn, StaleIn, Above
  <2>3. CASE ListPage
    <3>1. /\ phase = "listing" /\ ~isInitial /\ UNCHANGED <<remote, hidden>>
          /\ mem' = Reconcile(PageOf(pageIdx, PerPage))
          /\ ~(NeedNextPage(PageOf(pageIdx, PerPage)) /\ HasNextPage(pageIdx, PerPage))
      BY <2>3 DEF ListPage, EndListing
    <3>2. ASSUME NEW n \in HiddenIn(mem)', n \notin hidden PROVE FALSE
      <4>1. n \in mine /\ n \in StaleIn(mem)'
        BY <3>1 DEF HiddenIn, StaleIn, remote
      <4> QED
        BY <1>1, <3>1, <3>2, <4>1, LastPageIsLast
    <3> QED
      BY <3>1, <3>2
  <2>4. CASE AllPages
    <3>1. \A n \in mine \ hidden : n \notin StaleIn(mem)'
      BY <1>1, <2>4, AllPagesListingInv
    <3> QED
      BY <2>4, <3>1 DEF AllPages, remote, HiddenIn, StaleIn
  <2>5. ~(BeginRun \/ EndRun \/ BeginListing \/ FirstPage \/ \E k \in 2..PageLimit : OtherPage(k))
    BY DEF BeginRun, EndRun, BeginListing, FirstPage, OtherPage
  <2> QED
    BY <2>1, <2>2, <2>3, <2>4, <2>5 DEF Next, Listing
<1>2. IInv /\ [Next]_vars =>
        [phase' \in {"ready", "saved"} /\ ~OwnWrite =>
            HiddenIn(mem)' \subseteq IF phase = "listing" THEN hidden ELSE HiddenIn(mem)]_vars
  BY <1>1
<1> QED
  BY <1>2, InductiveInvariant, PTL DEF Spec, OnlyOwnWritesHide

\* The decision of prAlreadyExisted is right: what was closed or merged when the
\* listing began, and left alone, is not opened once more, unless a run had given
\* it the title of an autoclosed one.
THEOREM ClosedStaysClosed == Spec => ClosedNotRecreated
<1>1. ASSUME IInv, NEW b \in Branches, CreatePr(b) \/ LoseCreated(b), NEW n \in still \ hidden,
             server[n].branch = b
      PROVE  server[n].state \in {"autoclosed", "retitled"}
  <2>1. phase = "ready" /\ ~Has(b, {"open"}) /\ ~AlreadyExisted(b)
    BY <1>1 DEF CreatePr, LoseCreated
  <2>2. n \in mine /\ n \in Numbers /\ Exists(n)
    BY <1>1 DEF IInv, BaseInv, TypeOK, ServerInv
  <2>3. prList[n] = server[n]
    BY <1>1, <2>1, <2>2 DEF IInv, BaseInv, ListMatchesCache, ListingInv
  <2>4. server[n].state \in States \ {"none"}
    BY <1>1, <2>2 DEF Exists, IInv, BaseInv, TypeOK, Items, Item
  <2>5. server[n].state \notin {"open", "closed", "merged"}
    BY <1>1, <2>1, <2>2, <2>3 DEF AlreadyExisted, Has, Hits
  <2> QED
    BY <2>4, <2>5 DEF States
<1>2. IInv /\ [Next]_vars =>
        [\A b \in Branches :
            CreatePr(b) \/ LoseCreated(b) =>
               \A n \in still \ hidden :
                  server[n].branch = b => server[n].state \in {"autoclosed", "retitled"}]_vars
  BY <1>1
<1> QED
  BY <1>2, InductiveInvariant, PTL DEF Spec, ClosedNotRecreated

-----------------------------------------------------------------------------
(* The refinement of PrView *)

Versions == [n \in Numbers |-> server[n].ver]
Knowns == [n \in Numbers |-> mem[n].ver]
Stage == IF phase = "saved" THEN "ready" ELSE phase

LEMMA ViewTypes ==
    ASSUME TypeOK
    PROVE  /\ Versions \in [Numbers -> 0..MaxClock] /\ Knowns \in [Numbers -> 0..MaxClock]
           /\ View!Unknown = StaleIn(mem)
<1>1. \A i \in Item : i.ver \in 0..MaxClock
  BY DEF Item
<1>2. Versions \in [Numbers -> 0..MaxClock] /\ Knowns \in [Numbers -> 0..MaxClock]
  BY <1>1 DEF Versions, Knowns, TypeOK, Items
<1>3. View!Unknown = StaleIn(mem)
  BY DEF View!Unknown, StaleIn, TypeOK
<1> QED
  BY <1>2, <1>3

LEMMA ChangeIsNewer ==
    ASSUME BaseInv, NEW n \in Numbers, NEW new, Changes(n, new)
    PROVE  /\ new.ver \in 1..MaxClock /\ View!Newer(new.ver)
           /\ Versions' = [Versions EXCEPT ![n] = new.ver]
<1>1. clock \in Nat /\ new.ver \in 0..MaxClock /\ new.ver > clock
  BY VersionsNat DEF BaseInv, Changes, Item
<1>2. \A m \in Numbers : server[m].ver \in Nat /\ server[m].ver <= clock
  BY VersionsNat DEF BaseInv, ServerInv
<1>3. new.ver \in 1..MaxClock
  BY <1>1, ConstantsAssumption
<1>4. View!Newer(new.ver)
  BY <1>1, <1>2, <1>3 DEF View!Newer
<1>5. Versions' = [Versions EXCEPT ![n] = new.ver]
  BY DEF Versions, Changes, BaseInv, TypeOK, Items
<1> QED
  BY <1>3, <1>4, <1>5

LEMMA ViewInit == Init => View!Init
BY DEF Init, View!Init, View!Nothing, EmptyCache, NoItem

LEMMA ViewPeople ==
    ASSUME IInv, People
    PROVE  \E n \in Numbers : View!Change(n)
<1>1. PICK n \in Numbers : /\ Changes(n, server'[n])
                           /\ UNCHANGED <<mine, disk, phase, run, failures>>
                           /\ still' = still \ {n}
                           /\ Shift
  BY PeopleChange DEF IInv
<1>2. /\ server'[n].ver \in 1..MaxClock /\ View!Newer(server'[n].ver)
      /\ Versions' = [Versions EXCEPT ![n] = server'[n].ver]
  BY <1>1, ChangeIsNewer DEF IInv
<1>3. mine' = mine /\ Knowns' = Knowns /\ Stage' = Stage
  BY <1>1 DEF run, Knowns, Stage
<1>4. hidden \subseteq hidden' /\ (Stage # "listing" => hidden' = hidden)
  BY <1>1 DEF Shift, Stage
<1>5. hidden' \subseteq hidden \cup (View!Unknown)'
  <2>1. BaseInv'
    BY PeopleBaseInv DEF IInv
  <2>2. (View!Unknown)' = StaleIn(mem)'
    BY <2>1 DEF View!Unknown, StaleIn, BaseInv, TypeOK
  <2>3. CASE isInitial
    <3>1. \A m \in mine' : mem'[m].ver = 0 /\ server'[m].ver > 0 /\ server'[m].ver \in Nat
      BY <1>1, <1>3, <2>1, <2>3, ItemVersions
         DEF run, IInv, BaseInv, PhaseInv, EmptyCache, NoItem, ServerInv, TypeOK, Items
    <3>2. mine' \subseteq StaleIn(mem)'
      BY <3>1 DEF StaleIn
    <3>3. MissedBy(mem)' \subseteq mine'
      BY DEF MissedBy, StaleIn
    <3> QED
      BY <1>1, <2>2, <3>2, <3>3 DEF Shift
  <2>4. CASE ~isInitial
    <3>1. MissedBy(mem)' \subseteq StaleIn(mem)'
      BY <1>1, <2>4 DEF MissedBy, run
    <3> QED
      BY <1>1, <2>2, <3>1 DEF Shift
  <2> QED
    BY <2>3, <2>4
<1>6. View!Change(n)
  BY <1>1, <1>2, <1>3, <1>4, <1>5 DEF View!Change, Versions, Knowns, Stage
<1> QED
  BY <1>6

LEMMA ViewWrite ==
    ASSUME IInv, OwnWrite
    PROVE  \E n \in Numbers : View!Write(n)
<1>1. PICK n \in Numbers : \E item : Writes(n, item, server'[n]) /\ phase \in {"ready", "saved"}
  BY OwnWriteWrites DEF IInv
<1>2. PICK item : Writes(n, item, server'[n])
  BY <1>1
<1>3. /\ Changes(n, server'[n]) /\ n \in mine' /\ still' = still \ {n}
      /\ item \in Item /\ mem[n].ver <= item.ver /\ item.ver <= server'[n].ver
      /\ UNCHANGED <<phase, hidden>>
      /\ mem' = [mem EXCEPT ![n] = item]
  BY <1>2 DEF Writes, CachePr, listState, IInv, BaseInv, TypeOK, Items
<1>4. /\ server'[n].ver \in 1..MaxClock /\ View!Newer(server'[n].ver)
      /\ Versions' = [Versions EXCEPT ![n] = server'[n].ver]
  BY <1>3, ChangeIsNewer DEF IInv
<1>5. mine' = mine \cup {n}
  BY <1>3 DEF Changes
<1>6. item.ver \in mem[n].ver .. server'[n].ver
  BY <1>3, <1>4, VersionsNat, ItemVersions DEF IInv, BaseInv
<1>7. Knowns' = [Knowns EXCEPT ![n] = item.ver]
  BY <1>3 DEF Knowns, IInv, BaseInv, TypeOK, Items
<1>8. Stage = "ready" /\ Stage' = Stage
  BY <1>1, <1>3 DEF Stage
<1>9. View!Write(n)
  BY <1>3, <1>4, <1>5, <1>6, <1>7, <1>8 DEF View!Write, Versions, Knowns, Stage
<1> QED
  BY <1>9

LEMMA ViewBegin ==
    ASSUME IInv, BeginRun
    PROVE  View!Begin
<1>1. BaseInv'
  BY BeginRunBaseInv DEF IInv
<1>2. /\ Stage = "idle" /\ Stage' = "begun"
      /\ UNCHANGED <<server, mine, still, hidden>>
  BY DEF BeginRun, Stage, remote
<1>3. Knowns' \in [Numbers -> 0..MaxClock]
  <2>1. \A i \in Item : i.ver \in 0..MaxClock
    BY DEF Item
  <2> QED
    BY <1>1, <2>1 DEF Knowns, BaseInv, TypeOK, Items
<1>4. \A n \in Numbers : mem'[n].ver <= server'[n].ver
  BY <1>1 DEF BaseInv, CopyInv, IsCopy
<1> QED
  BY <1>2, <1>3, <1>4 DEF View!Begin, Knowns, Stage

\* the first listing stops at the Limit
LEMMA BeyondLimit ==
    ASSUME BaseInv, NEW n \in Numbers
    PROVE  PageIndex(n, FirstPerPage) \notin 1..PageLimit <=> Rank(n) >= PageLimit * FirstPerPage
<1>1. /\ Rank(n) \in Nat /\ PageLimit \in Nat /\ FirstPerPage \in Nat \ {0}
      /\ PageLimit * FirstPerPage \in Nat
  BY PageIndexType, ConstantsAssumption
<1>2. Rank(n) < PageLimit * FirstPerPage <=> Rank(n) \div FirstPerPage < PageLimit
  BY <1>1, DivisionFacts
<1>3. Rank(n) \div FirstPerPage \in Nat
  BY <1>1
<1>4. PageIndex(n, FirstPerPage) \in 1..PageLimit <=> Rank(n) \div FirstPerPage < PageLimit
  BY <1>1, <1>3 DEF PageIndex
<1> QED
  BY <1>1, <1>2, <1>4

LEMMA ViewList ==
    ASSUME IInv, BeginListing
    PROVE  View!List
<1>1. /\ Stage = "begun" /\ Stage' = "listing" /\ still' = mine
      /\ UNCHANGED <<server, mine, mem>>
      /\ hidden' = MissedBy(mem)' /\ pageIdx' = 1
      /\ isInitial' = (Known(mem) = {})
  BY DEF BeginListing, Stage, PageOne
<1>2. mine \subseteq Numbers
  BY DEF IInv, BaseInv, TypeOK
<1>3. \A n \in Numbers : Rank(n)' = Rank(n) /\ \A size : PageIndex(n, size)' = PageIndex(n, size)
  BY <1>1 DEF Rank, Above, PageIndex
<1>4. isInitial' <=> Knowns = View!Nothing
  <2>1. \A n \in Numbers : mem[n] # NoItem <=> mem[n].ver # 0
    BY VersionsNat DEF IInv, BaseInv, CopyInv, IsCopy, NoItem
  <2> QED
    BY <1>1, <2>1 DEF Known, Knowns, View!Nothing
<1>5. CASE isInitial'
  <2>1. \A n \in mine : received'[n].item # server[n]
    BY <1>2 DEF BeginListing, IInv, BaseInv, PhaseInv, NothingReceived, ServerInv, Exists, NoItem
  <2>2. ToCome' = 1..PageLimit
    BY <1>5 DEF BeginListing, ToCome
  <2>3. hidden' = {n \in mine : PageIndex(n, FirstPerPage) \notin 1..PageLimit}
    BY <1>1, <1>2, <1>3, <1>5, <2>1, <2>2 DEF MissedBy
  <2>4. View!Beyond = {n \in mine : Rank(n) >= PageLimit * FirstPerPage}
    <3>1. ASSUME NEW n \in mine
          PROVE  {m \in Numbers : Versions[m] > Versions[n]} = {m \in Numbers : Above(m, n)}
      BY <1>2, <3>1 DEF Versions, Above
    <3>2. \A n \in mine : Cardinality({m \in Numbers : Versions[m] > Versions[n]}) = Rank(n)
      BY <3>1 DEF Rank
    <3>3. View!Beyond = {n \in mine : Cardinality({m \in Numbers : Versions[m] > Versions[n]})
                                       >= PageLimit * FirstPerPage}
      BY DEF View!Beyond, Versions, View!Cardinality, Cardinality
    <3> QED
      BY <3>2, <3>3
  <2>5. hidden' = View!Beyond
    BY <1>2, <2>3, <2>4, BeyondLimit DEF IInv
  <2> QED
    BY <1>1, <1>4, <1>5, <2>5 DEF View!List, Stage, Knowns
<1>6. CASE ~isInitial'
  <2>1. \A n \in mine : PageIndex(n, PerPage)' >= pageIdx'
    BY <1>1, <1>2, <1>3, PageIndexType, ConstantsAssumption
  <2>2. hidden' = HiddenIn(mem)
    BY <1>1, <1>6, <2>1 DEF MissedBy, HiddenIn, StaleIn, Above
  <2>3. View!Hidden = HiddenIn(mem)
    BY <1>2, ViewTypes DEF View!Hidden, HiddenIn, Above, IInv, BaseInv, StaleIn
  <2> QED
    BY <1>1, <1>4, <1>6, <2>2, <2>3 DEF View!List, Stage, Knowns
<1> QED
  BY <1>5, <1>6

LEMMA ViewLearn ==
    ASSUME IInv, ListPage \/ AllPages
    PROVE  View!Learn
<1>1. /\ phase = "listing" /\ phase' \in {"listing", "ready"}
      /\ UNCHANGED <<remote, hidden>>
  BY DEF ListPage, AllPages, EndListing
<1>2. IInv'
  BY StepIInv DEF Next, Listing
<1>3. \A n \in Numbers : mem[n].ver <= mem'[n].ver /\ mem'[n].ver <= server[n].ver
  <2>1. \A n \in Numbers : mem'[n].ver <= server[n].ver
    BY <1>1, <1>2 DEF IInv, BaseInv, CopyInv, IsCopy, remote
  <2>2. \A n \in Numbers : mem[n].ver <= server[n].ver /\ mem[n].ver \in Nat
    BY VersionsNat DEF IInv, BaseInv, CopyInv, IsCopy
  <2>3. CASE ListPage
    BY <2>1, <2>2, <2>3 DEF ListPage, EndListing, Reconcile
  <2>4. CASE AllPages
    <3>1. \A n \in Numbers : mem[n].ver = 0 /\ mem'[n].ver \in Nat
      BY <1>2, <2>4, ItemVersions
         DEF AllPages, IInv, BaseInv, PhaseInv, EmptyCache, NoItem, TypeOK, Items
    <3> QED
      BY <2>1, <3>1
  <2> QED
    BY <2>3, <2>4
<1>4. phase' = "ready" => \A n \in still \ hidden : mem'[n].ver = server[n].ver
  BY <1>1, <1>2 DEF IInv, ListingInv, BaseInv, TypeOK, remote
<1>5. Knowns' \in [Numbers -> 0..MaxClock]
  <2>1. \A i \in Item : i.ver \in 0..MaxClock
    BY DEF Item
  <2> QED
    BY <1>2, <2>1 DEF Knowns, IInv, BaseInv, TypeOK, Items
<1>6. still \subseteq Numbers
  BY DEF IInv, BaseInv, TypeOK
<1> QED
  BY <1>1, <1>3, <1>4, <1>5, <1>6 DEF View!Learn, Knowns, remote

LEMMA ViewEnd ==
    ASSUME EndRun
    PROVE  View!End
BY DEF EndRun, View!End, View!Nothing, EmptyCache, NoItem

\* The pages, their order and their reconciliation implement a listing that ends
\* with every pull request known that was left alone and not exempt.
THEOREM ImplementsPrView == Spec => ImplementsView
<1>1. ASSUME IInv, [Next]_vars
      PROVE  [View!Next]_(View!vars)
  <2>1. CASE People
    BY <1>1, <2>1, ViewPeople DEF View!Next
  <2>2. CASE OwnWrite
    BY <1>1, <2>2, ViewWrite DEF View!Next
  <2>3. CASE BeginRun
    BY <1>1, <2>3, ViewBegin DEF View!Next
  <2>4. CASE BeginListing
    BY <1>1, <2>4, ViewList DEF View!Next
  <2>5. CASE ListPage \/ AllPages
    BY <1>1, <2>5, ViewLearn DEF View!Next
  <2>6. CASE EndRun
    BY <2>6, ViewEnd DEF View!Next
  <2>7. CASE Save
    BY <2>7 DEF Save, remote, run, View!vars
  <2>8. CASE FirstPage \/ \E k \in 2..PageLimit : OtherPage(k)
    BY <2>8 DEF FirstPage, OtherPage, remote, View!vars
  <2>9. CASE UNCHANGED vars
    BY <2>9 DEF vars, remote, run, View!vars
  <2> QED
    BY <1>1, <2>1, <2>2, <2>3, <2>4, <2>5, <2>6, <2>7, <2>8, <2>9 DEF Next, Listing
<1>2. IInv /\ [Next]_vars => [View!Next]_(View!vars)
  BY <1>1
<1> QED
  BY <1>2, ViewInit, InductiveInvariant, PTL DEF Spec, ImplementsView, View!Spec
=============================================================================
