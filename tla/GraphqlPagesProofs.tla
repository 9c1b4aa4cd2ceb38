------------------------- MODULE GraphqlPagesProofs -------------------------
(***************************************************************************)
(* That a list is listed in full and no list is read without end, for      *)
(* lists and pages of any size.                                            *)
(*                                                                         *)
(* ReadInv: what was received are the first items, as many as the cursor   *)
(* says, unless a page was asked for twice.  BoundInv: what was received   *)
(* is bounded by the pages that were asked for, or by what is not wanted   *)
(* any more.                                                               *)
(***************************************************************************)
EXTENDS GraphqlPages, SequenceTheorems, TLAPS

(* The inductive invariant *)

SizeInv ==
    /\ phase = "asking" => size # 0
    /\ record = NoRecord \/ record.size # 0
    /\ phase = "asking" /\ kind = "tags" => queryCount < QueryLimit

InOrder == \A i \in DOMAIN result : result[i] = i

ReadInv ==
    ~lost =>
        /\ InOrder
        /\ phase = "asking" => Len(result) = cursor
        /\ phase = "done" => \/ Len(result) = Items
                             \/ kind = "tags" /\ queryCount = QueryLimit
                             \/ kind = "issues" /\ (limit = 0 \/ size = 0)

BoundInv ==
    /\ kind = "tags" => Len(result) <= queryCount * MaxSize
    /\ kind = "issues" => Len(result) + limit = Wanted

IInv == TypeOK /\ SizeInv /\ ReadInv /\ BoundInv
----------------------------------------------------------------------------
(* Pages and page sizes *)

LEMMA PageFacts ==
    ASSUME PagesAssumption, NEW from \in 0..Items, NEW n \in 0..MaxSize
    PROVE  /\ Page(from, n) \in Seq(1..Items)
           /\ Len(Page(from, n)) = Smaller(n, Items - from)
           /\ \A i \in 1..Len(Page(from, n)) : Page(from, n)[i] = from + i
<1>1. Smaller(n, Items - from) \in Nat /\ Smaller(n, Items - from) <= Items - from
  BY DEF Smaller, PagesAssumption
<1>2. \A i \in 1..Smaller(n, Items - from) : from + i \in 1..Items
  BY <1>1 DEF PagesAssumption
<1>3. Page(from, n) \in [1..Smaller(n, Items - from) -> 1..Items]
  BY <1>2 DEF Page
<1>4. Page(from, n) \in Seq(1..Items)
  BY <1>1, <1>3, SeqDef
<1>5. Len(Page(from, n)) = Smaller(n, Items - from)
  BY <1>1, <1>3, <1>4, LenProperties
<1>. QED  BY <1>3, <1>4, <1>5 DEF Page

\* a page that follows what was received
LEMMA PageAppended ==
    ASSUME PagesAssumption, TypeOK, NEW n \in 0..MaxSize
    PROVE  LET page == Page(cursor, n)
               got == result \o page
           IN  /\ got \in Seq(1..Items) /\ Len(got) = Len(result) + Len(page)
               /\ Len(page) = Smaller(n, Items - cursor) /\ Len(page) \in Nat
               /\ InOrder /\ Len(result) = cursor => \A i \in DOMAIN got : got[i] = i
<1>. DEFINE page == Page(cursor, n)
            got == result \o page
<1>1. cursor \in 0..Items /\ result \in Seq(1..Items)
  BY DEF TypeOK
<1>2. /\ page \in Seq(1..Items) /\ Len(page) = Smaller(n, Items - cursor)
      /\ \A i \in 1..Len(page) : page[i] = cursor + i
  BY <1>1, PageFacts
<1>. HIDE DEF page
<1>3. /\ got \in Seq(1..Items) /\ Len(got) = Len(result) + Len(page)
      /\ \A i \in 1..Len(result) + Len(page) :
            got[i] = IF i <= Len(result) THEN result[i] ELSE page[i - Len(result)]
  BY <1>1, <1>2, ConcatProperties
<1>4. /\ Len(page) \in Nat /\ Len(result) \in Nat
      /\ DOMAIN result = 1..Len(result) /\ DOMAIN got = 1..Len(got)
  BY <1>1, <1>2, <1>3, LenProperties
<1>5. ASSUME InOrder, Len(result) = cursor, NEW i \in DOMAIN got
      PROVE  got[i] = i
  <2>1. i \in 1..Len(result) + Len(page)
    BY <1>3, <1>4
  <2>2. CASE i <= Len(result)
    BY <1>3, <1>4, <1>5, <2>1, <2>2 DEF InOrder
  <2>3. CASE ~(i <= Len(result))
    <3>1. i - Len(result) \in 1..Len(page)
      BY <1>4, <2>1, <2>3
    <3>2. got[i] = page[i - Len(result)]
      BY <1>3, <2>1, <2>3
    <3>3. page[i - Len(result)] = cursor + (i - Len(result))
      BY <1>2, <3>1
    <3>. QED  BY <1>4, <1>5, <2>1, <3>2, <3>3
  <2>. QED  BY <2>2, <2>3
<1>. QED  BY <1>2, <1>3, <1>4, <1>5 DEF page

Records == [size : 0..MaxSize, old : BOOLEAN]

LEMMA RecordSizes ==
    ASSUME PagesAssumption, NEW rec \in Records, rec = NoRecord \/ rec.size # 0
    PROVE  /\ PageSize(rec) \in 1..MaxSize
           /\ AfterGet(rec) \in Records /\ (AfterGet(rec) = NoRecord \/ AfterGet(rec).size # 0)
           /\ \A n \in 1..MaxSize : /\ AfterSet(rec, n) \in Records
                                    /\ AfterSet(rec, n) = NoRecord \/ AfterSet(rec, n).size # 0
<1>1. NoRecord \in Records
  BY DEF PagesAssumption, NoRecord, Records
<1>2. rec # NoRecord => rec.size \in 1..MaxSize /\ Grown(rec.size) \in 1..MaxSize
  BY DEF PagesAssumption, Records, Grown, Smaller
<1>3. PageSize(rec) \in 1..MaxSize
  BY <1>2 DEF PagesAssumption, PageSize
<1>4. AfterGet(rec) \in Records /\ (AfterGet(rec) = NoRecord \/ AfterGet(rec).size # 0)
  BY <1>1, <1>2 DEF PagesAssumption, AfterGet, Records
<1>. QED  BY <1>3, <1>4 DEF AfterSet, Records, PagesAssumption
----------------------------------------------------------------------------
LEMMA InitIInv == PagesAssumption /\ Init => IInv
<1>. SUFFICES ASSUME PagesAssumption, Init PROVE IInv
  OBVIOUS
<1>1. result \in Seq(1..Items) /\ Len(result) = 0 /\ DOMAIN result = {}
  BY EmptySeq, LenProperties DEF Init
<1>2. TypeOK
  <2>1. NoRecord \in [size : 0..MaxSize, old : BOOLEAN]
    BY DEF NoRecord, PagesAssumption
  <2>2. /\ kind = "tags" /\ phase = "idle" /\ size = MaxSize /\ cursor = 0 /\ limit = Wanted
        /\ queryCount = 0 /\ optimal = 0
        /\ record = NoRecord /\ lost = FALSE /\ errors = 0 /\ midnights = 0
    BY DEF Init
  <2>3. record \in [size : 0..MaxSize, old : BOOLEAN]
    BY <2>1, <2>2
  <2>4. lost \in BOOLEAN
    BY <2>2
  <2>5. /\ kind \in {"tags", "issues"} /\ phase \in {"idle", "asking", "done", "failed"}
        /\ size \in 0..MaxSize /\ cursor \in 0..Items /\ limit \in 0..Wanted
        /\ queryCount \in 0..QueryLimit /\ optimal \in 0..MaxSize
        /\ errors \in 0..MaxErrors /\ midnights \in 0..MaxMidnights
    BY <2>2 DEF PagesAssumption
  <2>. QED  BY <1>1, <2>3, <2>4, <2>5 DEF TypeOK
<1>. QED  BY <1>1, <1>2 DEF Init, IInv, SizeInv, ReadInv, InOrder, BoundInv, PagesAssumption

LEMMA BeginIInv ==
    ASSUME PagesAssumption, IInv, NEW what \in {"tags", "issues"}, Begin(what)
    PROVE  IInv'
<1>1. /\ kind' = what /\ phase' = "asking" /\ cursor' = 0 /\ limit' = Wanted /\ result' = <<>>
      /\ queryCount' = 0 /\ optimal' = 0 /\ lost' = FALSE /\ UNCHANGED <<errors, midnights>>
      /\ size' \in {MaxSize, PageSize(record)} /\ record' \in {record, AfterGet(record)}
  BY DEF Begin
<1>2. result' \in Seq(1..Items) /\ Len(result') = 0 /\ DOMAIN result' = {}
  BY <1>1, EmptySeq, LenProperties
<1>3. size' \in 1..MaxSize /\ record' \in Records /\ (record' = NoRecord \/ record'.size # 0)
  BY <1>1, RecordSizes DEF IInv, TypeOK, SizeInv, Records, PagesAssumption
<1>4. TypeOK'
  <2>1. result' \in Seq(1..Items)
    BY <1>2
  <2>2. /\ kind' \in {"tags", "issues"} /\ phase' \in {"idle", "asking", "done", "failed"}
        /\ size' \in 0..MaxSize /\ cursor' \in 0..Items /\ limit' \in 0..Wanted
        /\ queryCount' \in 0..QueryLimit /\ optimal' \in 0..MaxSize
    BY <1>1, <1>3 DEF PagesAssumption
  <2>4. lost' \in BOOLEAN
    BY <1>1
  <2>3. errors' \in 0..MaxErrors /\ midnights' \in 0..MaxMidnights
    BY <1>1 DEF IInv, TypeOK
  <2>. QED  BY <1>3, <2>1, <2>2, <2>3, <2>4 DEF TypeOK, Records
<1>. QED  BY <1>1, <1>2, <1>3, <1>4 DEF IInv, SizeInv, ReadInv, InOrder, BoundInv, PagesAssumption

LEMMA TagsPageIInv ==
    ASSUME PagesAssumption, IInv, TagsPage
    PROVE  IInv'
<1>1. PICK named \in {TRUE, GivesCursors} :
        LET more == cursor + size < Items
        IN  /\ result' = result \o Page(cursor, size)
            /\ cursor' = IF more THEN Following(cursor, size, named) ELSE cursor
            /\ queryCount' = CountsPage
            /\ lost' = (lost \/ (more /\ ~named))
            /\ phase' = IF more /\ queryCount' < QueryLimit THEN "asking" ELSE "done"
  BY DEF TagsPage
<1>2. /\ phase = "asking" /\ kind = "tags"
      /\ UNCHANGED <<kind, size, limit, optimal, record, errors, midnights>>
  BY DEF TagsPage
<1>0. named \in BOOLEAN /\ queryCount' = queryCount + 1
  BY <1>1 DEF PagesAssumption, CountsPage
<1>3. /\ size \in 1..MaxSize /\ cursor \in 0..Items /\ queryCount \in Nat /\ queryCount < QueryLimit
      /\ Len(result) \in Nat
  BY <1>2, LenProperties DEF IInv, TypeOK, SizeInv, PagesAssumption
<1>4. /\ result' \in Seq(1..Items) /\ Len(result') = Len(result) + Smaller(size, Items - cursor)
      /\ InOrder /\ Len(result) = cursor => InOrder'
  BY <1>1, <1>3, PageAppended DEF IInv, TypeOK, PagesAssumption, InOrder
<1>5. cursor' \in 0..Items
  BY <1>1, <1>3 DEF Following, Smaller, PagesAssumption
<1>6. TypeOK'
  BY <1>0, <1>1, <1>2, <1>3, <1>4, <1>5 DEF IInv, TypeOK, PagesAssumption
<1>7. SizeInv'
  BY <1>0, <1>1, <1>2, <1>3 DEF IInv, SizeInv
<1>8. ReadInv'
  <2>. SUFFICES ASSUME ~lost' PROVE ReadInv'
    BY DEF ReadInv
  <2>1. ~lost /\ (cursor + size < Items => named)
    BY <1>1
  <2>2. InOrder' /\ Len(result) = cursor
    BY <1>2, <1>4, <2>1 DEF IInv, ReadInv
  <2>3. CASE cursor + size < Items
    <3>1. Len(result') = cursor' /\ cursor' = cursor + size
      BY <1>1, <1>3, <1>4, <2>1, <2>2, <2>3 DEF Following, Smaller, PagesAssumption
    <3>2. phase' = "asking" \/ queryCount' = QueryLimit
      BY <1>0, <1>1, <1>3, <2>3 DEF PagesAssumption
    <3>. QED  BY <1>1, <1>2, <2>2, <3>1, <3>2 DEF ReadInv
  <2>4. CASE ~(cursor + size < Items)
    <3>1. Len(result') = Items
      BY <1>3, <1>4, <2>2, <2>4 DEF Smaller, PagesAssumption
    <3>2. phase' = "done"
      BY <1>1, <2>4
    <3>. QED  BY <2>2, <3>1, <3>2 DEF ReadInv
  <2>. QED  BY <2>3, <2>4
<1>9. BoundInv'
  <2>1. Len(result') <= Len(result) + MaxSize
    BY <1>3, <1>4 DEF Smaller, PagesAssumption
  <2>2. Len(result) <= queryCount * MaxSize
    BY <1>2 DEF IInv, BoundInv
  <2>3. (queryCount + 1) * MaxSize = queryCount * MaxSize + MaxSize /\ queryCount * MaxSize \in Nat
    BY <1>3 DEF PagesAssumption
  <2>4. Len(result') \in Nat
    BY <1>4, LenProperties
  <2>. QED  BY <1>0, <1>2, <1>3, <2>1, <2>2, <2>3, <2>4 DEF BoundInv, PagesAssumption
<1>. QED  BY <1>6, <1>7, <1>8, <1>9 DEF IInv

\* an error: the same page in a smaller size, or the end
LEMMA ErrorIInv ==
    ASSUME PagesAssumption, IInv, TagsShrink \/ GiveUp
    PROVE  IInv'
<1>1. /\ phase = "asking"
      /\ \/ phase' = "failed" /\ size' = size
         \/ kind = "tags" /\ phase' = phase /\ size > MinTagsSize /\ size' = size \div 2
      /\ cursor' = cursor /\ errors' \in 0..MaxErrors
      /\ UNCHANGED <<kind, limit, result, queryCount, optimal, lost, record, midnights>>
  BY DEF TagsShrink, GiveUp, Error, Shrunk, IInv, TypeOK, PagesAssumption
<1>2. size' \in 0..MaxSize /\ (phase' = "asking" => size' # 0)
  BY <1>1 DEF IInv, TypeOK, PagesAssumption, SizeInv
<1>3. TypeOK'
  BY <1>1, <1>2 DEF IInv, TypeOK
<1>4. SizeInv' /\ BoundInv'
  BY <1>1, <1>2 DEF IInv, SizeInv, BoundInv
<1>5. ReadInv'
  BY <1>1 DEF IInv, ReadInv, InOrder
<1>. QED  BY <1>3, <1>4, <1>5 DEF IInv

\* the list ends, and what becomes of the record
LEMMA EndTypes ==
    ASSUME PagesAssumption, IInv, NEW count \in 0..MaxSize, EndIssues(count)
    PROVE  phase' = "done" /\ record' \in Records /\ (record' = NoRecord \/ record'.size # 0)
<1>1. record \in Records /\ (record = NoRecord \/ record.size # 0)
  BY DEF IInv, TypeOK, SizeInv, Records
<1>2. count # 0 => count \in 1..MaxSize
  BY DEF PagesAssumption
<1>. QED  BY <1>1, <1>2, RecordSizes DEF EndIssues

LEMMA IssuesPageIInv ==
    ASSUME PagesAssumption, IInv, IssuesPage
    PROVE  IInv'
<1>. DEFINE n == Smaller(size, limit)
            page == Page(cursor, n)
<1>1. PICK named \in {TRUE, GivesCursors} :
        LET more == cursor + Len(page) < Items
        IN  /\ result' = result \o page
            /\ limit' = limit - Len(page)
            /\ optimal' = size
            /\ lost' = (lost \/ (more /\ ~named /\ limit' > 0))
            /\ cursor' = Following(cursor, Len(page), more /\ named)
            /\ IF limit' > 0 /\ more /\ named
               THEN phase' = "asking" /\ UNCHANGED record
               ELSE EndIssues(size)
  BY DEF IssuesPage
<1>2. /\ phase = "asking" /\ kind = "issues"
      /\ UNCHANGED <<kind, size, queryCount, errors, midnights>>
  BY DEF IssuesPage
<1>3. /\ size \in 1..MaxSize /\ cursor \in 0..Items /\ limit \in 0..Wanted /\ Len(result) \in Nat
      /\ Items \in Nat /\ Wanted \in Nat
  BY <1>2, LenProperties DEF IInv, TypeOK, SizeInv, PagesAssumption
<1>4. n \in 0..MaxSize /\ n <= limit
  BY <1>3 DEF Smaller, PagesAssumption
<1>. HIDE DEF n
<1>5. /\ result' \in Seq(1..Items) /\ Len(result') = Len(result) + Len(page)
      /\ Len(page) = Smaller(n, Items - cursor) /\ Len(page) \in Nat
      /\ InOrder /\ Len(result) = cursor => InOrder'
  BY <1>1, <1>4, PageAppended DEF IInv, InOrder
<1>6. Len(page) <= limit /\ Len(page) <= Items - cursor
  BY <1>3, <1>4, <1>5 DEF Smaller
<1>. HIDE DEF page
<1>7. cursor' \in 0..Items /\ limit' \in 0..Wanted /\ optimal' \in 0..MaxSize /\ size' \in 1..MaxSize
  <2>1. cursor' \in {cursor, cursor + Smaller(Len(page), Items - cursor)}
    BY <1>1 DEF Following
  <2>2. cursor' \in 0..Items
    BY <1>3, <1>5, <1>6, <2>1 DEF Smaller
  <2>3. limit' = limit - Len(page) /\ optimal' = size /\ size' = size
    BY <1>1, <1>2
  <2>4. limit' \in 0..Wanted
    BY <1>3, <1>5, <1>6, <2>3
  <2>5. optimal' \in 0..MaxSize /\ size' \in 1..MaxSize
    BY <1>3, <2>3 DEF PagesAssumption
  <2>. QED  BY <2>2, <2>4, <2>5
<1>8. /\ phase' \in {"asking", "done"} /\ record' \in Records
      /\ record' = NoRecord \/ record'.size # 0
  <2>1. CASE EndIssues(size)
    BY <1>3, <2>1, EndTypes DEF PagesAssumption
  <2>2. CASE phase' = "asking" /\ UNCHANGED record
    BY <2>2 DEF IInv, TypeOK, SizeInv, Records
  <2>. QED  BY <1>1, <2>1, <2>2
<1>9. TypeOK'
  <2>1. lost' \in BOOLEAN
    BY <1>1
  <2>2. phase' \in {"idle", "asking", "done", "failed"} /\ size' \in 0..MaxSize
    BY <1>7, <1>8
  <2>. QED  BY <1>2, <1>5, <1>7, <1>8, <2>1, <2>2 DEF IInv, TypeOK, Records
<1>10. SizeInv'
  BY <1>2, <1>7, <1>8 DEF SizeInv
<1>11. ReadInv'
  <2>. SUFFICES ASSUME ~lost' PROVE ReadInv'
    BY DEF ReadInv
  <2>1. ~lost /\ (cursor + Len(page) < Items /\ limit' > 0 => named)
    BY <1>1
  <2>2. InOrder' /\ Len(result) = cursor
    BY <1>2, <1>5, <2>1 DEF IInv, ReadInv
  <2>3. CASE limit' > 0 /\ cursor + Len(page) < Items
    <3>1. phase' = "asking" /\ cursor' = Following(cursor, Len(page), TRUE)
      BY <1>1, <2>1, <2>3
    <3>2. Len(result') = cursor'
      BY <1>3, <1>5, <1>6, <2>2, <3>1 DEF Following, Smaller
    <3>. QED  BY <2>2, <3>1, <3>2 DEF ReadInv
  <2>4. CASE ~(limit' > 0 /\ cursor + Len(page) < Items)
    <3>1. phase' = "done"
      BY <1>1, <2>4 DEF EndIssues
    <3>2. limit' = 0 \/ Len(result') = Items
      BY <1>3, <1>5, <1>6, <1>7, <2>2, <2>4
    <3>. QED  BY <1>2, <2>2, <3>1, <3>2 DEF ReadInv
  <2>. QED  BY <2>3, <2>4
<1>12. BoundInv'
  <2>1. Len(result) + limit = Wanted
    BY <1>2 DEF IInv, BoundInv
  <2>2. Len(result') + limit' = Wanted
    BY <1>1, <1>3, <1>5, <2>1
  <2>. QED  BY <1>2, <2>2 DEF BoundInv
<1>. QED  BY <1>9, <1>10, <1>11, <1>12 DEF IInv

LEMMA IssuesShrinkIInv ==
    ASSUME PagesAssumption, IInv, IssuesShrink
    PROVE  IInv'
<1>1. /\ phase = "asking" /\ kind = "issues" /\ size' = size \div 2 /\ cursor' = cursor
      /\ errors' \in 0..MaxErrors
      /\ IF size' > 0 THEN UNCHANGED <<phase, record>> ELSE EndIssues(optimal)
      /\ UNCHANGED <<kind, limit, result, queryCount, optimal, lost, midnights>>
  BY DEF IssuesShrink, Error, Shrunk, IInv, TypeOK, PagesAssumption
<1>2. size' \in 0..MaxSize
  BY <1>1 DEF IInv, TypeOK, PagesAssumption
<1>3. /\ record' \in Records /\ (record' = NoRecord \/ record'.size # 0)
      /\ \/ phase' = "asking" /\ size' # 0
         \/ phase' = "done" /\ size' = 0
  <2>1. CASE size' > 0
    BY <1>1, <1>2, <2>1 DEF IInv, TypeOK, SizeInv, Records
  <2>2. CASE ~(size' > 0)
    BY <1>1, <1>2, <2>2, EndTypes DEF IInv, TypeOK, PagesAssumption
  <2>. QED  BY <2>1, <2>2
<1>4. TypeOK'
  BY <1>1, <1>2, <1>3 DEF IInv, TypeOK, Records
<1>5. SizeInv' /\ BoundInv'
  BY <1>1, <1>3 DEF IInv, SizeInv, BoundInv
<1>6. ReadInv'
  BY <1>1, <1>3 DEF IInv, ReadInv, InOrder
<1>. QED  BY <1>4, <1>5, <1>6 DEF IInv

LEMMA ADayPassesIInv ==
    ASSUME PagesAssumption, IInv, ADayPasses
    PROVE  IInv'
<1>1. /\ record # NoRecord /\ record' = [record EXCEPT !.old = TRUE]
      /\ midnights' \in 0..MaxMidnights
      /\ UNCHANGED <<kind, phase, size, cursor, limit, result, queryCount, optimal, lost, errors>>
  <2>1. /\ record # NoRecord /\ record' = [record EXCEPT !.old = TRUE]
        /\ midnights' = midnights \/ (midnights < MaxMidnights /\ midnights' = midnights + 1)
    BY DEF ADayPasses
  <2>2. midnights' \in 0..MaxMidnights
    BY <2>1 DEF IInv, TypeOK, PagesAssumption
  <2>. QED  BY <2>1, <2>2 DEF ADayPasses, listing
<1>2. record' \in Records /\ record'.size # 0
  BY <1>1 DEF IInv, TypeOK, SizeInv, Records
<1>3. TypeOK'
  BY <1>1, <1>2 DEF IInv, TypeOK, Records
<1>4. SizeInv' /\ BoundInv' /\ ReadInv'
  BY <1>1, <1>2 DEF IInv, SizeInv, BoundInv, ReadInv, InOrder
<1>. QED  BY <1>3, <1>4 DEF IInv

LEMMA StepIInv == PagesAssumption /\ IInv /\ [Next]_vars => IInv'
<1>. SUFFICES ASSUME PagesAssumption, IInv, [Next]_vars PROVE IInv'
  OBVIOUS
<1>1. CASE UNCHANGED vars
  BY <1>1 DEF vars, listing, IInv, TypeOK, SizeInv, BoundInv, ReadInv, InOrder
<1>2. CASE Next
  BY <1>2, BeginIInv, TagsPageIInv, IssuesPageIInv, ErrorIInv, IssuesShrinkIInv, ADayPassesIInv
  DEF Next, Begins, Answers
<1>. QED  BY <1>1, <1>2
----------------------------------------------------------------------------
(* For lists, pages and limits of any size, any number of errors and of    *)
(* days, and whether GitHub names the ends of its pages or not: everything *)
(* has its type, a list that is returned has every item once and in order  *)
(* but for what limits and errors cut off (unless a page came without a    *)
(* cursor), and what is received of a list is bounded.                     *)
THEOREM ListsAreRead == PagesAssumption => (Spec => [](TypeOK /\ ListedInFull /\ ListsBounded))
<1>. SUFFICES ASSUME PagesAssumption
              PROVE  Spec => [](TypeOK /\ ListedInFull /\ ListsBounded)
  OBVIOUS
<1>1. Init => IInv
  BY InitIInv
<1>2. IInv /\ [Next]_vars => IInv'
  BY StepIInv
<1>3. IInv => TypeOK /\ ListedInFull /\ ListsBounded
  <2>. SUFFICES ASSUME IInv PROVE ListedInFull /\ ListsBounded
    BY DEF IInv
  <2>1. ListedInFull
    BY DEF IInv, ReadInv, InOrder, ListedInFull
  <2>2. Len(result) \in Nat /\ limit \in Nat /\ queryCount \in 0..QueryLimit
    BY LenProperties DEF IInv, TypeOK
  <2>3. ASSUME kind = "tags" PROVE ListsBounded
    <3>1. queryCount * MaxSize <= QueryLimit * MaxSize
      BY <2>2 DEF PagesAssumption
    <3>2. Len(result) <= queryCount * MaxSize
      BY <2>3 DEF IInv, BoundInv
    <3>3. queryCount * MaxSize \in Nat /\ QueryLimit * MaxSize \in Nat
      BY <2>2 DEF PagesAssumption
    <3>. QED  BY <2>2, <2>3, <3>1, <3>2, <3>3 DEF ListsBounded
  <2>4. ASSUME kind = "issues" PROVE ListsBounded
    BY <2>2, <2>4 DEF IInv, BoundInv, ListsBounded, PagesAssumption
  <2>. QED  BY <2>1, <2>3, <2>4 DEF IInv, TypeOK
<1>. QED  BY <1>1, <1>2, <1>3, PTL DEF Spec
=============================================================================
