---------------------------- MODULE GraphqlPages ----------------------------
(***************************************************************************)
(* Lists asked for page by page of GitHub's GraphQL API, with pages that   *)
(* shrink when GitHub cannot answer.                                       *)
(*                                                                         *)
(* "tags" is a list of the tags or releases of a package                   *)
(* (GithubGraphqlDatasourceHelper): its page size goes 100, 50, 25, and at *)
(* most QueryLimit pages are read.  "issues" is a list of the repository   *)
(* (queryRepoField): its page size is halved until GitHub answers, and the *)
(* size that worked is kept in the repository cache (record), where it     *)
(* doubles once a day.                                                     *)
(***************************************************************************)
EXTENDS Integers, Sequences

CONSTANTS
    Items,          \* how many there are to list
    MaxSize,        \* MAX_GRAPHQL_PAGE_SIZE, 100
    MinTagsSize,    \* the smallest page of tags, 25
    QueryLimit,     \* pages of tags, 100
    Wanted,          \* options.limit, 1000
    MaxErrors,    \* bound: answers that are no page
    MaxMidnights,   \* bound: records that grow old during a listing
    GivesCursors    \* whether GitHub always names the end of a page

PagesAssumption ==
    /\ Items \in Nat /\ QueryLimit \in Nat \ {0} /\ Wanted \in Nat \ {0}
    /\ MaxSize \in Nat \ {0} /\ MinTagsSize \in 1..MaxSize
    /\ MaxErrors \in Nat /\ MaxMidnights \in Nat /\ GivesCursors \in BOOLEAN

NoRecord == [size |-> 0, old |-> FALSE]
Smaller(m, n) == IF m < n THEN m ELSE n

VARIABLES
    kind,       \* what is listed: "tags" or "issues"
    phase,      \* "idle", "asking", "done", "failed"
    size,       \* itemsPerQuery, or count
    cursor,     \* how many items lie before the next page
    limit,      \* how many issues are still wanted
    result,     \* what was received
    queryCount, \* pages of tags
    optimal,    \* the size of the last page of issues, 0 is none
    record,     \* graphqlPageCache: a size, and whether it was set a day ago
    lost,       \* history: a page had no cursor
    errors,     \* answers that were no page, so far
    midnights   \* records grown old during a listing, so far

listing == <<kind, phase, size, cursor, limit, result, queryCount, optimal, lost>>
vars == <<listing, record, errors, midnights>>

\* getGraphqlPageSize: the size to begin with, and what becomes of the record
GrownSlowly(n) == n    \* mutant
Grown(n) == Smaller(2 * n, MaxSize)
PageSize(rec) ==
    IF rec = NoRecord THEN MaxSize ELSE IF rec.old THEN Grown(rec.size) ELSE rec.size
AfterGet(rec) ==
    IF rec = NoRecord \/ ~rec.old THEN rec
    ELSE IF Grown(rec.size) < MaxSize THEN [size |-> Grown(rec.size), old |-> FALSE]
    ELSE NoRecord

\* setGraphqlPageSize, which asks for the size once more
AfterSet(rec, n) ==
    IF n # PageSize(rec) THEN [size |-> n, old |-> FALSE] ELSE AfterGet(rec)
----------------------------------------------------------------------------
Init ==
    /\ kind = "tags" /\ phase = "idle" /\ size = MaxSize /\ cursor = 0 /\ limit = Wanted
    /\ result = <<>> /\ queryCount = 0 /\ optimal = 0
    /\ record = NoRecord /\ lost = FALSE /\ errors = 0 /\ midnights = 0

Begin(what) ==
    /\ phase # "asking"
    /\ kind' = what /\ phase' = "asking"
    /\ size' = IF what = "tags" THEN MaxSize ELSE PageSize(record)
    /\ record' = IF what = "tags" THEN record ELSE AfterGet(record)
    /\ cursor' = 0 /\ limit' = Wanted /\ result' = <<>>
    /\ queryCount' = 0 /\ optimal' = 0 /\ lost' = FALSE
    /\ UNCHANGED <<errors, midnights>>

Page(from, n) == [i \in 1..Smaller(n, Items - from) |-> from + i]

\* the cursor after a page; without one, the next page is the same again
Following(from, n, named) ==
    IF named THEN from + Smaller(n, Items - from) ELSE from
CountsNoPage == queryCount    \* mutant
CountsPage == queryCount + 1

\* doPaginatedQuery: one page
TagsPage ==
    /\ phase = "asking" /\ kind = "tags"
    /\ \E named \in {TRUE, GivesCursors} :
          LET more == cursor + size < Items
          IN  /\ result' = result \o Page(cursor, size)
              /\ cursor' = IF more THEN Following(cursor, size, named) ELSE cursor
              /\ queryCount' = CountsPage
              /\ lost' = (lost \/ (more /\ ~named))
              /\ phase' = IF more /\ queryCount' < QueryLimit THEN "asking" ELSE "done"
    /\ UNCHANGED <<kind, size, limit, optimal, record, errors, midnights>>

Error ==
    /\ errors < MaxErrors
    /\ errors' = errors + 1

\* shrinkPageSize: an error that a smaller page may solve
Restarted == 0    \* mutant
Shrunk == cursor
TagsShrink ==
    /\ phase = "asking" /\ kind = "tags"
    /\ Error
    /\ IF size > MinTagsSize THEN size' = size \div 2 /\ cursor' = Shrunk /\ UNCHANGED phase
                             ELSE phase' = "failed" /\ UNCHANGED <<size, cursor>>
    /\ UNCHANGED <<kind, limit, result, queryCount, optimal, lost, record, midnights>>

\* any other error is thrown; so is one of issues that is no host error, or of a small page
GiveUp ==
    /\ phase = "asking"
    /\ Error
    /\ phase' = "failed"
    /\ UNCHANGED <<kind, size, cursor, limit, result, queryCount, optimal, lost, record, midnights>>

\* queryRepoField: the list ends, and the size of the last page is kept
EndIssues(count) ==
    /\ phase' = "done"
    /\ record' = IF count # 0 /\ count < MaxSize THEN AfterSet(record, count) ELSE record

IssuesPage ==
    /\ phase = "asking" /\ kind = "issues"
    /\ \E named \in {TRUE, GivesCursors} :
          LET page == Page(cursor, Smaller(size, limit))
              more == cursor + Len(page) < Items
          IN  /\ result' = result \o page
              /\ limit' = limit - Len(page)
              /\ optimal' = size
              /\ lost' = (lost \/ (more /\ ~named /\ limit' > 0))
              /\ cursor' = Following(cursor, Len(page), more /\ named)
              /\ IF limit' > 0 /\ more /\ named
                 THEN phase' = "asking" /\ UNCHANGED record
                 ELSE EndIssues(size)
    /\ UNCHANGED <<kind, size, queryCount, errors, midnights>>

\* an answer without the list, or a host error while the page is large
IssuesShrink ==
    /\ phase = "asking" /\ kind = "issues"
    /\ Error
    /\ size' = size \div 2 /\ cursor' = Shrunk
    /\ IF size' > 0 THEN UNCHANGED <<phase, record>> ELSE EndIssues(optimal)
    /\ UNCHANGED <<kind, limit, result, queryCount, optimal, lost, midnights>>

\* the record becomes a day old
ADayPasses ==
    /\ record # NoRecord /\ ~record.old
    /\ record' = [record EXCEPT !.old = TRUE]
    /\ phase = "asking" => midnights < MaxMidnights
    /\ midnights' = IF phase = "asking" THEN midnights + 1 ELSE midnights
    /\ UNCHANGED <<listing, errors>>
----------------------------------------------------------------------------
Begins == Begin("tags") \/ Begin("issues")
Answers == TagsPage \/ IssuesPage
Next == Begins \/ Answers \/ TagsShrink \/ IssuesShrink \/ GiveUp \/ ADayPasses

Spec == Init /\ [][Next]_vars

\* GitHub answers; runs list the issues again and again; days pass.
Fairness == WF_vars(Answers) /\ SF_vars(Begin("issues")) /\ SF_vars(ADayPasses)
LiveSpec == Spec /\ Fairness
----------------------------------------------------------------------------
TypeOK ==
    /\ kind \in {"tags", "issues"} /\ phase \in {"idle", "asking", "done", "failed"}
    /\ size \in 0..MaxSize /\ cursor \in 0..Items /\ limit \in 0..Wanted
    /\ result \in Seq(1..Items) /\ queryCount \in 0..QueryLimit /\ optimal \in 0..MaxSize
    /\ record \in [size : 0..MaxSize, old : BOOLEAN] /\ lost \in BOOLEAN
    /\ errors \in 0..MaxErrors /\ midnights \in 0..MaxMidnights

(***************************************************************************)
(* A list that is returned has every item once and in order, whatever      *)
(* became of the page size on the way, but for what the limits cut off, or *)
(* the errors: issues are returned as far as they came once not even a     *)
(* page of one is answered.                                                *)
(***************************************************************************)
ListedInFull ==
    phase = "done" /\ ~lost =>
        /\ \A i \in DOMAIN result : result[i] = i
        /\ \/ Len(result) = Items
           \/ kind = "tags" /\ queryCount = QueryLimit
           \/ kind = "issues" /\ (limit = 0 \/ size = 0)

(***************************************************************************)
(* A host that says there are more pages and does not say where is asked   *)
(* for the same page again, and not for ever (datasource-helper.ts:232):   *)
(* what is received of a list is bounded.                                  *)
(***************************************************************************)
ListsBounded == Len(result) <= IF kind = "tags" THEN QueryLimit * MaxSize ELSE Wanted

(***************************************************************************)
(* After the last failure the page size comes back to the largest, also    *)
(* when the record grows old between the two times a listing asks for it.  *)
(***************************************************************************)
SizeRecovers == []<>(record = NoRecord)
=============================================================================
