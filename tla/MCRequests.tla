----------------------------- MODULE MCRequests -----------------------------
(* Two parts that do not meet, each checked on its own: part says which. *)
EXTENDS Requests

CONSTANTS Items, MaxSize, MinTagsSize, QueryLimit, Wanted, MaxErrors, MaxMidnights,
          GivesCursors
VARIABLES part, kind, phase, size, cursor, limit, result, queryCount, optimal, record,
          lost, errors, midnights

Pages == INSTANCE GraphqlPages
ASSUME MCPagesAssumption == Pages!PagesAssumption

pages == <<kind, phase, size, cursor, limit, result, queryCount, optimal, lost,
           record, errors, midnights>>
all == <<vars, part, pages>>
OfRequests(A) == part = "requests" /\ A /\ UNCHANGED <<part, pages>>
OfPages(A) == part = "pages" /\ A /\ UNCHANGED <<part, vars>>

MCInit == Init /\ Pages!Init /\ part \in {"requests", "pages"}
MCNext == OfRequests(Next) \/ OfPages(Pages!Next)

MCSpec ==
    /\ MCInit /\ [][MCNext]_all
    /\ part = "requests" => Fairness
    /\ part = "pages" => Pages!Fairness

PartsTypeOK == TypeOK /\ Pages!TypeOK
ListedInFull == Pages!ListedInFull
ListsBounded == Pages!ListsBounded
SizeRecovers == part = "pages" => Pages!SizeRecovers
=============================================================================
