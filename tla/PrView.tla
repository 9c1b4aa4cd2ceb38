------------------------------ MODULE PrView ------------------------------
(***************************************************************************)
(* What the platform promises of the list of pull requests it keeps during *)
(* a run: nothing is known before it happens, nothing known is forgotten   *)
(* before the run ends, and a listing ends with every pull request of      *)
(* Renovate's known that did not change meanwhile and was not exempt.      *)
(* Exempt are those a change hid before the listing began, those beyond    *)
(* the Limit of a first listing, and those that a change by somebody, while*)
(* it lasted, moved from page to page.  GithubPrs implements it.           *)
(***************************************************************************)
EXTENDS Integers, FiniteSets

CONSTANTS Numbers, MaxClock, Limit

VARIABLES
    version,    \* per pull request, its last change; 0 is none
    own,        \* the pull requests whose author is Renovate
    known,      \* per pull request, the change the run knows
    still,      \* the own pull requests unchanged since the listing began
    exempt,     \* those the listing may miss
    stage       \* of the run: idle, begun, listing, ready

vars == <<version, own, known, still, exempt, stage>>

Nothing == [n \in Numbers |-> 0]
Newer(v) == \A n \in Numbers : version[n] < v
Unknown == {n \in own : known[n] < version[n]}

\* behind a change that is known, so that a listing by date may stop too early
Hidden == {n \in Unknown : \E m \in own \ Unknown : version[m] > version[n]}
Beyond == {n \in own : Cardinality({m \in Numbers : version[m] > version[n]}) >= Limit}

Init ==
    /\ version = Nothing /\ own = {} /\ known = Nothing
    /\ still = {} /\ exempt = {} /\ stage = "idle"

Change(n) ==
    /\ \E v \in 1..MaxClock : Newer(v) /\ version' = [version EXCEPT ![n] = v]
    /\ still' = still \ {n}
    /\ exempt \subseteq exempt' /\ exempt' \subseteq exempt \cup Unknown'
    /\ stage # "listing" => exempt' = exempt
    /\ UNCHANGED <<own, known, stage>>

\* a run starts from what some earlier run knew
Begin ==
    /\ stage = "idle" /\ stage' = "begun"
    /\ known' \in [Numbers -> 0..MaxClock]
    /\ \A n \in Numbers : known'[n] <= version[n]
    /\ UNCHANGED <<version, own, still, exempt>>

List ==
    /\ stage = "begun" /\ stage' = "listing"
    /\ still' = own
    /\ exempt' = IF known = Nothing THEN Beyond ELSE Hidden
    /\ UNCHANGED <<version, own, known>>

Learn ==
    /\ stage = "listing" /\ stage' \in {"listing", "ready"}
    /\ known' \in [Numbers -> 0..MaxClock]
    /\ \A n \in Numbers : known[n] <= known'[n] /\ known'[n] <= version[n]
    /\ stage' = "ready" => \A n \in still \ exempt : known'[n] = version[n]
    /\ UNCHANGED <<version, own, still, exempt>>

\* the run opens or changes a pull request and knows of its change, or of nothing new
Write(n) ==
    /\ stage = "ready"
    /\ \E v \in 1..MaxClock : \E k \in known[n]..v :
          /\ Newer(v)
          /\ version' = [version EXCEPT ![n] = v] /\ known' = [known EXCEPT ![n] = k]
    /\ own' = own \cup {n}
    /\ still' = still \ {n}
    /\ UNCHANGED <<exempt, stage>>

End ==
    /\ stage # "idle" /\ stage' = "idle"
    /\ known' = Nothing /\ still' = {} /\ exempt' = {}
    /\ UNCHANGED <<version, own>>

Next == Begin \/ List \/ Learn \/ End \/ \E n \in Numbers : Change(n) \/ Write(n)

Spec == Init /\ [][Next]_vars
============================================================================
