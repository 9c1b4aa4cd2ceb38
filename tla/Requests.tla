------------------------------ MODULE Requests ------------------------------
(***************************************************************************)
(* The HTTP client of a run (lib/util/http): GET requests answered from    *)
(* promises the run's memory keeps by URL (memory), a queue per host that  *)
(* lets a few requests out at a time (tasks), and pages of a list that are *)
(* asked for together.  One thread of the run (Main) reads, refreshes,     *)
(* writes and lists; lookups (Fetchers) read meanwhile.                    *)
(***************************************************************************)
EXTENDS Naturals, FiniteSets, SequencesExt

CONSTANTS
    Urls,           \* what is asked for, all on one host
    FirstUrl,       \* the first page of a list
    RestUrls,       \* its other pages
    Main, Fetchers, \* who asks
    Promises,       \* requests that somebody may still ask about
    Limit,          \* concurrentRequestLimit of the host; 0: none
    MaxVersion,     \* bound: changes of a resource
    MaxCalls,       \* bound: what is asked for in a run
    MaxFailures     \* bound: failed answers

Callers == {Main} \cup Fetchers
NoPromise == "no promise"
Off == [u \in Urls |-> "off"]

ASSUME RequestsAssumption ==
    /\ FirstUrl \in Urls /\ RestUrls \subseteq Urls \ {FirstUrl}
    /\ Limit \in Nat /\ MaxVersion \in Nat /\ MaxCalls \in Nat /\ MaxFailures \in Nat
    /\ Main \notin Fetchers /\ {NoPromise, "off"} \cap Promises = {}
    /\ IsFiniteSet(Urls) /\ IsFiniteSet(Promises)

Kinds == {"idle", "get", "refresh", "post", "first page", "pages"}
Free == [url |-> FirstUrl, method |-> "get", status |-> "free", version |-> 0]
Idle == [kind |-> "idle", waits |-> {}]

VARIABLES
    server,     \* per URL, its version
    memory,     \* memCache: off until initializeCaches, then a promise per URL
    promise,    \* the requests
    tasks,      \* the host's queue: the requests not answered, in order
    call,       \* per caller, what it waits for
    left,       \* what the run may still ask for
    failures,   \* the failed answers so far
    unasked,    \* history: per URL, the GETs of the run that were no refresh
    seen        \* history: per URL, the version Main saw last

asked == <<memory, promise, tasks, call, left, unasked>>
vars == <<server, asked, failures, seen>>

\* p-queue starts tasks in order: those it has started are its oldest ones
Running == {tasks[i] : i \in {j \in DOMAIN tasks : Limit = 0 \/ j <= Limit}}
Settled(p) == promise[p].status \in {"ok", "failed"}
Remembered(mem, u) == IF mem = Off THEN NoPromise ELSE mem[u]

\* a promise nobody can ask about any more is no promise
InUse(p, mem, calls) ==
    \/ \E u \in Urls : Remembered(mem, u) = p
    \/ \E c \in Callers : p \in calls[c].waits
Kept(ps, mem, calls) ==
    [p \in Promises |-> IF InUse(p, mem, calls) THEN ps[p] ELSE Free]
----------------------------------------------------------------------------
Init ==
    /\ server = [u \in Urls |-> 0]
    /\ memory = Off
    /\ promise = [p \in Promises |-> Free]
    /\ tasks = <<>>
    /\ call = [c \in Callers |-> Idle]
    /\ left = MaxCalls
    /\ failures = 0
    /\ unasked = [u \in Urls |-> 0]
    /\ seen = [u \in Urls |-> 0]

AllIdle == \A c \in Callers : call[c] = Idle

ResetCachesLate ==    \* mutant
    /\ AllIdle
    /\ left' = MaxCalls
    /\ unasked' = [u \in Urls |-> 0]
    /\ UNCHANGED <<server, memory, promise, tasks, call, failures, seen>>
\* resetCaches: a new run, or the next repository
ResetCaches ==
    /\ AllIdle
    /\ memory' = Off
    /\ promise' = Kept(promise, Off, call)
    /\ left' = MaxCalls
    /\ unasked' = [u \in Urls |-> 0]
    /\ UNCHANGED <<server, tasks, call, failures, seen>>

\* initializeCaches: until then memCache.set does nothing (initApis)
InitializeCaches ==
    /\ AllIdle /\ memory = Off
    /\ memory' = [u \in Urls |-> NoPromise]
    /\ UNCHANGED <<server, promise, tasks, call, left, failures, unasked, seen>>
----------------------------------------------------------------------------
(***************************************************************************)
(* Http.request.  Wanted is what the caller waits for: for each URL the    *)
(* remembered promise, or a new one, which GETs are remembered by at once. *)
(***************************************************************************)
UsesCache(kind) == kind \in {"get", "first page", "pages"}
IsGet(kind) == kind # "post"
RemembersReads(kind) == UsesCache(kind)    \* mutant
Remembers(kind) == IsGet(kind)

ReusedIfAnswered(kind, u) ==    \* mutant
    IF UsesCache(kind) /\ Remembered(memory, u) # NoPromise
       /\ promise[memory[u]].status # "pending" THEN memory[u] ELSE NoPromise
Reused(kind, u) == IF UsesCache(kind) THEN Remembered(memory, u) ELSE NoPromise
Request(kind, u) == [url |-> u, method |-> IF IsGet(kind) THEN "get" ELSE "post",
                     status |-> "pending", version |-> 0]

Ask(c, kind, urls, already) ==
    LET new == {u \in urls : Reused(kind, u) = NoPromise}
        free == {p \in Promises : promise[p].status = "free"}
    IN  /\ Cardinality(new) <= Cardinality(free)
        /\ kind = "pages" \/ left > 0
        /\ left' = IF kind = "pages" THEN left ELSE left - 1
        /\ LET slot == CHOOSE f \in [new -> free] : IsInjective(f)
               For(u) == IF u \in new THEN slot[u] ELSE Reused(kind, u)
               Asks(p) == {u \in new : slot[u] = p}
           IN  /\ call' = [call EXCEPT ![c] = [kind |-> kind,
                                               waits |-> already \cup {For(u) : u \in urls}]]
               /\ memory' = IF memory = Off \/ ~Remembers(kind) THEN memory
                            ELSE [u \in Urls |-> IF u \in new THEN slot[u] ELSE memory[u]]
               /\ promise' = Kept([p \in Promises |->
                                      IF Asks(p) = {} THEN promise[p]
                                      ELSE Request(kind, CHOOSE u \in new : slot[u] = p)],
                                  memory', call')
               /\ tasks' = tasks \o SetToSeq({slot[u] : u \in new})
        /\ unasked' = [u \in Urls |-> IF u \in new /\ UsesCache(kind) /\ memory # Off
                                      THEN unasked[u] + 1 ELSE unasked[u]]
    /\ UNCHANGED <<server, failures, seen>>

\* lookups run once the caches are there
Fetch(c, u) == memory # Off /\ call[c] = Idle /\ Ask(c, "get", {u}, {})
Get(u) == call[Main] = Idle /\ Ask(Main, "get", {u}, {})
Refresh(u) == call[Main] = Idle /\ Ask(Main, "refresh", {u}, {})
Post(u) == call[Main] = Idle /\ Ask(Main, "post", {u}, {})
List == call[Main] = Idle /\ Ask(Main, "first page", {FirstUrl}, {})
----------------------------------------------------------------------------
(***************************************************************************)
(* The host answers a request that is out, or fails to; a write may be     *)
(* done although its answer fails.                                         *)
(***************************************************************************)
Served(p, done) ==
    IF promise[p].method = "post" /\ done /\ server[promise[p].url] < MaxVersion
    THEN [server EXCEPT ![promise[p].url] = @ + 1] ELSE server
Place(p) == CHOOSE i \in DOMAIN tasks : tasks[i] = p
FreeSlotOnSuccess(p, ok) == IF ok THEN RemoveAt(tasks, Place(p)) ELSE tasks    \* mutant
FreeSlot(p, ok) == RemoveAt(tasks, Place(p))

Answer(p) ==
    /\ p \in Running /\ ~Settled(p)
    /\ \E ok \in BOOLEAN, done \in BOOLEAN :
          /\ ok \/ failures < MaxFailures
          /\ ok => done
          /\ promise[p].method = "get" => done
          /\ failures' = IF ok THEN failures ELSE failures + 1
          /\ server' = Served(p, done)
          /\ promise' = [promise EXCEPT ![p].status = IF ok THEN "ok" ELSE "failed",
                                        ![p].version = IF ok THEN server'[promise[p].url] ELSE 0]
          /\ tasks' = FreeSlot(p, ok)
    /\ UNCHANGED <<memory, call, left, unasked, seen>>

SomebodyWrites(u) ==
    /\ server[u] < MaxVersion
    /\ server' = [server EXCEPT ![u] = @ + 1]
    /\ UNCHANGED <<asked, failures, seen>>
----------------------------------------------------------------------------
(***************************************************************************)
(* The callers go on when all they wait for is settled.                    *)
(***************************************************************************)
Succeeded(c) == \A p \in call[c].waits : promise[p].status = "ok"

\* paginate: the first page names the last one, the others follow together
OtherPages ==
    /\ call[Main].kind = "first page" /\ RestUrls # {}
    /\ \A p \in call[Main].waits : Settled(p)
    /\ Succeeded(Main)
    /\ Ask(Main, "pages", RestUrls, call[Main].waits)

Return(c) ==
    /\ call[c] # Idle
    /\ \A p \in call[c].waits : Settled(p)
    /\ call[c].kind = "first page" => ~Succeeded(c) \/ RestUrls = {}
    /\ call' = [call EXCEPT ![c] = Idle]
    /\ promise' = Kept(promise, memory, call')
    /\ seen' = IF c = Main /\ Succeeded(c) /\ call[c].kind # "post"
               THEN [u \in Urls |->
                        IF \E p \in call[c].waits : promise[p].url = u
                        THEN promise[CHOOSE p \in call[c].waits : promise[p].url = u].version
                        ELSE seen[u]]
               ELSE seen
    /\ UNCHANGED <<server, memory, tasks, left, failures, unasked>>
----------------------------------------------------------------------------
Next ==
    \/ ResetCaches \/ InitializeCaches
    \/ \E u \in Urls : Get(u) \/ Refresh(u) \/ Post(u) \/ SomebodyWrites(u)
    \/ \E c \in Fetchers, u \in Urls : Fetch(c, u)
    \/ List \/ OtherPages
    \/ \E p \in Promises : Answer(p)
    \/ \E c \in Callers : Return(c)

Spec == Init /\ [][Next]_vars

\* The host answers what is out, callers go on, and a run, which makes finitely
\* many requests, ends when they are done.
Fairness ==
    /\ WF_vars(OtherPages) /\ WF_vars(ResetCaches)
    /\ \A p \in Promises : WF_vars(Answer(p))
    /\ \A c \in Callers : WF_vars(Return(c))
LiveSpec == Spec /\ Fairness
----------------------------------------------------------------------------
TypeOK ==
    /\ server \in [Urls -> 0..MaxVersion] /\ seen \in [Urls -> 0..MaxVersion]
    /\ memory = Off \/ memory \in [Urls -> Promises \cup {NoPromise}]
    /\ promise \in [Promises -> [url : Urls, method : {"get", "post"}, version : 0..MaxVersion,
                                 status : {"free", "pending", "ok", "failed"}]]
    /\ tasks \in Seq(Promises) /\ IsInjective(tasks)
    /\ \A p \in Promises : promise[p].status = "pending" <=> \E i \in DOMAIN tasks : tasks[i] = p
    /\ call \in [Callers -> [kind : Kinds, waits : SUBSET Promises]]
    /\ failures \in 0..MaxFailures /\ left \in 0..MaxCalls
    /\ unasked \in [Urls -> Nat]

(***************************************************************************)
(* However many ask for a URL at the same time, and whatever was answered, *)
(* a run sends its GET once, but for refreshes (the promise is remembered  *)
(* before anybody can ask again).                                          *)
(***************************************************************************)
SentOnce == \A u \in Urls : unasked[u] <= 1

(***************************************************************************)
(* What the main thread reads of a URL never goes back in time, although   *)
(* lookups share its promises and answers overtake one another (a refresh  *)
(* replaces the remembered promise when it is sent).                       *)
(***************************************************************************)
ReadsForward == [][\A u \in Urls : seen'[u] >= seen[u]]_vars

(***************************************************************************)
(* Nobody waits for ever for a slot of the host's queue: pages and lookups *)
(* hold no slot while they wait for others.                                *)
(***************************************************************************)
CallsReturn == \A c \in Callers : call[c] # Idle ~> call[c] = Idle

(***************************************************************************)
(* The promise of a failed request answers every later request of the run  *)
(* (lib/util/http/index.ts:181), and no request of the runs after it.      *)
(***************************************************************************)
Poisoned(u) == Remembered(memory, u) # NoPromise /\ promise[memory[u]].status = "failed"
FailuresForgotten == \A u \in Urls : Poisoned(u) ~> ~Poisoned(u)
=============================================================================
