--------------------------- MODULE RequestsProofs ---------------------------
(***************************************************************************)
(* That a GET is sent once and what is read never goes back in time, for   *)
(* any number of URLs, lookups and requests and any limit of the host; and *)
(* that both parts the run Requests checks are as it says.                 *)
(*                                                                         *)
(* A request that was not answered is in the queue of the host and         *)
(* somebody waits for it (QueueInv), so nobody reuses its promise.  Once   *)
(* the caches are there, what the main thread reads of a URL is what they  *)
(* remember of it, and no older than what it saw (ReadInv).                *)
(***************************************************************************)
EXTENDS MCRequests, SequenceTheorems, FiniteSetTheorems, FunctionTheorems, TLAPS

(* The inductive invariant *)

Requested == [url : Urls, method : {"get", "post"}, version : 0..MaxVersion,
              status : {"free", "pending", "ok", "failed"}]
Calls == [kind : Kinds, waits : SUBSET Promises]

IsQueued(q, p) == \E i \in DOMAIN q : q[i] = p

TypeInv ==
    /\ server \in [Urls -> 0..MaxVersion] /\ seen \in [Urls -> 0..MaxVersion]
    /\ memory = Off \/ memory \in [Urls -> Promises \cup {NoPromise}]
    /\ promise \in [Promises -> Requested]
    /\ call \in [Callers -> Calls]
    /\ failures \in 0..MaxFailures /\ left \in 0..MaxCalls
    /\ unasked \in [Urls -> Nat]

QueueInv ==
    /\ tasks \in Seq(Promises) /\ IsInjective(tasks)
    /\ \A p \in Promises : promise[p].status = "pending" <=> IsQueued(tasks, p)
    /\ \A p \in Promises : promise[p].status = "pending" => \E c \in Callers : p \in call[c].waits

UseInv ==
    /\ \A p \in Promises : InUse(p, memory, call) => promise[p].status # "free"
    /\ memory # Off =>
          \A u \in Urls : memory[u] # NoPromise => promise[memory[u]].url = u

OnceInv ==
    \A u \in Urls : unasked[u] <= 1 /\ (Remembered(memory, u) = NoPromise => unasked[u] = 0)

\* an answer that is no older than what was seen of its URL
IsCurrent(answer, saw) == answer.status = "ok" => answer.version >= saw[answer.url]

ReadInv ==
    /\ \A u \in Urls : seen[u] <= server[u]
    /\ \A p \in Promises :
          promise[p].status = "ok" => promise[p].version <= server[promise[p].url]
    /\ memory # Off => \A u \in Urls : memory[u] # NoPromise => IsCurrent(promise[memory[u]], seen)
    /\ call[Main].kind # "post" =>
          \A p \in call[Main].waits :
             /\ IsCurrent(promise[p], seen)
             /\ memory # Off => memory[promise[p].url] = p

IInv == TypeInv /\ QueueInv /\ UseInv /\ OnceInv /\ ReadInv
----------------------------------------------------------------------------
(* The queue *)

LEMMA ConcatQueued ==
    ASSUME NEW P, NEW s \in Seq(P), NEW t \in Seq(P), IsInjective(s), IsInjective(t),
           \A p : ~(IsQueued(s, p) /\ IsQueued(t, p))
    PROVE  /\ s \o t \in Seq(P) /\ IsInjective(s \o t)
           /\ \A p : IsQueued(s \o t, p) <=> IsQueued(s, p) \/ IsQueued(t, p)
<1>. DEFINE q == s \o t
<1>1. /\ q \in Seq(P) /\ Len(q) = Len(s) + Len(t)
      /\ \A i \in 1..Len(s) + Len(t) : q[i] = IF i <= Len(s) THEN s[i] ELSE t[i - Len(s)]
  BY ConcatProperties
<1>2. /\ Len(s) \in Nat /\ Len(t) \in Nat
      /\ DOMAIN s = 1..Len(s) /\ DOMAIN t = 1..Len(t) /\ DOMAIN q = 1..Len(s) + Len(t)
  BY <1>1, LenProperties
<1>. HIDE DEF q
<1>3. \A i \in DOMAIN s : i \in DOMAIN q /\ q[i] = s[i]
  BY <1>1, <1>2
<1>4. \A i \in DOMAIN t : i + Len(s) \in DOMAIN q /\ q[i + Len(s)] = t[i]
  <2>. SUFFICES ASSUME NEW i \in DOMAIN t
                PROVE  i + Len(s) \in DOMAIN q /\ q[i + Len(s)] = t[i]
    OBVIOUS
  <2>1. i + Len(s) \in 1..Len(s) + Len(t) /\ ~(i + Len(s) <= Len(s)) /\ (i + Len(s)) - Len(s) = i
    BY <1>2
  <2>. QED  BY <1>1, <1>2, <2>1
<1>5. \A i \in DOMAIN q : \/ i \in DOMAIN s /\ q[i] = s[i]
                          \/ i > Len(s) /\ i - Len(s) \in DOMAIN t /\ q[i] = t[i - Len(s)]
  BY <1>1, <1>2
<1>6. ASSUME NEW i \in DOMAIN q, NEW j \in DOMAIN q, q[i] = q[j]
      PROVE  i = j
  <2>1. CASE i \in DOMAIN s /\ j \in DOMAIN s
    BY <1>3, <1>6, <2>1 DEF IsInjective
  <2>2. CASE i \notin DOMAIN s /\ j \notin DOMAIN s
    <3>1. /\ i - Len(s) \in DOMAIN t /\ j - Len(s) \in DOMAIN t
          /\ t[i - Len(s)] = t[j - Len(s)]
      BY <1>5, <1>6, <2>2
    <3>2. i - Len(s) = j - Len(s)
      BY <3>1 DEF IsInjective
    <3>. QED  BY <1>2, <3>2
  <2>3. CASE i \in DOMAIN s /\ j \notin DOMAIN s
    BY <1>5, <1>3, <1>6, <2>3 DEF IsQueued
  <2>4. CASE i \notin DOMAIN s /\ j \in DOMAIN s
    BY <1>5, <1>3, <1>6, <2>4 DEF IsQueued
  <2>. QED  BY <2>1, <2>2, <2>3, <2>4
<1>7. ASSUME NEW p
      PROVE  IsQueued(q, p) <=> IsQueued(s, p) \/ IsQueued(t, p)
  <2>1. IsQueued(s, p) => IsQueued(q, p)
    BY <1>3 DEF IsQueued
  <2>2. IsQueued(t, p) => IsQueued(q, p)
    BY <1>4 DEF IsQueued
  <2>3. IsQueued(q, p) => IsQueued(s, p) \/ IsQueued(t, p)
    BY <1>5 DEF IsQueued
  <2>. QED  BY <2>1, <2>2, <2>3
<1>. QED  BY <1>1, <1>6, <1>7 DEF q, IsInjective

LEMMA RemoveQueued ==
    ASSUME NEW P, NEW s \in Seq(P), IsInjective(s), NEW k \in DOMAIN s
    PROVE  /\ RemoveAt(s, k) \in Seq(P) /\ IsInjective(RemoveAt(s, k))
           /\ \A p : IsQueued(RemoveAt(s, k), p) <=> IsQueued(s, p) /\ p # s[k]
<1>. DEFINE a == SubSeq(s, 1, k - 1)
            b == SubSeq(s, k + 1, Len(s))
            q == RemoveAt(s, k)
<1>1. Len(s) \in Nat /\ DOMAIN s = 1..Len(s) /\ k \in 1..Len(s) /\ \A i \in 1..Len(s) : s[i] \in P
  BY LenProperties
<1>2. a \in Seq(P) /\ Len(a) = k - 1 /\ \A i \in 1..k - 1 : a[i] = s[i]
  <2>1. \A i \in 1..k - 1 : s[i] \in P
    BY <1>1
  <2>2. a \in Seq(P) /\ Len(a) = (IF 1 <= k - 1 THEN (k - 1) - 1 + 1 ELSE 0)
        /\ \A i \in 1..(k - 1) - 1 + 1 : a[i] = s[1 + i - 1]
    BY <1>1, <2>1, SubSeqProperties
  <2>. HIDE DEF a
  <2>. QED  BY <1>1, <2>2
<1>3. b \in Seq(P) /\ Len(b) = Len(s) - k /\ \A i \in 1..Len(s) - k : b[i] = s[k + i]
  <2>1. \A i \in k + 1..Len(s) : s[i] \in P
    BY <1>1
  <2>2. b \in Seq(P) /\ Len(b) = (IF k + 1 <= Len(s) THEN Len(s) - (k + 1) + 1 ELSE 0)
        /\ \A i \in 1..Len(s) - (k + 1) + 1 : b[i] = s[(k + 1) + i - 1]
    BY <1>1, <2>1, SubSeqProperties
  <2>. HIDE DEF b
  <2>3. \A i \in 1..Len(s) - k : (k + 1) + i - 1 = k + i
    BY <1>1
  <2>. QED  BY <1>1, <2>2, <2>3
<1>4. q = a \o b
  BY DEF RemoveAt
<1>. HIDE DEF a, b, q
<1>5. DOMAIN a = 1..k - 1 /\ DOMAIN b = 1..Len(s) - k
  BY <1>2, <1>3, LenProperties
<1>6. IsInjective(a)
  BY <1>1, <1>2, <1>5 DEF IsInjective
<1>7. IsInjective(b)
  <2>. SUFFICES ASSUME NEW i \in 1..Len(s) - k, NEW j \in 1..Len(s) - k, b[i] = b[j]
                PROVE  i = j
    BY <1>5 DEF IsInjective
  <2>1. k + i \in DOMAIN s /\ k + j \in DOMAIN s /\ s[k + i] = s[k + j]
    BY <1>1, <1>3
  <2>2. k + i = k + j
    BY <2>1 DEF IsInjective
  <2>. QED  BY <1>1, <2>2
<1>8. ASSUME NEW p
      PROVE  /\ IsQueued(a, p) <=> \E i \in DOMAIN s : i < k /\ s[i] = p
             /\ IsQueued(b, p) <=> \E i \in DOMAIN s : i > k /\ s[i] = p
  <2>0. /\ \A i \in DOMAIN a : i \in DOMAIN s /\ i < k
        /\ \A i \in DOMAIN s : i < k => i \in DOMAIN a
    BY <1>1, <1>5
  <2>1. \A i \in DOMAIN a : a[i] = s[i]
    BY <1>2, <1>5
  <2>4. IsQueued(a, p) => \E i \in DOMAIN s : i < k /\ s[i] = p
    BY <2>0, <2>1 DEF IsQueued
  <2>5. (\E i \in DOMAIN s : i < k /\ s[i] = p) => IsQueued(a, p)
    BY <2>0, <2>1 DEF IsQueued
  <2>2. ASSUME NEW i \in DOMAIN b, b[i] = p
        PROVE  \E j \in DOMAIN s : j > k /\ s[j] = p
    <3>1. k + i \in DOMAIN s /\ k + i > k /\ s[k + i] = p
      BY <1>1, <1>3, <1>5, <2>2
    <3>. QED  BY <3>1
  <2>3. ASSUME NEW i \in DOMAIN s, i > k, s[i] = p
        PROVE  IsQueued(b, p)
    <3>1. i - k \in 1..Len(s) - k /\ k + (i - k) = i
      BY <1>1, <2>3
    <3>. QED  BY <1>3, <1>5, <2>3, <3>1 DEF IsQueued
  <2>. QED  BY <2>2, <2>3, <2>4, <2>5 DEF IsQueued
<1>9. \A p : ~(IsQueued(a, p) /\ IsQueued(b, p))
  BY <1>1, <1>8 DEF IsInjective
<1>10. /\ q \in Seq(P) /\ IsInjective(q)
       /\ \A p : IsQueued(q, p) <=> IsQueued(a, p) \/ IsQueued(b, p)
  BY <1>2, <1>3, <1>4, <1>6, <1>7, <1>9, ConcatQueued
<1>11. ASSUME NEW p
       PROVE  IsQueued(a, p) \/ IsQueued(b, p) <=> IsQueued(s, p) /\ p # s[k]
  <2>1. \A i \in DOMAIN s : i < k \/ i > k <=> i # k
    BY <1>1
  <2>2. \A i \in DOMAIN s : i # k <=> s[i] # s[k]
    BY DEF IsInjective
  <2>3. IsQueued(a, p) \/ IsQueued(b, p) <=> \E i \in DOMAIN s : i # k /\ s[i] = p
    BY <1>8, <2>1
  <2>. QED  BY <2>2, <2>3 DEF IsQueued
<1>. QED  BY <1>10, <1>11 DEF q

LEMMA SetQueued ==
    ASSUME NEW P, NEW S \in SUBSET P, IsFiniteSet(P)
    PROVE  /\ SetToSeq(S) \in Seq(P) /\ IsInjective(SetToSeq(S))
           /\ \A p : IsQueued(SetToSeq(S), p) <=> p \in S
<1>. DEFINE n == Cardinality(S)
            q == SetToSeq(S)
<1>1. IsFiniteSet(S)
  BY FS_Subset
<1>2. n \in Nat /\ ExistsBijection(1..n, S)
  BY <1>1, FS_CardinalityType
<1>3. \E f \in [1..n -> S] : IsInjective(f)
  BY <1>2 DEF ExistsBijection, Bijection, Injection
<1>4. q \in [1..n -> S] /\ IsInjective(q)
  BY <1>3 DEF SetToSeq
<1>5. \A p \in S : \E i \in 1..n : q[i] = p
  <2>1. q \in Injection(1..n, S)
    BY <1>4 DEF Injection
  <2>2. Cardinality(1..n) = n
    BY <1>2, FS_Interval
  <2>3. q \in Surjection(1..n, S)
    BY <1>1, <2>1, <2>2, FS_Injection
  <2>. QED  BY <2>3 DEF Surjection
<1>. HIDE DEF q, n
<1>6. q \in [1..n -> P]
  BY <1>4
<1>7. q \in Seq(P)
  BY <1>2, <1>6, SeqDef
<1>8. \A p : IsQueued(q, p) <=> p \in S
  BY <1>4, <1>5 DEF IsQueued
<1>. QED  BY <1>4, <1>7, <1>8 DEF q
----------------------------------------------------------------------------
(* What Http.request asks for *)

LEMMA SlotFacts ==
    ASSUME NEW new \in SUBSET Urls, NEW free \in SUBSET Promises,
           Cardinality(new) <= Cardinality(free)
    PROVE  LET slot == CHOOSE f \in [new -> free] : IsInjective(f)
           IN  slot \in [new -> free] /\ IsInjective(slot)
<1>. DEFINE n == Cardinality(new)
            m == Cardinality(free)
<1>1. IsFiniteSet(new) /\ IsFiniteSet(free)
  BY FS_Subset, RequestsAssumption
<1>2. n \in Nat /\ m \in Nat /\ n <= m
  BY <1>1, FS_CardinalityType
<1>3. PICK f \in Bijection(1..n, new) : TRUE
  BY <1>1, FS_CardinalityType DEF ExistsBijection
<1>4. PICK g \in Bijection(1..m, free) : TRUE
  BY <1>1, FS_CardinalityType DEF ExistsBijection
<1>. HIDE DEF n, m
<1>5. Inverse(f, 1..n, new) \in Injection(new, 1..n)
  BY Fun_BijInverse DEF Bijection
<1>6. Inverse(f, 1..n, new) \in Injection(new, 1..m)
  <2>1. 1..n \subseteq 1..m
    BY <1>2
  <2>. QED  BY <1>5, <2>1 DEF Injection
<1>7. g \in Injection(1..m, free)
  BY DEF Bijection
<1>8. [u \in new |-> g[Inverse(f, 1..n, new)[u]]] \in Injection(new, free)
  BY <1>6, <1>7, Fun_InjTransitive
<1>9. \E h \in [new -> free] : IsInjective(h)
  BY <1>8 DEF Injection
<1>. QED  BY <1>9

New(what, urls) == {u \in urls : Reused(what, u) = NoPromise}

\* slot: the new promises; waits: what the caller waits for then
Asked(c, what, urls, already, slot, waits) ==
    /\ slot \in [New(what, urls) -> {p \in Promises : promise[p].status = "free"}]
    /\ IsInjective(slot)
    /\ waits = already \cup {slot[u] : u \in New(what, urls)}
                       \cup {memory[u] : u \in urls \ New(what, urls)}
    /\ call' = [call EXCEPT ![c] = [kind |-> what, waits |-> waits]]
    /\ memory' = IF memory = Off \/ ~Remembers(what) THEN memory
                 ELSE [u \in Urls |-> IF u \in New(what, urls) THEN slot[u] ELSE memory[u]]
    /\ promise' = [p \in Promises |-> promise'[p]]
    /\ \A u \in New(what, urls) : promise'[slot[u]] = Request(what, u)
    /\ \A p \in Promises \ {slot[u] : u \in New(what, urls)} :
          /\ InUse(p, memory', call') => promise'[p] = promise[p]
          /\ ~InUse(p, memory', call') => promise'[p] = Free
    /\ tasks' = tasks \o SetToSeq({slot[u] : u \in New(what, urls)})
    /\ unasked' = [u \in Urls |-> IF u \in New(what, urls) /\ UsesCache(what) /\ memory # Off
                                  THEN unasked[u] + 1 ELSE unasked[u]]
    /\ left' \in {left, left - 1} /\ (left' # left => left > 0)
    /\ UNCHANGED <<server, failures, seen>>

LEMMA AskFacts ==
    ASSUME IInv, NEW c \in Callers, NEW what, NEW urls \in SUBSET Urls, NEW already,
           Ask(c, what, urls, already)
    PROVE  \E slot, waits : Asked(c, what, urls, already, slot, waits)
<1>. DEFINE new == New(what, urls)
            free == {p \in Promises : promise[p].status = "free"}
            slot == CHOOSE f \in [new -> free] : IsInjective(f)
            For(u) == IF u \in new THEN slot[u] ELSE Reused(what, u)
            waits == already \cup {For(u) : u \in urls}
            ps == [p \in Promises |->
                      IF {u \in new : slot[u] = p} = {} THEN promise[p]
                      ELSE Request(what, CHOOSE u \in new : slot[u] = p)]
<1>1. /\ Cardinality(new) <= Cardinality(free)
      /\ what = "pages" \/ left > 0
      /\ left' = IF what = "pages" THEN left ELSE left - 1
      /\ call' = [call EXCEPT ![c] = [kind |-> what, waits |-> waits]]
      /\ memory' = IF memory = Off \/ ~Remembers(what) THEN memory
                   ELSE [u \in Urls |-> IF u \in new THEN slot[u] ELSE memory[u]]
      /\ promise' = Kept(ps, memory', call')
      /\ tasks' = tasks \o SetToSeq({slot[u] : u \in new})
      /\ unasked' = [u \in Urls |-> IF u \in new /\ UsesCache(what) /\ memory # Off
                                    THEN unasked[u] + 1 ELSE unasked[u]]
      /\ UNCHANGED <<server, failures, seen>>
  BY DEF Ask, New
<1>2. new \in SUBSET Urls /\ free \in SUBSET Promises
  BY DEF New
<1>3. slot \in [new -> free] /\ IsInjective(slot)
  <2>. HIDE DEF new, free
  <2>. QED  BY <1>1, <1>2, SlotFacts
<1>. HIDE DEF slot
<1>4. \A u \in urls \ new : Reused(what, u) = memory[u]
  BY DEF New, Reused, Remembered
<1>5. waits = already \cup {slot[u] : u \in new} \cup {memory[u] : u \in urls \ new}
  BY <1>4 DEF New
<1>. HIDE DEF waits
<1>6. \A u \in new : slot[u] \in Promises /\ slot[u] \in waits /\ ps[slot[u]] = Request(what, u)
  <2>. SUFFICES ASSUME NEW u \in new
                PROVE  slot[u] \in Promises /\ slot[u] \in waits /\ ps[slot[u]] = Request(what, u)
    OBVIOUS
  <2>1. slot[u] \in Promises /\ slot[u] \in waits
    BY <1>2, <1>3, <1>5
  <2>2. (CHOOSE v \in new : slot[v] = slot[u]) = u
    BY <1>3 DEF IsInjective
  <2>3. {v \in new : slot[v] = slot[u]} # {}
    OBVIOUS
  <2>. HIDE DEF new
  <2>. QED  BY <2>1, <2>2, <2>3
<1>7. \A p \in Promises \ {slot[u] : u \in new} : ps[p] = promise[p]
  OBVIOUS
<1>. HIDE DEF ps, new, free
<1>8. \A u \in new : InUse(slot[u], memory', call')
  <2>1. call'[c].waits = waits
    BY <1>1 DEF IInv, TypeInv
  <2>. QED  BY <1>6, <2>1 DEF InUse
<1>9. \A u \in new : promise'[slot[u]] = Request(what, u)
  <2>. SUFFICES ASSUME NEW u \in new PROVE promise'[slot[u]] = Request(what, u)
    OBVIOUS
  <2>1. slot[u] \in Promises /\ InUse(slot[u], memory', call') /\ ps[slot[u]] = Request(what, u)
    BY <1>6, <1>8
  <2>2. promise'[slot[u]] = ps[slot[u]]
    BY <1>1, <2>1 DEF Kept
  <2>. QED  BY <2>1, <2>2
<1>10. \A p \in Promises \ {slot[u] : u \in new} :
          /\ InUse(p, memory', call') => promise'[p] = promise[p]
          /\ ~InUse(p, memory', call') => promise'[p] = Free
  BY <1>1, <1>7 DEF Kept
<1>11. promise' = [p \in Promises |-> promise'[p]]
  BY <1>1 DEF Kept
<1>12. left' \in {left, left - 1} /\ (left' # left => left > 0)
  BY <1>1
<1>13. Asked(c, what, urls, already, slot, waits)
  BY <1>1, <1>3, <1>5, <1>9, <1>10, <1>11, <1>12 DEF Asked, new, free
<1>. QED  BY <1>13

LEMMA OffFacts ==
    /\ \A mem \in [Urls -> Promises \cup {NoPromise}] : mem # Off
    /\ NoPromise \notin Promises /\ FirstUrl \in Urls /\ Main \in Callers
<1>1. FirstUrl \in Urls /\ "off" \notin Promises /\ NoPromise \notin Promises /\ NoPromise # "off"
  BY RequestsAssumption DEF NoPromise
<1>. QED  BY <1>1 DEF Off, Callers

LEMMA AskIInv ==
    ASSUME IInv, NEW c \in Callers, NEW what \in Kinds \ {"idle"}, NEW urls \in SUBSET Urls,
           call[c].kind # "post", (c = Main /\ call[c].waits = {}) \/ UsesCache(what),
           NEW slot, NEW waits, Asked(c, what, urls, call[c].waits, slot, waits)
    PROVE  IInv'
<1>. DEFINE new == New(what, urls)
            S == {slot[u] : u \in new}
<1>0. call[c].waits \subseteq Promises /\ Calls # {}
  BY DEF IInv, TypeInv, Calls
<1>1. /\ new \subseteq urls /\ new \subseteq Urls /\ S \subseteq Promises
      /\ \A u \in new : slot[u] \in S /\ promise[slot[u]].status = "free"
      /\ \A u, v \in new : slot[u] = slot[v] => u = v
  BY DEF Asked, New, IsInjective
<1>2. /\ call'[c] = [kind |-> what, waits |-> waits]
      /\ \A d \in Callers : d # c => call'[d] = call[d]
      /\ \A d \in Callers : call[d].waits \subseteq call'[d].waits
  BY DEF Asked, IInv, TypeInv
<1>3. \A u \in urls \ new : /\ memory # Off /\ memory[u] \in Promises /\ UsesCache(what)
                            /\ memory[u] \in waits
  <2>. SUFFICES ASSUME NEW u \in urls \ new
                PROVE  /\ memory # Off /\ memory[u] \in Promises /\ UsesCache(what)
                       /\ memory[u] \in waits
    OBVIOUS
  <2>1. UsesCache(what) /\ memory # Off /\ memory[u] # NoPromise
    BY DEF New, Reused, Remembered
  <2>2. memory[u] \in Promises
    BY <2>1 DEF IInv, TypeInv
  <2>. QED  BY <2>1, <2>2 DEF Asked
<1>4. waits \subseteq Promises /\ waits = call[c].waits \cup S \cup {memory[u] : u \in urls \ new}
  BY <1>0, <1>1, <1>3 DEF Asked
<1>5. memory = Off => memory' = Off
  BY DEF Asked
<1>6. ASSUME memory # Off
      PROVE  /\ memory \in [Urls -> Promises \cup {NoPromise}]
             /\ memory' \in [Urls -> Promises \cup {NoPromise}] /\ memory' # Off
             /\ \A u \in Urls : \/ u \in new /\ memory'[u] = slot[u] /\ Remembers(what)
                                \/ (u \in new => ~Remembers(what)) /\ memory'[u] = memory[u]
  <2>1. memory \in [Urls -> Promises \cup {NoPromise}]
    BY <1>6 DEF IInv, TypeInv
  <2>2. memory' \in [Urls -> Promises \cup {NoPromise}]
    BY <1>1, <2>1 DEF Asked
  <2>. QED  BY <1>6, <2>1, <2>2, OffFacts DEF Asked
<1>7. /\ promise' = [p \in Promises |-> promise'[p]]
      /\ \A u \in new : promise'[slot[u]] = Request(what, u)
      /\ \A p \in Promises \ S : /\ InUse(p, memory', call') => promise'[p] = promise[p]
                                 /\ ~InUse(p, memory', call') => promise'[p] = Free
  BY DEF Asked
<1>8. \A d \in Callers : \A p \in call'[d].waits : InUse(p, memory', call')
  BY DEF InUse
<1>. HIDE DEF new, S
<1>9. ASSUME NEW p \in Promises \ S, InUse(p, memory', call')
      PROVE  InUse(p, memory, call)
  <2>1. CASE \E d \in Callers : p \in call'[d].waits
    <3>1. CASE \E d \in Callers : p \in call[d].waits
      BY <3>1 DEF InUse
    <3>2. CASE p \in waits /\ p \notin call[c].waits
      <4>1. PICK u \in urls \ new : p = memory[u]
        BY <1>4, <1>9, <3>2
      <4>. QED  BY <4>1, <1>3 DEF InUse, Remembered
    <3>. QED  BY <1>2, <2>1, <3>1, <3>2
  <2>2. CASE \E u \in Urls : Remembered(memory', u) = p
    <3>1. PICK u \in Urls : Remembered(memory', u) = p
      BY <2>2
    <3>2. memory # Off
      BY <1>5, <1>9, <3>1, OffFacts DEF Remembered
    <3>3. memory[u] = p
      BY <1>1, <1>6, <1>9, <3>1, <3>2 DEF Remembered
    <3>. QED  BY <3>2, <3>3 DEF InUse, Remembered
  <2>. QED  BY <1>9, <2>1, <2>2 DEF InUse
<1>10. \A p \in S : ~InUse(p, memory, call)
  BY <1>1 DEF IInv, UseInv, S
<1>11. \A u \in Urls : Request(what, u) \in Requested /\ Request(what, u).status = "pending"
                       /\ Request(what, u).url = u
  BY RequestsAssumption DEF Request, Requested
<1>12. Free \in Requested /\ Free.status = "free"
  BY RequestsAssumption DEF Free, Requested
<1>13. promise' \in [Promises -> Requested]
  <2>1. \A p \in S : promise'[p] \in Requested
    BY <1>1, <1>7, <1>11 DEF S
  <2>2. \A p \in Promises \ S : promise'[p] \in Requested
    BY <1>7, <1>12 DEF IInv, TypeInv
  <2>. QED  BY <1>7, <2>1, <2>2
<1>14. TypeInv'
  <2>1. memory' = Off \/ memory' \in [Urls -> Promises \cup {NoPromise}]
    BY <1>5, <1>6
  <2>2. call' \in [Callers -> Calls]
    <3>1. [kind |-> what, waits |-> waits] \in Calls
      BY <1>4 DEF Calls
    <3>. QED  BY <3>1 DEF Asked, IInv, TypeInv
  <2>3. left' \in 0..MaxCalls
    BY RequestsAssumption DEF Asked, IInv, TypeInv
  <2>4. unasked' \in [Urls -> Nat]
    BY DEF Asked, IInv, TypeInv
  <2>. QED  BY <1>13, <2>1, <2>2, <2>3, <2>4 DEF Asked, IInv, TypeInv
<1>15. \A p \in S : promise'[p].status = "pending" /\ p \in waits
  BY <1>1, <1>4, <1>7, <1>11 DEF S
<1>16. \A p \in Promises \ S : promise'[p].status = "pending" <=> promise[p].status = "pending"
  <2>. SUFFICES ASSUME NEW p \in Promises \ S
                PROVE  promise'[p].status = "pending" <=> promise[p].status = "pending"
    OBVIOUS
  <2>1. CASE InUse(p, memory', call')
    BY <1>7, <2>1
  <2>2. CASE ~InUse(p, memory', call')
    <3>1. promise'[p].status = "free"
      BY <1>7, <1>12, <2>2
    <3>2. \A d \in Callers : p \notin call[d].waits
      BY <1>2, <1>8, <2>2
    <3>3. promise[p].status # "pending"
      BY <3>2 DEF IInv, QueueInv
    <3>. QED  BY <3>1, <3>3
  <2>. QED  BY <2>1, <2>2
<1>17. QueueInv'
  <2>1. /\ SetToSeq(S) \in Seq(Promises) /\ IsInjective(SetToSeq(S))
        /\ \A p : IsQueued(SetToSeq(S), p) <=> p \in S
    BY <1>1, SetQueued, RequestsAssumption
  <2>2. \A p : IsQueued(tasks, p) => p \in Promises /\ promise[p].status = "pending"
    <3>1. \A i \in DOMAIN tasks : tasks[i] \in Promises
      BY LenProperties DEF IInv, QueueInv
    <3>. QED  BY <3>1 DEF IInv, QueueInv, IsQueued
  <2>3. \A p : ~(IsQueued(tasks, p) /\ IsQueued(SetToSeq(S), p))
    BY <1>1, <2>1, <2>2 DEF S
  <2>4. /\ tasks' \in Seq(Promises) /\ IsInjective(tasks')
        /\ \A p : IsQueued(tasks', p) <=> IsQueued(tasks, p) \/ IsQueued(SetToSeq(S), p)
    <3>1. tasks' = tasks \o SetToSeq(S)
      BY DEF Asked, S, new
    <3>2. tasks \in Seq(Promises) /\ IsInjective(tasks)
      BY DEF IInv, QueueInv
    <3>. QED  BY <2>1, <2>3, <3>1, <3>2, ConcatQueued
  <2>5. \A p \in Promises : promise'[p].status = "pending" <=> IsQueued(tasks', p)
    BY <1>15, <1>16, <2>1, <2>4 DEF IInv, QueueInv
  <2>6. \A p \in Promises : promise'[p].status = "pending" => \E d \in Callers : p \in call'[d].waits
    BY <1>2, <1>15, <1>16 DEF IInv, QueueInv
  <2>. QED  BY <2>4, <2>5, <2>6 DEF QueueInv
<1>18. UseInv'
  <2>1. ASSUME NEW p \in Promises, InUse(p, memory', call')
        PROVE  promise'[p].status # "free"
    BY <1>7, <1>9, <1>15, <2>1 DEF IInv, UseInv
  <2>2. ASSUME memory' # Off, NEW u \in Urls, memory'[u] # NoPromise
        PROVE  promise'[memory'[u]].url = u
    <3>1. CASE u \in new /\ memory'[u] = slot[u]
      BY <1>7, <1>11, <3>1
    <3>2. CASE memory'[u] = memory[u]
      <4>1. memory # Off /\ memory[u] \in Promises
        BY <1>5, <1>6, <2>2, <3>2
      <4>2. InUse(memory[u], memory, call) /\ InUse(memory[u], memory', call')
        BY <2>2, <3>2, <4>1 DEF InUse, Remembered
      <4>3. promise'[memory[u]] = promise[memory[u]]
        BY <1>7, <1>10, <4>1, <4>2
      <4>. QED  BY <2>2, <3>2, <4>1, <4>3 DEF IInv, UseInv
    <3>. QED  BY <1>5, <1>6, <2>2, <3>1, <3>2
  <2>. QED  BY <2>1, <2>2 DEF UseInv
<1>19. OnceInv'
  <2>. SUFFICES ASSUME NEW u \in Urls
                PROVE  unasked'[u] <= 1 /\ (Remembered(memory', u) = NoPromise => unasked'[u] = 0)
    BY DEF OnceInv, Remembered
  <2>1. CASE memory = Off
    <3>1. unasked'[u] = unasked[u]
      BY <2>1 DEF Asked, IInv, TypeInv
    <3>. QED  BY <1>5, <2>1, <3>1 DEF IInv, OnceInv, Remembered
  <2>2. CASE memory # Off /\ u \in new /\ UsesCache(what)
    <3>1. memory[u] = NoPromise /\ unasked'[u] = unasked[u] + 1
      BY <2>2 DEF Asked, new, New, Reused, Remembered
    <3>2. unasked[u] = 0
      BY <2>2, <3>1 DEF IInv, OnceInv, Remembered
    <3>3. memory'[u] \in Promises /\ memory' # Off
      BY <1>1, <1>6, <2>2 DEF Remembers, IsGet, UsesCache
    <3>. QED  BY <3>1, <3>2, <3>3, OffFacts DEF Remembered
  <2>3. CASE memory # Off /\ ~(u \in new /\ UsesCache(what))
    <3>1. unasked'[u] = unasked[u]
      BY <2>3 DEF Asked, IInv, TypeInv, new
    <3>2. memory' # Off /\ (memory'[u] = NoPromise => memory[u] = NoPromise)
      BY <1>1, <1>6, <2>3, OffFacts
    <3>. QED  BY <2>3, <3>1, <3>2 DEF IInv, OnceInv, Remembered
  <2>. QED  BY <2>1, <2>2, <2>3
<1>20. ReadInv'
  <2>1. UNCHANGED <<server, seen>>
    BY DEF Asked
  <2>2. ASSUME NEW p \in Promises, promise'[p].status = "ok"
        PROVE  p \notin S /\ promise'[p] = promise[p]
    <3>1. p \notin S
      BY <1>15, <2>2
    <3>2. promise'[p] \in {promise[p], Free} /\ promise'[p] # Free
      BY <1>7, <1>12, <2>2, <3>1
    <3>. QED  BY <3>1, <3>2
  <2>3. ASSUME NEW p \in Promises, IsCurrent(promise[p], seen)
        PROVE  IsCurrent(promise'[p], seen')
    BY <2>1, <2>2, <2>3 DEF IsCurrent
  <2>4. \A p \in S : IsCurrent(promise'[p], seen')
    BY <1>15 DEF IsCurrent
  <2>5. \A p \in Promises : promise'[p].status = "ok" => promise'[p].version <= server'[promise'[p].url]
    BY <2>1, <2>2 DEF IInv, ReadInv
  <2>6. ASSUME memory' # Off, NEW u \in Urls, memory'[u] # NoPromise
        PROVE  IsCurrent(promise'[memory'[u]], seen')
    <3>1. memory # Off
      BY <1>5, <2>6
    <3>2. CASE u \in new /\ memory'[u] = slot[u]
      BY <2>4, <3>2 DEF S
    <3>3. CASE memory'[u] = memory[u]
      <4>1. memory[u] \in Promises /\ IsCurrent(promise[memory[u]], seen)
        BY <1>6, <2>6, <3>1, <3>3 DEF IInv, ReadInv
      <4>. QED  BY <2>3, <3>3, <4>1
    <3>. QED  BY <1>6, <3>1, <3>2, <3>3
  <2>7. ASSUME NEW p \in call[Main].waits, call[Main].kind # "post",
               c # Main \/ call[c].waits # {}
        PROVE  /\ IsCurrent(promise'[p], seen')
               /\ memory' # Off => memory'[promise'[p].url] = p
    <3>1. p \in Promises /\ IsCurrent(promise[p], seen) /\ promise[p].url \in Urls
      BY <2>7, OffFacts DEF IInv, TypeInv, Calls, ReadInv, Requested
    <3>2. InUse(p, memory, call) /\ InUse(p, memory', call')
      BY <1>2, <1>8, OffFacts DEF InUse
    <3>3. promise'[p] = promise[p]
      BY <1>7, <1>10, <3>1, <3>2
    <3>4. ASSUME memory' # Off
          PROVE  memory'[promise[p].url] = p
      <4>1. memory # Off /\ memory[promise[p].url] = p
        BY <1>5, <2>7, <3>4 DEF IInv, ReadInv
      <4>2. promise[p].url \notin new
        BY <2>7, <3>1, <4>1, OffFacts DEF new, New, Reused, Remembered
      <4>. QED  BY <1>6, <3>1, <4>1, <4>2
    <3>. QED  BY <2>3, <3>1, <3>3, <3>4
  <2>8. ASSUME NEW p \in call'[Main].waits, call'[Main].kind # "post"
        PROVE  /\ IsCurrent(promise'[p], seen')
               /\ memory' # Off => memory'[promise'[p].url] = p
    <3>1. CASE c # Main
      <4>1. call'[Main] = call[Main]
        BY <1>2, <3>1, OffFacts
      <4>. QED  BY <2>7, <2>8, <3>1, <4>1
    <3>2. CASE c = Main /\ p \in call[Main].waits
      BY <2>7, <3>2
    <3>3. CASE c = Main /\ p \in S
      <4>1. PICK u \in new : p = slot[u]
        BY <3>3 DEF S
      <4>2. promise'[p].url = u /\ u \in Urls
        BY <1>1, <1>7, <1>11, <4>1
      <4>3. Remembers(what)
        BY <1>2, <2>8, <3>3 DEF Remembers, IsGet
      <4>4. memory' # Off => memory'[u] = p
        BY <1>5, <1>6, <4>1, <4>2, <4>3
      <4>. QED  BY <2>4, <3>3, <4>2, <4>4
    <3>4. CASE c = Main /\ p \in {memory[u] : u \in urls \ new}
      <4>1. PICK u \in urls \ new : p = memory[u]
        BY <3>4
      <4>2. memory # Off /\ p \in Promises /\ u \in Urls /\ p # NoPromise
        BY <1>3, <4>1, OffFacts
      <4>3. IsCurrent(promise[p], seen) /\ promise[p].url = u
        BY <4>1, <4>2 DEF IInv, ReadInv, UseInv
      <4>4. InUse(p, memory, call) /\ InUse(p, memory', call')
        BY <1>3, <1>2, <1>8, <3>4, <4>1, <4>2 DEF InUse, Remembered
      <4>5. promise'[p] = promise[p]
        BY <1>7, <1>10, <4>2, <4>4
      <4>6. memory'[u] = p
        BY <1>6, <4>1, <4>2
      <4>. QED  BY <2>3, <4>2, <4>3, <4>5, <4>6
    <3>. QED  BY <1>2, <1>4, <2>8, <3>1, <3>2, <3>3, <3>4
  <2>9. \A u \in Urls : seen'[u] <= server'[u]
    BY <2>1 DEF IInv, ReadInv
  <2>. QED  BY <2>5, <2>6, <2>8, <2>9 DEF ReadInv
<1>. QED  BY <1>14, <1>17, <1>18, <1>19, <1>20 DEF IInv
----------------------------------------------------------------------------
(* The other steps *)

LEMMA InitIInv == Init => IInv
<1>. SUFFICES ASSUME Init PROVE IInv
  OBVIOUS
<1>1. Free \in Requested /\ Free.status = "free" /\ Idle \in Calls /\ Idle.waits = {}
  BY RequestsAssumption DEF Free, Requested, Idle, Calls, Kinds
<1>2. TypeInv
  BY <1>1, RequestsAssumption DEF Init, TypeInv
<1>3. QueueInv
  <2>1. tasks \in Seq(Promises) /\ DOMAIN tasks = {}
    BY EmptySeq, LenProperties DEF Init
  <2>. QED  BY <1>1, <2>1 DEF Init, QueueInv, IsInjective, IsQueued
<1>4. \A p \in Promises : ~InUse(p, memory, call)
  BY <1>1, OffFacts DEF Init, InUse, Remembered
<1>5. UseInv /\ OnceInv
  BY <1>4 DEF Init, UseInv, OnceInv
<1>6. ReadInv
  BY <1>1, OffFacts DEF Init, ReadInv
<1>. QED  BY <1>2, <1>3, <1>5, <1>6 DEF IInv

LEMMA NonePending ==
    ASSUME IInv, AllIdle
    PROVE  /\ \A c \in Callers : call[c].waits = {} /\ call[c].kind = "idle"
           /\ \A p \in Promises : promise[p].status # "pending" /\ ~IsQueued(tasks, p)
BY DEF AllIdle, Idle, IInv, QueueInv

LEMMA ResetCachesIInv == IInv /\ ResetCaches => IInv'
<1>. SUFFICES ASSUME IInv, ResetCaches PROVE IInv'
  OBVIOUS
<1>1. /\ memory' = Off /\ promise' = Kept(promise, Off, call) /\ left' = MaxCalls
      /\ unasked' = [u \in Urls |-> 0] /\ UNCHANGED <<server, tasks, call, failures, seen>>
      /\ AllIdle
  BY DEF ResetCaches
<1>2. \A p \in Promises : ~InUse(p, Off, call)
  BY <1>1, NonePending, OffFacts DEF InUse, Remembered
<1>3. promise' = [p \in Promises |-> Free]
  BY <1>1, <1>2 DEF Kept
<1>4. Free \in Requested /\ Free.status = "free"
  BY RequestsAssumption DEF Free, Requested
<1>5. TypeInv'
  BY <1>1, <1>3, <1>4, RequestsAssumption DEF IInv, TypeInv
<1>6. QueueInv'
  BY <1>1, <1>3, <1>4, NonePending DEF IInv, QueueInv
<1>7. UseInv' /\ OnceInv'
  BY <1>1, <1>2 DEF UseInv, OnceInv
<1>8. ReadInv'
  BY <1>1, <1>3, <1>4, NonePending, OffFacts DEF IInv, ReadInv
<1>. QED  BY <1>5, <1>6, <1>7, <1>8 DEF IInv

LEMMA InitializeCachesIInv == IInv /\ InitializeCaches => IInv'
<1>. SUFFICES ASSUME IInv, InitializeCaches PROVE IInv'
  OBVIOUS
<1>1. /\ memory = Off /\ memory' = [u \in Urls |-> NoPromise] /\ AllIdle
      /\ UNCHANGED <<server, promise, tasks, call, left, failures, unasked, seen>>
  BY DEF InitializeCaches
<1>2. memory' # Off /\ memory' \in [Urls -> Promises \cup {NoPromise}]
  BY <1>1, OffFacts
<1>3. \A p \in Promises : ~InUse(p, memory', call)
  BY <1>1, NonePending, OffFacts DEF InUse, Remembered
<1>4. TypeInv'
  BY <1>1, <1>2 DEF IInv, TypeInv
<1>5. QueueInv'
  BY <1>1 DEF IInv, QueueInv
<1>6. UseInv'
  BY <1>1, <1>3 DEF UseInv
<1>7. OnceInv'
  BY <1>1 DEF IInv, OnceInv, Remembered
<1>8. ReadInv'
  BY <1>1, NonePending, OffFacts DEF IInv, ReadInv
<1>. QED  BY <1>4, <1>5, <1>6, <1>7, <1>8 DEF IInv

LEMMA SomebodyWritesIInv == ASSUME NEW u \in Urls PROVE IInv /\ SomebodyWrites(u) => IInv'
<1>. SUFFICES ASSUME IInv, SomebodyWrites(u) PROVE IInv'
  OBVIOUS
<1>1. /\ server[u] < MaxVersion /\ server' = [server EXCEPT ![u] = server[u] + 1]
      /\ UNCHANGED <<memory, promise, tasks, call, left, unasked, failures, seen>>
  BY DEF SomebodyWrites, asked
<1>2. server' \in [Urls -> 0..MaxVersion] /\ \A v \in Urls : server[v] <= server'[v]
  BY <1>1, RequestsAssumption DEF IInv, TypeInv
<1>3. TypeInv'
  BY <1>1, <1>2 DEF IInv, TypeInv
<1>4. QueueInv' /\ UseInv' /\ OnceInv'
  BY <1>1 DEF IInv, QueueInv, UseInv, OnceInv
<1>5. ReadInv'
  <2>1. \A v \in Urls : seen'[v] <= server'[v]
    BY <1>1, <1>2 DEF IInv, TypeInv, ReadInv
  <2>2. \A p \in Promises :
          promise'[p].status = "ok" => promise'[p].version <= server'[promise'[p].url]
    BY <1>1, <1>2 DEF IInv, TypeInv, ReadInv, Requested
  <2>. QED  BY <1>1, <2>1, <2>2 DEF IInv, ReadInv
<1>. QED  BY <1>3, <1>4, <1>5 DEF IInv

LEMMA AnswerIInv == ASSUME NEW p \in Promises PROVE IInv /\ Answer(p) => IInv'
<1>. SUFFICES ASSUME IInv, Answer(p) PROVE IInv'
  OBVIOUS
<1>1. PICK ok \in BOOLEAN, done \in BOOLEAN :
          /\ ok \/ failures < MaxFailures
          /\ failures' = IF ok THEN failures ELSE failures + 1
          /\ server' = Served(p, done)
          /\ promise' = [promise EXCEPT ![p].status = IF ok THEN "ok" ELSE "failed",
                                        ![p].version = IF ok THEN server'[promise[p].url] ELSE 0]
          /\ tasks' = RemoveAt(tasks, Place(p))
  BY DEF Answer, FreeSlot
<1>2. IsQueued(tasks, p) /\ UNCHANGED <<memory, call, left, unasked, seen>>
  BY DEF Answer, Running, IsQueued
<1>3. promise[p] \in Requested /\ promise[p].url \in Urls
  BY DEF IInv, TypeInv, Requested
<1>4. server' \in [Urls -> 0..MaxVersion] /\ \A v \in Urls : server[v] <= server'[v]
  BY <1>1, <1>3, RequestsAssumption DEF Served, IInv, TypeInv
<1>5. /\ promise'[p] \in Requested /\ promise'[p].url = promise[p].url
      /\ promise'[p].status \in {"ok", "failed"}
      /\ promise'[p].status = "ok" => promise'[p].version = server'[promise[p].url]
      /\ promise' = [q \in Promises |-> IF q = p THEN promise'[p] ELSE promise[q]]
  <2>. DEFINE status == IF ok THEN "ok" ELSE "failed"
              version == IF ok THEN server'[promise[p].url] ELSE 0
              pr == [promise[p] EXCEPT !.status = status, !.version = version]
  <2>1. /\ pr \in Requested /\ pr.url = promise[p].url /\ pr.status \in {"ok", "failed"}
        /\ pr.status = "ok" => pr.version = server'[promise[p].url]
    <3>1. /\ status \in {"ok", "failed"} /\ version \in 0..MaxVersion
          /\ status = "ok" => version = server'[promise[p].url]
      BY <1>3, <1>4, RequestsAssumption
    <3>. HIDE DEF status, version
    <3>. QED  BY <1>3, <3>1 DEF Requested
  <2>2. promise' = [q \in Promises |-> IF q = p THEN pr ELSE promise[q]]
    BY <1>1 DEF IInv, TypeInv
  <2>. HIDE DEF pr
  <2>. QED  BY <2>1, <2>2
<1>6. \A q \in Promises : q # p => promise'[q] = promise[q]
  BY <1>5
<1>7. TypeInv'
  <2>1. promise' \in [Promises -> Requested]
    BY <1>5 DEF IInv, TypeInv
  <2>2. failures' \in 0..MaxFailures
    BY <1>1, RequestsAssumption DEF IInv, TypeInv
  <2>. QED  BY <1>2, <1>4, <2>1, <2>2 DEF IInv, TypeInv
<1>8. QueueInv'
  <2>1. Place(p) \in DOMAIN tasks /\ tasks[Place(p)] = p
    BY <1>2 DEF Place, IsQueued
  <2>2. /\ tasks' \in Seq(Promises) /\ IsInjective(tasks')
        /\ \A q : IsQueued(tasks', q) <=> IsQueued(tasks, q) /\ q # p
    BY <1>1, <2>1, RemoveQueued DEF IInv, QueueInv
  <2>. QED  BY <1>2, <1>5, <1>6, <2>2 DEF IInv, QueueInv
<1>9. UseInv'
  <2>1. \A q \in Promises : /\ InUse(q, memory', call') = InUse(q, memory, call)
                            /\ promise'[q].status = "free" => promise[q].status = "free"
                            /\ promise'[q].url = promise[q].url
    BY <1>2, <1>5, <1>6 DEF InUse, Remembered
  <2>2. \A u \in Urls : memory # Off /\ memory[u] # NoPromise => memory[u] \in Promises
    BY DEF IInv, TypeInv
  <2>. QED  BY <1>2, <2>1, <2>2 DEF IInv, UseInv
<1>10. OnceInv'
  BY <1>2 DEF IInv, OnceInv
<1>11. ReadInv'
  <2>1. \A v \in Urls : seen'[v] <= server'[v]
    BY <1>2, <1>4 DEF IInv, TypeInv, ReadInv
  <2>2. ASSUME NEW q \in Promises
        PROVE  /\ promise'[q].status = "ok" => promise'[q].version <= server'[promise'[q].url]
               /\ IsCurrent(promise[q], seen) => IsCurrent(promise'[q], seen')
               /\ promise'[q].url = promise[q].url
    <3>1. CASE q = p
      BY <1>2, <1>3, <1>4, <1>5, <2>1, <3>1 DEF IsCurrent
    <3>2. CASE q # p
      BY <1>2, <1>4, <1>6, <3>2 DEF IInv, TypeInv, ReadInv, Requested
    <3>. QED  BY <3>1, <3>2
  <2>3. memory # Off => \A u \in Urls : memory[u] # NoPromise => memory[u] \in Promises
    BY DEF IInv, TypeInv
  <2>4. call[Main].waits \subseteq Promises
    BY OffFacts DEF IInv, TypeInv, Calls
  <2>. QED  BY <1>2, <2>1, <2>2, <2>3, <2>4 DEF IInv, ReadInv
<1>. QED  BY <1>7, <1>8, <1>9, <1>10, <1>11 DEF IInv

\* what the main thread sees when a call returns
Saw(c, u) == \E q \in call[Main].waits :
                /\ c = Main /\ call[Main].kind # "post" /\ promise[q].status = "ok"
                /\ promise[q].url = u /\ seen'[u] = promise[q].version

LEMMA ReturnFacts ==
    ASSUME IInv, NEW c \in Callers, Return(c)
    PROVE  /\ seen' \in [Urls -> 0..MaxVersion]
           /\ c # Main => seen' = seen
           /\ \A u \in Urls : seen'[u] = seen[u] \/ Saw(c, u)
           /\ \A u \in Urls : seen'[u] >= seen[u]
<1>. DEFINE ByUrl(u) == {p \in call[Main].waits : promise[p].url = u}
<1>1. call[Main].waits \subseteq Promises
  BY OffFacts DEF IInv, TypeInv, Calls
<1>2. CASE ~(c = Main /\ Succeeded(c) /\ call[c].kind # "post")
  <2>1. seen' = seen
    BY <1>2 DEF Return
  <2>. QED  BY <2>1 DEF IInv, TypeInv
<1>3. CASE c = Main /\ Succeeded(c) /\ call[c].kind # "post"
  <2>1. seen' = [u \in Urls |->
                    IF \E p \in call[Main].waits : promise[p].url = u
                    THEN promise[CHOOSE p \in call[Main].waits : promise[p].url = u].version
                    ELSE seen[u]]
    BY <1>3 DEF Return
  <2>2. ASSUME NEW u \in Urls
        PROVE  /\ seen'[u] = seen[u] \/ Saw(c, u)
               /\ seen'[u] \in 0..MaxVersion /\ seen'[u] >= seen[u]
    <3>1. CASE \E p \in call[Main].waits : promise[p].url = u
      <4>1. PICK q \in call[Main].waits : promise[q].url = u /\ seen'[u] = promise[q].version
        BY <2>1, <3>1
      <4>2. q \in Promises /\ promise[q].status = "ok" /\ IsCurrent(promise[q], seen)
        BY <1>1, <1>3, <4>1 DEF Succeeded, IInv, ReadInv
      <4>3. promise[q].version \in 0..MaxVersion /\ seen[u] \in 0..MaxVersion
        BY <4>2 DEF IInv, TypeInv, Requested
      <4>4. Saw(c, u)
        BY <1>3, <4>1, <4>2 DEF Saw
      <4>. QED  BY <4>1, <4>2, <4>3, <4>4 DEF IsCurrent
    <3>2. CASE ~\E p \in call[Main].waits : promise[p].url = u
      <4>1. seen'[u] = seen[u] /\ seen[u] \in 0..MaxVersion
        BY <2>1, <3>2 DEF IInv, TypeInv
      <4>. QED  BY <4>1, RequestsAssumption
    <3>. QED  BY <3>1, <3>2
  <2>. QED  BY <1>3, <2>1, <2>2
<1>. QED  BY <1>2, <1>3

LEMMA ReturnIInv == ASSUME NEW c \in Callers PROVE IInv /\ Return(c) => IInv'
<1>. SUFFICES ASSUME IInv, Return(c) PROVE IInv'
  OBVIOUS
<1>1. /\ call' = [call EXCEPT ![c] = Idle] /\ promise' = Kept(promise, memory, call')
      /\ UNCHANGED <<server, memory, tasks, left, failures, unasked>>
      /\ \A p \in call[c].waits : Settled(p)
  BY DEF Return
<1>2. /\ call' \in [Callers -> Calls] /\ call'[c].waits = {}
      /\ \A d \in Callers : d # c => call'[d] = call[d]
  <2>1. Idle \in Calls /\ Idle.waits = {}
    BY DEF Idle, Calls, Kinds
  <2>. HIDE DEF Idle
  <2>. QED  BY <1>1, <2>1 DEF IInv, TypeInv
<1>3. ASSUME NEW p \in Promises, InUse(p, memory, call')
      PROVE  InUse(p, memory, call) /\ promise'[p] = promise[p]
  <2>1. promise'[p] = promise[p]
    BY <1>1, <1>3 DEF Kept
  <2>. QED  BY <1>2, <1>3, <2>1 DEF InUse
<1>4. ASSUME NEW p \in Promises, ~InUse(p, memory, call')
      PROVE  promise'[p] = Free
  BY <1>1, <1>4 DEF Kept
<1>5. Free \in Requested /\ Free.status = "free"
  BY RequestsAssumption DEF Free, Requested
<1>6. TypeInv'
  <2>1. promise' = [p \in Promises |-> promise'[p]]
    BY <1>1 DEF Kept
  <2>2. promise' \in [Promises -> Requested]
    BY <1>3, <1>4, <1>5, <2>1 DEF IInv, TypeInv
  <2>. QED  BY <1>1, <1>2, <2>2, ReturnFacts DEF IInv, TypeInv
<1>7. \A p \in Promises : promise[p].status = "pending" =>
                            InUse(p, memory, call') /\ \E d \in Callers : p \in call'[d].waits
  <2>. SUFFICES ASSUME NEW p \in Promises, promise[p].status = "pending"
                PROVE  \E d \in Callers : p \in call'[d].waits
    BY DEF InUse
  <2>1. PICK d \in Callers : p \in call[d].waits
    BY DEF IInv, QueueInv
  <2>2. d # c
    BY <1>1, <2>1 DEF Settled
  <2>. QED  BY <1>2, <2>1, <2>2
<1>8. \A p \in Promises : promise'[p].status = "pending" <=> promise[p].status = "pending"
  BY <1>3, <1>4, <1>5, <1>7
<1>9. QueueInv'
  BY <1>1, <1>7, <1>8 DEF IInv, QueueInv
<1>10. memory # Off => \A u \in Urls : memory[u] # NoPromise =>
          /\ memory[u] \in Promises /\ InUse(memory[u], memory, call')
          /\ promise'[memory[u]] = promise[memory[u]] /\ promise[memory[u]].url = u
  <2>. SUFFICES ASSUME memory # Off, NEW u \in Urls, memory[u] # NoPromise
                PROVE  /\ memory[u] \in Promises /\ InUse(memory[u], memory, call')
                       /\ promise'[memory[u]] = promise[memory[u]] /\ promise[memory[u]].url = u
    OBVIOUS
  <2>1. memory[u] \in Promises /\ promise[memory[u]].url = u
    BY DEF IInv, TypeInv, UseInv
  <2>2. InUse(memory[u], memory, call')
    BY DEF InUse, Remembered
  <2>. QED  BY <1>3, <2>1, <2>2
<1>11. UseInv'
  <2>1. ASSUME NEW p \in Promises, InUse(p, memory', call')
        PROVE  promise'[p].status # "free"
    <3>1. InUse(p, memory, call')
      BY <1>1, <2>1
    <3>. QED  BY <1>3, <3>1 DEF IInv, UseInv
  <2>. QED  BY <1>1, <1>10, <2>1 DEF UseInv
<1>12. OnceInv'
  BY <1>1 DEF IInv, OnceInv
<1>13. ReadInv'
  <2>1. call[Main].waits \subseteq Promises /\ call'[Main].waits \subseteq Promises
    BY <1>2, OffFacts DEF IInv, TypeInv, Calls
  <2>2. ASSUME NEW p \in Promises, promise'[p].status = "ok"
        PROVE  promise'[p].version <= server'[promise'[p].url]
    <3>1. promise'[p] = promise[p]
      BY <1>3, <1>4, <1>5, <2>2
    <3>. QED  BY <1>1, <2>2, <3>1 DEF IInv, ReadInv
  <2>3. ASSUME NEW u \in Urls
        PROVE  seen'[u] <= server'[u]
    <3>1. CASE seen'[u] = seen[u]
      BY <1>1, <3>1 DEF IInv, ReadInv
    <3>2. CASE Saw(c, u)
      BY <1>1, <2>1, <3>2 DEF Saw, IInv, ReadInv
    <3>. QED  BY <3>1, <3>2, ReturnFacts
  <2>4. ASSUME memory' # Off, NEW u \in Urls, memory'[u] # NoPromise
        PROVE  IsCurrent(promise'[memory'[u]], seen')
    <3>1. /\ memory[u] \in Promises /\ promise'[memory'[u]] = promise[memory[u]]
          /\ promise[memory[u]].url = u /\ IsCurrent(promise[memory[u]], seen)
      BY <1>1, <1>10, <2>4 DEF IInv, ReadInv
    <3>2. CASE seen'[u] = seen[u]
      BY <3>1, <3>2 DEF IsCurrent
    <3>3. CASE Saw(c, u)
      <4>1. PICK q \in call[Main].waits :
               /\ call[Main].kind # "post" /\ promise[q].url = u /\ seen'[u] = promise[q].version
        BY <3>3 DEF Saw
      <4>2. memory[u] = q /\ promise[q].version \in Nat
        BY <1>1, <2>1, <2>4, <4>1, RequestsAssumption DEF IInv, ReadInv, TypeInv, Requested
      <4>. QED  BY <3>1, <4>1, <4>2 DEF IsCurrent
    <3>. QED  BY <3>2, <3>3, ReturnFacts
  <2>5. ASSUME NEW p \in call'[Main].waits, call'[Main].kind # "post"
        PROVE  /\ IsCurrent(promise'[p], seen')
               /\ memory' # Off => memory'[promise'[p].url] = p
    <3>1. c # Main /\ call'[Main] = call[Main] /\ seen' = seen
      BY <1>2, <2>5, OffFacts, ReturnFacts
    <3>2. InUse(p, memory, call') /\ p \in Promises
      BY <2>1, <2>5, OffFacts DEF InUse
    <3>3. promise'[p] = promise[p]
      BY <1>3, <3>2
    <3>. QED  BY <1>1, <2>5, <3>1, <3>3 DEF IInv, ReadInv
  <2>. QED  BY <2>2, <2>3, <2>4, <2>5 DEF ReadInv
<1>. QED  BY <1>6, <1>9, <1>11, <1>12, <1>13 DEF IInv
----------------------------------------------------------------------------
(* Every step *)

LEMMA NewCallIInv ==
    ASSUME NEW c \in Callers, NEW what \in Kinds \ {"idle"}, NEW urls \in SUBSET Urls,
           c = Main \/ UsesCache(what)
    PROVE  IInv /\ call[c] = Idle /\ Ask(c, what, urls, {}) => IInv'
<1>. SUFFICES ASSUME IInv, call[c] = Idle, Ask(c, what, urls, {}) PROVE IInv'
  OBVIOUS
<1>1. call[c].waits = {} /\ call[c].kind = "idle"
  BY DEF Idle
<1>2. PICK slot, waits : Asked(c, what, urls, call[c].waits, slot, waits)
  BY <1>1, AskFacts
<1>. QED  BY <1>1, <1>2, AskIInv

LEMMA OtherPagesIInv == IInv /\ OtherPages => IInv'
<1>. SUFFICES ASSUME IInv, OtherPages PROVE IInv'
  OBVIOUS
<1>1. call[Main].kind = "first page" /\ Ask(Main, "pages", RestUrls, call[Main].waits)
  BY DEF OtherPages
<1>2. RestUrls \in SUBSET Urls /\ "pages" \in Kinds \ {"idle"} /\ UsesCache("pages")
  BY RequestsAssumption DEF Kinds, UsesCache
<1>3. PICK slot, waits : Asked(Main, "pages", RestUrls, call[Main].waits, slot, waits)
  BY <1>1, <1>2, OffFacts, AskFacts
<1>. QED  BY <1>1, <1>2, <1>3, OffFacts, AskIInv

LEMMA StepIInv == IInv /\ [Next]_vars => IInv'
<1>. SUFFICES ASSUME IInv, [Next]_vars PROVE IInv'
  OBVIOUS
<1>1. CASE ResetCaches
  BY <1>1, ResetCachesIInv
<1>2. CASE InitializeCaches
  BY <1>2, InitializeCachesIInv
<1>3. ASSUME NEW u \in Urls, Get(u) \/ Refresh(u) \/ Post(u) PROVE IInv'
  <2>1. PICK what \in {"get", "refresh", "post"} : call[Main] = Idle /\ Ask(Main, what, {u}, {})
    BY <1>3 DEF Get, Refresh, Post
  <2>2. {u} \in SUBSET Urls /\ what \in Kinds \ {"idle"} /\ Main \in Callers
    BY OffFacts DEF Kinds
  <2>3. IInv /\ call[Main] = Idle /\ Ask(Main, what, {u}, {}) => IInv'
    BY <2>2, NewCallIInv
  <2>. QED  BY <2>1, <2>3
<1>4. ASSUME NEW u \in Urls, SomebodyWrites(u) PROVE IInv'
  BY <1>4, SomebodyWritesIInv
<1>5. ASSUME NEW c \in Fetchers, NEW u \in Urls, Fetch(c, u) PROVE IInv'
  BY <1>5, NewCallIInv DEF Fetch, Callers, Kinds, UsesCache
<1>6. CASE List
  <2>1. {FirstUrl} \in SUBSET Urls /\ "first page" \in Kinds \ {"idle"} /\ Main \in Callers
    BY OffFacts DEF Kinds
  <2>2. IInv /\ call[Main] = Idle /\ Ask(Main, "first page", {FirstUrl}, {}) => IInv'
    BY <2>1, NewCallIInv
  <2>. QED  BY <1>6, <2>2 DEF List
<1>7. CASE OtherPages
  BY <1>7, OtherPagesIInv
<1>8. ASSUME NEW p \in Promises, Answer(p) PROVE IInv'
  BY <1>8, AnswerIInv
<1>9. ASSUME NEW c \in Callers, Return(c) PROVE IInv'
  BY <1>9, ReturnIInv
<1>10. CASE UNCHANGED vars
  <2>1. UNCHANGED <<server, memory, promise, tasks, call, left, unasked, failures, seen>>
    BY <1>10 DEF vars, asked
  <2>2. TypeInv' /\ QueueInv'
    BY <2>1 DEF IInv, TypeInv, QueueInv
  <2>3. UseInv' /\ OnceInv' /\ ReadInv'
    BY <2>1 DEF IInv, UseInv, OnceInv, ReadInv
  <2>. QED  BY <2>2, <2>3 DEF IInv
<1>. QED  BY <1>1, <1>2, <1>3, <1>4, <1>5, <1>6, <1>7, <1>8, <1>9, <1>10 DEF Next

\* The inductive invariant holds of every behaviour of the HTTP client
\* (lib/util/http/index.ts, lib/util/http/queue.ts).
THEOREM Invariant == Spec => []IInv
BY InitIInv, StepIInv, PTL DEF Spec
----------------------------------------------------------------------------
(* What follows *)

LEMMA IInvTypeOK == IInv => TypeOK
BY DEF IInv, TypeInv, QueueInv, TypeOK, Requested, Calls, IsQueued

LEMMA IInvSentOnce == IInv => SentOnce
BY DEF IInv, OnceInv, SentOnce

LEMMA StepReadsForward == IInv /\ [Next]_vars => [\A u \in Urls : seen'[u] >= seen[u]]_vars
<1>. SUFFICES ASSUME IInv, Next PROVE \A u \in Urls : seen'[u] >= seen[u]
  OBVIOUS
<1>1. CASE seen' = seen
  <2>1. \A u \in Urls : seen[u] \in Nat
    BY RequestsAssumption DEF IInv, TypeInv
  <2>. QED  BY <1>1, <2>1
<1>2. ASSUME NEW c \in Callers, Return(c) PROVE \A u \in Urls : seen'[u] >= seen[u]
  BY <1>2, ReturnFacts
<1>3. ASSUME NEW c, NEW what, NEW urls, NEW already, Ask(c, what, urls, already)
      PROVE  seen' = seen
  BY <1>3 DEF Ask
<1>4. seen' = seen \/ \E c \in Callers : Return(c)
  <2>1. (\E u \in Urls : Get(u) \/ Refresh(u) \/ Post(u)) => seen' = seen
    BY <1>3 DEF Get, Refresh, Post
  <2>2. (\E c \in Fetchers, u \in Urls : Fetch(c, u)) => seen' = seen
    BY <1>3 DEF Fetch
  <2>3. List \/ OtherPages => seen' = seen
    BY <1>3 DEF List, OtherPages
  <2>4. (\E p \in Promises : Answer(p)) => seen' = seen
    BY DEF Answer
  <2>5. ResetCaches \/ InitializeCaches \/ (\E u \in Urls : SomebodyWrites(u)) => seen' = seen
    BY DEF ResetCaches, InitializeCaches, SomebodyWrites
  <2>. QED  BY <2>1, <2>2, <2>3, <2>4, <2>5 DEF Next
<1>. QED  BY <1>1, <1>2, <1>4

(***************************************************************************)
(* A run sends the GET of a URL once, but for refreshes, whoever asks for  *)
(* it meanwhile and whatever was answered (Http.request remembers the      *)
(* promise before anybody can ask again).                                  *)
(***************************************************************************)
THEOREM GetsSentOnce == Spec => []SentOnce
BY Invariant, IInvSentOnce, PTL

(***************************************************************************)
(* What the main thread reads of a URL never goes back in time, whatever   *)
(* order answers come in and although lookups share its promises           *)
(* (Http.request, where a refresh replaces the remembered promise).        *)
(***************************************************************************)
THEOREM NeverReadsBack == Spec => ReadsForward
BY Invariant, StepReadsForward, PTL DEF Spec, ReadsForward
----------------------------------------------------------------------------
(* Both parts of the run Requests *)

PagesProofs == INSTANCE GraphqlPagesProofs

LEMMA PagesSpec == MCSpec => PagesProofs!Spec
<1>1. MCInit => PagesProofs!Init
  BY DEF MCInit, PagesProofs!Init, Pages!Init, Pages!NoRecord, PagesProofs!NoRecord
<1>2. Pages!Next => PagesProofs!Next
  BY DEF Pages!Next, PagesProofs!Next, Pages!Begins, PagesProofs!Begins, Pages!Answers,
         PagesProofs!Answers, Pages!Begin, PagesProofs!Begin, Pages!TagsPage,
         PagesProofs!TagsPage, Pages!IssuesPage, PagesProofs!IssuesPage, Pages!TagsShrink,
         PagesProofs!TagsShrink, Pages!IssuesShrink, PagesProofs!IssuesShrink, Pages!GiveUp,
         PagesProofs!GiveUp, Pages!ADayPasses, PagesProofs!ADayPasses, Pages!NoRecord,
         PagesProofs!NoRecord, Pages!Smaller, PagesProofs!Smaller, Pages!Grown,
         PagesProofs!Grown, Pages!PageSize, PagesProofs!PageSize, Pages!AfterGet,
         PagesProofs!AfterGet, Pages!AfterSet, PagesProofs!AfterSet, Pages!Page,
         PagesProofs!Page, Pages!Following, PagesProofs!Following, Pages!CountsPage,
         PagesProofs!CountsPage, Pages!Error, PagesProofs!Error, Pages!Shrunk,
         PagesProofs!Shrunk, Pages!EndIssues, PagesProofs!EndIssues, Pages!listing,
         PagesProofs!listing
<1>3. [MCNext]_all => [PagesProofs!Next]_(PagesProofs!vars)
  BY <1>2 DEF MCNext, OfRequests, OfPages, all, pages, PagesProofs!vars, PagesProofs!listing
<1>. QED  BY <1>1, <1>3, PTL DEF MCSpec, PagesProofs!Spec

LEMMA RequestsSpec == MCSpec => Spec
<1>1. MCInit => Init
  BY DEF MCInit
<1>2. [MCNext]_all => [Next]_vars
  BY DEF MCNext, OfRequests, OfPages, all
<1>. QED  BY <1>1, <1>2, PTL DEF MCSpec, Spec

LEMMA PagesInvariant ==
    MCSpec => [](PagesProofs!TypeOK /\ PagesProofs!ListedInFull /\ PagesProofs!ListsBounded)
<1>1. PagesProofs!PagesAssumption
  BY MCPagesAssumption DEF Pages!PagesAssumption, PagesProofs!PagesAssumption
<1>2. PagesProofs!Spec => [](PagesProofs!TypeOK /\ PagesProofs!ListedInFull
                                               /\ PagesProofs!ListsBounded)
  BY <1>1, PagesProofs!ListsAreRead
<1>. QED  BY <1>2, PagesSpec, PTL

(***************************************************************************)
(* A list read page by page through GraphQL has every item once and in     *)
(* order when no page came without its cursor, up to the limits or a last  *)
(* page nobody answers, for any number of items and any page sizes         *)
(* (queryRepoField in lib/util/http/github.ts and doPaginatedQuery in      *)
(* lib/util/github/graphql/datasource-helper.ts).                         *)
(***************************************************************************)
THEOREM ListingsAreFull == MCSpec => []ListedInFull
<1>1. PagesProofs!ListedInFull => ListedInFull
  BY DEF ListedInFull, Pages!ListedInFull, PagesProofs!ListedInFull
<1>. QED  BY <1>1, PagesInvariant, PTL

(***************************************************************************)
(* What is received of such a list is bounded, even from a host that says  *)
(* there are more pages and does not say where (the limits of              *)
(* doPaginatedQuery and queryRepoField).                                   *)
(***************************************************************************)
THEOREM ListingsAreBounded == MCSpec => []ListsBounded
<1>1. PagesProofs!ListsBounded => ListsBounded
  BY DEF ListsBounded, Pages!ListsBounded, PagesProofs!ListsBounded
<1>. QED  BY <1>1, PagesInvariant, PTL

(***************************************************************************)
(* Both parts keep their types; of the requests, those not answered are    *)
(* the ones in the queue, each once (lib/util/http/index.ts:174).          *)
(***************************************************************************)
THEOREM PartsTypeCorrect == MCSpec => []PartsTypeOK
<1>1. PagesProofs!TypeOK => Pages!TypeOK
  BY DEF Pages!TypeOK, PagesProofs!TypeOK
<1>2. Pages!TypeOK /\ TypeOK => PartsTypeOK
  BY DEF PartsTypeOK
<1>. QED  BY <1>1, <1>2, PagesInvariant, RequestsSpec, Invariant, IInvTypeOK, PTL
=============================================================================
