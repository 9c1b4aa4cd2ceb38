---------------------------- MODULE LookupProofs ----------------------------
(***************************************************************************)
(* That the versions lookupUpdates offers only go up, for all releases,    *)
(* configurations and values there may be.                                 *)
(*                                                                         *)
(* OfferInv: until an update is merged, each one that was offered is a     *)
(* rollback, a pin, or the new value for a newer version than the one the  *)
(* dependency was taken to be at; and if the registry did not change, that *)
(* is still the current version.  From it, NeverDown is a matter of what   *)
(* the carets of the new value match.  StrictInv: with strict checks what  *)
(* was offered stays among what is published, has passed its checks and is *)
(* of its bucket, and additions let the current version only rise.         *)
(***************************************************************************)
EXTENDS Lookup, FiniteSetTheorems, TLAPS

(* Versions are numbers of four digits, and sets of them have a highest *)

Numbers == 1000..9999
Valid == {v \in Numbers : (v % 10) \in {0, 1}}

LEMMA FiniteNumbers ==
    ASSUME NEW S \in SUBSET Numbers
    PROVE  IsFiniteSet(S)
<1> DEFINE a == 1000
           b == 9999
<1>1. a \in Int /\ b \in Int /\ Numbers = a..b
  BY DEF Numbers
<1>2. IsFiniteSet(Numbers)
  <2> HIDE DEF a, b
  <2> QED
    BY <1>1, FS_Interval
<1> QED
  BY <1>2, FS_Subset

AtLeast(S, x) == {y \in S : y >= x}
Mirror(S) == {10999 - x : x \in S}

LEMMA Largest ==
    ASSUME NEW S \in SUBSET Numbers, S # {}
    PROVE  Max(S) \in S /\ \A y \in S : Max(S) >= y
<1> DEFINE T == {AtLeast(S, x) : x \in S}
           R == StrictSubsetOrdering(S)
<1>2. T \subseteq FiniteSubsetsOf(S) /\ T # {}
  <2>1. ASSUME NEW x \in S PROVE AtLeast(S, x) \in FiniteSubsetsOf(S)
    <3>1. AtLeast(S, x) \in SUBSET S
      BY DEF AtLeast
    <3>2. AtLeast(S, x) \in SUBSET Numbers
      BY <3>1
    <3>3. IsFiniteSet(AtLeast(S, x))
      BY <3>2, FiniteNumbers
    <3> QED
      BY <3>1, <3>3 DEF FiniteSubsetsOf
  <2> QED
    BY <2>1
<1>3. PICK t \in T : \A y \in T : <<y, t>> \notin R
  <2>1. IsWellFoundedOn(R, FiniteSubsetsOf(S))
    BY FS_StrictSubsetOrderingWellFounded
  <2> HIDE DEF T, R
  <2> QED
    BY <1>2, <2>1, WFMin
<1>4. PICK x \in S : t = AtLeast(S, x)
  OBVIOUS
<1>5. \A y \in S : x >= y
  <2> SUFFICES ASSUME NEW y \in S, ~(x >= y) PROVE FALSE
    OBVIOUS
  <2>0. x \in Int /\ y \in Int /\ x < y /\ S \subseteq Int
    BY DEF Numbers
  <2>1. AtLeast(S, y) \subseteq AtLeast(S, x)
    <3>1. \A z \in S : z >= y => z >= x
      BY <2>0
    <3> QED
      BY <3>1 DEF AtLeast
  <2>2. x \in AtLeast(S, x) /\ x \notin AtLeast(S, y)
    BY <2>0 DEF AtLeast
  <2>3. AtLeast(S, y) \in SUBSET S /\ AtLeast(S, x) \in SUBSET S
    BY DEF AtLeast
  <2>4. <<AtLeast(S, y), AtLeast(S, x)>> \in R
    BY <2>1, <2>2, <2>3 DEF StrictSubsetOrdering
  <2> QED
    BY <1>3, <1>4, <2>4
<1>6. \E z \in S : \A y \in S : z >= y
  BY <1>5
<1> QED
  BY <1>6 DEF Max

LEMMA Smallest ==
    ASSUME NEW S \in SUBSET Numbers, S # {}
    PROVE  Min(S) \in S /\ \A y \in S : Min(S) <= y
<1>0. \A x \in S : x \in Numbers /\ 10999 - x \in Numbers
  BY DEF Numbers
<1>1. Mirror(S) \in SUBSET Numbers /\ Mirror(S) # {}
  BY <1>0 DEF Mirror
<1>2. PICK m \in Mirror(S) : \A y \in Mirror(S) : m >= y
  BY <1>1, Largest
<1>3. PICK x \in S : m = 10999 - x
  BY DEF Mirror
<1>4. \A y \in S : x <= y
  <2> TAKE y \in S
  <2>1. PICK z \in Mirror(S) : z = 10999 - y
    BY DEF Mirror
  <2>2. m >= z
    BY <1>2
  <2>3. x \in Int /\ y \in Int
    BY DEF Numbers
  <2> QED
    BY <1>3, <2>1, <2>2, <2>3
<1>5. \E z \in S : \A y \in S : z <= y
  BY <1>4
<1> QED
  BY <1>5 DEF Min

(* The digits of a version *)

LEMMA MajorDigit == \A v \in Numbers : Major(v) \in 1..9
BY SMTT(30) DEF Major, Numbers

LEMMA MinorDigit == \A v \in Numbers : Minor(v) \in 0..9
BY SMTT(30) DEF Minor, Numbers

LEMMA PatchDigit == \A v \in Numbers : Patch(v) \in 0..9
BY SMTT(30) DEF Patch, Numbers

LEMMA Triple == \A v \in Numbers : v \div 10 = 100 * Major(v) + 10 * Minor(v) + Patch(v)
BY SMTT(30) DEF Major, Minor, Patch, Numbers

LEMMA LastDigit == \A v \in Numbers : v = 10 * (v \div 10) + (v % 10)
BY SMTT(30) DEF Numbers

LEMMA StableDigit == \A v \in Valid : (v % 10) \in {0, 1} /\ (Stable(v) <=> (v % 10) = 1)
BY DEF Valid, Stable

LEMMA Digits ==
    ASSUME NEW v \in Valid
    PROVE  /\ v \in Numbers /\ v \in Int
           /\ Major(v) \in 1..9 /\ Minor(v) \in 0..9 /\ Patch(v) \in 0..9
           /\ v = 1000 * Major(v) + 100 * Minor(v) + 10 * Patch(v) + (v % 10)
           /\ (v % 10) \in {0, 1} /\ (Stable(v) <=> (v % 10) = 1)
<1>1. v \in Numbers /\ v \in Int
  BY DEF Valid, Numbers
<1>2. Major(v) \in 1..9 /\ Minor(v) \in 0..9 /\ Patch(v) \in 0..9
  BY <1>1, MajorDigit, MinorDigit, PatchDigit
<1>3. v = 1000 * Major(v) + 100 * Minor(v) + 10 * Patch(v) + (v % 10)
  <2>1. v = 10 * (v \div 10) + (v % 10)
    BY <1>1, LastDigit
  <2>2. v \div 10 = 100 * Major(v) + 10 * Minor(v) + Patch(v)
    BY <1>1, Triple
  <2>3. (v % 10) \in Int
    BY StableDigit
  <2> QED
    BY <1>2, <2>1, <2>2, <2>3
<1> QED
  BY <1>1, <1>2, <1>3, StableDigit

LEMMA Triples ==
    ASSUME NEW u \in Valid, NEW v \in Valid
    PROVE  SameTriple(u, v) <=> Major(u) = Major(v) /\ Minor(u) = Minor(v) /\ Patch(u) = Patch(v)
<1>1. u \div 10 = 100 * Major(u) + 10 * Minor(u) + Patch(u)
  BY Digits, Triple
<1>2. v \div 10 = 100 * Major(v) + 10 * Minor(v) + Patch(v)
  BY Digits, Triple
<1>3. /\ Major(u) \in 1..9 /\ Minor(u) \in 0..9 /\ Patch(u) \in 0..9
      /\ Major(v) \in 1..9 /\ Minor(v) \in 0..9 /\ Patch(v) \in 0..9
  BY Digits
<1>4. SameTriple(u, v) <=> (100 * Major(u) + 10 * Minor(u) + Patch(u)
                            = 100 * Major(v) + 10 * Minor(v) + Patch(v))
  BY <1>1, <1>2 DEF SameTriple
<1> DEFINE a == Major(u)
           b == Major(v)
           c == Minor(u)
           d == Minor(v)
           e == Patch(u)
           f == Patch(v)
<1>5. (100 * a + 10 * c + e = 100 * b + 10 * d + f) <=> (a = b /\ c = d /\ e = f)
  <2> HIDE DEF a, b, c, d, e, f
  <2>1. /\ a \in 1..9 /\ c \in 0..9 /\ e \in 0..9
        /\ b \in 1..9 /\ d \in 0..9 /\ f \in 0..9
    BY <1>3 DEF a, b, c, d, e, f
  <2> QED
    BY <2>1
<1> QED
  BY <1>4, <1>5

LEMMA FirstOfMajor ==
    ASSUME NEW v \in Valid
    PROVE  LET g == Major(v) * 1000 + 1
           IN  g \in Valid /\ Major(g) = Major(v) /\ Stable(g) /\ (Stable(v) => v >= g)
<1> DEFINE g == Major(v) * 1000 + 1
<1>1. Major(v) \in 1..9 /\ v >= 1000 * Major(v) + (v % 10)
  BY Digits
<1>2. /\ \A m \in 1..9 : (m * 1000 + 1) \in 1000..9999
      /\ \A m \in 1..9 : (m * 1000 + 1) % 10 = 1
      /\ \A m \in 1..9 : (m * 1000 + 1) \div 1000 = m
  <2>1. \A m \in 1..9 : (m * 1000 + 1) \in 1000..9999
    OBVIOUS
  <2>2. \A m \in 1..9 : (m * 1000 + 1) % 10 = 1
    BY SMTT(30)
  <2>3. \A m \in 1..9 : (m * 1000 + 1) \div 1000 = m
    BY SMTT(30)
  <2> QED
    BY <2>1, <2>2, <2>3
<1>3. g \in 1000..9999 /\ g % 10 = 1 /\ g \div 1000 = Major(v)
  BY <1>1, <1>2
<1>4. g \in Valid /\ Stable(g) /\ Major(g) = Major(v)
  <2> HIDE DEF g
  <2> QED
    BY <1>3 DEF Valid, Numbers, Stable, Major
<1>5. Stable(v) => v >= g
  BY <1>1, Digits
<1> QED
  BY <1>4, <1>5

LEMMA MajorsInOrder ==
    ASSUME NEW u \in Valid, NEW v \in Valid
    PROVE  /\ Major(u) > Major(v) => u > v
           /\ u >= v => Major(u) >= Major(v)
           /\ (Major(u) = Major(v) /\ Minor(u) >= Minor(v) /\ Patch(u) >= Patch(v) /\ Stable(u)) => u >= v
           /\ (SameTriple(u, v) /\ (Stable(u) <=> Stable(v))) => u = v
<1> DEFINE U == u % 10
           V == v % 10
<1>1. /\ u = 1000 * Major(u) + 100 * Minor(u) + 10 * Patch(u) + U
      /\ Major(u) \in 1..9 /\ Minor(u) \in 0..9 /\ Patch(u) \in 0..9 /\ U \in {0, 1}
      /\ Stable(u) <=> U = 1
  BY Digits
<1>2. /\ v = 1000 * Major(v) + 100 * Minor(v) + 10 * Patch(v) + V
      /\ Major(v) \in 1..9 /\ Minor(v) \in 0..9 /\ Patch(v) \in 0..9 /\ V \in {0, 1}
      /\ Stable(v) <=> V = 1
  BY Digits
<1>3. SameTriple(u, v) => Major(u) = Major(v) /\ Minor(u) = Minor(v) /\ Patch(u) = Patch(v)
  BY Triples
<1> HIDE DEF U, V
<1>4. (Stable(u) <=> Stable(v)) => U = V
  BY <1>1, <1>2
<1> DEFINE a == Major(u)
           b == Major(v)
           c == Minor(u)
           d == Minor(v)
           e == Patch(u)
           f == Patch(v)
<1>8. /\ u = 1000 * a + 100 * c + 10 * e + U /\ v = 1000 * b + 100 * d + 10 * f + V
      /\ a \in 1..9 /\ b \in 1..9 /\ c \in 0..9 /\ d \in 0..9 /\ e \in 0..9 /\ f \in 0..9
      /\ U \in 0..1 /\ V \in 0..1 /\ (Stable(u) => U = 1)
  BY <1>1, <1>2
<1>5. /\ a > b => u > v
      /\ u >= v => a >= b
  <2> HIDE DEF a, b, c, d, e, f
  <2>1. a > b => u > v
    BY <1>8
  <2>2. u >= v => a >= b
    BY <1>8
  <2> QED
    BY <2>1, <2>2
<1>6. (a = b /\ c >= d /\ e >= f /\ Stable(u)) => u >= v
  <2> HIDE DEF a, b, c, d, e, f
  <2> QED
    BY <1>8
<1>7. (SameTriple(u, v) /\ (Stable(u) <=> Stable(v))) => u = v
  BY <1>1, <1>2, <1>3, <1>4
<1> QED
  BY <1>5, <1>6, <1>7

(* What carets match, and what new values allow *)

\* what a caret matches is of its major version and not older, and, if the
\* caret is before a prerelease, it is that one or stable
LEMMA CaretFacts ==
    ASSUME NEW v \in Valid, NEW f \in Valid, MatchesCaret(v, f)
    PROVE  Major(v) = Major(f) /\ v >= f /\ (Stable(f) => Stable(v)) /\ (~Stable(v) => v = f)
BY MajorsInOrder DEF MatchesCaret

LEMMA MatchesItself ==
    ASSUME NEW v \in Valid
    PROVE  MatchesCaret(v, v)
BY Digits DEF MatchesCaret, SameTriple

LEMMA ReplacedCaret ==
    ASSUME NEW from \in Valid, NEW to \in Valid, Stable(to)
    PROVE  LET g == ReplaceCaret(from, to)
           IN  /\ g \in Valid /\ MatchesCaret(to, g)
               /\ \/ g = to
                  \/ g = from
                  \/ Major(to) > Major(from) /\ Major(g) = Major(to) /\ Stable(g)
<1>1. CASE Major(to) > Major(from)
  BY <1>1, FirstOfMajor DEF ReplaceCaret, MatchesCaret
<1>2. CASE ~(Major(to) > Major(from)) /\ ReplaceCaret(from, to) = to
  BY <1>2, MatchesItself
<1>3. CASE ~(Major(to) > Major(from)) /\ ReplaceCaret(from, to) # to
  <2>1. /\ ReplaceCaret(from, to) = from
        /\ ~(Major(to) < Major(from)) /\ ~(Minor(to) < Minor(from)) /\ ~(Patch(to) < Patch(from))
    BY <1>3 DEF ReplaceCaret
  <2>2. Major(to) = Major(from) /\ Minor(to) >= Minor(from) /\ Patch(to) >= Patch(from)
    BY <1>3, <2>1, Digits
  <2>3. to >= from
    BY <2>2, MajorsInOrder
  <2> QED
    BY <2>1, <2>2, <2>3 DEF MatchesCaret
<1> QED
  BY <1>1, <1>2, <1>3

IsValue(val) ==
    /\ val.form \in {"version", "range"} /\ val.of # {} /\ val.of \in SUBSET Valid
    /\ val.form = "version" => \E v \in val.of : val.of = {v}

LEMMA ValuesAre ==
    ASSUME NEW v \in Valid
    PROVE  /\ IsValue(Version(v)) /\ Version(v).form = "version" /\ Version(v).of = {v}
           /\ IsValue(Caret(v)) /\ Caret(v).form = "range" /\ Caret(v).of = {v}
BY DEF IsValue, Version, Caret, Value

LEMMA VersionsAreValid == Versions \subseteq Valid /\ Versions \subseteq Numbers /\ None \notin Valid
<1>1. Versions \subseteq 1000..9999 /\ \A v \in Versions : v % 10 \in {0, 1}
  BY LookupAssumption
<1> QED
  BY <1>1 DEF Valid, Numbers, None

\* the new value of an update allows its version
LEMMA NewValueAllows ==
    ASSUME NEW val, IsValue(val), NEW strategy, NEW from \in Valid \cup {None}, NEW to \in Valid
    PROVE  /\ IsValue(NewValue(val, strategy, from, to))
           /\ Matches(to, NewValue(val, strategy, from, to))
           /\ IsValue(Replaced(val, from, to))
           /\ Matches(to, Replaced(val, from, to))
<1>1. IsValue(Version(to)) /\ Matches(to, Version(to)) /\ IsValue(Caret(to)) /\ Matches(to, Caret(to))
  BY ValuesAre, MatchesItself DEF Matches
<1>2. /\ IsValue(Replaced(val, from, to)) /\ Matches(to, Replaced(val, from, to))
      /\ val.form # "version" => Replaced(val, from, to).form = "range"
  <2>1. CASE val.form = "version"
    BY <1>1, <2>1 DEF Replaced
  <2>2. CASE val.form # "version" /\ (~Stable(to) \/ from = None)
    BY <1>1, <2>2, ValuesAre DEF Replaced
  <2>3. CASE val.form # "version" /\ ~(~Stable(to) \/ from = None)
    <3> DEFINE g == ReplaceCaret(from, to)
    <3>1. g \in Valid /\ MatchesCaret(to, g)
      BY <2>3, ReplacedCaret
    <3>2. Replaced(val, from, to) = Caret(g)
      BY <2>3 DEF Replaced
    <3> HIDE DEF g
    <3> QED
      BY <3>1, <3>2, ValuesAre DEF Matches
  <2> QED
    BY <2>1, <2>2, <2>3
<1>3. CASE strategy = "pin" \/ val.form = "version"
  BY <1>1, <1>2, <1>3 DEF NewValue
<1>4. CASE ~(strategy = "pin" \/ val.form = "version")
           /\ strategy \in {"update-lockfile", "widen"} /\ Matches(to, val)
  BY <1>2, <1>4 DEF NewValue
<1>5. CASE ~(strategy = "pin" \/ val.form = "version") /\ strategy = "widen" /\ ~Matches(to, val)
  <2> DEFINE r == Replaced(val, from, to)
             w == Value("range", val.of \cup r.of)
  <2>1. NewValue(val, strategy, from, to) = w /\ w.form = "range" /\ w.of = val.of \cup r.of
    BY <1>5 DEF NewValue, Value
  <2>2. r.form = "range" /\ IsValue(r) /\ Matches(to, r)
    BY <1>2, <1>5
  <2> HIDE DEF r, w
  <2>3. IsValue(w)
    BY <2>1, <2>2 DEF IsValue
  <2>4. Matches(to, w)
    BY <2>1, <2>2 DEF Matches
  <2> QED
    BY <1>2, <2>1, <2>3, <2>4
<1>6. CASE ~(strategy = "pin" \/ val.form = "version")
           /\ ~(strategy \in {"update-lockfile", "widen"} /\ Matches(to, val)) /\ strategy # "widen"
  BY <1>1, <1>2, <1>6 DEF NewValue
<1> QED
  BY <1>3, <1>4, <1>5, <1>6

(* The inductive invariant of TypeOK *)

IsOffer(u) ==
    /\ IsValue(u.value) /\ u.version \in Versions /\ Matches(u.version, u.value)

TypeInv ==
    /\ config \in Configs
    /\ published \in SUBSET Versions /\ deprecated \in SUBSET published
    /\ aged \in SUBSET published /\ latest \in published \cup {None}
    /\ IsValue(value)
    /\ locked \in Versions \cup {None} /\ (locked # None => Matches(locked, value))
    /\ \A u \in offered : IsOffer(u)
    /\ events \in 0..MaxEvents /\ since \subseteq {"addition", "other", "merge"}

LEMMA TypeInvType == TypeInv => TypeOK
<1> SUFFICES ASSUME TypeInv PROVE TypeOK
  OBVIOUS
<1>1. value.form = "version" => Cardinality(value.of) = 1
  <2> SUFFICES ASSUME value.form = "version" PROVE Cardinality(value.of) = 1
    OBVIOUS
  <2>1. PICK v \in value.of : value.of = {v}
    BY DEF TypeInv, IsValue
  <2> QED
    BY <2>1, FS_Singleton
<1> QED
  BY <1>1 DEF TypeInv, TypeOK, IsValue

LEMMA HighestOf ==
    ASSUME NEW vs \in SUBSET Versions
    PROVE  /\ vs = {} => Highest(vs) = None
           /\ vs # {} => Highest(vs) \in vs /\ \A v \in vs : Highest(vs) >= v
           /\ vs # {} => Max(vs) \in vs /\ \A v \in vs : Max(vs) >= v
BY Largest, VersionsAreValid DEF Highest

LEMMA LowestOf ==
    ASSUME NEW vs \in SUBSET Versions
    PROVE  /\ vs = {} => Lowest(vs) = None
           /\ vs # {} => Lowest(vs) \in vs
BY Smallest, VersionsAreValid DEF Lowest

LEMMA SatisfyingOf ==
    ASSUME NEW vs \in SUBSET Versions, NEW val
    PROVE  Satisfying(vs, val) \in SUBSET vs /\ \A v \in Satisfying(vs, val) : Matches(v, val)
BY DEF Satisfying

\* the current version is one the value allows
LEMMA CurrentOfMatches ==
    ASSUME TypeInv, NEW vs \in SUBSET published
    PROVE  /\ CurrentOf(vs) # None => CurrentOf(vs) \in Valid /\ Matches(CurrentOf(vs), value)
           /\ value.form = "range" => CurrentOf(vs) \in Versions \cup {None}
<1> DEFINE matching == Satisfying(vs, value)
           use == IF latest # None /\ Matches(latest, value)
                  THEN {v \in matching : v <= latest} ELSE matching
<1>1. vs \in SUBSET Versions /\ matching \in SUBSET vs /\ \A v \in matching : Matches(v, value)
  BY SatisfyingOf DEF TypeInv
<1>2. use \in SUBSET matching
  OBVIOUS
<1>3. /\ Highest(use) # None => Highest(use) \in matching
      /\ Lowest(use) # None => Lowest(use) \in matching
  BY <1>1, <1>2, HighestOf, LowestOf
<1>4. CASE value.form = "version"
  <2>1. CurrentOf(vs) = CHOOSE v \in value.of : TRUE
    BY <1>4 DEF CurrentOf
  <2>2. CurrentOf(vs) \in value.of
    BY <2>1, <1>4 DEF TypeInv, IsValue
  <2> QED
    BY <2>2, <1>4 DEF TypeInv, IsValue, Matches
<1>5. CASE value.form = "range"
  <2>1. CurrentOf(vs) \in {locked, Highest(use), Lowest(use)}
    BY <1>5 DEF CurrentOf
  <2> QED
    BY <2>1, <1>1, <1>3, VersionsAreValid DEF TypeInv
<1> QED
  BY <1>4, <1>5 DEF TypeInv, IsValue

LEMMA CurrentMatches ==
    ASSUME TypeInv, Current # None
    PROVE  Current \in Valid /\ Matches(Current, value) /\ (value.form = "range" => Current \in Versions)
<1>1. published \ deprecated \in SUBSET published /\ published \in SUBSET published
  OBVIOUS
<1> QED
  BY <1>1, CurrentOfMatches, VersionsAreValid DEF Current, TypeInv

(* What the updates of a run are *)

\* an update of a bucket, of a dependency that was taken to be at c
BucketOffer(u, c) ==
    /\ u.type # "pin"
    /\ c \in Valid /\ Matches(c, value) /\ u.version > c
    /\ ~IsTooUnstable(u.version, c)
    /\ u.value = NewValue(value, RangeStrategy, From(c), u.version)
    /\ u.lockfile <=> (RangeStrategy = "update-lockfile" /\ u.value = value)
    /\ (locked # None /\ value.form = "range" /\ RangeStrategy \in {"pin", "update-lockfile"})
        => c = locked
PinOffer(u) ==
    /\ value.form = "range" /\ RangeStrategy = "pin"
    /\ u.value = Version(u.version) /\ ~u.lockfile
    /\ locked # None => u.version = locked
Explained(u) ==
    \/ u.type = "rollback"
    \/ PinOffer(u) /\ (since = {} => u.version = Current)
    \/ \E c \in Valid : BucketOffer(u, c) /\ (since = {} => c = Current)

LEMMA PickedIs ==
    ASSUME NEW releases \in SUBSET Versions, releases # {}
    PROVE  Picked(releases).version \in releases
<1>1. releases \cap aged \in SUBSET Versions
  OBVIOUS
<1> QED
  BY <1>1, HighestOf DEF Picked

LEMMA CurrentIsLocked ==
    ASSUME TypeInv, locked # None, value.form = "range", RangeStrategy \in {"pin", "update-lockfile"}
    PROVE  Current = locked
<1>1. CASE RangeStrategy = "update-lockfile"
  BY <1>1 DEF Current
<1>2. CASE RangeStrategy = "pin"
  BY <1>2 DEF Current, CurrentOf
<1> QED
  BY <1>1, <1>2

LEMMA BucketUpdatesOffered ==
    ASSUME TypeInv, Current # None, NEW u \in BucketUpdates(Current)
    PROVE  IsOffer(u) /\ BucketOffer(u, Current)
<1> DEFINE current == Current
           filtered == Filtered(current)
           Of(b) == {v \in filtered : Bucket(v, current) = b}
           UpdateOf(b) ==
             Update(UpdateType(Picked(Of(b)).version, From(current)), b,
                    NewValue(value, RangeStrategy, From(current), Picked(Of(b)).version),
                    Picked(Of(b)).version, Picked(Of(b)).pending)
<1>1. PICK x \in filtered : u = UpdateOf(Bucket(x, current))
  BY DEF BucketUpdates
<1> DEFINE S == Of(Bucket(x, current))
           w == Picked(S).version
<1>2. filtered \subseteq published /\ S \subseteq filtered /\ x \in S
  BY DEF Filtered, Satisfying
<1>3. w \in S
  <2> HIDE DEF S
  <2> QED
    BY <1>2, PickedIs DEF TypeInv
<1>4. w > current /\ ~IsTooUnstable(w, current) /\ w \in Versions
  BY <1>2, <1>3 DEF Filtered, TypeInv
<1>5. /\ u.version = w /\ u.value = NewValue(value, RangeStrategy, From(current), w)
      /\ u.lockfile = (RangeStrategy = "update-lockfile" /\ u.value = value)
      /\ u.type # "pin"
  BY <1>1 DEF Update, UpdateType
<1>6. current \in Valid /\ Matches(current, value)
  BY CurrentMatches
<1>7. From(current) \in Valid \cup {None} /\ w \in Valid
  BY <1>4, <1>6, VersionsAreValid DEF From, TypeInv
<1> HIDE DEF w, S, UpdateOf
<1>8. IsOffer(u)
  BY <1>4, <1>5, <1>7, NewValueAllows DEF IsOffer, TypeInv
<1>9. BucketOffer(u, current)
  BY <1>4, <1>5, <1>6, CurrentIsLocked DEF BucketOffer
<1> QED
  BY <1>8, <1>9

LEMMA PinsOffered ==
    ASSUME TypeInv, Current # None, NEW u \in Pins(Current)
    PROVE  IsOffer(u) /\ PinOffer(u) /\ u.version = Current
<1>1. /\ u = Update("pin", <<"pin">>, Version(Current), Current, FALSE)
      /\ value.form = "range" /\ RangeStrategy = "pin"
  BY DEF Pins
<1>2. u.version = Current /\ u.value = Version(Current) /\ ~u.lockfile
  BY <1>1 DEF Update
<1>3. Current \in Valid /\ Current \in Versions
  BY <1>1, CurrentMatches
<1>4. IsOffer(u)
  BY <1>2, <1>3, ValuesAre DEF IsOffer, Matches
<1> QED
  BY <1>1, <1>2, <1>4, CurrentIsLocked DEF PinOffer

LEMMA RollbacksOffered ==
    ASSUME TypeInv, NEW u \in Rollbacks
    PROVE  IsOffer(u) /\ u.type = "rollback"
<1> DEFINE lower == {v \in published : IsLessThanRange(v, value)}
           stable == {v \in lower : Stable(v)}
<1>1. /\ RolledBack # None
      /\ u = Update("rollback", <<"rollback">>, Replaced(value, None, RolledBack), RolledBack, FALSE)
  BY DEF Rollbacks
<1>2. lower \in SUBSET Versions /\ stable \in SUBSET Versions
  BY DEF TypeInv
<1>3. RolledBack \in Versions
  <2>1. RolledBack = IF ValueIsStable /\ stable # {} THEN Max(stable) ELSE Highest(lower)
    BY DEF RolledBack
  <2> HIDE DEF lower, stable
  <2> QED
    BY <1>1, <1>2, <2>1, HighestOf
<1>4. RolledBack \in Valid
  BY <1>3, VersionsAreValid
<1>5. IsValue(Replaced(value, None, RolledBack)) /\ Matches(RolledBack, Replaced(value, None, RolledBack))
  BY <1>4, NewValueAllows DEF TypeInv
<1> QED
  BY <1>1, <1>3, <1>5 DEF IsOffer, Update

LEMMA UpdatesExplained ==
    ASSUME TypeInv, NEW u \in Updates
    PROVE  /\ IsOffer(u)
           /\ \/ u.type = "rollback"
              \/ PinOffer(u) /\ u.version = Current
              \/ Current \in Valid /\ BucketOffer(u, Current)
<1>1. \/ u \in Rollbacks
      \/ Current # None /\ u \in Pins(Current)
      \/ Current # None /\ u \in BucketUpdates(Current)
  BY DEF Updates
<1> QED
  BY <1>1, RollbacksOffered, PinsOffered, BucketUpdatesOffered, CurrentMatches

(* What is installed *)

\* what is installed without a locked version
LEMMA InstallsFree ==
    ASSUME TypeInv, NEW val
    PROVE  LET all == Satisfying(published, val)
               i == Installs(val, None)
           IN  /\ all \in SUBSET Versions /\ i \in all \cup {None}
               /\ all = {} => i = None
               /\ all # {} => i \in all
               /\ latest \in all => i = latest
               /\ (latest \notin all /\ all \ deprecated # {})
                    => i \in all \ deprecated /\ \A v \in all \ deprecated : i >= v
<1> DEFINE all == Satisfying(published, val)
           i == Installs(val, None)
<1>1. all \in SUBSET Versions /\ all \ deprecated \in SUBSET Versions
  BY DEF TypeInv, Satisfying
<1>2. i = IF latest \in all THEN latest
          ELSE IF all \ deprecated # {} THEN Max(all \ deprecated)
          ELSE Highest(all)
  BY DEF Installs
<1>3. /\ i \in all \cup {None} /\ (all = {} => i = None) /\ (all # {} => i \in all)
      /\ latest \in all => i = latest
      /\ (latest \notin all /\ all \ deprecated # {})
           => i \in all \ deprecated /\ \A v \in all \ deprecated : i >= v
  <2> HIDE DEF all, i
  <2>1. CASE latest \in all
    BY <1>2, <2>1
  <2>2. CASE latest \notin all /\ all \ deprecated # {}
    <3>1. /\ Max(all \ deprecated) \in all \ deprecated
          /\ \A v \in all \ deprecated : Max(all \ deprecated) >= v
      BY <1>1, <2>2, HighestOf
    <3> QED
      BY <1>2, <2>2, <3>1
  <2>3. CASE latest \notin all /\ all \ deprecated = {}
    <3>1. (all = {} => Highest(all) = None) /\ (all # {} => Highest(all) \in all)
      BY <1>1, HighestOf
    <3> QED
      BY <1>2, <2>3, <3>1
  <2> QED
    BY <2>1, <2>2, <2>3
<1> QED
  BY <1>1, <1>3

LEMMA InstallsLocked ==
    ASSUME NEW val, NEW lock
    PROVE  /\ (lock # None /\ Matches(lock, val)) => Installs(val, lock) = lock
           /\ (lock = None \/ ~Matches(lock, val)) => Installs(val, lock) = Installs(val, None)
BY DEF Installs

LEMMA InstallsMatches ==
    ASSUME TypeInv, NEW val, NEW lock \in Versions \cup {None}
    PROVE  /\ Installs(val, lock) \in Versions \cup {None}
           /\ Installs(val, lock) # None => Matches(Installs(val, lock), val)
<1>1. Installs(val, None) \in Satisfying(published, val) \cup {None}
      /\ Satisfying(published, val) \in SUBSET Versions
  BY InstallsFree
<1>2. \A v \in Satisfying(published, val) : Matches(v, val)
  BY DEF Satisfying
<1> QED
  BY <1>1, <1>2, InstallsLocked

(* Every step keeps the types *)

LEMMA InitTypeInv == Init => TypeInv
<1> SUFFICES ASSUME Init PROVE TypeInv
  OBVIOUS
<1>1. published \in SUBSET Versions /\ deprecated \in SUBSET published /\ aged \in SUBSET published
  BY LookupAssumption DEF Init
<1>2. latest \in published \cup {None}
  <2>1. FirstPublished \in SUBSET Versions
    BY LookupAssumption
  <2>2. Highest(FirstPublished) \in FirstPublished \cup {None}
    BY <2>1, HighestOf
  <2> QED
    BY <2>2 DEF Init
<1>3. IsValue(value)
  <2>1. value \in FirstValues
    BY DEF Init
  <2>2. /\ value.form \in {"version", "range"}
        /\ value.of # {} /\ value.of \subseteq {v \in 1000..9999 : v % 10 \in {0, 1}}
        /\ value.form = "version" => \E v \in value.of : value.of = {v}
    BY <2>1, LookupAssumption
  <2> QED
    BY <2>2 DEF IsValue, Valid, Numbers
<1>4. locked \in Versions \cup {None} /\ (locked # None => Matches(locked, value))
  <2>1. FirstPublished \in SUBSET Versions
    BY LookupAssumption
  <2>2. Satisfying(FirstPublished, value) \in SUBSET FirstPublished
        /\ \A v \in Satisfying(FirstPublished, value) : Matches(v, value)
    BY <2>1, SatisfyingOf
  <2> QED
    BY <2>1, <2>2 DEF Init
<1>5. events \in 0..MaxEvents
  BY LookupAssumption DEF Init
<1> QED
  BY <1>1, <1>2, <1>3, <1>4, <1>5 DEF Init, TypeInv

LEMMA RegistryTypeInv ==
    ASSUME TypeInv, NEW v \in Versions,
           Publish(v) \/ Unpublish(v) \/ Deprecate(v) \/ TagLatest(v) \/ PassChecks(v)
    PROVE  TypeInv'
<1>1. UNCHANGED <<config, value, locked, offered>>
  BY DEF Publish, Unpublish, Deprecate, TagLatest, PassChecks, Happens
<1>2. events' \in 0..MaxEvents /\ since' \subseteq {"addition", "other", "merge"}
  <2>1. \/ events' = events
        \/ events < MaxEvents /\ events' = events + 1
    BY DEF Publish, Unpublish, Deprecate, TagLatest, PassChecks, Happens
  <2>2. since' \in {since \cup {"addition"}, since \cup {"other"}}
    BY DEF Publish, Unpublish, Deprecate, TagLatest, PassChecks, Happens
  <2>3. MaxEvents \in Nat /\ events \in 0..MaxEvents /\ since \subseteq {"addition", "other", "merge"}
    BY LookupAssumption DEF TypeInv
  <2>4. events' \in 0..MaxEvents
    BY <2>1, <2>3
  <2> QED
    BY <2>2, <2>3, <2>4
<1>3. /\ published' \in SUBSET Versions /\ deprecated' \in SUBSET published'
      /\ aged' \in SUBSET published' /\ latest' \in published' \cup {None}
  <2>1. CASE Publish(v)
    BY <2>1 DEF TypeInv, Publish
  <2>2. CASE Unpublish(v)
    BY <2>2 DEF TypeInv, Unpublish
  <2>3. CASE Deprecate(v)
    BY <2>3 DEF TypeInv, Deprecate
  <2>4. CASE TagLatest(v)
    BY <2>4 DEF TypeInv, TagLatest
  <2>5. CASE PassChecks(v)
    BY <2>5 DEF TypeInv, PassChecks
  <2> QED
    BY <2>1, <2>2, <2>3, <2>4, <2>5
<1>4. (\A u \in offered : IsOffer(u))' /\ (locked # None => Matches(locked, value))'
  BY <1>1 DEF TypeInv, IsOffer, IsValue, Matches, MatchesCaret
<1>5. IsValue(value)' /\ (locked \in Versions \cup {None})' /\ (config \in Configs)'
  BY <1>1 DEF TypeInv, IsValue
<1> QED
  BY <1>2, <1>3, <1>4, <1>5 DEF TypeInv

LEMMA LookTypeInv ==
    ASSUME TypeInv, Look
    PROVE  TypeInv'
<1>1. \A u \in Updates : IsOffer(u)
  BY UpdatesExplained
<1>2. offered' = Updates /\ UNCHANGED <<config, registry, value, locked>> /\ since' = {}
  BY DEF Look
<1>3. \A u \in offered' : IsOffer(u)
  BY <1>1, <1>2
<1>4. (\A u \in offered : IsOffer(u))' /\ (locked # None => Matches(locked, value))'
  BY <1>2, <1>3 DEF TypeInv, IsOffer
<1> QED
  BY <1>2, <1>4 DEF TypeInv, registry, IsValue

LEMMA MergeTypeInv ==
    ASSUME TypeInv, NEW u \in offered, Merge(u)
    PROVE  TypeInv'
<1>1. /\ value' = u.value /\ UNCHANGED <<config, registry, offered>>
      /\ locked' = IF locked = None THEN None
                   ELSE IF u.lockfile THEN u.version ELSE Installs(u.value, locked)
      /\ since' = since \cup {"merge"}
  BY DEF Merge
<1>2. IsOffer(u)
  BY DEF TypeInv
<1>3. locked' \in Versions \cup {None} /\ (locked' # None => Matches(locked', value'))
  BY <1>1, <1>2, InstallsMatches DEF TypeInv, IsOffer
<1>4. IsValue(value')
  BY <1>1, <1>2 DEF IsOffer
<1> QED
  BY <1>1, <1>3, <1>4 DEF TypeInv, registry, IsOffer, IsValue

LEMMA StepTypeInv == TypeInv /\ [Next]_vars => TypeInv'
<1> SUFFICES ASSUME TypeInv, [Next]_vars PROVE TypeInv'
  OBVIOUS
<1>1. CASE \E v \in Versions : Publish(v) \/ Unpublish(v) \/ Deprecate(v) \/ TagLatest(v)
  BY <1>1, RegistryTypeInv
<1>2. CASE OnePasses
  BY <1>2, RegistryTypeInv DEF OnePasses
<1>3. CASE Look
  BY <1>3, LookTypeInv
<1>4. CASE MergeOne
  BY <1>4, MergeTypeInv DEF MergeOne
<1>5. CASE UNCHANGED vars
  BY <1>5 DEF vars, registry, TypeInv, IsOffer, IsValue, Matches, MatchesCaret
<1> QED
  BY <1>1, <1>2, <1>3, <1>4, <1>5 DEF Next

(* Values and versions stay in their sets, whatever the registry has, and a *)
(* locked version is one that the value in the package file allows.         *)
THEOREM TypeCorrect == Spec => []TypeOK
<1>1. Spec => []TypeInv
  BY InitTypeInv, StepTypeInv, PTL DEF Spec
<1> QED
  BY <1>1, TypeInvType, PTL

\* what the last run offered, until the first of it is merged
OfferInv == "merge" \notin since => \A u \in offered : Explained(u)
IInv == TypeInv /\ OfferInv

LEMMA SameWorld ==
    ASSUME UNCHANGED <<config, value, locked>>, NEW u
    PROVE  /\ \A c \in Valid : BucketOffer(u, c)' <=> BucketOffer(u, c)
           /\ PinOffer(u)' <=> PinOffer(u)
BY DEF BucketOffer, PinOffer, Matches, MatchesCaret, IsTooUnstable, NewValue, Replaced,
       RangeStrategy, NpmRangeStrategy, From

LEMMA SameCurrent ==
    ASSUME UNCHANGED <<config, value, locked, published, deprecated, latest>>
    PROVE  Current' = Current
BY DEF Current, CurrentOf, Satisfying, Matches, MatchesCaret, RangeStrategy, NpmRangeStrategy

LEMMA StillExplained ==
    ASSUME UNCHANGED <<config, value, locked>>, NEW u, Explained(u),
           since' # {} \/ (since = {} /\ UNCHANGED <<published, deprecated, latest>>)
    PROVE  Explained(u)'
<1>1. CASE u.type = "rollback"
  BY <1>1 DEF Explained
<1>2. CASE PinOffer(u) /\ (since = {} => u.version = Current)
  BY <1>2, SameWorld, SameCurrent DEF Explained
<1>3. ASSUME NEW c \in Valid, BucketOffer(u, c), since = {} => c = Current
      PROVE  Explained(u)'
  <2>1. BucketOffer(u, c)'
    BY <1>3, SameWorld
  <2>2. since' = {} => c = Current'
    BY <1>3, SameCurrent
  <2> QED
    BY <2>1, <2>2 DEF Explained
<1> QED
  BY <1>1, <1>2, <1>3 DEF Explained

LEMMA LookOfferInv ==
    ASSUME TypeInv, Look
    PROVE  OfferInv'
<1>1. /\ offered' = Updates /\ since' = {}
      /\ UNCHANGED <<config, value, locked>> /\ UNCHANGED <<published, deprecated, latest>>
  BY DEF Look, registry
<1>2. ASSUME NEW u \in Updates PROVE Explained(u)'
  <2>1. CASE u.type = "rollback"
    BY <2>1 DEF Explained
  <2>2. CASE PinOffer(u) /\ u.version = Current
    BY <2>2, <1>1, SameWorld, SameCurrent DEF Explained
  <2>3. CASE Current \in Valid /\ BucketOffer(u, Current)
    <3> DEFINE c == Current
    <3>1. c \in Valid /\ BucketOffer(u, c) /\ c = Current'
      BY <2>3, <1>1, SameCurrent
    <3> HIDE DEF c
    <3>2. PICK d : d = c
      OBVIOUS
    <3>3. BucketOffer(u, d)'
      BY <1>1, <3>1, <3>2, SameWorld
    <3> QED
      BY <3>1, <3>2, <3>3 DEF Explained
  <2> QED
    BY <2>1, <2>2, <2>3, UpdatesExplained
<1> QED
  BY <1>1, <1>2 DEF OfferInv

LEMMA StepIInv == IInv /\ [Next]_vars => IInv'
<1> SUFFICES ASSUME TypeInv, OfferInv, [Next]_vars PROVE OfferInv'
  BY StepTypeInv DEF IInv
<1>1. ASSUME NEW v \in Versions,
             Publish(v) \/ Unpublish(v) \/ Deprecate(v) \/ TagLatest(v) \/ PassChecks(v)
      PROVE  OfferInv'
  <2>1. UNCHANGED <<config, value, locked>> /\ offered' = offered
        /\ since' \in {since \cup {"addition"}, since \cup {"other"}}
    BY <1>1 DEF Publish, Unpublish, Deprecate, TagLatest, PassChecks, Happens
  <2>2. since' # {} /\ ("merge" \notin since' => "merge" \notin since)
    BY <2>1
  <2> QED
    BY <2>1, <2>2, StillExplained DEF OfferInv
<1>2. CASE \E v \in Versions : Publish(v) \/ Unpublish(v) \/ Deprecate(v) \/ TagLatest(v)
  BY <1>1, <1>2
<1>3. CASE OnePasses
  BY <1>1, <1>3 DEF OnePasses
<1>4. CASE Look
  BY <1>4, LookOfferInv
<1>5. CASE MergeOne
  BY <1>5 DEF MergeOne, Merge, OfferInv
<1>6. CASE UNCHANGED vars
  <2>1. /\ UNCHANGED <<config, value, locked>> /\ UNCHANGED <<published, deprecated, latest>>
        /\ offered' = offered /\ since' = since
    BY <1>6 DEF vars, registry
  <2> QED
    BY <2>1, StillExplained DEF OfferInv
<1> QED
  BY <1>2, <1>3, <1>4, <1>5, <1>6 DEF Next

LEMMA InitIInv == Init => IInv
BY InitTypeInv DEF IInv, OfferInv, Init

(***************************************************************************)
(* NeverDown: what is installed after a merge                              *)
(***************************************************************************)
Better(i, j) == j >= i /\ (Stable(i) => Stable(j))

\* what is installed once u is merged
After(u) ==
    IF locked = None THEN Installs(u.value, None)
    ELSE IF u.lockfile THEN u.version
    ELSE Installs(u.value, locked)

LEMMA AtMostOne ==
    ASSUME NEW S \in SUBSET Numbers, S # {}, ~(Cardinality(S) > 1)
    PROVE  \E x \in S : S = {x}
<1>1. PICK x \in S : TRUE
  OBVIOUS
<1>2. ASSUME NEW y \in S, y # x PROVE FALSE
  <2>1. IsFiniteSet({x}) /\ Cardinality({x}) = 1
    BY FS_Singleton
  <2>2. IsFiniteSet({x} \cup {y}) /\ Cardinality({x} \cup {y}) = 2
    BY <1>2, <2>1, FS_AddElement
  <2>3. IsFiniteSet(S) /\ ({x} \cup {y}) \in SUBSET S
    BY FiniteNumbers
  <2>4. 2 <= Cardinality(S) /\ Cardinality(S) \in Nat
    BY <2>2, <2>3, FS_Subset, FS_CardinalityType
  <2> QED
    BY <2>4
<1> QED
  BY <1>1, <1>2

LEMMA AfterMatches ==
    ASSUME TypeInv, NEW u, IsOffer(u), u.version \in published
    PROVE  After(u) \in Valid /\ Matches(After(u), u.value)
<1>1. u.version \in Satisfying(published, u.value)
  BY DEF IsOffer, Satisfying
<1>2. /\ Installs(u.value, None) \in Satisfying(published, u.value)
      /\ Satisfying(published, u.value) \in SUBSET Versions
  BY <1>1, InstallsFree
<1>3. Installs(u.value, None) \in Valid /\ Matches(Installs(u.value, None), u.value)
  BY <1>2, VersionsAreValid DEF Satisfying
<1>4. CASE locked = None
  BY <1>3, <1>4 DEF After
<1>5. CASE locked # None /\ u.lockfile
  BY <1>5, VersionsAreValid DEF After, IsOffer
<1>6. CASE locked # None /\ ~u.lockfile
  BY <1>3, <1>6, InstallsLocked, VersionsAreValid DEF After, TypeInv
<1> QED
  BY <1>4, <1>5, <1>6

LEMMA InstalledIs ==
    ASSUME TypeInv, Installed # None
    PROVE  /\ Installed \in Valid /\ Matches(Installed, value)
           /\ locked # None => Installed = locked
           /\ locked = None => /\ Installed = Installs(value, None)
                               /\ Installed \in Satisfying(published, value)
<1>1. locked # None => Installed = locked
  BY InstallsLocked DEF Installed, TypeInv
<1>2. locked = None => Installed = Installs(value, None)
  BY DEF Installed
<1>3. Installs(value, None) \in Satisfying(published, value) \cup {None}
  BY InstallsFree
<1>4. Installed \in Valid /\ Matches(Installed, value)
  BY InstallsMatches, VersionsAreValid DEF Installed, TypeInv
<1> QED
  BY <1>1, <1>2, <1>3, <1>4

\* with nothing locked, what lookupUpdates takes a range for is what is installed
LEMMA CurrentIsInstalled ==
    ASSUME TypeInv, value.form = "range", locked = None, RangeStrategy # "bump",
           Installed # None, Installed \notin deprecated
    PROVE  Current = Installed
<1> DEFINE A == Satisfying(published, value)
           i == Installed
           vs == published \ deprecated
           matching == Satisfying(vs, value)
           use == IF latest # None /\ Matches(latest, value)
                  THEN {v \in matching : v <= latest} ELSE matching
<1>1. /\ i \in A /\ i \in Numbers /\ i = Installs(value, None) /\ A \in SUBSET Versions
      /\ latest \in A => i = latest
      /\ (latest \notin A /\ A \ deprecated # {}) => \A v \in A \ deprecated : i >= v
  BY InstalledIs, InstallsFree, VersionsAreValid
<1>2. matching = A \ deprecated /\ i \in matching
  BY <1>1 DEF Satisfying
<1>3. matching \in SUBSET Numbers /\ use \in SUBSET matching
  BY <1>1, <1>2, VersionsAreValid
<1>4. i \in use /\ \A v \in use : i >= v
  <2>1. CASE latest \in A
    <3>1. latest = i /\ latest # None /\ Matches(latest, value)
      BY <2>1, <1>1 DEF Satisfying
    <3>2. i <= i /\ use = {v \in matching : v <= latest}
      BY <1>1, <3>1 DEF Numbers
    <3>3. i \in use
      BY <1>2, <3>1, <3>2
    <3>4. ASSUME NEW v \in use PROVE i >= v
      BY <1>1, <1>3, <3>1, <3>2 DEF Numbers
    <3> QED
      BY <3>3, <3>4
  <2>2. CASE latest \notin A
    <3>1. ~(latest # None /\ Matches(latest, value))
      BY <2>2 DEF TypeInv, Satisfying
    <3>2. use = matching
      BY <3>1
    <3> QED
      BY <1>1, <1>2, <2>2, <3>2
  <2> QED
    BY <2>1, <2>2
<1>5. Highest(use) = i
  <2>1. use \in SUBSET Versions /\ use # {}
    BY <1>1, <1>2, <1>3, <1>4
  <2>2. Highest(use) \in use /\ \A v \in use : Highest(use) >= v
    BY <2>1, HighestOf
  <2> HIDE DEF use, matching, i
  <2>3. Highest(use) \in Numbers /\ i \in Numbers
    BY <1>1, <1>3, <2>2
  <2>4. Highest(use) >= i /\ i >= Highest(use)
    BY <1>4, <2>2
  <2>5. \A a, b \in Numbers : (a >= b /\ b >= a) => a = b
    BY DEF Numbers
  <2> QED
    BY <2>3, <2>4, <2>5
<1>6. CurrentOf(vs) = Highest(use)
  <2>1. CASE RangeStrategy = "pin"
    BY <2>1 DEF CurrentOf
  <2>2. CASE RangeStrategy # "pin"
    BY <2>2 DEF CurrentOf
  <2> QED
    BY <2>1, <2>2
<1>7. i # None
  OBVIOUS
<1>8. CurrentOf(published \ deprecated) = Installed
  BY <1>5, <1>6
<1> QED
  BY <1>7, <1>8 DEF Current

\* what any caret before g matches is better than i, if g is newer and stable
LEMMA HigherCaret ==
    ASSUME NEW i \in Valid, NEW g \in Valid, g > i, Stable(g), NEW j \in Valid, MatchesCaret(j, g)
    PROVE  Better(i, j)
<1>1. j >= g /\ Stable(j)
  BY CaretFacts
<1>2. j \in Int /\ g \in Int /\ i \in Int
  BY DEF Valid, Numbers
<1> QED
  BY <1>1, <1>2 DEF Better

LEMMA ValidInt == Valid \subseteq Int
<1>1. Valid \subseteq Numbers
  BY DEF Valid
<1>2. Numbers \subseteq Int
  BY DEF Numbers
<1> QED
  BY <1>1, <1>2

LEMMA Newer ==
    ASSUME NEW i \in Valid, NEW j \in Valid, j > i, Stable(j)
    PROVE  Better(i, j)
BY ValidInt DEF Better

LEMMA BetterItself ==
    ASSUME NEW i \in Valid
    PROVE  Better(i, i)
BY DEF Better, Valid, Numbers

\* a caret further up in the range of another installs nothing older than it did
LEMMA NarrowerRange ==
    ASSUME TypeInv, locked = None, Installed # None, Installed \notin deprecated,
           value.form = "range", NEW f \in Valid, value.of = {f},
           NEW g \in Valid, MatchesCaret(g, f), NEW N, N.form = "range", N.of = {g},
           Installs(N, None) # None
    PROVE  Better(Installed, Installs(N, None))
<1> DEFINE i == Installed
           j == Installs(N, None)
           A == Satisfying(published, value)
           B == Satisfying(published, N)
<1>1. /\ i \in A /\ i \in Valid /\ i = Installs(value, None)
      /\ latest \in A => i = latest
      /\ (latest \notin A /\ A \ deprecated # {}) => \A v \in A \ deprecated : i >= v
  BY InstalledIs, InstallsFree
<1>2. /\ j \in B /\ B \subseteq Valid
      /\ latest \in B => j = latest
      /\ (latest \notin B /\ B \ deprecated # {})
           => j \in B \ deprecated /\ \A v \in B \ deprecated : j >= v
  BY InstallsFree, VersionsAreValid
<1>3. /\ \A v : v \in A <=> v \in published /\ MatchesCaret(v, f)
      /\ \A v : v \in B <=> v \in published /\ MatchesCaret(v, g)
  BY DEF Satisfying, Matches
<1>4. MatchesCaret(i, f) /\ MatchesCaret(j, g) /\ j \in Valid
  BY <1>1, <1>2, <1>3
<1>5. i \in Int /\ j \in Int /\ f \in Int /\ g \in Int
  BY <1>1, <1>4, ValidInt
<1>6. CASE ~MatchesCaret(i, g)
  <2>1. /\ Major(i) = Major(f) /\ i >= f /\ (Stable(f) => Stable(i)) /\ (~Stable(i) => i = f)
        /\ Major(g) = Major(f) /\ g >= f /\ (Stable(f) => Stable(g)) /\ (~Stable(g) => g = f)
        /\ j >= g /\ (Stable(g) => Stable(j))
    BY <1>1, <1>4, CaretFacts
  <2>2. g # i
    BY <1>1, <1>6, MatchesItself
  <2>3. Stable(g)
    BY <1>4, <1>6, <2>1
  <2>4. i < g
    BY <1>5, <1>6, <2>1, <2>2 DEF MatchesCaret
  <2> QED
    BY <1>5, <2>1, <2>3, <2>4 DEF Better
<1>7. CASE MatchesCaret(i, g)
  <2>1. i \in B
    BY <1>1, <1>3, <1>7
  <2>2. CASE latest \in B
    <3>1. latest \in published /\ MatchesCaret(latest, g) /\ latest = j
      BY <1>2, <1>3, <2>2
    <3>2. CASE MatchesCaret(latest, f)
      BY <1>1, <1>3, <1>4, <3>1, <3>2, BetterItself
    <3>3. CASE ~MatchesCaret(latest, f)
      <4>1. /\ Major(j) = Major(g) /\ j >= g /\ (~Stable(j) => j = g)
            /\ Major(g) = Major(f) /\ g >= f
        BY <1>4, CaretFacts
      <4>2. j >= f /\ Major(j) = Major(f)
        <5>1. \A a, b, d \in Int : (a >= b /\ b >= d) => a >= d
          OBVIOUS
        <5> QED
          BY <1>5, <4>1, <5>1
      <4>3. CASE Stable(j)
        BY <3>1, <3>3, <4>2, <4>3 DEF MatchesCaret
      <4>4. CASE ~Stable(j)
        BY <3>1, <3>3, <4>1, <4>4
      <4> QED
        BY <4>3, <4>4
    <3> QED
      BY <3>2, <3>3
  <2>3. CASE latest \notin B
    <3>1. j \in B \ deprecated /\ j >= i
      BY <1>2, <2>1, <2>3
    <3>2. Stable(i) => Stable(j)
      <4> SUFFICES ASSUME Stable(i), ~Stable(j) PROVE FALSE
        OBVIOUS
      <4>1. j = g /\ ~Stable(g)
        BY <1>4, <3>1, CaretFacts
      <4>2. i >= g /\ i # j
        BY <1>1, <1>7, <4>1, CaretFacts
      <4> QED
        BY <1>5, <3>1, <4>1, <4>2
    <3> QED
      BY <3>1, <3>2 DEF Better
  <2> QED
    BY <2>2, <2>3
<1> QED
  BY <1>6, <1>7

\* one more caret before newer versions installs nothing older either
LEMMA WiderRange ==
    ASSUME TypeInv, locked = None, Installed # None, Installed \notin deprecated,
           value.form = "range", NEW g \in Valid, g > Installed, Stable(g),
           NEW N, N.form = "range", N.of = value.of \cup {g}, Installs(N, None) # None
    PROVE  Better(Installed, Installs(N, None))
<1> DEFINE i == Installed
           j == Installs(N, None)
           A == Satisfying(published, value)
           B == Satisfying(published, N)
<1>1. /\ i \in A /\ i \in Valid /\ i = Installs(value, None)
      /\ latest \in A => i = latest
      /\ (latest \notin A /\ A \ deprecated # {}) => \A v \in A \ deprecated : i >= v
  BY InstalledIs, InstallsFree
<1>2. /\ j \in B /\ B \subseteq Valid
      /\ latest \in B => j = latest
      /\ (latest \notin B /\ B \ deprecated # {})
           => j \in B \ deprecated /\ \A v \in B \ deprecated : j >= v
  BY InstallsFree, VersionsAreValid
<1>3. \A v : v \in B <=> v \in A \/ (v \in published /\ MatchesCaret(v, g))
  BY DEF Satisfying, Matches
<1>4. i \in Int /\ j \in Int /\ j \in Valid
  <2>1. j \in Valid
    BY <1>2
  <2> QED
    BY <1>1, <2>1, ValidInt
<1>5. CASE MatchesCaret(j, g)
  BY <1>1, <1>4, <1>5, HigherCaret
<1>6. CASE ~MatchesCaret(j, g)
  <2>1. j \in A
    BY <1>2, <1>3, <1>6
  <2>2. CASE latest \in B
    BY <1>1, <1>2, <2>1, <2>2, BetterItself
  <2>3. CASE latest \notin B
    <3>1. i \in B \ deprecated
      BY <1>1, <1>3
    <3>2. j \in A \ deprecated /\ j >= i
      BY <1>2, <2>1, <2>3, <3>1
    <3>3. i >= j
      BY <1>1, <1>3, <2>3, <3>2
    <3>4. i = j
      BY <1>4, <3>2, <3>3
    <3> QED
      BY <1>1, <3>4, BetterItself
  <2> QED
    BY <2>2, <2>3
<1> QED
  BY <1>5, <1>6

\* unless people want unstable versions, an update is to a stable one
LEMMA OffersStable ==
    ASSUME TypeInv, NEW u, IsOffer(u), NEW c \in Valid, BucketOffer(u, c),
           config.ignoreUnstable \/ Stable(u.version)
    PROVE  Stable(u.version)
<1> SUFFICES ASSUME ~Stable(u.version) PROVE FALSE
  OBVIOUS
<1>1. ~Stable(c) /\ SameTriple(u.version, c) /\ u.version > c
  BY DEF BucketOffer, IsTooUnstable
<1>2. u.version \in Valid
  BY VersionsAreValid DEF IsOffer
<1>3. u.version = c
  BY <1>1, <1>2, MajorsInOrder
<1>4. \A x \in Int : ~(x > x)
  OBVIOUS
<1> QED
  BY <1>1, <1>3, <1>4, ValidInt

LEMMA PinKeeps ==
    ASSUME TypeInv, NEW u, IsOffer(u), u.version \in published, PinOffer(u),
           since = {} => u.version = Current, DependsOnRange => since = {},
           Installed # None, Installed \notin deprecated
    PROVE  Better(Installed, After(u))
<1>1. After(u) \in Valid /\ After(u) = u.version
  BY AfterMatches DEF PinOffer, Matches, Version, Value
<1>2. Installed = u.version
  <2>1. CASE locked # None
    BY <2>1, InstalledIs DEF PinOffer
  <2>2. CASE locked = None
    <3>1. u.version = Current
      BY <2>2 DEF PinOffer, DependsOnRange
    <3> QED
      BY <2>2, <3>1, CurrentIsInstalled DEF PinOffer
  <2> QED
    BY <2>1, <2>2
<1> QED
  BY <1>1, <1>2, BetterItself

\* a version, or what a range is pinned to, is raised
LEMMA VersionRises ==
    ASSUME TypeInv, NEW u, IsOffer(u), u.version \in published,
           NEW c \in Valid, BucketOffer(u, c), Stable(u.version),
           since = {} => c = Current, DependsOnRange => since = {},
           Installed # None, Installed \notin deprecated,
           value.form = "version" \/ RangeStrategy = "pin"
    PROVE  Better(Installed, After(u))
<1>1. u.value = Version(u.version)
  BY DEF BucketOffer, NewValue
<1>2. After(u) = u.version /\ u.version \in Valid
  BY <1>1, AfterMatches DEF Matches, Version, Value
<1>3. Installed = c
  <2>1. CASE value.form = "version"
    <3>1. Matches(Installed, value) /\ Matches(c, value)
      BY InstalledIs DEF BucketOffer
    <3>2. \E v \in value.of : value.of = {v}
      BY <2>1 DEF TypeInv, IsValue
    <3> QED
      BY <2>1, <3>1, <3>2 DEF Matches
  <2>2. CASE value.form # "version" /\ locked # None
    BY <2>2, InstalledIs DEF BucketOffer, TypeInv, IsValue
  <2>3. CASE value.form # "version" /\ locked = None
    <3>1. value.form = "range" /\ RangeStrategy = "pin" /\ c = Current
      BY <2>3 DEF DependsOnRange, TypeInv, IsValue
    <3> QED
      BY <2>3, <3>1, CurrentIsInstalled
  <2> QED
    BY <2>1, <2>2, <2>3
<1> QED
  BY <1>2, <1>3, Newer DEF BucketOffer

\* the value stays: at most the lock file is updated
LEMMA ValueStays ==
    ASSUME TypeInv, NEW u, IsOffer(u), u.version \in published,
           NEW c \in Valid, BucketOffer(u, c), Stable(u.version), u.value = value,
           value.form = "range", Installed # None
    PROVE  Better(Installed, After(u))
<1>1. CASE locked = None
  BY <1>1, InstalledIs, BetterItself DEF After
<1>2. CASE locked # None /\ u.lockfile
  <2>1. Installed = c
    BY <1>2, InstalledIs DEF BucketOffer
  <2> QED
    BY <1>2, <2>1, VersionsAreValid, Newer DEF After, BucketOffer, IsOffer
<1>3. CASE locked # None /\ ~u.lockfile
  <2>1. After(u) = locked /\ Installed = locked
    BY <1>3, InstalledIs, InstallsLocked DEF After, TypeInv
  <2> QED
    BY <1>3, <2>1, InstalledIs, BetterItself
<1> QED
  BY <1>1, <1>2, <1>3

\* where a range is widened, or replaced because it does not allow the version
LEMMA OutOfRange ==
    ASSUME NEW w \in Valid, Stable(w), NEW c \in Valid, w > c, IsValue(value), value.form = "range",
           Matches(c, value), ~Matches(w, value)
    PROVE  Major(w) > Major(c)
<1>1. PICK f \in value.of : MatchesCaret(c, f)
  BY DEF Matches
<1>2. f \in Valid
  BY DEF IsValue
<1>3. c >= f /\ Major(c) = Major(f)
  BY <1>1, <1>2, CaretFacts
<1>4. w >= f
  BY <1>2, <1>3, ValidInt
<1>5. Major(w) # Major(f)
  <2>1. ~MatchesCaret(w, f)
    BY DEF Matches
  <2> QED
    BY <1>4, <2>1 DEF MatchesCaret
<1>6. Major(w) >= Major(c) /\ Major(w) \in Int /\ Major(c) \in Int
  <2>1. w \in Int /\ c \in Int
    BY ValidInt
  <2>2. w >= c
    BY <2>1
  <2> QED
    BY <2>2, MajorsInOrder, Digits
<1> QED
  BY <1>3, <1>5, <1>6

\* a range of one caret matches only versions of one major
LEMMA OneMajor ==
    ASSUME TypeInv, value.form = "range", NEW c \in Valid, Matches(c, value),
           NEW i \in Valid, Matches(i, value), ~(Cardinality(value.of) > 1) \/ c = i
    PROVE  Major(c) = Major(i)
<1>1. CASE c = i
  BY <1>1
<1>2. CASE ~(Cardinality(value.of) > 1)
  <2>1. value.of \in SUBSET Numbers /\ value.of # {} /\ value.of \in SUBSET Valid
    BY DEF TypeInv, IsValue, Valid
  <2>2. PICK f \in value.of : value.of = {f}
    BY <1>2, <2>1, AtMostOne
  <2>3. MatchesCaret(c, f) /\ MatchesCaret(i, f) /\ f \in Valid
    BY <2>1, <2>2 DEF Matches
  <2> QED
    BY <2>3, CaretFacts
<1> QED
  BY <1>1, <1>2

\* the caret of the new value
LEMMA NewCaret ==
    ASSUME NEW from \in Valid, NEW w \in Valid, Stable(w), value.form = "range"
    PROVE  \E g \in Valid :
             /\ Replaced(value, from, w) = Caret(g) /\ MatchesCaret(w, g)
             /\ \/ g = w
                \/ g = from
                \/ Major(w) > Major(from) /\ Major(g) = Major(w) /\ Stable(g)
             /\ Major(w) > Major(from) => Major(g) = Major(w) /\ Stable(g)
<1> DEFINE g == ReplaceCaret(from, w)
<1>1. Replaced(value, from, w) = Caret(g)
  BY VersionsAreValid DEF Replaced
<1>2. /\ g \in Valid /\ MatchesCaret(w, g)
      /\ \/ g = w
         \/ g = from
         \/ Major(w) > Major(from) /\ Major(g) = Major(w) /\ Stable(g)
  BY ReplacedCaret
<1> HIDE DEF g
<1>3. Major(w) > Major(from) => Major(g) = Major(w) /\ Stable(g)
  BY <1>2, CaretFacts, Digits
<1> QED
  BY <1>1, <1>2, <1>3

LEMMA RangeWidens ==
    ASSUME TypeInv, NEW u, IsOffer(u), u.version \in published,
           NEW c \in Valid, BucketOffer(u, c), Stable(u.version),
           since = {} => c = Current, DependsOnRange => since = {},
           Installed # None, Installed \notin deprecated,
           value.form = "range", RangeStrategy = "widen", u.value # value
    PROVE  Better(Installed, After(u))
<1> DEFINE w == u.version
<1>1. w \in Valid /\ w > c /\ Matches(c, value) /\ ~u.lockfile /\ From(c) \in Valid
  BY VersionsAreValid DEF IsOffer, BucketOffer, From, TypeInv
<1>2. /\ ~Matches(w, value)
      /\ u.value = Value("range", value.of \cup Replaced(value, From(c), w).of)
  BY DEF BucketOffer, NewValue
<1>3. PICK g \in Valid :
        /\ Replaced(value, From(c), w) = Caret(g) /\ MatchesCaret(w, g)
        /\ Major(w) > Major(From(c)) => Major(g) = Major(w) /\ Stable(g)
  BY <1>1, NewCaret
<1>4. u.value.form = "range" /\ u.value.of = value.of \cup {g}
  BY <1>2, <1>3 DEF Caret, Value
<1>5. CASE locked # None
  <2>1. Installed = locked /\ Matches(locked, u.value)
    BY <1>4, <1>5, InstalledIs DEF Matches
  <2>2. After(u) = locked
    BY <1>1, <1>5, <2>1, InstallsLocked DEF After
  <2> QED
    BY <2>1, <2>2, InstalledIs, BetterItself
<1>6. CASE locked = None
  <2>1. From(c) = c /\ Major(w) > Major(c)
    BY <1>1, <1>2, <1>6, OutOfRange DEF From, TypeInv
  <2>2. Major(c) = Major(Installed) /\ Installed \in Valid
    BY <1>1, <1>6, InstalledIs, CurrentIsInstalled, OneMajor DEF DependsOnRange
  <2>3. g > Installed /\ Stable(g)
    BY <1>3, <2>1, <2>2, MajorsInOrder
  <2>4. After(u) = Installs(u.value, None) /\ After(u) # None
    BY <1>6, AfterMatches, VersionsAreValid DEF After
  <2> QED
    BY <1>4, <1>6, <2>3, <2>4, WiderRange
<1> QED
  BY <1>5, <1>6

\* the new value is one caret: rangeStrategy is bump or replace, of one caret,
\* or update-lockfile, of a version that the value does not allow
LEMMA NewValueIsCaret ==
    ASSUME TypeInv, NEW u, IsOffer(u), NEW c \in Valid, BucketOffer(u, c), Stable(u.version),
           value.form = "range", RangeStrategy \notin {"pin", "widen"}, u.value # value
    PROVE  /\ ~u.lockfile /\ u.version \in Valid
           /\ RangeStrategy = "update-lockfile" => ~Matches(u.version, value)
           /\ \E g \in Valid :
                /\ u.value = Caret(g) /\ MatchesCaret(u.version, g)
                /\ \/ g = u.version
                   \/ g = From(c)
                   \/ Major(u.version) > Major(From(c)) /\ Major(g) = Major(u.version) /\ Stable(g)
                /\ RangeStrategy = "update-lockfile" /\ Major(u.version) > Major(From(c))
                   => Major(g) = Major(u.version) /\ Stable(g)
<1> DEFINE w == u.version
<1>1. w \in Valid /\ From(c) \in Valid /\ ~u.lockfile
  BY VersionsAreValid DEF IsOffer, BucketOffer, From, TypeInv
<1>2. RangeStrategy = "update-lockfile" => ~Matches(w, value)
  BY DEF BucketOffer, NewValue
<1>3. CASE RangeStrategy = "bump"
  <2>1. u.value = Caret(w)
    BY <1>3 DEF BucketOffer, NewValue
  <2> QED
    BY <1>1, <1>3, <2>1, MatchesItself
<1>4. CASE RangeStrategy # "bump"
  <2>1. u.value = Replaced(value, From(c), w)
    BY <1>2, <1>4 DEF BucketOffer, NewValue
  <2>2. PICK g \in Valid :
          /\ Replaced(value, From(c), w) = Caret(g) /\ MatchesCaret(w, g)
          /\ \/ g = w
             \/ g = From(c)
             \/ Major(w) > Major(From(c)) /\ Major(g) = Major(w) /\ Stable(g)
          /\ Major(w) > Major(From(c)) => Major(g) = Major(w) /\ Stable(g)
    BY <1>1, NewCaret
  <2> QED
    BY <1>1, <1>2, <2>1, <2>2
<1> QED
  BY <1>3, <1>4

\* bump is for one caret, and so are the replacements that NeverDown is about
LEMMA OneCaret ==
    ASSUME TypeInv, value.form = "range", RangeStrategy \notin {"pin", "widen", "update-lockfile"},
           Cardinality(value.of) > 1 => RangeStrategy # "replace"
    PROVE  \E f \in Valid : value.of = {f}
<1>1. config.rangeStrategy \in Strategies
  BY LookupAssumption DEF TypeInv
<1>2. ~(Cardinality(value.of) > 1)
  <2>1. RangeStrategy \in {"replace", "bump"}
    BY <1>1 DEF RangeStrategy, NpmRangeStrategy, Strategies
  <2>2. RangeStrategy = "bump" => ~(Cardinality(value.of) > 1)
    BY DEF RangeStrategy, NpmRangeStrategy
  <2> QED
    BY <2>1, <2>2
<1>3. value.of \in SUBSET Numbers /\ value.of # {} /\ value.of \in SUBSET Valid
  BY DEF TypeInv, IsValue, Valid
<1> QED
  BY <1>2, <1>3, AtMostOne

\* a locked version that the new caret does not match is below it
LEMMA LockedBelow ==
    ASSUME NEW f \in Valid, NEW l \in Valid, MatchesCaret(l, f), NEW c \in Valid, MatchesCaret(c, f),
           NEW w \in Valid, w > c, Stable(w), ~MatchesCaret(l, w)
    PROVE  w > l
<1>1. /\ Major(l) = Major(f) /\ l >= f /\ (~Stable(l) => l = f)
      /\ Major(c) = Major(f) /\ c >= f
  BY CaretFacts
<1>2. Major(w) >= Major(f)
  <2>1. w >= c
    BY ValidInt
  <2> QED
    BY <1>1, <2>1, MajorsInOrder
<1>3. CASE Major(w) > Major(f)
  BY <1>1, <1>3, MajorsInOrder
<1>4. CASE ~(Major(w) > Major(f))
  <2>1. Major(w) = Major(l)
    BY <1>1, <1>2, <1>4, Digits
  <2>2. Stable(l) => w > l
    BY <2>1, ValidInt DEF MatchesCaret
  <2>3. ~Stable(l) => w > l
    BY <1>1, ValidInt
  <2> QED
    BY <2>2, <2>3
<1> QED
  BY <1>3, <1>4

LEMMA RangeMovesLocked ==
    ASSUME TypeInv, NEW u, IsOffer(u), u.version \in published,
           NEW c \in Valid, BucketOffer(u, c), Stable(u.version),
           Cardinality(value.of) > 1 => RangeStrategy # "replace",
           Installed # None, locked # None,
           value.form = "range", RangeStrategy \notin {"pin", "widen"}, u.value # value
    PROVE  Better(Installed, After(u))
<1> DEFINE w == u.version
<1>1. Installed = locked /\ locked \in Valid /\ Matches(locked, value) /\ From(c) = locked
  BY InstalledIs DEF From
<1>2. /\ ~u.lockfile /\ w \in Valid /\ w > c /\ Matches(c, value)
      /\ RangeStrategy = "update-lockfile" => c = locked
  BY NewValueIsCaret DEF BucketOffer
<1>3. PICK g \in Valid :
        /\ u.value = Caret(g) /\ MatchesCaret(w, g)
        /\ \/ g = w
           \/ g = locked
           \/ Major(w) > Major(locked) /\ Major(g) = Major(w) /\ Stable(g)
  BY <1>1, NewValueIsCaret
<1>4. /\ \A v : Matches(v, u.value) <=> MatchesCaret(v, g)
  BY <1>3 DEF Matches, Caret, Value
<1>5. After(u) \in Valid /\ MatchesCaret(After(u), g)
  BY <1>4, AfterMatches
<1>6. CASE MatchesCaret(locked, g)
  <2>1. After(u) = locked
    BY <1>1, <1>2, <1>4, <1>6, InstallsLocked DEF After
  <2> QED
    BY <1>1, <2>1, BetterItself
<1>7. CASE ~MatchesCaret(locked, g)
  <2>1. g # locked
    BY <1>1, <1>7, MatchesItself
  <2>2. CASE Major(w) > Major(locked) /\ Major(g) = Major(w) /\ Stable(g)
    <3>1. g > locked
      BY <1>1, <2>2, MajorsInOrder
    <3> QED
      BY <1>1, <1>5, <2>2, <3>1, HigherCaret
  <2>3. CASE g = w
    <3>1. CASE RangeStrategy = "update-lockfile"
      BY <1>1, <1>2, <1>5, <2>3, <3>1, HigherCaret
    <3>2. CASE RangeStrategy # "update-lockfile"
      <4>1. PICK f \in Valid : value.of = {f}
        BY <3>2, OneCaret
      <4>2. MatchesCaret(locked, f) /\ MatchesCaret(c, f)
        BY <1>1, <1>2, <4>1 DEF Matches
      <4>3. w > locked
        BY <1>1, <1>2, <1>7, <2>3, <4>2, LockedBelow
      <4> QED
        BY <1>1, <1>5, <2>3, <4>3, HigherCaret
    <3> QED
      BY <3>1, <3>2
  <2> QED
    BY <1>3, <2>1, <2>2, <2>3
<1> QED
  BY <1>6, <1>7

LEMMA RangeMovesFree ==
    ASSUME TypeInv, NEW u, IsOffer(u), u.version \in published,
           NEW c \in Valid, BucketOffer(u, c), Stable(u.version),
           since = {} => c = Current, DependsOnRange => since = {},
           Cardinality(value.of) > 1 => RangeStrategy # "replace",
           Installed # None, Installed \notin deprecated, locked = None,
           value.form = "range", RangeStrategy \notin {"pin", "widen"}, u.value # value
    PROVE  Better(Installed, After(u))
<1> DEFINE w == u.version
           i == Installed
<1>1. /\ i \in Valid /\ Matches(i, value) /\ From(c) = c
  BY InstalledIs DEF From
<1>2. /\ ~u.lockfile /\ w \in Valid /\ w > c /\ Matches(c, value)
      /\ RangeStrategy = "update-lockfile" => ~Matches(w, value)
  BY NewValueIsCaret DEF BucketOffer
<1>3. PICK g \in Valid :
        /\ u.value = Caret(g) /\ MatchesCaret(w, g)
        /\ \/ g = w
           \/ g = c
           \/ Major(w) > Major(c) /\ Major(g) = Major(w) /\ Stable(g)
        /\ RangeStrategy = "update-lockfile" /\ Major(w) > Major(c)
           => Major(g) = Major(w) /\ Stable(g)
  BY <1>1, NewValueIsCaret
<1>4. \A v : Matches(v, u.value) <=> MatchesCaret(v, g)
  BY <1>3 DEF Matches, Caret, Value
<1>5. /\ After(u) \in Valid /\ MatchesCaret(After(u), g)
      /\ After(u) = Installs(u.value, None) /\ After(u) # None
      /\ u.value.form = "range" /\ u.value.of = {g}
  BY <1>3, <1>4, AfterMatches, VersionsAreValid DEF After, Caret, Value
<1>6. ASSUME Major(g) > Major(i), Stable(g) PROVE Better(i, After(u))
  BY <1>1, <1>5, <1>6, MajorsInOrder, HigherCaret
<1>7. CASE RangeStrategy = "update-lockfile"
  <2>1. Major(w) > Major(c)
    BY <1>2, <1>7, OutOfRange DEF TypeInv
  <2>2. Major(c) = Major(i)
    BY <1>1, <1>2, <1>7, CurrentIsInstalled, OneMajor DEF DependsOnRange
  <2> QED
    BY <1>3, <1>6, <1>7, <2>1, <2>2
<1>8. CASE RangeStrategy # "update-lockfile"
  <2>1. PICK f \in Valid : value.of = {f}
    BY <1>8, OneCaret
  <2>2. MatchesCaret(i, f) /\ MatchesCaret(c, f)
    BY <1>1, <1>2, <2>1 DEF Matches
  <2>3. /\ Major(i) = Major(f) /\ Major(c) = Major(f) /\ c >= f
    BY <1>1, <2>2, CaretFacts
  <2>4. CASE MatchesCaret(g, f)
    BY <1>5, <2>1, <2>4, NarrowerRange
  <2>5. CASE ~MatchesCaret(g, f)
    <3>1. g # c
      BY <2>2, <2>5
    <3>2. Major(w) > Major(c)
      BY <1>2, <2>1, <2>2, <2>5, <1>3, <3>1, OutOfRange DEF TypeInv, Matches
    <3>3. Stable(g) /\ Major(g) = Major(w)
      BY <1>3, <3>1
    <3> QED
      BY <1>6, <2>3, <3>2, <3>3
  <2> QED
    BY <2>4, <2>5
<1> QED
  BY <1>7, <1>8

LEMMA MergeInstalls ==
    ASSUME TypeInv, NEW u \in offered, Merge(u), u.version \in published
    PROVE  Installed' = After(u)
<1>1. /\ value' = u.value /\ published' = published /\ deprecated' = deprecated /\ latest' = latest
      /\ locked' = IF locked = None THEN None
                   ELSE IF u.lockfile THEN u.version ELSE Installs(u.value, locked)
  BY DEF Merge, registry
<1>2. \A l : Installs(u.value, l)' = Installs(u.value, l)
  BY <1>1 DEF Installs, Satisfying, Matches, MatchesCaret
<1>3. Installed' = Installs(u.value, locked')
  BY <1>1, <1>2 DEF Installed, Installs, Satisfying, Matches, MatchesCaret
<1>4. IsOffer(u)
  BY DEF TypeInv
<1>5. CASE locked = None
  BY <1>1, <1>3, <1>5 DEF After
<1>6. CASE locked # None
  <2>1. locked' = After(u)
    BY <1>1, <1>6 DEF After
  <2>2. After(u) \in Valid /\ Matches(After(u), u.value)
    BY <1>4, AfterMatches
  <2>3. Installs(u.value, After(u)) = After(u)
    BY <2>2, InstallsLocked, VersionsAreValid
  <2> QED
    BY <1>3, <2>1, <2>3
<1> QED
  BY <1>5, <1>6

LEMMA MergeNeverDown ==
    ASSUME IInv, NEW u \in offered, Merge(u), u.type # "rollback",
           u.type = "pin" \/ config.ignoreUnstable \/ Stable(u.version),
           DependsOnRange => since = {},
           Cardinality(value.of) > 1 => RangeStrategy # "replace",
           Installed # None, u.version \in published, Installed \notin deprecated
    PROVE  Better(Installed, Installed')
<1>1. TypeInv /\ IsOffer(u) /\ Explained(u)
  BY DEF IInv, TypeInv, OfferInv, Merge
<1>2. Installed' = After(u)
  BY <1>1, MergeInstalls
<1>3. CASE PinOffer(u) /\ (since = {} => u.version = Current)
  BY <1>1, <1>2, <1>3, PinKeeps
<1>4. ASSUME NEW c \in Valid, BucketOffer(u, c), since = {} => c = Current
      PROVE  Better(Installed, Installed')
  <2>1. Stable(u.version)
    BY <1>1, <1>4, OffersStable DEF BucketOffer
  <2>2. value.form \in {"version", "range"}
    BY <1>1 DEF TypeInv, IsValue
  <2>3. CASE value.form = "version" \/ RangeStrategy = "pin"
    BY <1>1, <1>2, <1>4, <2>1, <2>3, VersionRises
  <2>4. CASE value.form = "range" /\ RangeStrategy # "pin" /\ u.value = value
    BY <1>1, <1>2, <1>4, <2>1, <2>4, ValueStays
  <2>5. CASE value.form = "range" /\ RangeStrategy = "widen" /\ u.value # value
    BY <1>1, <1>2, <1>4, <2>1, <2>5, RangeWidens
  <2>6. CASE value.form = "range" /\ RangeStrategy \notin {"pin", "widen"} /\ u.value # value
    BY <1>1, <1>2, <1>4, <2>1, <2>6, RangeMovesLocked, RangeMovesFree
  <2> QED
    BY <2>2, <2>3, <2>4, <2>5, <2>6
<1> QED
  BY <1>1, <1>3, <1>4 DEF Explained

(* Merging an update installs nothing older and nothing less stable than    *)
(* before, for all versions, configurations and values there may be, with   *)
(* the exceptions that NeverDown names.                                     *)
THEOREM NeverDownAlways == Spec => NeverDown
<1> DEFINE A == \A u \in offered :
                  /\ Merge(u) /\ u.type # "rollback"
                  /\ u.type = "pin" \/ config.ignoreUnstable \/ Stable(u.version)
                  /\ DependsOnRange => since = {}
                  /\ Cardinality(value.of) > 1 => RangeStrategy # "replace"
                  /\ Installed # None /\ u.version \in published
                  => \/ Installed \in deprecated
                     \/ Installed' >= Installed /\ (Stable(Installed) => Stable(Installed'))
<1>1. Spec => []IInv
  BY InitIInv, StepIInv, PTL DEF Spec
<1>2. IInv => A
  BY MergeNeverDown DEF Better
<1>3. IInv /\ [Next]_vars => [A]_vars
  BY <1>2
<1> QED
  BY <1>1, <1>3, PTL DEF Spec, NeverDown

(***************************************************************************)
(* StrictDoesNotFlap: what later runs offer for the same bucket            *)
(***************************************************************************)
\* where additions cannot make the current version go down
Steady == value.form = "range" => RangeStrategy # "bump" /\ Satisfying(deprecated, value) = {}

InUse(vs) ==
    IF latest # None /\ Matches(latest, value)
    THEN {v \in Satisfying(vs, value) : v <= latest} ELSE Satisfying(vs, value)

CurrentInUse ==
    Current = IF value.form = "version" THEN CHOOSE v \in value.of : TRUE
              ELSE IF locked # None /\ RangeStrategy \in {"pin", "update-lockfile"}
              THEN locked ELSE Highest(InUse(published))
CurrentIsValid == Current # None => Current \in Valid

LEMMA SteadyCurrent == TypeInv /\ Steady => CurrentInUse
<1> SUFFICES ASSUME TypeInv, Steady PROVE CurrentInUse
  OBVIOUS
<1>1. CASE value.form = "version"
  <2> DEFINE c == CHOOSE v \in value.of : TRUE
  <2>1. \A vs : CurrentOf(vs) = c
    BY <1>1 DEF CurrentOf
  <2>2. c \in value.of /\ value.of = {c} /\ c # None
    BY <1>1, VersionsAreValid DEF TypeInv, IsValue
  <2>3. (RangeStrategy = "update-lockfile" /\ locked # None) => locked = c
    BY <1>1, <2>2 DEF TypeInv, Matches
  <2> HIDE DEF c
  <2>4. Current = c
    BY <2>1, <2>2, <2>3 DEF Current
  <2> QED
    BY <1>1, <2>4 DEF c, CurrentInUse
<1>2. CASE value.form = "range"
  <2>1. Satisfying(published \ deprecated, value) = Satisfying(published, value)
    BY <1>2 DEF Steady, Satisfying
  <2>2. InUse(published \ deprecated) = InUse(published)
    BY <2>1 DEF InUse
  <2>3. \A vs : CurrentOf(vs) = IF RangeStrategy = "pin" /\ locked # None THEN locked
                                ELSE Highest(InUse(vs))
    BY <1>2 DEF CurrentOf, InUse, Steady
  <2> QED
    BY <1>2, <2>2, <2>3 DEF Current, CurrentInUse
<1> QED
  BY <1>1, <1>2 DEF TypeInv, IsValue

LEMMA ValidCurrent == TypeInv => CurrentIsValid
BY CurrentMatches DEF CurrentIsValid

\* the same of the next state, when releases were added
LEMMA AdditionsRaiseCurrent ==
    ASSUME TypeInv, TypeInv', Steady, published \subseteq published',
           UNCHANGED <<config, value, locked, deprecated, latest>>, Current # None
    PROVE  Current' # None /\ Current' >= Current
<1> DEFINE choice == CHOOSE v \in value.of : TRUE
           lock == locked # None /\ RangeStrategy \in {"pin", "update-lockfile"}
           S == InUse(published)
           T == InUse(published)'
<1>1. Current = IF value.form = "version" THEN choice ELSE IF lock THEN locked ELSE Highest(S)
  BY SteadyCurrent DEF CurrentInUse
<1>2. Current' = IF value.form = "version" THEN choice ELSE IF lock THEN locked ELSE Highest(T)
  <2>1. Steady'
    BY DEF Steady, Satisfying, Matches, MatchesCaret, RangeStrategy, NpmRangeStrategy
  <2>2. CurrentInUse'
    BY <2>1, SteadyCurrent, PTL
  <2>3. RangeStrategy' = RangeStrategy /\ value' = value /\ locked' = locked
    BY DEF RangeStrategy, NpmRangeStrategy
  <2>4. Current' = IF value'.form = "version" THEN CHOOSE v \in value'.of : TRUE
                   ELSE IF locked' # None /\ RangeStrategy' \in {"pin", "update-lockfile"}
                   THEN locked' ELSE Highest(T)
    BY <2>2 DEF CurrentInUse, Highest
  <2> HIDE DEF T
  <2> QED
    BY <2>3, <2>4
<1>3. S \subseteq T /\ S \in SUBSET Versions /\ T \in SUBSET Versions
  BY DEF InUse, Satisfying, Matches, MatchesCaret, TypeInv
<1>4. Current \in Int /\ Current >= Current
  <2>1. Current \in Int
    BY CurrentMatches, ValidInt
  <2> QED
    BY <2>1
<1> HIDE DEF S, T
<1>5. Highest(S) # None => Highest(T) # None /\ Highest(T) >= Highest(S)
  BY <1>3, HighestOf, VersionsAreValid
<1> QED
  BY <1>1, <1>2, <1>4, <1>5

\* an update that was picked from its bucket once its checks had passed, when the
\* dependency was at c
Passed(u, c) ==
    /\ u.version \in published \cap aged /\ u.version \in Allowed /\ u.version > c
    /\ config.rangeStrategy = "in-range-only" => Matches(u.version, value)
    /\ ~IsBeyondLatest(u.version, c) /\ ~IsTooUnstable(u.version, c)
    /\ u.bucket = Bucket(u.version, c)
RisenFrom(c) == Steady => Current \in Valid /\ Current >= c
StrictInv ==
    config.internalChecksFilter = "strict" /\ since \subseteq {"addition"} =>
        \A u \in offered :
            ~u.pending /\ u.type \notin {"pin", "rollback"} =>
                \E c \in Valid : Passed(u, c) /\ RisenFrom(c)

LEMMA BucketUpdateIs ==
    ASSUME TypeInv, Current # None, NEW u \in BucketUpdates(Current)
    PROVE  LET of == {v \in Filtered(Current) : Bucket(v, Current) = u.bucket}
           IN  /\ of # {} /\ of \in SUBSET Versions
               /\ u.version = Picked(of).version /\ u.pending = Picked(of).pending
<1> DEFINE current == Current
           filtered == Filtered(current)
           Of(b) == {v \in filtered : Bucket(v, current) = b}
           UpdateOf(b) ==
             Update(UpdateType(Picked(Of(b)).version, From(current)), b,
                    NewValue(value, RangeStrategy, From(current), Picked(Of(b)).version),
                    Picked(Of(b)).version, Picked(Of(b)).pending)
<1>1. PICK x \in filtered : u = UpdateOf(Bucket(x, current))
  BY DEF BucketUpdates
<1>2. /\ u.bucket = Bucket(x, current)
      /\ u.version = Picked(Of(u.bucket)).version /\ u.pending = Picked(Of(u.bucket)).pending
  BY <1>1 DEF Update
<1>3. x \in Of(u.bucket) /\ Of(u.bucket) \in SUBSET filtered
  BY <1>2
<1>4. filtered \in SUBSET Versions
  BY DEF Filtered, Satisfying, TypeInv
<1> QED
  BY <1>2, <1>3, <1>4

LEMMA StrictPicks ==
    ASSUME TypeInv, config.internalChecksFilter = "strict", NEW of \in SUBSET Versions, of # {}
    PROVE  /\ Picked(of).version \in of
           /\ ~Picked(of).pending => Picked(of).version \in aged
           /\ \A v \in of \cap aged : Picked(of).version >= v
<1>1. of \cap aged \in SUBSET Versions
  OBVIOUS
<1>2. CASE of \cap aged # {}
  BY <1>1, <1>2, HighestOf DEF Picked
<1>3. CASE of \cap aged = {}
  BY <1>3, HighestOf DEF Picked
<1> QED
  BY <1>2, <1>3

LEMMA LookPasses ==
    ASSUME TypeInv, config.internalChecksFilter = "strict", NEW u \in Updates,
           ~u.pending, u.type \notin {"pin", "rollback"}
    PROVE  Current \in Valid /\ Passed(u, Current)
<1>1. Current # None /\ u \in BucketUpdates(Current)
  BY DEF Updates, Rollbacks, Pins, Update
<1> DEFINE of == {v \in Filtered(Current) : Bucket(v, Current) = u.bucket}
<1>2. /\ of # {} /\ of \in SUBSET Versions
      /\ u.version = Picked(of).version /\ u.pending = Picked(of).pending
  BY <1>1, BucketUpdateIs
<1>3. u.version \in of /\ u.version \in aged
  <2> HIDE DEF of
  <2> QED
    BY <1>2, StrictPicks
<1>4. u.version \in Filtered(Current) /\ u.bucket = Bucket(u.version, Current)
  BY <1>3
<1>5. Current \in Valid
  BY <1>1, CurrentMatches
<1> QED
  BY <1>3, <1>4, <1>5 DEF Passed, Filtered, Satisfying

LEMMA MinorsInOrder ==
    ASSUME NEW u \in Valid, NEW v \in Valid, Major(u) = Major(v)
    PROVE  /\ u >= v => Minor(u) >= Minor(v)
           /\ Minor(u) > Minor(v) => u > v
<1> DEFINE a == Minor(u)
           b == Minor(v)
           e == Patch(u)
           f == Patch(v)
           m == Major(u)
           U == u % 10
           V == v % 10
<1>1. /\ u = 1000 * m + 100 * a + 10 * e + U /\ v = 1000 * m + 100 * b + 10 * f + V
      /\ m \in 1..9 /\ a \in 0..9 /\ b \in 0..9 /\ e \in 0..9 /\ f \in 0..9
      /\ U \in {0, 1} /\ V \in {0, 1}
  BY Digits
<1> HIDE DEF a, b, e, f, m, U, V
<1>2. (u >= v => a >= b) /\ (a > b => u > v)
  <2>1. u >= v => a >= b
    BY <1>1
  <2>2. a > b => u > v
    BY <1>1
  <2> QED
    BY <2>1, <2>2
<1> QED
  BY <1>2 DEF a, b

\* when the current version has risen towards u, and u is no more of its bucket,
\* what is of that bucket now is newer than u
LEMMA BucketsRise ==
    ASSUME NEW c \in Valid, NEW d \in Valid, NEW u \in Valid, NEW w \in Valid,
           c <= d, d < u, d < w,
           Bucket(w, d) = Bucket(u, c), Bucket(u, d) # Bucket(u, c)
    PROVE  w > u
<1>1. config.separateMajorMinor
  BY DEF Bucket
<1>2. /\ c \in Int /\ d \in Int /\ u \in Int /\ w \in Int
      /\ Major(c) \in Int /\ Major(d) \in Int /\ Major(u) \in Int /\ Major(w) \in Int
      /\ Minor(c) \in Int /\ Minor(d) \in Int /\ Minor(u) \in Int /\ Minor(w) \in Int
  <2>1. \A v \in Valid : v \in Int /\ Major(v) \in Int /\ Minor(v) \in Int
    BY Digits
  <2> QED
    BY <2>1
<1>3. /\ Major(c) <= Major(d) /\ Major(d) <= Major(u) /\ Major(d) <= Major(w)
      /\ Major(w) > Major(u) => w > u
  <2>1. d >= c /\ u >= d /\ w >= d
    BY <1>2
  <2> QED
    BY <1>2, <2>1, MajorsInOrder
<1>4. CASE Major(u) # Major(c)
  <2>1. Major(w) # Major(d)
    BY <1>1, <1>4 DEF Bucket
  <2>2. Major(u) = Major(d)
    BY <1>1, <1>4, <2>1 DEF Bucket
  <2> QED
    BY <1>2, <1>3, <2>1, <2>2
<1>5. CASE Major(u) = Major(c)
  <2>1. Major(d) = Major(u) /\ Major(w) = Major(d)
    <3>1. Major(d) = Major(u)
      BY <1>2, <1>3, <1>5
    <3> QED
      BY <1>1, <1>5, <3>1 DEF Bucket
  <2>2. config.separateMinorPatch
    BY <1>1, <1>5, <2>1 DEF Bucket
  <2>3. Minor(c) <= Minor(d) /\ Minor(d) <= Minor(u) /\ Minor(d) <= Minor(w)
    <3>1. d >= c /\ u >= d /\ w >= d
      BY <1>2
    <3> QED
      BY <1>2, <1>5, <2>1, <3>1, MinorsInOrder
  <2>4. Minor(u) # Minor(c) /\ Minor(u) = Minor(d) /\ Minor(w) # Minor(d)
    BY <1>1, <1>2, <1>5, <2>1, <2>2, <2>3 DEF Bucket
  <2>5. Minor(w) > Minor(u)
    BY <1>2, <2>3, <2>4
  <2> QED
    BY <1>5, <2>1, <2>5, MinorsInOrder
<1> QED
  BY <1>4, <1>5

LEMMA LookDoesNotFlap ==
    ASSUME TypeInv, StrictInv, config.internalChecksFilter = "strict", since = {"addition"},
           NEW u \in offered, NEW w \in Updates, u.bucket = w.bucket,
           u.type \notin {"pin", "rollback"}, ~u.pending, u.version \notin deprecated, Steady
    PROVE  w.version >= u.version
<1>1. PICK c \in Valid : Passed(u, c) /\ Current \in Valid /\ Current >= c
  BY DEF StrictInv, RisenFrom
<1> DEFINE d == Current
           of == {v \in Filtered(d) : Bucket(v, d) = w.bucket}
<1>2. d # None /\ w \in BucketUpdates(d)
  <2>1. w.bucket # <<"pin">> /\ w.bucket # <<"rollback">>
    BY <1>1 DEF Passed, Bucket
  <2>2. w \notin Rollbacks /\ w \notin Pins(d)
    BY <2>1 DEF Rollbacks, Pins, Update
  <2> QED
    BY <2>2 DEF Updates
<1>3. of # {} /\ of \in SUBSET Versions /\ w.version = Picked(of).version
  BY <1>2, BucketUpdateIs
<1>4. w.version \in of /\ \A v \in of \cap aged : w.version >= v
  <2> HIDE DEF of
  <2> QED
    BY <1>3, StrictPicks
<1>5. /\ w.version > d /\ Bucket(w.version, d) = Bucket(u.version, c)
      /\ w.version \in Valid /\ u.version \in Valid /\ d \in Valid
  BY <1>1, <1>3, <1>4, VersionsAreValid DEF Filtered, Passed, TypeInv
<1>6. u.version \in Int /\ w.version \in Int /\ d \in Int /\ c \in Int
  BY <1>1, <1>5, ValidInt
<1>7. CASE ~(u.version > d)
  BY <1>5, <1>6, <1>7
<1>8. CASE u.version > d /\ Bucket(u.version, d) # Bucket(u.version, c)
  <2> HIDE DEF d
  <2>1. c <= d /\ d < u.version /\ d < w.version
    BY <1>1, <1>5, <1>6, <1>8 DEF d
  <2>2. w.version > u.version
    BY <1>5, <1>8, <2>1, BucketsRise
  <2> QED
    BY <1>6, <2>2
<1>9. CASE u.version > d /\ Bucket(u.version, d) = Bucket(u.version, c)
  <2>1. ~IsBeyondLatest(u.version, d)
    <3>1. latest # None => latest \in Int
      BY VersionsAreValid, ValidInt DEF TypeInv
    <3> QED
      BY <1>1, <1>6, <3>1 DEF IsBeyondLatest, Passed
  <2>2. ~IsTooUnstable(u.version, d)
    <3>1. CASE ~Stable(u.version) /\ config.ignoreUnstable
      <4>1. ~Stable(c) /\ SameTriple(u.version, c)
        BY <1>1, <3>1 DEF Passed, IsTooUnstable
      <4>2. u.version = c
        BY <1>5, <3>1, <4>1, MajorsInOrder
      <4> QED
        BY <1>1, <1>6, <1>9, <4>2
    <3>2. CASE Stable(u.version) \/ ~config.ignoreUnstable
      BY <3>2 DEF IsTooUnstable
    <3> QED
      BY <3>1, <3>2
  <2>3. u.version \in Filtered(d)
    BY <1>1, <1>9, <2>1, <2>2 DEF Filtered, Satisfying, Passed, IsDeprecatedUpgrade
  <2>4. u.version \in of \cap aged
    BY <1>1, <1>5, <1>9, <2>3, <1>4 DEF Passed
  <2> QED
    BY <1>4, <2>4
<1> QED
  BY <1>7, <1>8, <1>9

LEMMA AdditionsPass ==
    ASSUME TypeInv, TypeInv', published \subseteq published', aged \subseteq aged',
           UNCHANGED <<config, value, locked, deprecated, latest, offered>>,
           since' \subseteq {"addition"} => since \subseteq {"addition"}, StrictInv
    PROVE  StrictInv'
<1> SUFFICES ASSUME config.internalChecksFilter = "strict", since' \subseteq {"addition"},
                    NEW u \in offered, ~u.pending, u.type \notin {"pin", "rollback"}
             PROVE  \E c \in Valid : (Passed(u, c) /\ RisenFrom(c))'
  BY DEF StrictInv
<1>1. PICK c \in Valid : Passed(u, c) /\ RisenFrom(c)
  BY DEF StrictInv
<1>2. Passed(u, c)'
  BY <1>1 DEF Passed, Matches, MatchesCaret, IsBeyondLatest, IsTooUnstable, Bucket
<1>3. ASSUME Steady' PROVE Current' \in Valid /\ Current' >= c
  <2>1. Steady
    BY <1>3 DEF Steady, Satisfying, Matches, MatchesCaret, RangeStrategy, NpmRangeStrategy
  <2>2. Current \in Valid /\ Current >= c /\ Current # None
    BY <1>1, <2>1, VersionsAreValid DEF RisenFrom
  <2>3. Current' # None /\ Current' >= Current
    BY <2>1, <2>2, AdditionsRaiseCurrent
  <2>4. Current' \in Valid
    <3>1. CurrentIsValid'
      BY ValidCurrent, PTL
    <3> QED
      BY <2>3, <3>1 DEF CurrentIsValid
  <2> QED
    BY <2>2, <2>3, <2>4, ValidInt
<1> QED
  BY <1>2, <1>3 DEF RisenFrom

LEMMA LookStrictInv ==
    ASSUME TypeInv, Look
    PROVE  StrictInv'
<1>1. /\ offered' = Updates
      /\ UNCHANGED <<config, value, locked, published, deprecated, latest, aged>>
  BY DEF Look, registry
<1>2. Current' = Current
  BY <1>1, SameCurrent
<1> SUFFICES ASSUME config.internalChecksFilter = "strict", NEW u \in Updates,
                    ~u.pending, u.type \notin {"pin", "rollback"}
             PROVE  \E c \in Valid : (Passed(u, c) /\ RisenFrom(c))'
  BY <1>1 DEF StrictInv
<1>3. PICK c \in Valid : c = Current /\ Passed(u, c)
  BY LookPasses
<1>4. Passed(u, c)'
  BY <1>1, <1>3 DEF Passed, Matches, MatchesCaret, IsBeyondLatest, IsTooUnstable, Bucket
<1>5. Current' \in Valid /\ Current' >= c
  <2>1. c \in Int
    BY ValidInt
  <2> QED
    BY <1>2, <1>3, <2>1
<1> QED
  BY <1>4, <1>5 DEF RisenFrom

LEMMA StepStrictInv == TypeInv /\ StrictInv /\ [Next]_vars => StrictInv'
<1> SUFFICES ASSUME TypeInv, TypeInv', StrictInv, [Next]_vars PROVE StrictInv'
  BY StepTypeInv
<1>1. ASSUME NEW v \in Versions, Publish(v) PROVE StrictInv'
  BY <1>1, AdditionsPass DEF Publish, Happens
<1>2. ASSUME NEW v \in Versions, Unpublish(v) \/ Deprecate(v) \/ TagLatest(v) PROVE StrictInv'
  <2>1. "other" \in since'
    BY <1>2 DEF Unpublish, Deprecate, TagLatest, Happens
  <2> QED
    BY <2>1 DEF StrictInv
<1>3. ASSUME NEW v \in Versions, PassChecks(v) PROVE StrictInv'
  BY <1>3, AdditionsPass DEF PassChecks
<1>4. CASE Look
  BY <1>4, LookStrictInv
<1>5. CASE MergeOne
  <2>1. "merge" \in since'
    BY <1>5 DEF MergeOne, Merge
  <2> QED
    BY <2>1 DEF StrictInv
<1>6. CASE UNCHANGED vars
  BY <1>6, AdditionsPass DEF vars, registry
<1> QED
  BY <1>1, <1>2, <1>3, <1>4, <1>5, <1>6 DEF Next, OnePasses

(* With strict checks the update offered for a bucket never becomes an      *)
(* older one by what is only added to the registry: for all releases, all   *)
(* configurations and all values there may be.                              *)
THEOREM StrictNeverFlaps == Spec => StrictDoesNotFlap
<1> DEFINE A == \A u \in offered, w \in offered' :
                  /\ config.internalChecksFilter = "strict" /\ Look /\ since = {"addition"}
                  /\ u.bucket = w.bucket /\ u.type \notin {"pin", "rollback"}
                  /\ ~u.pending /\ u.version \notin deprecated
                  /\ value.form = "range" =>
                        RangeStrategy # "bump" /\ Satisfying(deprecated, value) = {}
                  => w.version >= u.version
<1>1. Init => TypeInv /\ StrictInv
  BY InitTypeInv DEF Init, StrictInv
<1>2. Spec => [](TypeInv /\ StrictInv)
  BY <1>1, StepTypeInv, StepStrictInv, PTL DEF Spec
<1>3. TypeInv /\ StrictInv => A
  <2> SUFFICES ASSUME TypeInv, StrictInv, NEW u \in offered, NEW w \in offered',
                      config.internalChecksFilter = "strict", Look, since = {"addition"},
                      u.bucket = w.bucket, u.type \notin {"pin", "rollback"},
                      ~u.pending, u.version \notin deprecated, Steady
               PROVE  w.version >= u.version
    BY DEF Steady
  <2>1. w \in Updates
    BY DEF Look
  <2> QED
    BY <2>1, LookDoesNotFlap
<1>4. TypeInv /\ StrictInv /\ [Next]_vars => [A]_vars
  BY <1>3
<1> QED
  BY <1>2, <1>4, PTL DEF Spec, StrictDoesNotFlap

=============================================================================
