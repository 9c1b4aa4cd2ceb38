------------------------------- MODULE Lookup -------------------------------
(***************************************************************************)
(* lookupUpdates (lib/workers/repository/process/lookup): which updates of *)
(* a dependency a run offers, from what its registry has, for npm's        *)
(* versioning; and what becomes of the dependency as releases come and go  *)
(* and the updates are merged.                                             *)
(*                                                                         *)
(* The version 2.1.0 is the number 2101 and 2.1.0-beta the number 2100, so *)
(* that versions compare as numbers.  A value in a package file is a       *)
(* version, or a range "^a || ^b" that names the versions its carets stand *)
(* before.  No major version is 0, and none has ten minor versions.        *)
(***************************************************************************)
EXTENDS Integers, FiniteSetsExt

CONSTANTS
    Versions,   \* what may be published
    Allowed,    \* allowedVersions
    Configs,    \* the configurations of the dependency
    FirstPublished, FirstValues,  \* what there is in the beginning
    MaxEvents   \* bound: what happens in the registry

Strategies == {"pin", "replace", "bump", "widen", "update-lockfile", "in-range-only"}

ASSUME LookupAssumption ==
    /\ Versions \subseteq 1000..9999 /\ Allowed \subseteq Versions
    /\ \A v \in Versions : v % 10 \in {0, 1}
    /\ FirstPublished \subseteq Versions
    /\ \A val \in FirstValues :
        /\ val.form \in {"version", "range"}
        /\ val.of # {} /\ val.of \subseteq {v \in 1000..9999 : v % 10 \in {0, 1}}
        /\ val.form = "version" => \E v \in val.of : val.of = {v}
    /\ \A c \in Configs :
        /\ c.rangeStrategy \in Strategies
        /\ c.internalChecksFilter \in {"none", "strict", "flexible"}
    /\ MaxEvents \in Nat

None == 0
Stable(v) == v % 10 = 1
Major(v) == v \div 1000
Minor(v) == (v \div 100) % 10
Patch(v) == (v \div 10) % 10
SameTriple(u, v) == u \div 10 = v \div 10

Value(form, of) == [form |-> form, of |-> of]
Version(v) == Value("version", {v})
Caret(v) == Value("range", {v})

VARIABLES
    config,     \* the dependency's configuration
    published,  \* the releases the registry has
    deprecated, \* those marked so
    latest,     \* dist-tags.latest, or None
    aged,       \* those that pass stabilityDays and minimumConfidence
    value,      \* currentValue
    locked,     \* lockedVersion, or None
    offered,    \* the updates that the last run found
    since,      \* what happened since that run
    events      \* what happened in the registry so far

registry == <<published, deprecated, latest, aged, events>>
vars == <<config, registry, value, locked, offered, since>>
----------------------------------------------------------------------------
(***************************************************************************)
(* npm versioning: lib/modules/versioning/npm                              *)
(***************************************************************************)
\* a prerelease matches only a caret before a prerelease of the same triple
MatchesCaret(v, f) ==
    /\ Major(v) = Major(f) /\ v >= f
    /\ Stable(v) \/ (~Stable(f) /\ SameTriple(v, f))
Matches(v, val) ==
    IF val.form = "version" THEN v \in val.of ELSE \E f \in val.of : MatchesCaret(v, f)
Satisfying(vs, val) == {v \in vs : Matches(v, val)}
IsLessThanRange(v, val) == \A f \in val.of : v < f

Highest(vs) == IF vs = {} THEN None ELSE Max(vs)
Lowest(vs) == IF vs = {} THEN None ELSE Min(vs)

\* replaceCaretValue, of two versions whose major is not 0
ReplaceCaret(from, to) ==
    IF Major(to) > Major(from) THEN Major(to) * 1000 + 1
    ELSE IF Major(to) < Major(from) \/ Minor(to) < Minor(from) \/ Patch(to) < Patch(from)
    THEN to
    ELSE from

Replaced(val, from, to) ==
    IF val.form = "version" THEN Version(to)
    ELSE Caret(IF ~Stable(to) \/ from = None THEN to ELSE ReplaceCaret(from, to))

NewValueAnyway(val, strategy, from, to) ==    \* mutant
    IF strategy = "pin" \/ val.form = "version" THEN Version(to)
    ELSE IF strategy \in {"update-lockfile", "widen"} THEN val
    ELSE Replaced(val, from, to)
\* getNewValue
NewValue(val, strategy, from, to) ==
    IF strategy = "pin" \/ val.form = "version" THEN Version(to)
    ELSE IF strategy \in {"update-lockfile", "widen"} /\ Matches(to, val) THEN val
    ELSE IF strategy = "widen" THEN Value("range", val.of \cup Replaced(val, from, to).of)
    ELSE IF strategy = "bump" THEN Caret(to)
    ELSE Replaced(val, from, to)

\* getRangeStrategy of npm's manager, and what all managers make of it
NpmRangeStrategy ==
    IF config.rangeStrategy = "bump" /\ Cardinality(value.of) > 1 THEN "widen"
    ELSE config.rangeStrategy
RangeStrategy ==
    IF NpmRangeStrategy = "in-range-only" THEN "update-lockfile" ELSE NpmRangeStrategy
----------------------------------------------------------------------------
(***************************************************************************)
(* What lookupUpdates takes the current version for.                       *)
(***************************************************************************)
\* getCurrentVersion
CurrentOf(vs) ==
    LET matching == Satisfying(vs, value)
        use == IF latest # None /\ Matches(latest, value)
               THEN {v \in matching : v <= latest} ELSE matching
    IN CASE value.form = "version" -> CHOOSE v \in value.of : TRUE
         [] value.form = "range" /\ RangeStrategy = "pin" ->
                IF locked # None THEN locked ELSE Highest(use)
         [] value.form = "range" /\ RangeStrategy = "bump" -> Lowest(use)
         [] OTHER -> Highest(use)

Current ==
    IF RangeStrategy = "update-lockfile" /\ locked # None THEN locked
    ELSE IF CurrentOf(published \ deprecated) # None THEN CurrentOf(published \ deprecated)
    ELSE CurrentOf(published)

From(current) == IF locked # None THEN locked ELSE current
----------------------------------------------------------------------------
(***************************************************************************)
(* filterVersions, getBucket and filterInternalChecks.                     *)
(***************************************************************************)
IsDeprecatedUpgrade(v, current) ==
    config.ignoreDeprecated /\ current \in published \ deprecated /\ v \in deprecated

IsBeyondLatest(v, current) ==
    config.respectLatest /\ latest # None /\ current <= latest /\ v > latest

IsUnstableInMajor(v, current) ==    \* mutant
    config.ignoreUnstable /\ ~Stable(v) /\ Stable(current) /\ Major(v) = Major(current)
IsTooUnstable(v, current) ==
    config.ignoreUnstable /\ ~Stable(v) /\ (Stable(current) \/ ~SameTriple(v, current))

Filtered(current) ==
    LET releases == IF config.rangeStrategy = "in-range-only"
                    THEN Satisfying(published, value) ELSE published
    IN {v \in releases :
            /\ v > current /\ v \in Allowed
            /\ ~IsDeprecatedUpgrade(v, current)
            /\ ~IsBeyondLatest(v, current)
            /\ ~IsTooUnstable(v, current)}

Bucket(v, current) ==
    IF ~config.separateMajorMinor THEN <<"latest">>
    ELSE IF Major(v) # Major(current)
    THEN IF config.separateMultipleMajor THEN <<"major", Major(v)>> ELSE <<"major">>
    ELSE IF ~config.separateMinorPatch THEN <<"non-major">>
    ELSE IF Minor(v) = Minor(current) THEN <<"patch">> ELSE <<"minor">>

HighestAtOnce(releases) ==    \* mutant
    LET passed == releases \cap aged
    IN [version |-> IF passed # {} THEN Max(passed) ELSE Max(releases), pending |-> FALSE]
\* the highest release that passed its checks; if none did, the highest
Picked(releases) ==
    LET passed == releases \cap aged
    IN IF config.internalChecksFilter = "none"
       THEN [version |-> Max(releases), pending |-> FALSE]
       ELSE IF passed # {} THEN [version |-> Max(passed), pending |-> FALSE]
       ELSE [version |-> Max(releases),
             pending |-> config.internalChecksFilter = "strict"]
----------------------------------------------------------------------------
(***************************************************************************)
(* The updates: getRollbackUpdate, the pin, and generateUpdate per bucket. *)
(***************************************************************************)
Update(type, bucket, newValue, version, pending) ==
    [type |-> type, bucket |-> bucket, value |-> newValue, version |-> version,
     pending |-> pending,
     lockfile |-> RangeStrategy = "update-lockfile" /\ newValue = value]

UpdateType(v, from) ==
    IF Major(v) > Major(from) THEN "major"
    ELSE IF Minor(v) > Minor(from) THEN "minor" ELSE "patch"

\* npm's isStable of a version, semver-stable's answer for a range
ValueIsStable ==
    IF value.form = "version" THEN \A v \in value.of : Stable(v)
    ELSE config.rangesAreStable

AlwaysMissing == TRUE    \* mutant
IsMissing == Satisfying(published, value) = {}

RolledBack ==
    LET lower == {v \in published : IsLessThanRange(v, value)}
        stable == {v \in lower : Stable(v)}
    IN IF ValueIsStable /\ stable # {} THEN Max(stable) ELSE Highest(lower)

Rollbacks ==
    IF config.rollbackPrs /\ IsMissing /\ RolledBack # None
    THEN {Update("rollback", <<"rollback">>, Replaced(value, None, RolledBack),
                 RolledBack, FALSE)}
    ELSE {}

Pins(current) ==
    IF value.form = "range" /\ RangeStrategy = "pin"
    THEN {Update("pin", <<"pin">>, Version(current), current, FALSE)}
    ELSE {}

BucketUpdates(current) ==
    LET filtered == Filtered(current)
        from == From(current)
        UpdateOf(bucket) ==
            LET picked == Picked({v \in filtered : Bucket(v, current) = bucket})
            IN Update(UpdateType(picked.version, from), bucket,
                      NewValue(value, RangeStrategy, from, picked.version),
                      picked.version, picked.pending)
    IN {u \in {UpdateOf(b) : b \in {Bucket(v, current) : v \in filtered}} :
            u.value # value \/ locked # None}

ChangesNothing(u) == u.value = value /\ ~u.lockfile
InRange(u) == config.rangeStrategy = "in-range-only" => u.value = value

\* a range that nothing published matches has no current version: no more is offered
Updates ==
    LET current == Current
    IN IF config.rollbackPrs /\ IsMissing /\ Rollbacks = {} THEN {}
       ELSE {u \in Rollbacks \cup (IF current = None THEN {}
                                   ELSE Pins(current) \cup BucketUpdates(current)) :
                ~ChangesNothing(u) /\ InRange(u)}
----------------------------------------------------------------------------
(***************************************************************************)
(* What happens: the registry changes, a run looks, an update is merged.  *)
(***************************************************************************)
\* what npm installs for a value: the locked version, the latest, one not deprecated
Installs(val, lock) ==
    LET matching == Satisfying(published, val)
    IN IF lock # None /\ Matches(lock, val) THEN lock
       ELSE IF latest \in matching THEN latest
       ELSE IF matching \ deprecated # {} THEN Max(matching \ deprecated)
       ELSE Highest(matching)
Installed == Installs(value, locked)

Init ==
    /\ config \in Configs
    /\ published = FirstPublished /\ deprecated = {} /\ aged = FirstPublished
    /\ latest \in {None, Highest(FirstPublished)}
    /\ value \in FirstValues
    /\ locked \in {None} \cup Satisfying(FirstPublished, value)
    /\ events = 0
    /\ offered = {} /\ since = {"other"}

Happens(what) ==
    /\ events < MaxEvents
    /\ events' = events + 1
    /\ since' = since \cup {what}
    /\ UNCHANGED <<config, value, locked, offered>>

Publish(v) ==
    /\ v \notin published
    /\ published' = published \cup {v}
    /\ UNCHANGED <<deprecated, latest, aged>>
    /\ Happens("addition")

Unpublish(v) ==
    /\ v \in published
    /\ published' = published \ {v} /\ deprecated' = deprecated \ {v} /\ aged' = aged \ {v}
    /\ latest' = IF latest = v THEN None ELSE latest
    /\ Happens("other")

Deprecate(v) ==
    /\ v \in published \ deprecated
    /\ deprecated' = deprecated \cup {v}
    /\ UNCHANGED <<published, latest, aged>>
    /\ Happens("other")

TagLatest(v) ==
    /\ v \in published \ {latest}
    /\ latest' = v
    /\ UNCHANGED <<published, deprecated, aged>>
    /\ Happens("other")

\* days pass since its publication, or people's confidence in it grows
PassChecks(v) ==
    /\ v \in published \ aged
    /\ aged' = aged \cup {v}
    /\ since' = since \cup {"addition"}
    /\ UNCHANGED <<config, published, deprecated, latest, events, value, locked, offered>>

OnePasses == \E v \in Versions : PassChecks(v)

\* a run looks the dependency up
Look ==
    /\ since # {}
    /\ offered' = Updates /\ since' = {}
    /\ UNCHANGED <<config, registry, value, locked>>

\* the branch of an update that is not pending is merged; those of the others conflict
Merge(u) ==
    /\ "merge" \notin since /\ ~u.pending
    /\ value' = u.value
    /\ locked' = IF locked = None THEN None
                 ELSE IF u.lockfile THEN u.version
                 ELSE Installs(u.value, locked)
    /\ since' = since \cup {"merge"}
    /\ UNCHANGED <<config, registry, offered>>

MergeOne == \E u \in offered : Merge(u)

Next ==
    \/ \E v \in Versions : Publish(v) \/ Unpublish(v) \/ Deprecate(v) \/ TagLatest(v)
    \/ OnePasses \/ Look \/ MergeOne

\* releases come to pass their checks, Renovate runs, and somebody merges what it offers
Fairness == WF_vars(OnePasses) /\ WF_vars(Look) /\ WF_vars(MergeOne)

Spec == Init /\ [][Next]_vars /\ Fairness
----------------------------------------------------------------------------
(* Values stay in their sets, and a locked version is one its value allows. *)
TypeOK ==
    /\ config \in Configs
    /\ published \subseteq Versions /\ deprecated \subseteq published
    /\ aged \subseteq published /\ latest \in published \cup {None}
    /\ value.form \in {"version", "range"} /\ value.of # {}
    /\ value.form = "version" => Cardinality(value.of) = 1
    /\ locked # None => Matches(locked, value)
    /\ events \in 0..MaxEvents /\ since \subseteq {"addition", "other", "merge"}

(* Merging what is offered comes to an end: updates, pins, lock file        *)
(* updates, widened ranges and rollbacks do not undo or repeat each other,  *)
(* once the registry stays as it is.                                        *)
Settles == <>[](offered = {})

\* which update is offered hangs on which versions of the range there are
DependsOnRange ==
    /\ value.form = "range" /\ locked = None
    /\ RangeStrategy = "pin" \/ Cardinality(value.of) > 1

(* Merging an update never installs an older version than before, nor an    *)
(* unstable one in place of a stable one, even when the registry has        *)
(* changed since the run that offered it: unless what was installed is      *)
(* deprecated, or people ask for unstable versions.  Three kinds may: a     *)
(* rollback, which is offered only when nothing that is wanted is there any *)
(* more; what was offered for the newest version of a range that is now     *)
(* another one, to a pin or to one more caret; and the one caret that       *)
(* rangeStrategy=replace puts in the place of several.                      *)
NeverDown ==
    [][\A u \in offered :
        /\ Merge(u) /\ u.type # "rollback"
        /\ u.type = "pin" \/ config.ignoreUnstable \/ Stable(u.version)
        /\ DependsOnRange => since = {}
        /\ Cardinality(value.of) > 1 => RangeStrategy # "replace"
        /\ Installed # None /\ u.version \in published
        => \/ Installed \in deprecated
           \/ Installed' >= Installed /\ (Stable(Installed) => Stable(Installed'))]_vars

(* With internalChecksFilter=strict what is offered for a bucket never goes *)
(* down to an older version while releases are only added: the flapping     *)
(* that docs/usage/configuration-options.md:1385 tells of is that of        *)
(* "flexible".  That hangs on the current version, which must not go down:  *)
(* it may with rangeStrategy=bump, which takes the lowest of the range, and *)
(* when it was a deprecated one for want of others.                         *)
StrictDoesNotFlap ==
    [][\A u \in offered, w \in offered' :
        /\ config.internalChecksFilter = "strict" /\ Look /\ since = {"addition"}
        /\ u.bucket = w.bucket /\ u.type \notin {"pin", "rollback"}
        /\ ~u.pending /\ u.version \notin deprecated
        /\ value.form = "range" =>
              RangeStrategy # "bump" /\ Satisfying(deprecated, value) = {}
        => w.version >= u.version]_vars
=============================================================================
