------------------------ MODULE BranchUpdateProofs ------------------------
(***************************************************************************)
(* What holds of BranchUpdate for every number of branches, bases,         *)
(* releases and commits: types; that a run never forgets a person's commit *)
(* it has seen (EditInv); that the cached answers it uses are true         *)
(* (CacheInv, BehindInv), so that a branch it keeps is current (ReusedInv);*)
(* and that a branch it skips is up to date (SkipInv).                     *)
(***************************************************************************)
EXTENDS BranchUpdate, TLAPS

(* The inductive invariant *)

\* the shas of the commits ever made on an update branch
Made(br) == {br} \X (1 .. Len(commits[br]))
MadeHead(br) == Made(br) \cup {NoSha}
BaseHead == Bases \X Nat

\* Every sha a run holds is that of a commit that exists: shas are never
\* invented, and a sha of the future is never in the cache.
ShasKnown ==
    /\ \A br \in Branches : remote[br] \in MadeHead(br) /\ snapshot[br] \in MadeHead(br) /\ origin[br] \in MadeHead(br)
    /\ \A b \in Bases : remote[b] \in BaseHead
    /\ cloned => \A b \in Bases : origin[b] \in BaseHead

EntriesKnown ==
    \A br \in Branches :
        /\ branches[br] # NoEntry => branches[br].sha \in MadeHead(br)
        /\ disk.branches[br] # NoEntry => disk.branches[br].sha \in MadeHead(br)

\* Where the loop of writeUpdates stands.
InProcess ==
    /\ phase = "idle" => ~cloned /\ memModified = [br \in Branches |-> "unset"]
    /\ phase = "write" => \A br \in Branches \ todo : branches[br] # NoEntry
    /\ work # NoWork => phase = "write" /\ work.br \notin todo
    /\ work # NoWork /\ work.stage \in {"push", "fetch", "record"} => cloned
    /\ work # NoWork /\ work.stage = "record" => work.commit = snapshot[work.br]

TypeInv == TypeOK /\ ShasKnown /\ EntriesKnown /\ InProcess

-----------------------------------------------------------------------------
(* Lemmas about the operators *)

LEMMA NewCommitType ==
    ASSUME NEW br \in Branches, TypeOK, NEW heads, heads[baseOf[br]] \in BaseHead
    PROVE  NewCommit(heads, br) \in Commit
BY DEF NewCommit, Commit, BaseHead, TypeOK, Sha, Refs

LEMMA FlagType == \A b : Flag(b) \in Flags
BY DEF Flag, Flags

LEMMA FingerprintType ==
    ASSUME TypeOK, NEW br \in Branches
    PROVE  Fingerprint(br) \in Prints
BY DEF Fingerprint, Prints, TypeOK

LEMMA SyncedType ==
    ASSUME TypeOK, NEW br \in Branches
    PROVE  /\ Synced(br) \in Entry
           /\ Synced(br).sha = snapshot[br]
           /\ Synced(br).isModified # "unset" =>
                 /\ branches[br] # NoEntry /\ branches[br].sha = snapshot[br]
                 /\ Synced(br).isModified = branches[br].isModified
<1> DEFINE minimal == [sha |-> snapshot[br], baseBranch |-> baseOf[br], baseSha |-> BaseSha(br),
                       isModified |-> "unset", isBehindBase |-> "unset",
                       fingerprint |-> NoPrint, parentSha |-> NoSha]
           e == IF branches[br] = NoEntry THEN minimal ELSE branches[br]
<1>1. /\ snapshot[br] \in Sha /\ BaseSha(br) \in Sha /\ NoSha \in Sha
      /\ baseOf[br] \in Bases /\ branches[br] \in Entry \cup {NoEntry}
  BY DEF TypeOK, Refs, BaseSha, Sha
<1>2. minimal \in Entry
  BY <1>1 DEF Entry, Flags, Prints
<1>3. e \in Entry
  BY <1>1, <1>2
<1> HIDE DEF e
<1>4. Synced(br) = [e EXCEPT !.sha = snapshot[br], !.baseBranch = baseOf[br], !.baseSha = BaseSha(br),
                 !.isModified = IF KeepModified(e, br) THEN @ ELSE "unset",
                 !.isBehindBase = IF KeepBehind(e, br) THEN @ ELSE "unset",
                 !.fingerprint = IF e.sha = snapshot[br] THEN @ ELSE NoPrint]
  BY DEF Synced, e
<1>5. Synced(br) \in Entry /\ Synced(br).sha = snapshot[br]
  BY <1>1, <1>3, <1>4 DEF Entry, Flags, Prints
<1>6. Synced(br).isModified = IF KeepModified(e, br) THEN e.isModified ELSE "unset"
  BY <1>3, <1>4 DEF Entry
<1> QED
  BY <1>5, <1>6 DEF e, KeepModified

LEMMA WithConflictType ==
    ASSUME TypeOK, NEW br \in Branches, NEW sha \in Sha, NEW flag, NEW ref \in Refs
    PROVE  WithConflict(br, sha, flag, ref) \in Conflicts
<1>1. BaseSha(br) \in Sha /\ NoSha \in Sha /\ baseOf[br] \in Bases
  BY DEF TypeOK, Refs, BaseSha, Sha
<1>2. KeptAnswers(br) \in [Branches -> [sha : Sha, isConflicted : BOOLEAN, over : Refs]]
  BY <1>1, ConstantsAssumption DEF KeptAnswers, TypeOK, Conflicts, Absent, Refs
<1> QED
  BY <1>1, <1>2 DEF WithConflict, TypeOK, Conflicts

LEMMA GeneratedType ==
    ASSUME TypeInv, NEW br \in Branches, branches[br] # NoEntry, NEW heads, NEW failed
    PROVE  /\ Generated(br, heads, failed) \in Entry \cup {NoEntry}
           /\ Generated(br, heads, failed) # NoEntry => Generated(br, heads, failed).sha = snapshot[br]
           /\ Generated(br, heads, failed) # NoEntry /\ Generated(br, heads, failed).isModified = "no" =>
                 ~Exists(br) \/ "no" \in {KnownModified(br), GitModified(heads[br], failed)}
<1> DEFINE e == branches[br]
           cachedParent == IF e.sha = snapshot[br] THEN e.parentSha ELSE NoSha
           parent == IF cachedParent # NoSha \/ ~cloned THEN cachedParent
                     ELSE CommitAt(snapshot[br]).parent
           modified == IF KnownModified(br) # "unset" THEN KnownModified(br)
                       ELSE GitModified(heads[br], failed)
           behind == IF KnownBehind(br) # "unset" THEN KnownBehind(br) ELSE GitBehind(heads, br)
           base == [sha |-> snapshot[br], baseBranch |-> baseOf[br], baseSha |-> BaseSha(br),
                 fingerprint |-> fingerprints[br], isModified |-> "no",
                 isBehindBase |-> "no", parentSha |-> NoSha]
<1>1. /\ snapshot[br] \in Sha /\ BaseSha(br) \in Sha /\ NoSha \in Sha
      /\ baseOf[br] \in Bases /\ branches[br] \in Entry /\ fingerprints[br] \in Prints
  BY DEF TypeInv, TypeOK, Refs, BaseSha, Sha
<1>2. base \in Entry
  BY <1>1 DEF Entry, Flags
<1>3. modified \in Flags
  BY <1>1, FlagType DEF KnownModified, GitModified, TypeInv, TypeOK, Entry, Flags
<1>4. behind \in Flags
  BY <1>1, FlagType DEF KnownBehind, GitBehind, Entry, Flags
<1>5. ASSUME Exists(br) PROVE parent \in Sha
  <2>1. cachedParent \in Sha
    BY <1>1 DEF Entry
  <2>2. CommitAt(snapshot[br]) \in Commit
    BY <1>5, NullsAssumption DEF TypeInv, TypeOK, ShasKnown, MadeHead, Made, CommitAt, Exists
  <2> QED
    BY <2>1, <2>2 DEF Commit
<1>6. Generated(br, heads, failed) =
        IF ~Exists(br) THEN base
        ELSE IF KnownModified(br) = "unset" /\ heads[br] = NoSha THEN NoEntry
        ELSE [base EXCEPT !.isModified = modified, !.isBehindBase = behind, !.parentSha = parent]
  BY DEF Generated
<1>8. modified \in {KnownModified(br), GitModified(heads[br], failed)}
  OBVIOUS
<1> HIDE DEF parent, modified, behind
<1>7. ASSUME Exists(br)
      PROVE  [base EXCEPT !.isModified = modified, !.isBehindBase = behind, !.parentSha = parent]
                \in Entry
  BY <1>7, <1>1, <1>3, <1>4, <1>5 DEF Entry
<1> QED
  BY <1>1, <1>2, <1>6, <1>7, <1>8 DEF Entry

-----------------------------------------------------------------------------
(* The invariant holds initially *)

LEMMA InitTypeInv == Init => TypeInv
<1> SUFFICES ASSUME Init PROVE TypeInv
  OBVIOUS
<1> USE ConstantsAssumption
<1>1. TypeOK
  <2>1. Root \in Sha /\ NoSha \in Sha
    BY DEF Root, Sha, Refs
  <2>2. NoHeads \in [Refs -> Sha] /\ remote \in [Refs -> Sha]
    BY <2>1 DEF Init, NoHeads
  <2>3. EmptyBranches \in [Branches -> Entry \cup {NoEntry}] /\ EmptyConflicts \in Conflicts
    BY <2>1 DEF EmptyBranches, EmptyConflicts, Conflicts, Absent, Refs
  <2>4. commits \in [Branches -> Seq(Commit)]
    BY DEF Init
  <2>5. disk \in [branches : [Branches -> Entry \cup {NoEntry}], conflicts : Conflicts]
    BY <2>3 DEF Init, EmptyCache
  <2> QED
    BY <2>2, <2>3, <2>4, <2>5 DEF Init, TypeOK, Flags, Prints, Refs
<1>2. ShasKnown
  BY DEF ShasKnown, Init, MadeHead, BaseHead, Root, NoHeads, Refs
<1>3. EntriesKnown
  BY DEF EntriesKnown, Init, EmptyCache, EmptyBranches
<1>4. InProcess
  BY DEF InProcess, Init
<1> QED
  BY <1>1, <1>2, <1>3, <1>4 DEF TypeInv

-----------------------------------------------------------------------------
(* Every step of the world preserves the invariant *)

LEMMA RefTypes ==
    ASSUME TypeInv
    PROVE  /\ NoSha \in Sha /\ Branches \subseteq Refs /\ Bases \subseteq Refs
           /\ \A br \in Branches : MadeHead(br) \subseteq Sha
           /\ BaseHead \subseteq Sha /\ Root \in BaseHead
           /\ Branches \cap Bases = {}
BY ConstantsAssumption DEF Sha, Refs, MadeHead, Made, BaseHead, Root

LEMMA CommitAtType ==
    ASSUME TypeInv, NEW br \in Branches, NEW sha \in MadeHead(br), sha # NoSha
    PROVE  CommitAt(sha) \in Commit
BY DEF TypeInv, TypeOK, MadeHead, Made, CommitAt

\* The clone, or the remote it is about to be made from, knows the heads.
LEMMA FetchedKnown ==
    ASSUME TypeInv
    PROVE  /\ Fetched \in [Refs -> Sha]
           /\ \A br \in Branches : Fetched[br] \in MadeHead(br)
           /\ \A b \in Bases : Fetched[b] \in BaseHead
BY DEF TypeInv, TypeOK, ShasKnown, Fetched

\* A commit appended to a branch leaves every earlier commit where it was.
LEMMA AppendKnown ==
    ASSUME TypeInv, NEW br \in Branches, NEW c \in Commit,
           commits' = [commits EXCEPT ![br] = Append(@, c)],
           remote' = [remote EXCEPT ![br] = <<br, Len(commits[br]) + 1>>]
    PROVE  /\ commits' \in [Branches -> Seq(Commit)]
           /\ remote' \in [Refs -> Sha]
           /\ \A x \in Branches : MadeHead(x) \subseteq MadeHead(x)' /\ remote'[x] \in MadeHead(x)'
           /\ \A r \in Refs \ {br} : remote'[r] = remote[r]
           /\ remote'[br] \notin MadeHead(br) \ {NoSha}
           /\ remote'[br] # NoSha /\ commits'[remote'[br][1]][remote'[br][2]] = c
           /\ \A x \in Branches : \A sha \in MadeHead(x) \ {NoSha} : CommitAt(sha)' = CommitAt(sha)
<1> DEFINE n == Len(commits[br]) + 1
<1>1. commits \in [Branches -> Seq(Commit)] /\ remote \in [Refs -> Sha]
  BY DEF TypeInv, TypeOK
<1>2. commits[br] \in Seq(Commit) /\ Len(commits[br]) \in Nat /\ n \in 1 .. n
  BY <1>1
<1>3. Append(commits[br], c) \in Seq(Commit) /\ Len(Append(commits[br], c)) = n
  BY <1>2
<1>4. commits' \in [Branches -> Seq(Commit)] /\ Len(commits'[br]) = n
  BY <1>1, <1>3
<1>5. \A x \in Branches : MadeHead(x) \subseteq MadeHead(x)'
  <2> TAKE x \in Branches
  <2>1. CASE x = br
    BY <2>1, <1>2, <1>4 DEF MadeHead, Made
  <2>2. CASE x # br
    BY <2>2, <1>1 DEF MadeHead, Made
  <2> QED BY <2>1, <2>2
<1>6. <<br, n>> \in MadeHead(br)' /\ <<br, n>> \in Sha /\ <<br, n>> # NoSha
  BY <1>2, <1>4, NullsAssumption DEF MadeHead, Made, Sha, Refs
<1>7. remote' \in [Refs -> Sha] /\ remote'[br] = <<br, n>>
  BY <1>1, <1>6 DEF Refs
<1>8. \A x \in Branches : remote'[x] \in MadeHead(x)'
  BY <1>1, <1>5, <1>6 DEF TypeInv, ShasKnown, Refs
<1>9. \A r \in Refs \ {br} : remote'[r] = remote[r]
  BY <1>1
<1>10. <<br, n>> \notin MadeHead(br) \ {NoSha}
  BY <1>2 DEF MadeHead, Made
<1>11. commits'[br][n] = c
  BY <1>1, <1>2
<1>12. \A x \in Branches : \A sha \in MadeHead(x) \ {NoSha} : CommitAt(sha)' = CommitAt(sha)
  <2> TAKE x \in Branches
  <2> TAKE sha \in MadeHead(x) \ {NoSha}
  <2>1. sha[1] = x /\ sha[2] \in 1 .. Len(commits[x])
    BY DEF MadeHead, Made
  <2>2. CASE x = br
    BY <2>1, <2>2, <1>1, <1>2 DEF CommitAt
  <2>3. CASE x # br
    BY <2>1, <2>3, <1>1 DEF CommitAt
  <2> QED BY <2>2, <2>3
<1> QED
  <2>1. remote'[br][1] = br /\ remote'[br][2] = n
    BY <1>7
  <2> QED
    BY <2>1, <1>4, <1>5, <1>6, <1>7, <1>8, <1>9, <1>10, <1>11, <1>12

LEMMA UserPushAppends ==
    ASSUME TypeInv, NEW br \in Branches, NEW author \in Authors, NEW merge \in BOOLEAN,
           UserPush(br, author, merge)
    PROVE  \E d \in Commit :
              /\ commits' = [commits EXCEPT ![br] = Append(@, d)]
              /\ remote' = [remote EXCEPT ![br] = <<br, Len(commits[br]) + 1>>]
              /\ LET c == CommitAt(remote[br])
                 IN d.base = c.base /\ c.onto <= d.onto /\ d.want = c.want /\ d.author = author
<1> DEFINE c == CommitAt(remote[br])
           onto == IF merge /\ remote[c.base][2] > c.onto THEN remote[c.base][2] ELSE c.onto
           d == [c EXCEPT !.author = author, !.parent = remote[br],
                          !.edited = @ \/ author = "user", !.onto = onto]
<1>1. c \in Commit
  BY CommitAtType DEF UserPush, TypeInv, ShasKnown
<1>2. onto \in Nat /\ c.onto <= onto
  BY <1>1 DEF Commit, TypeInv, ShasKnown, BaseHead
<1> HIDE DEF onto
<1>3. d \in Commit /\ d.base = c.base /\ d.onto = onto /\ d.want = c.want /\ d.author = author
  <2>1. author \in {"user", "ignored"} /\ remote[br] \in Sha
    BY RefTypes, ConstantsAssumption DEF TypeInv, TypeOK
  <2> HIDE DEF c
  <2> QED
    BY <1>1, <1>2, <2>1 DEF Commit
<1>4. /\ commits' = [commits EXCEPT ![br] = Append(@, d)]
      /\ remote' = [remote EXCEPT ![br] = <<br, Len(commits[br]) + 1>>]
  BY DEF UserPush, onto
<1> HIDE DEF d
<1> QED
  BY <1>2, <1>3, <1>4

LEMMA WorldTypeInv == TypeInv /\ World => TypeInv'
<1> SUFFICES ASSUME TypeInv, World PROVE TypeInv'
  OBVIOUS
<1> USE RefTypes
<1>1. ASSUME NEW b \in Bases, BaseMoves(b) PROVE TypeInv'
  <2>1. BaseCommit(b, remote[b][2] + 1) \in BaseHead
    BY DEF BaseCommit, BaseHead, TypeInv, ShasKnown
  <2>2. /\ remote' \in [Refs -> Sha] /\ \A x \in Bases : remote'[x] \in BaseHead
        /\ \A br \in Branches : remote'[br] = remote[br]
    BY <1>1, <2>1 DEF BaseMoves, TypeInv, TypeOK, ShasKnown
  <2>3. TypeOK'
    BY <1>1, <2>2 DEF BaseMoves, TypeInv, TypeOK, runVars, gitVars, cacheVars, loopVars
  <2>4. ShasKnown'
    BY <1>1, <2>2 DEF BaseMoves, TypeInv, ShasKnown, MadeHead, Made, runVars, gitVars
  <2> QED
    BY <1>1, <2>3, <2>4 DEF BaseMoves, TypeInv, EntriesKnown, InProcess, MadeHead, Made, runVars, gitVars, cacheVars, loopVars
<1>2. ASSUME NEW br \in Branches, NEW author \in Authors, NEW merge \in BOOLEAN,
             UserPush(br, author, merge)
      PROVE  TypeInv'
  <2>1. PICK d \in Commit :
           /\ commits' = [commits EXCEPT ![br] = Append(@, d)]
           /\ remote' = [remote EXCEPT ![br] = <<br, Len(commits[br]) + 1>>]
    BY <1>2, UserPushAppends
  <2>2. UNCHANGED <<want, baseOf, rebaseWhen, disk, runVars>>
    BY <1>2 DEF UserPush
  <2>3. TypeOK'
    BY <2>1, <2>2, AppendKnown DEF TypeInv, TypeOK, runVars, gitVars, cacheVars, loopVars
  <2>6. /\ \A x \in Branches : MadeHead(x) \subseteq MadeHead(x)' /\ remote'[x] \in MadeHead(x)'
        /\ \A b \in Bases : remote'[b] = remote[b]
    BY <2>1, AppendKnown
  <2>4. ShasKnown'
    BY <2>2, <2>6 DEF TypeInv, ShasKnown, runVars, gitVars
  <2>5. EntriesKnown'
    BY <2>2, <2>6 DEF TypeInv, EntriesKnown, runVars, cacheVars
  <2> QED
    BY <2>2, <2>3, <2>4, <2>5 DEF TypeInv, InProcess, runVars, gitVars, cacheVars, loopVars
<1>3. ASSUME NEW br \in Branches, UserDelete(br) PROVE TypeInv'
  <2>1. /\ remote' \in [Refs -> Sha] /\ \A b \in Bases : remote'[b] = remote[b]
        /\ \A x \in Branches : remote'[x] \in {remote[x], NoSha}
    BY <1>3 DEF UserDelete, TypeInv, TypeOK
  <2>2. TypeOK'
    BY <1>3, <2>1 DEF UserDelete, TypeInv, TypeOK, runVars, gitVars, cacheVars, loopVars
  <2>3. ShasKnown'
    BY <1>3, <2>1 DEF UserDelete, TypeInv, ShasKnown, MadeHead, Made, runVars, gitVars
  <2> QED
    BY <1>3, <2>2, <2>3 DEF UserDelete, TypeInv, EntriesKnown, InProcess, MadeHead, Made, runVars, gitVars, cacheVars, loopVars
<1>4. ASSUME NEW br \in Branches, NewRelease(br) PROVE TypeInv'
  BY <1>4 DEF NewRelease, TypeInv, TypeOK, ShasKnown, EntriesKnown, InProcess, MadeHead, Made, runVars, gitVars, cacheVars, loopVars
<1>5. ASSUME NEW br \in Branches, NEW b \in Bases, NEW mode \in RebaseModes, Reconfigure(br, b, mode)
      PROVE  TypeInv'
  BY <1>5 DEF Reconfigure, TypeInv, TypeOK, ShasKnown, EntriesKnown, InProcess, MadeHead, Made, runVars, gitVars, cacheVars, loopVars
<1>6. ASSUME LoseCache PROVE TypeInv'
  <2>1. disk' \in [branches : [Branches -> Entry \cup {NoEntry}], conflicts : Conflicts]
    BY <1>6, ConstantsAssumption DEF LoseCache, EmptyCache, EmptyBranches, EmptyConflicts, Conflicts, Absent
  <2>2. \A br \in Branches : disk'.branches[br] = NoEntry
    BY <1>6 DEF LoseCache, EmptyCache, EmptyBranches
  <2> QED
    BY <1>6, <2>1, <2>2 DEF LoseCache, TypeInv, TypeOK, ShasKnown, EntriesKnown, InProcess, MadeHead, Made, worldVars, runVars, gitVars, cacheVars, loopVars
<1> QED
  BY <1>1, <1>2, <1>3, <1>4, <1>5, <1>6 DEF World

-----------------------------------------------------------------------------
(* Every step of a run preserves it *)

LEMMA RunOverType ==
    ASSUME TypeInv, RunOver, UNCHANGED worldVars,
           disk' = disk \/ (phase = "save" /\ disk' = [branches |-> branches, conflicts |-> conflicts])
    PROVE  TypeInv'
<1> USE RefTypes
<1>1. /\ NoHeads \in [Refs -> Sha] /\ EmptyBranches \in [Branches -> Entry \cup {NoEntry}]
      /\ EmptyConflicts \in Conflicts
  BY ConstantsAssumption DEF NoHeads, EmptyBranches, EmptyConflicts, Conflicts, Absent, Refs
<1>2. TypeOK'
  <2>1. disk' \in [branches : [Branches -> Entry \cup {NoEntry}], conflicts : Conflicts]
    BY DEF TypeInv, TypeOK
  <2>2. cloned' \in BOOLEAN
    BY DEF RunOver
  <2> QED
    BY <1>1, <2>1, <2>2, ConstantsAssumption DEF TypeInv, TypeOK, RunOver, worldVars, Flags, Prints, Refs
<1>3. ShasKnown'
  BY DEF TypeInv, ShasKnown, RunOver, worldVars, MadeHead, Made, NoHeads, Refs
<1>4. EntriesKnown'
  BY DEF TypeInv, EntriesKnown, RunOver, worldVars, MadeHead, Made, EmptyBranches
<1>5. InProcess'
  BY DEF InProcess, RunOver
<1> QED
  BY <1>2, <1>3, <1>4, <1>5 DEF TypeInv

LEMMA ReturnType ==
    ASSUME TypeInv, NEW br \in Branches, work # NoWork, work.br = br, ReturnNoCommit(br)
    PROVE  work' = NoWork /\ fingerprints' \in [Branches -> Prints]
BY FingerprintType DEF ReturnNoCommit, TypeInv, TypeOK, InProcess, Entry

LEMMA RunTypeInv ==
    ASSUME TypeInv, InitRepo \/ Extract \/ SaveCache \/ Abort
                    \/ \E lost, misread \in SUBSET Branches : SetBranchCache(lost, misread)
    PROVE  TypeInv'
<1> USE RefTypes
<1>1. CASE InitRepo
  <2>1. TypeOK'
    BY <1>1 DEF InitRepo, TypeInv, TypeOK, worldVars, loopVars
  <2> QED
    BY <1>1, <2>1 DEF InitRepo, TypeInv, ShasKnown, EntriesKnown, InProcess, MadeHead, Made, worldVars, loopVars
<1>2. CASE Extract
  <2>1. /\ origin' \in [Refs -> Sha] /\ cloned' \in BOOLEAN /\ current' \in Bases /\ headOn' \in Refs
        /\ \A br \in Branches : origin'[br] \in MadeHead(br)
        /\ cloned' => \A b \in Bases : origin'[b] \in BaseHead
    <3>1. CASE UNCHANGED <<cloned, origin, current, headOn>>
      BY <3>1 DEF TypeInv, TypeOK, ShasKnown
    <3>2. CASE SyncGit /\ \E b \in Bases : Checkout(b)
      BY <3>2, FetchedKnown DEF SyncGit, Checkout, Refs
    <3> QED
      BY <1>2, <3>1, <3>2 DEF Extract
  <2>2. TypeOK'
    BY <1>2, <2>1 DEF Extract, TypeInv, TypeOK, worldVars, cacheVars
  <2>3. ShasKnown' /\ EntriesKnown'
    BY <1>2, <2>1 DEF Extract, TypeInv, ShasKnown, EntriesKnown, MadeHead, Made, worldVars, cacheVars
  <2> QED
    BY <1>2, <2>2, <2>3 DEF Extract, TypeInv, InProcess, cacheVars
<1>3. CASE SaveCache
  BY <1>3, RunOverType DEF SaveCache
<1>4. CASE Abort
  BY <1>4, RunOverType DEF Abort
<1>5. ASSUME NEW lost \in SUBSET Branches, NEW misread \in SUBSET Branches,
           SetBranchCache(lost, misread) PROVE TypeInv'
  <2>1. /\ origin' \in [Refs -> Sha] /\ cloned' \in BOOLEAN
        /\ \A br \in Branches : origin'[br] \in MadeHead(br)
        /\ cloned' => \A b \in Bases : origin'[b] \in BaseHead
    BY <1>5, FetchedKnown DEF SetBranchCache, SyncGit, TypeInv, TypeOK, ShasKnown
  <2>2. \A br \in Branches : branches[br] # NoEntry
    BY <1>5 DEF SetBranchCache, TypeInv, InProcess
  <2>3. /\ branches' \in [Branches -> Entry \cup {NoEntry}]
        /\ \A br \in Branches : branches'[br] # NoEntry => branches'[br].sha = snapshot[br]
    BY <1>5, <2>2, GeneratedType DEF SetBranchCache
  <2>4. TypeOK'
    BY <1>5, <2>1, <2>3 DEF SetBranchCache, TypeInv, TypeOK, worldVars, loopVars
  <2>5. ShasKnown' /\ EntriesKnown'
    BY <1>5, <2>1, <2>3 DEF SetBranchCache, TypeInv, ShasKnown, EntriesKnown, MadeHead, Made, worldVars
  <2> QED
    BY <1>5, <2>4, <2>5 DEF SetBranchCache, TypeInv, InProcess, loopVars
<1> QED
  BY <1>1, <1>2, <1>3, <1>4, <1>5

\* SyncGit or no use of the clone at all
LEMMA CloneType ==
    ASSUME TypeInv, phase # "idle", SyncGit \/ UNCHANGED <<cloned, origin>>
    PROVE  /\ origin' \in [Refs -> Sha] /\ cloned' \in BOOLEAN
           /\ \A br \in Branches : origin'[br] \in MadeHead(br)
           /\ cloned' => \A b \in Bases : origin'[b] \in BaseHead
<1>1. CASE UNCHANGED <<cloned, origin>>
  BY <1>1 DEF TypeInv, TypeOK, ShasKnown
<1>2. CASE SyncGit
  BY <1>2, FetchedKnown DEF SyncGit
<1> QED
  BY <1>1, <1>2

\* What a step of processBranch that pushes nothing has to keep.
LEMMA LocalStepType ==
    ASSUME TypeInv, NEW br \in Branches, work # NoWork, work.br = br,
           UNCHANGED <<worldVars, disk, phase, snapshot, todo>>,
           SyncGit \/ UNCHANGED <<cloned, origin>>,
           current' \in Bases, headOn' \in Refs, memModified' \in [Branches -> Flags],
           branches' \in [Branches -> Entry \cup {NoEntry}],
           \A x \in Branches : /\ branches[x] # NoEntry => branches'[x] # NoEntry
                               /\ branches'[x] # NoEntry => branches'[x].sha \in MadeHead(x),
           conflicts' \in Conflicts, fingerprints' \in [Branches -> Prints],
           work' \in Work \cup {NoWork},
           work' # NoWork => /\ work'.br = br /\ work'.stage \notin {"fetch", "record"}
                             /\ work'.stage = "push" => cloned'
    PROVE  TypeInv'
<1>1. phase = "write" /\ br \notin todo
  BY DEF TypeInv, InProcess
<1>2. TypeOK'
  BY <1>1, CloneType DEF TypeInv, TypeOK, worldVars
<1>3. ShasKnown'
  BY <1>1, CloneType DEF TypeInv, ShasKnown, worldVars, MadeHead, Made
<1>4. EntriesKnown'
  BY DEF TypeInv, EntriesKnown, worldVars, MadeHead, Made
<1>5. InProcess'
  BY <1>1 DEF TypeInv, InProcess
<1> QED
  BY <1>2, <1>3, <1>4, <1>5 DEF TypeInv

LEMMA ProcessTypeInv ==
    ASSUME TypeInv, NEW br \in Branches, ProcessBranch(br)
    PROVE  TypeInv'
<1> USE RefTypes
<1>0. /\ current \in Bases /\ headOn \in Refs /\ memModified \in [Branches -> Flags]
      /\ conflicts \in Conflicts
      /\ branches \in [Branches -> Entry \cup {NoEntry}] /\ work \in Work \cup {NoWork}
      /\ fingerprints \in [Branches -> Prints] /\ baseOf[br] \in Bases
      /\ snapshot[br] \in MadeHead(br) /\ snapshot[br] \in Sha
      /\ \A x \in Branches : branches[x] # NoEntry => branches[x].sha \in MadeHead(x)
  BY DEF TypeInv, TypeOK, EntriesKnown, ShasKnown
<1>1. CASE StartBranch(br)
  <2>1. CanSkip(Synced(br), br) \in BOOLEAN
    BY DEF CanSkip
  <2> DEFINE w == [br |-> br, stage |-> "check", skip |-> CanSkip(Synced(br), br),
                   asked |-> FALSE, override |-> FALSE, reuse |-> FALSE,
                   conflicted |-> "unset", commit |-> NoSha]
  <2>2. w \in Work
    BY <2>1 DEF Work, Flags
  <2>3. work' = w /\ w.br = br /\ w.stage = "check"
    BY <1>1 DEF StartBranch
  <2> HIDE DEF w
  <2>4. Synced(br) # NoEntry
    BY SyncedType, NullsAssumption DEF TypeInv
  <2>5. TypeOK'
    BY <1>1, <2>2, <2>3, SyncedType DEF StartBranch, TypeInv, TypeOK, worldVars, gitVars
  <2>6. ShasKnown' /\ EntriesKnown'
    BY <1>0, <1>1, SyncedType DEF StartBranch, TypeInv, ShasKnown, EntriesKnown, MadeHead, Made, worldVars, gitVars
  <2>7. InProcess'
    BY <1>0, <1>1, <2>3, <2>4 DEF StartBranch, TypeInv, InProcess, gitVars
  <2> QED
    BY <2>5, <2>6, <2>7 DEF TypeInv
<1>2. CASE EarlyReturn(br) \/ RebaseNever(br) \/ SkipUpdate(br) \/ PushFails(br)
  BY <1>0, <1>2, ReturnType, LocalStepType
     DEF EarlyReturn, RebaseNever, SkipUpdate, PushFails, At, gitVars, cacheVars
<1>3. CASE UpdateFails(br)
  BY <1>0, <1>3, ReturnType, LocalStepType DEF UpdateFails, At, cacheVars, Refs
<1>4. ASSUME NEW rebase \in BOOLEAN, DecideByUser(br, rebase) PROVE TypeInv'
  <2>1. work' \in Work /\ work'.br = br /\ work'.stage = "update"
    BY <1>0, <1>4 DEF DecideByUser, At, Work
  <2> QED
    BY <1>0, <1>4, <2>1, LocalStepType DEF DecideByUser, At, gitVars, cacheVars
<1>5. ASSUME NEW failed \in BOOLEAN, CheckEdited(br, failed) PROVE TypeInv'
  <2> DEFINE known == KnownModified(br)
             ask == Exists(br) /\ known = "unset"
             answer == IF ~Exists(br) THEN "no" ELSE IF ask THEN GitModified(Fetched[br], failed) ELSE known
             decided == [work EXCEPT !.stage = "decide", !.override = answer = "yes"]
  <2>1. work \in Work /\ work.br = br /\ branches[br] \in Entry
    BY <1>0, <1>5 DEF CheckEdited, At, TypeInv, InProcess
  <2>2. answer \in Flags
    BY <1>0, FlagType DEF KnownModified, GitModified, TypeInv, TypeOK, Entry, Flags
  <2>3. /\ IF ask THEN SyncGit ELSE UNCHANGED <<cloned, origin>>
        /\ branches' = IF ask THEN [branches EXCEPT ![br].isModified = answer] ELSE branches
        /\ memModified' = IF Exists(br) THEN [memModified EXCEPT ![br] = answer] ELSE memModified
        /\ \/ ReturnNoCommit(br)
           \/ work' = decided /\ UNCHANGED fingerprints
        /\ UNCHANGED <<worldVars, disk, phase, snapshot, current, headOn, conflicts, todo>>
    BY <1>5 DEF CheckEdited
  <2> HIDE DEF answer, ask
  <2>4. decided \in Work /\ decided.br = br /\ decided.stage = "decide" /\ decided # NoWork
    BY <2>1, NullsAssumption DEF Work
  <2> HIDE DEF decided
  <2>5. work' \in Work \cup {NoWork} /\ fingerprints' \in [Branches -> Prints]
        /\ (work' # NoWork => work' = decided)
    BY <1>0, <2>1, <2>3, <2>4, ReturnType, NullsAssumption
  <2>6. /\ branches' \in [Branches -> Entry \cup {NoEntry}]
        /\ \A x \in Branches : /\ branches[x] # NoEntry => branches'[x] # NoEntry
                               /\ branches'[x] # NoEntry => branches'[x].sha \in MadeHead(x)
    <3> DEFINE e == [branches[br] EXCEPT !.isModified = answer]
    <3>1. e \in Entry /\ e # NoEntry /\ e.sha = branches[br].sha
      BY <2>1, <2>2, NullsAssumption DEF Entry
    <3>2. branches' = IF ask THEN [branches EXCEPT ![br] = e] ELSE branches
      BY <2>3
    <3> HIDE DEF e
    <3> QED
      BY <1>0, <2>1, <3>1, <3>2, NullsAssumption
  <2>7. memModified' \in [Branches -> Flags]
    BY <1>0, <2>2, <2>3
  <2>8. work # NoWork /\ current' \in Bases /\ headOn' \in Refs /\ conflicts' \in Conflicts
    BY <1>0, <2>1, <2>3, NullsAssumption
  <2> QED
    BY <2>1, <2>3, <2>4, <2>5, <2>6, <2>7, <2>8, LocalStepType
<1>6. CASE DecideReuse(br)
  <2>1. work \in Work /\ work.br = br /\ work # NoWork
    BY <1>0, <1>6, NullsAssumption DEF DecideReuse, At
  <2>2. MergedInto(br) \in Refs /\ HeadAfterMerge(Fetched, br) \in Refs
    BY <1>0 DEF MergedInto, HeadAfterMerge, Refs
  <2>9. \A flag : WithConflict(br, snapshot[br], flag, MergedInto(br)) \in Conflicts
    BY <1>0, <2>2, WithConflictType DEF TypeInv
  <2>3. /\ SyncGit \/ UNCHANGED <<cloned, origin>>
        /\ conflicts' \in Conflicts /\ headOn' \in Refs
        /\ UNCHANGED <<worldVars, disk, phase, snapshot, current, memModified, branches, todo, fingerprints>>
    BY <1>0, <1>6, <2>2, <2>9 DEF DecideReuse
  <2> DEFINE modified == memModified[br] = "yes"
             askBehind == Exists(br) /\ rebaseWhen[br] = "behind-base-branch" /\ KnownBehind(br) = "unset"
             behind == /\ Exists(br) /\ rebaseWhen[br] = "behind-base-branch"
                       /\ "yes" = IF askBehind THEN GitBehind(Fetched, br) ELSE KnownBehind(br)
             merge == Exists(br) /\ ~behind
             askConflict == merge /\ KnownConflict(br) = "unset"
             answers == IF ~merge THEN {"unset"} ELSE IF ~askConflict THEN {KnownConflict(br)}
                        ELSE GitConflict(Fetched, br, MergedInto(br))
             reuse(conflict) == Exists(br) /\ (modified \/ (~behind /\ conflict = "no"))
  <2>4. PICK conflict \in answers :
           work' = [work EXCEPT !.stage = "update", !.conflicted = conflict, !.reuse = reuse(conflict)]
    BY <1>6 DEF DecideReuse
  <2> HIDE DEF behind
  <2>5. conflict \in Flags
    BY FlagType DEF KnownConflict, GitConflict, Flags
  <2> HIDE DEF answers
  <2>6. work' \in Work /\ work'.br = br /\ work'.stage = "update"
    BY <2>1, <2>4, <2>5 DEF Work
  <2> QED
    BY <1>0, <2>1, <2>3, <2>6, LocalStepType
<1>7. CASE UpdateFiles(br)
  <2>1. work \in Work /\ work.br = br /\ work # NoWork
    BY <1>0, <1>7, NullsAssumption DEF UpdateFiles, At
  <2>2. \A flag : WithConflict(br, snapshot[br], flag, baseOf[br]) \in Conflicts
    BY <1>0, WithConflictType DEF TypeInv, Refs
  <2>3. /\ SyncGit /\ current' = baseOf[br] /\ headOn' \in Refs /\ conflicts' \in Conflicts
        /\ (Goto("push") /\ UNCHANGED fingerprints) \/ ReturnNoCommit(br)
        /\ UNCHANGED <<worldVars, disk, phase, snapshot, memModified, branches, todo>>
    BY <1>0, <1>7, <2>2 DEF UpdateFiles, Refs
  <2>4. /\ work' \in Work \cup {NoWork} /\ fingerprints' \in [Branches -> Prints]
        /\ work' # NoWork => work'.br = br /\ work'.stage = "push"
    BY <1>0, <2>1, <2>3, ReturnType DEF Goto, Work
  <2>5. cloned'
    BY <2>3 DEF SyncGit
  <2> QED
    BY <1>0, <2>1, <2>3, <2>4, <2>5, LocalStepType
<1>8. ASSUME At(br, "push"), PutCommit(br) PROVE NewCommit(origin, br) \in Commit
  BY <1>0, <1>8, NewCommitType DEF At, TypeInv, InProcess, ShasKnown
<1>9. ASSUME PutCommit(br), At(br, "push")
      PROVE  /\ commits' \in [Branches -> Seq(Commit)] /\ remote' \in [Refs -> Sha]
             /\ \A x \in Branches : MadeHead(x) \subseteq MadeHead(x)' /\ remote'[x] \in MadeHead(x)'
             /\ \A b \in Bases : remote'[b] = remote[b]
  BY <1>8, <1>9, AppendKnown DEF PutCommit
<1>10. CASE PushWithLease(br)
  <2>1. PutCommit(br) /\ At(br, "push") /\ work # NoWork /\ work.br = br
    BY <1>10 DEF PushWithLease, At
  <2>2. /\ origin' \in [Refs -> Sha] /\ snapshot' \in [Refs -> Sha]
        /\ \A x \in Branches : origin'[x] \in MadeHead(x)' /\ snapshot'[x] \in MadeHead(x)'
        /\ \A b \in Bases : origin'[b] = origin[b]
    BY <1>9, <1>10, <2>1 DEF PushWithLease, TypeInv, TypeOK, ShasKnown
  <2>3. work' \in Work /\ work'.br = br /\ work'.commit = snapshot'[br]
    BY <1>0, <1>9, <1>10, <2>1 DEF PushWithLease, Work, TypeInv, TypeOK
  <2>4. TypeOK'
    BY <1>9, <1>10, <2>1, <2>2, <2>3 DEF PushWithLease, TypeInv, TypeOK, cacheVars, Flags
  <2>5. ShasKnown' /\ EntriesKnown'
    BY <1>9, <1>10, <2>1, <2>2 DEF PushWithLease, TypeInv, ShasKnown, EntriesKnown, cacheVars
  <2>6. InProcess'
    BY <1>10, <2>1, <2>3 DEF PushWithLease, TypeInv, InProcess, At, cacheVars
  <2> QED
    BY <2>4, <2>5, <2>6 DEF TypeInv
<1>11. CASE PushByApi(br)
  <2>1. PutCommit(br) /\ At(br, "push") /\ work # NoWork /\ work.br = br
    BY <1>11 DEF PushByApi, At
  <2>2. work' \in Work /\ work'.br = br /\ work'.stage = "fetch"
    BY <1>0, <1>11, <2>1 DEF PushByApi, Goto, Work
  <2>3. TypeOK'
    BY <1>9, <1>11, <2>1, <2>2 DEF PushByApi, TypeInv, TypeOK, gitVars, cacheVars
  <2>4. ShasKnown' /\ EntriesKnown'
    BY <1>9, <1>11, <2>1 DEF PushByApi, TypeInv, ShasKnown, EntriesKnown, gitVars, cacheVars
  <2>5. InProcess'
    BY <1>11, <2>1, <2>2 DEF PushByApi, TypeInv, InProcess, At, gitVars, cacheVars
  <2> QED
    BY <2>3, <2>4, <2>5 DEF TypeInv
<1>12. CASE FetchCommit(br)
  <2>1. /\ origin' \in [Refs -> Sha] /\ snapshot' \in [Refs -> Sha]
        /\ \A x \in Branches : origin'[x] \in MadeHead(x) /\ snapshot'[x] \in MadeHead(x)
        /\ \A b \in Bases : origin'[b] = origin[b]
    BY <1>12 DEF FetchCommit, TypeInv, TypeOK, ShasKnown
  <2>2. /\ work' \in Work /\ work'.br = br /\ work'.commit = snapshot'[br]
        /\ work # NoWork /\ work.br = br
    BY <1>0, <1>12 DEF FetchCommit, At, Work, TypeInv, TypeOK
  <2>3. TypeOK'
    BY <1>12, <2>1, <2>2 DEF FetchCommit, TypeInv, TypeOK, worldVars, cacheVars, Flags
  <2>4. ShasKnown' /\ EntriesKnown'
    BY <1>12, <2>1 DEF FetchCommit, TypeInv, ShasKnown, EntriesKnown, worldVars, cacheVars, MadeHead, Made
  <2>5. InProcess'
    BY <1>12, <2>2 DEF FetchCommit, TypeInv, InProcess, At, cacheVars
  <2> QED
    BY <2>3, <2>4, <2>5 DEF TypeInv
<1>13. CASE RecordCommit(br)
  <2>1. work # NoWork /\ work.br = br /\ work.commit \in Sha
    BY <1>0, <1>13 DEF RecordCommit, At, Work
  <2> DEFINE e == [branches[br] EXCEPT !.sha = work.commit, !.baseSha = BaseSha(br), !.isBehindBase = "no",
                    !.isModified = "no", !.parentSha = BaseSha(br)]
  <2>2. e \in Entry /\ e # NoEntry /\ e.sha = work.commit
    <3>1. branches[br] \in Entry /\ BaseSha(br) \in Sha
      BY <1>0, <2>1 DEF TypeInv, InProcess, TypeOK, BaseSha
    <3> QED
      BY <2>1, <3>1, NullsAssumption DEF Entry, Flags
  <2>3. work.commit \in MadeHead(br)
    BY <1>0, <1>13 DEF RecordCommit, At, TypeInv, InProcess
  <2>4. /\ branches' = [branches EXCEPT ![br] = e] /\ conflicts' \in Conflicts
        /\ fingerprints' \in [Branches -> Prints] /\ work' = NoWork
        /\ UNCHANGED <<worldVars, disk, phase, gitVars, todo>>
    BY <1>0, <1>13, <2>1, WithConflictType, FingerprintType DEF RecordCommit, TypeInv, Refs
  <2> HIDE DEF e
  <2> QED
    BY <1>0, <2>1, <2>2, <2>3, <2>4, LocalStepType DEF gitVars
<1> QED
  BY <1>1, <1>2, <1>3, <1>4, <1>5, <1>6, <1>7, <1>10, <1>11, <1>12, <1>13 DEF ProcessBranch

LEMMA StepTypeInv == TypeInv /\ [Next]_vars => TypeInv'
<1> SUFFICES ASSUME TypeInv, [Next]_vars PROVE TypeInv'
  OBVIOUS
<1>1. CASE UNCHANGED vars
  BY <1>1 DEF vars, worldVars, runVars, gitVars, cacheVars, loopVars, TypeInv, TypeOK, ShasKnown,
              EntriesKnown, InProcess, MadeHead, Made
<1>2. CASE World
  BY <1>2, WorldTypeInv
<1>3. CASE Run \/ Abort
  BY <1>3, RunTypeInv, ProcessTypeInv DEF Run
<1> QED
  BY <1>1, <1>2, <1>3 DEF Next

\* Memory and the saved cache keep their types through every run, crash and
\* push of anybody (util/git/index.ts, workers/repository/process/write.ts).
THEOREM TypeCorrect == Spec => []TypeOK
<1>1. Spec => []TypeInv
  BY InitTypeInv, StepTypeInv, PTL DEF Spec
<1> QED
  BY <1>1, PTL DEF TypeInv

-----------------------------------------------------------------------------
(***************************************************************************)
(* A commit that a run has seen and that a person made is not forgotten.   *)
(* The invariant needs that a clone which disagrees with the run's         *)
(* ls-remote about a branch is right about it (Superseded): an answer git  *)
(* gives about the clone's commit but the cache files under the commit of  *)
(* ls-remote is then about a head that is no more.                         *)
(***************************************************************************)

Superseded ==
    \A br \in Branches :
        cloned /\ snapshot[br] # NoSha /\ origin[br] # snapshot[br] => remote[br] # snapshot[br]

\* the branch in processBranch, past the check for edits, was found unmodified
Checked ==
    work # NoWork =>
        /\ work.stage \in {"check", "decide", "update", "push"} =>
              branches[work.br].sha = snapshot[work.br]
        /\ work.stage \in {"decide", "update", "push"} =>
              snapshot[work.br] = NoSha \/ work.override \/ memModified[work.br] = "no"
        /\ work.stage = "record" => memModified[work.br] = "no"
        /\ work.stage # "fetch"

EditInv == UnmodifiedIsTrue /\ Superseded /\ Checked

\* Nobody, not even a force push of the run, moves a branch back to a commit
\* it had before, or changes a commit.
Forward ==
    \A br \in Branches :
        /\ remote'[br] = remote[br] \/ remote'[br] \notin MadeHead(br) \ {NoSha}
        /\ \A sha \in MadeHead(br) \ {NoSha} : CommitAt(sha)' = CommitAt(sha)

LEMMA UnchangedForward ==
    ASSUME UNCHANGED <<commits, remote>>
    PROVE  Forward
BY DEF Forward, CommitAt

LEMMA AppendForward ==
    ASSUME TypeInv, NEW br \in Branches, NEW c \in Commit,
           commits' = [commits EXCEPT ![br] = Append(@, c)],
           remote' = [remote EXCEPT ![br] = <<br, Len(commits[br]) + 1>>]
    PROVE  Forward
BY AppendKnown, RefTypes DEF Forward

LEMMA PushForward ==
    ASSUME TypeInv, NEW br \in Branches, At(br, "push"), PutCommit(br)
    PROVE  Forward
<1>1. NewCommit(origin, br) \in Commit
  BY NewCommitType DEF At, TypeInv, TypeOK, InProcess, ShasKnown
<1> QED
  BY <1>1, AppendForward DEF PutCommit

LEMMA WorldForward ==
    ASSUME TypeInv, World
    PROVE  Forward
<1>1. ASSUME NEW b \in Bases, BaseMoves(b) PROVE Forward
  <2>1. \A br \in Branches : remote'[br] = remote[br]
    BY <1>1, RefTypes DEF BaseMoves, TypeInv, TypeOK
  <2> QED
    BY <1>1, <2>1 DEF BaseMoves, Forward, CommitAt
<1>2. ASSUME NEW br \in Branches, NEW author \in Authors, NEW merge \in BOOLEAN,
             UserPush(br, author, merge)
      PROVE  Forward
  BY <1>2, UserPushAppends, AppendForward
<1>3. ASSUME NEW br \in Branches, UserDelete(br) PROVE Forward
  <2>1. \A x \in Branches : remote'[x] \in {remote[x], NoSha}
    BY <1>3 DEF UserDelete, TypeInv, TypeOK
  <2> QED
    BY <1>3, <2>1 DEF UserDelete, Forward, CommitAt
<1> QED
  BY <1>1, <1>2, <1>3, UnchangedForward DEF World, NewRelease, Reconfigure, LoseCache, worldVars

\* what was not the head of a person's making does not become it
LEMMA HeadStaysNotUsers ==
    ASSUME TypeInv, Forward, NEW br \in Branches, NEW sha \in MadeHead(br), ~HeadIsUsers(br, sha)
    PROVE  ~HeadIsUsers(br, sha)'
BY DEF Forward, HeadIsUsers

LEMMA SupersededStep ==
    ASSUME TypeInv, Superseded, Forward, UNCHANGED snapshot,
           \/ UNCHANGED <<cloned, origin>>
           \/ SyncGit /\ UNCHANGED remote
    PROVE  Superseded'
<1> SUFFICES ASSUME NEW br \in Branches, cloned', snapshot[br] # NoSha, origin'[br] # snapshot[br]
             PROVE  remote'[br] # snapshot[br]
  BY DEF Superseded
<1>1. remote[br] # snapshot[br]
  BY DEF Superseded, SyncGit, Fetched
<1>2. snapshot[br] \in MadeHead(br) \ {NoSha}
  BY DEF TypeInv, ShasKnown
<1> QED
  BY <1>1, <1>2 DEF Forward

\* A step that leaves the answers alone leaves them true.
LEMMA UnmodifiedStep ==
    ASSUME TypeInv, UnmodifiedIsTrue, Forward, UNCHANGED <<snapshot, memModified, branches>>,
           \A br \in Branches : disk'.branches[br] \in {disk.branches[br], NoEntry}
    PROVE  UnmodifiedIsTrue'
<1> SUFFICES ASSUME NEW br \in Branches
             PROVE  /\ memModified[br] = "no" => ~HeadIsUsers(br, snapshot[br])'
                    /\ \A e \in {branches[br], disk'.branches[br]} :
                          e # NoEntry /\ e.isModified = "no" => ~HeadIsUsers(br, e.sha)'
  BY DEF UnmodifiedIsTrue
<1>1. snapshot[br] \in MadeHead(br)
  BY DEF TypeInv, ShasKnown
<1>2. memModified[br] = "no" => ~HeadIsUsers(br, snapshot[br])'
  BY <1>1, HeadStaysNotUsers DEF UnmodifiedIsTrue, HeadIsUsers
<1>3. ASSUME NEW e \in {branches[br], disk'.branches[br]}, e # NoEntry, e.isModified = "no"
      PROVE  ~HeadIsUsers(br, e.sha)'
  <2>1. e \in {branches[br], disk.branches[br]}
    BY <1>3
  <2>2. e.sha \in MadeHead(br) /\ ~HeadIsUsers(br, e.sha)
    BY <1>3, <2>1 DEF TypeInv, EntriesKnown, UnmodifiedIsTrue
  <2> QED
    BY <2>2, HeadStaysNotUsers
<1> QED
  BY <1>2, <1>3

\* What git says of the head in the clone, filed under the commit of ls-remote.
LEMMA GitModifiedTrue ==
    ASSUME TypeInv, Superseded, NEW br \in Branches, NEW failed,
           GitModified(Fetched[br], failed) = "no"
    PROVE  ~HeadIsUsers(br, snapshot[br])
<1>1. CASE Fetched[br] = snapshot[br]
  BY <1>1 DEF GitModified, Flag, HeadIsUsers
<1>2. CASE Fetched[br] # snapshot[br]
  BY <1>2 DEF Superseded, Fetched, HeadIsUsers
<1> QED
  BY <1>1, <1>2

LEMMA KnownModifiedTrue ==
    ASSUME UnmodifiedIsTrue, NEW br \in Branches, KnownModified(br) = "no"
    PROVE  ~HeadIsUsers(br, snapshot[br])
BY DEF KnownModified, UnmodifiedIsTrue

LEMMA InitEditInv == Init => EditInv
BY DEF Init, EditInv, UnmodifiedIsTrue, Superseded, Checked, EmptyCache, EmptyBranches

\* the steps of processBranch that ask nothing about edits and push nothing
LEMMA PlainStep ==
    ASSUME TypeInv, EditInv, NEW br \in Branches,
           \/ EarlyReturn(br) \/ RebaseNever(br) \/ SkipUpdate(br) \/ UpdateFails(br)
           \/ PushFails(br) \/ DecideReuse(br) \/ UpdateFiles(br)
           \/ \E rebase \in BOOLEAN : DecideByUser(br, rebase)
    PROVE  EditInv'
<1>1. /\ UNCHANGED <<worldVars, disk, snapshot, memModified, branches>>
      /\ SyncGit \/ UNCHANGED <<cloned, origin>>
  BY DEF EarlyReturn, RebaseNever, SkipUpdate, UpdateFails, PushFails, DecideByUser, DecideReuse,
         UpdateFiles, gitVars, cacheVars
<1>2. Forward
  BY <1>1, UnchangedForward DEF worldVars
<1>3. UnmodifiedIsTrue' /\ Superseded'
  BY <1>1, <1>2, UnmodifiedStep, SupersededStep DEF EditInv, worldVars
<1>4. work \in Work /\ work # NoWork
  BY DEF TypeInv, TypeOK, EarlyReturn, RebaseNever, SkipUpdate, UpdateFails, PushFails, DecideByUser,
         DecideReuse, UpdateFiles, At
<1>5. \/ work' = NoWork
      \/ /\ work'.br = work.br /\ work'.override = work.override
         /\ work.stage \in {"decide", "update"} /\ work'.stage \in {"update", "push"}
  <2>1. CASE \E rebase \in BOOLEAN : DecideByUser(br, rebase)
    BY <2>1, <1>4 DEF DecideByUser, At, Work
  <2>2. CASE DecideReuse(br)
    BY <2>2, <1>4 DEF DecideReuse, At, Work
  <2>3. CASE UpdateFiles(br)
    BY <2>3, <1>4 DEF UpdateFiles, At, Work, Goto, ReturnNoCommit
  <2> QED
    BY <2>1, <2>2, <2>3 DEF EarlyReturn, RebaseNever, SkipUpdate, UpdateFails, PushFails, ReturnNoCommit
<1>6. Checked'
  BY <1>1, <1>4, <1>5 DEF EditInv, Checked
<1> QED
  BY <1>3, <1>6 DEF EditInv

LEMMA StartStep ==
    ASSUME TypeInv, EditInv, NEW br \in Branches, StartBranch(br)
    PROVE  EditInv'
<1>1. /\ UNCHANGED <<commits, remote, disk, snapshot, memModified, cloned, origin>>
      /\ branches' = [branches EXCEPT ![br] = Synced(br)]
  BY DEF StartBranch, worldVars, gitVars
<1>2. branches' \in [Branches -> Entry \cup {NoEntry}] /\ branches'[br] = Synced(br)
      /\ \A x \in Branches \ {br} : branches'[x] = branches[x]
  BY <1>1, SyncedType DEF TypeInv, TypeOK
<1>3. Synced(br).sha = snapshot[br]
  BY SyncedType DEF TypeInv
<1>4. Synced(br).isModified = "no" => ~HeadIsUsers(br, snapshot[br])
  BY SyncedType DEF TypeInv, EditInv, UnmodifiedIsTrue
<1>5. UnmodifiedIsTrue'
  BY <1>1, <1>2, <1>3, <1>4 DEF EditInv, UnmodifiedIsTrue, HeadIsUsers, CommitAt
<1>6. Superseded'
  BY <1>1, UnchangedForward, SupersededStep DEF EditInv
<1>7. Checked'
  <2>1. work'.br = br /\ work'.stage = "check"
    BY DEF StartBranch
  <2> QED
    BY <1>1, <1>2, <1>3, <2>1 DEF Checked
<1> QED
  BY <1>5, <1>6, <1>7 DEF EditInv

LEMMA CheckEditedStep ==
    ASSUME TypeInv, EditInv, NEW br \in Branches, NEW failed \in BOOLEAN, CheckEdited(br, failed)
    PROVE  EditInv'
<1> DEFINE known == KnownModified(br)
           ask == Exists(br) /\ known = "unset"
           answer == IF ~Exists(br) THEN "no" ELSE IF ask THEN GitModified(Fetched[br], failed) ELSE known
<1>1. /\ UNCHANGED <<commits, remote, disk, snapshot>>
      /\ SyncGit \/ UNCHANGED <<cloned, origin>>
      /\ branches' = IF ask THEN [branches EXCEPT ![br].isModified = answer] ELSE branches
      /\ memModified' = IF Exists(br) THEN [memModified EXCEPT ![br] = answer] ELSE memModified
      /\ \/ work' = NoWork
         \/ work' = [work EXCEPT !.stage = "decide", !.override = answer = "yes"]
  BY DEF CheckEdited, ReturnNoCommit, worldVars
<1>2. work \in Work /\ work # NoWork /\ work.br = br /\ work.stage = "check"
      /\ branches[br] \in Entry /\ branches[br].sha = snapshot[br]
  BY DEF CheckEdited, At, TypeInv, TypeOK, InProcess, EditInv, Checked
<1>3. answer \in Flags /\ (ask => answer # "unset") /\ (~ask => answer # "unset")
  BY DEF KnownModified, GitModified, Flag, Flags, TypeInv, TypeOK, Entry
<1>4. Exists(br) /\ answer = "no" => ~HeadIsUsers(br, snapshot[br])
  BY GitModifiedTrue, KnownModifiedTrue DEF EditInv
<1> HIDE DEF answer, ask
<1>5. /\ memModified' \in [Branches -> Flags]
      /\ \A x \in Branches \ {br} : memModified'[x] = memModified[x]
      /\ Exists(br) => memModified'[br] = answer
  BY <1>1, <1>3 DEF TypeInv, TypeOK
<1>6. /\ \A x \in Branches \ {br} : branches'[x] = branches[x]
      /\ branches'[br].sha = snapshot[br]
      /\ branches'[br].isModified \in {branches[br].isModified, answer}
  BY <1>1, <1>2 DEF TypeInv, TypeOK, Entry
<1>7. \A x \in Branches : memModified'[x] = "no" => ~HeadIsUsers(x, snapshot[x])
  BY <1>1, <1>4, <1>5 DEF EditInv, UnmodifiedIsTrue, Exists, HeadIsUsers
<1>8. branches'[br].isModified = "no" => ~HeadIsUsers(br, snapshot[br])
  BY <1>2, <1>4, <1>6, NullsAssumption DEF EditInv, UnmodifiedIsTrue, Exists, HeadIsUsers
<1>9. UnmodifiedIsTrue'
  <2>1. \A x \in Branches : \A e \in {branches'[x], disk.branches[x]} :
           e # NoEntry /\ e.isModified = "no" => ~HeadIsUsers(x, e.sha)
    <3> TAKE x \in Branches
    <3>1. CASE x = br
      BY <3>1, <1>6, <1>8 DEF EditInv, UnmodifiedIsTrue
    <3>2. CASE x # br
      BY <3>2, <1>6 DEF EditInv, UnmodifiedIsTrue
    <3> QED
      BY <3>1, <3>2
  <2>2. \A x \in Branches : memModified'[x] = "no" => ~HeadIsUsers(x, snapshot[x])'
    BY <1>1, <1>7 DEF HeadIsUsers, CommitAt
  <2>3. \A x \in Branches : \A e \in {branches'[x], disk'.branches[x]} :
           e # NoEntry /\ e.isModified = "no" => ~HeadIsUsers(x, e.sha)'
    <3> TAKE x \in Branches
    <3> TAKE e \in {branches'[x], disk'.branches[x]}
    <3>1. e \in {branches'[x], disk.branches[x]}
      BY <1>1
    <3>2. HeadIsUsers(x, e.sha)' <=> HeadIsUsers(x, e.sha)
      BY <1>1 DEF HeadIsUsers, CommitAt
    <3> QED
      BY <2>1, <3>1, <3>2
  <2> QED
    BY <2>2, <2>3 DEF UnmodifiedIsTrue
<1>10. Superseded'
  BY <1>1, UnchangedForward, SupersededStep DEF EditInv
<1>11. Checked'
  <2>1. CASE work' = NoWork
    BY <2>1 DEF Checked
  <2>2. CASE work' = [work EXCEPT !.stage = "decide", !.override = answer = "yes"]
    <3>1. work'.br = br /\ work'.stage = "decide" /\ (work'.override <=> answer = "yes")
      BY <1>2, <2>2 DEF Work
    <3>2. snapshot[br] = NoSha \/ work'.override \/ memModified'[br] = "no"
      BY <1>3, <1>5, <3>1 DEF Exists, Flags
    <3> QED
      BY <1>1, <1>6, <3>1, <3>2 DEF Checked
  <2> QED
    BY <1>1, <2>1, <2>2
<1> QED
  BY <1>9, <1>10, <1>11 DEF EditInv

LEMMA PushStep ==
    ASSUME TypeInv, EditInv, NEW br \in Branches, PushWithLease(br)
    PROVE  EditInv'
<1> DEFINE c == NewCommit(origin, br)
<1>1. /\ At(br, "push") /\ PutCommit(br) /\ UNCHANGED <<disk, branches, cloned>>
      /\ origin' = [origin EXCEPT ![br] = remote'[br]]
      /\ snapshot' = [snapshot EXCEPT ![br] = remote'[br]]
      /\ memModified' = [memModified EXCEPT ![br] = "no"]
      /\ work' = [work EXCEPT !.stage = "record", !.commit = remote'[br]]
  BY DEF PushWithLease, cacheVars
<1>2. c \in Commit /\ c.author = "renovate"
  BY <1>1, NewCommitType DEF At, TypeInv, TypeOK, InProcess, ShasKnown, NewCommit
<1>3. /\ Forward
      /\ commits'[remote'[br][1]][remote'[br][2]] = c
  BY <1>1, <1>2, PushForward, AppendKnown DEF PutCommit
<1>4. /\ snapshot'[br] = remote'[br] /\ origin'[br] = remote'[br] /\ memModified'[br] = "no"
      /\ \A x \in Branches \ {br} : /\ snapshot'[x] = snapshot[x] /\ origin'[x] = origin[x]
                                    /\ memModified'[x] = memModified[x]
  BY <1>1, RefTypes DEF TypeInv, TypeOK
<1>5. ~HeadIsUsers(br, snapshot[br])'
  BY <1>2, <1>3, <1>4 DEF HeadIsUsers, CommitAt
<1>6. \A x \in Branches : memModified'[x] = "no" => ~HeadIsUsers(x, snapshot[x])'
  <2> TAKE x \in Branches
  <2>1. CASE x = br
    BY <2>1, <1>5
  <2>2. CASE x # br
    <3>1. snapshot[x] \in MadeHead(x)
      BY DEF TypeInv, ShasKnown
    <3>2. memModified[x] = "no" => ~HeadIsUsers(x, snapshot[x])
      BY DEF EditInv, UnmodifiedIsTrue
    <3> QED
      BY <1>3, <1>4, <2>2, <3>1, <3>2 DEF Forward, HeadIsUsers
  <2> QED
    BY <2>1, <2>2
<1>7. \A x \in Branches : \A e \in {branches[x], disk.branches[x]} :
           e # NoEntry /\ e.isModified = "no" => ~HeadIsUsers(x, e.sha)'
  <2> TAKE x \in Branches
  <2> TAKE e \in {branches[x], disk.branches[x]}
  <2>1. e # NoEntry => e.sha \in MadeHead(x)
    BY DEF TypeInv, EntriesKnown
  <2>2. e # NoEntry /\ e.isModified = "no" => ~HeadIsUsers(x, e.sha)
    BY DEF EditInv, UnmodifiedIsTrue
  <2> QED
    BY <1>3, <2>1, <2>2, HeadStaysNotUsers
<1>8. UnmodifiedIsTrue'
  BY <1>1, <1>6, <1>7 DEF UnmodifiedIsTrue
<1>9. Superseded'
  <2> SUFFICES ASSUME NEW x \in Branches, cloned', snapshot'[x] # NoSha, origin'[x] # snapshot'[x]
               PROVE  remote'[x] # snapshot'[x]
    BY DEF Superseded
  <2>1. x # br /\ snapshot'[x] = snapshot[x] /\ origin'[x] = origin[x]
    BY <1>4
  <2>2. remote[x] # snapshot[x] /\ snapshot[x] \in MadeHead(x) \ {NoSha}
    BY <1>1, <2>1 DEF EditInv, Superseded, TypeInv, ShasKnown
  <2> QED
    BY <1>3, <2>1, <2>2 DEF Forward
<1>10. work'.br = br /\ work'.stage = "record"
  BY <1>1 DEF At, TypeInv, TypeOK, Work
<1> QED
  BY <1>4, <1>8, <1>9, <1>10 DEF EditInv, Checked

LEMMA RecordStep ==
    ASSUME TypeInv, EditInv, NEW br \in Branches, RecordCommit(br)
    PROVE  EditInv'
<1>1. /\ UNCHANGED <<commits, remote, disk, snapshot, memModified, cloned, origin>>
      /\ work' = NoWork
      /\ branches' = [branches EXCEPT ![br] =
             [@ EXCEPT !.sha = work.commit, !.baseSha = BaseSha(br), !.isBehindBase = "no",
                       !.isModified = "no", !.parentSha = BaseSha(br)]]
  BY DEF RecordCommit, worldVars, gitVars
<1>2. /\ work.commit = snapshot[br] /\ memModified[br] = "no" /\ branches[br] \in Entry
  BY DEF RecordCommit, At, EditInv, Checked, TypeInv, TypeOK, InProcess
<1>3. ~HeadIsUsers(br, snapshot[br])
  BY <1>2 DEF EditInv, UnmodifiedIsTrue
<1>4. branches'[br].sha = snapshot[br] /\ \A x \in Branches \ {br} : branches'[x] = branches[x]
  BY <1>1, <1>2 DEF TypeInv, TypeOK, Entry
<1>5. \A x \in Branches : memModified'[x] = "no" => ~HeadIsUsers(x, snapshot[x])'
  BY <1>1 DEF EditInv, UnmodifiedIsTrue, HeadIsUsers, CommitAt
<1>6. \A x \in Branches : \A e \in {branches'[x], disk'.branches[x]} :
           e # NoEntry /\ e.isModified = "no" => ~HeadIsUsers(x, e.sha)'
  <2> TAKE x \in Branches
  <2> TAKE e \in {branches'[x], disk'.branches[x]}
  <2>1. HeadIsUsers(x, e.sha)' <=> HeadIsUsers(x, e.sha)
    BY <1>1 DEF HeadIsUsers, CommitAt
  <2>2. e \in {branches[x], disk.branches[x]} \/ (x = br /\ e.sha = snapshot[br])
    BY <1>1, <1>4
  <2> QED
    BY <1>3, <2>1, <2>2 DEF EditInv, UnmodifiedIsTrue
<1>7. Superseded'
  BY <1>1, UnchangedForward, SupersededStep DEF EditInv
<1> QED
  BY <1>1, <1>5, <1>6, <1>7 DEF EditInv, UnmodifiedIsTrue, Checked

LEMMA SetCacheStep ==
    ASSUME TypeInv, EditInv, NEW lost \in SUBSET Branches, NEW misread \in SUBSET Branches,
           SetBranchCache(lost, misread)
    PROVE  EditInv'
<1>1. /\ UNCHANGED <<commits, remote, disk, snapshot, memModified>> /\ work' = NoWork
      /\ SyncGit \/ UNCHANGED <<cloned, origin>>
      /\ branches' = [br \in Branches |-> IF br \in lost THEN NoEntry ELSE Generated(br, Fetched, br \in misread)]
      /\ \A br \in Branches : branches[br] # NoEntry
  BY DEF SetBranchCache, worldVars, loopVars, TypeInv, InProcess
<1>2. \A x \in Branches : memModified'[x] = "no" => ~HeadIsUsers(x, snapshot[x])'
  BY <1>1 DEF EditInv, UnmodifiedIsTrue, HeadIsUsers, CommitAt
<1>3. \A x \in Branches : \A e \in {branches'[x], disk'.branches[x]} :
           e # NoEntry /\ e.isModified = "no" => ~HeadIsUsers(x, e.sha)'
  <2> TAKE x \in Branches
  <2> TAKE e \in {branches'[x], disk'.branches[x]}
  <2> SUFFICES ASSUME e # NoEntry, e.isModified = "no" PROVE ~HeadIsUsers(x, e.sha)'
    OBVIOUS
  <2>1. HeadIsUsers(x, e.sha)' <=> HeadIsUsers(x, e.sha)
    BY <1>1 DEF HeadIsUsers, CommitAt
  <2>2. CASE e = disk.branches[x]
    BY <2>1, <2>2 DEF EditInv, UnmodifiedIsTrue
  <2>3. CASE e = Generated(x, Fetched, x \in misread)
    <3>1. e.sha = snapshot[x]
          /\ (~Exists(x) \/ "no" \in {KnownModified(x), GitModified(Fetched[x], x \in misread)})
      BY <1>1, <2>3, GeneratedType
    <3>2. ~HeadIsUsers(x, snapshot[x])
      <4>1. CASE ~Exists(x)
        BY <4>1 DEF Exists, HeadIsUsers
      <4>2. CASE Exists(x) /\ KnownModified(x) = "no"
        BY <4>2, KnownModifiedTrue DEF EditInv
      <4>3. CASE Exists(x) /\ GitModified(Fetched[x], x \in misread) = "no"
        BY <4>3, GitModifiedTrue DEF EditInv, Exists
      <4> QED
        BY <3>1, <4>1, <4>2, <4>3
    <3> QED
      BY <2>1, <3>1, <3>2
  <2> QED
    BY <1>1, <2>2, <2>3
<1>4. Superseded'
  BY <1>1, UnchangedForward, SupersededStep DEF EditInv
<1> QED
  BY <1>1, <1>2, <1>3, <1>4 DEF EditInv, UnmodifiedIsTrue, Checked

LEMMA RunOverStep ==
    ASSUME TypeInv, EditInv, RunOver, UNCHANGED worldVars,
           disk' = disk \/ disk' = [branches |-> branches, conflicts |-> conflicts]
    PROVE  EditInv'
<1>1. UnmodifiedIsTrue'
  BY DEF RunOver, EditInv, UnmodifiedIsTrue, HeadIsUsers, CommitAt, worldVars, EmptyBranches
<1> QED
  BY <1>1 DEF RunOver, EditInv, Superseded, Checked

LEMMA StepEditInv ==
    ASSUME PlatformCommit = FALSE, TypeInv, EditInv, [Next]_vars
    PROVE  EditInv'
<1>1. CASE UNCHANGED vars
  BY <1>1 DEF vars, worldVars, runVars, gitVars, cacheVars, loopVars, EditInv, UnmodifiedIsTrue,
              HeadIsUsers, CommitAt, Superseded, Checked
<1>2. CASE World
  <2>1. UNCHANGED runVars /\ Forward
    BY <1>2, WorldForward DEF World, BaseMoves, UserPush, UserDelete, NewRelease, Reconfigure, LoseCache
  <2>2. \A br \in Branches : disk'.branches[br] \in {disk.branches[br], NoEntry}
    <3>1. disk' = disk \/ disk' = EmptyCache
      BY <1>2 DEF World, BaseMoves, UserPush, UserDelete, NewRelease, Reconfigure, LoseCache
    <3> QED
      BY <3>1 DEF EmptyCache, EmptyBranches
  <2>3. UnmodifiedIsTrue' /\ Superseded'
    BY <2>1, <2>2, UnmodifiedStep, SupersededStep DEF EditInv, runVars, gitVars, cacheVars
  <2> QED
    BY <2>1, <2>3 DEF EditInv, Checked, runVars, gitVars, cacheVars, loopVars
<1>3. CASE InitRepo
  <2>1. /\ UNCHANGED <<commits, remote, disk, memModified, cloned>> /\ work' = work
        /\ snapshot' = remote /\ branches' = disk.branches /\ ~cloned /\ work = NoWork
    BY <1>3 DEF InitRepo, worldVars, loopVars, TypeInv, InProcess
  <2>2. \A br \in Branches : memModified[br] = "unset"
    BY <1>3 DEF InitRepo, TypeInv, InProcess
  <2> QED
    BY <2>1, <2>2 DEF EditInv, UnmodifiedIsTrue, Superseded, Checked, HeadIsUsers, CommitAt
<1>4. CASE Extract
  <2>1. /\ UNCHANGED <<commits, remote, disk, snapshot, memModified, branches, work>>
        /\ SyncGit \/ UNCHANGED <<cloned, origin>>
    BY <1>4 DEF Extract, worldVars, cacheVars
  <2>2. UnmodifiedIsTrue' /\ Superseded'
    BY <2>1, UnchangedForward, UnmodifiedStep, SupersededStep DEF EditInv
  <2> QED
    BY <2>1, <2>2 DEF EditInv, Checked
<1>5. CASE SaveCache \/ Abort
  BY <1>5, RunOverStep DEF SaveCache, Abort
<1>6. ASSUME NEW lost \in SUBSET Branches, NEW misread \in SUBSET Branches,
           SetBranchCache(lost, misread) PROVE EditInv'
  BY <1>6, SetCacheStep
<1>7. ASSUME NEW br \in Branches, ProcessBranch(br) PROVE EditInv'
  <2>1. ~PushByApi(br) /\ ~FetchCommit(br)
    BY DEF PushByApi, FetchCommit, At, EditInv, Checked
  <2> QED
    BY <1>7, <2>1, StartStep, CheckEditedStep, PlainStep, PushStep, RecordStep DEF ProcessBranch
<1> QED
  BY <1>1, <1>2, <1>3, <1>4, <1>5, <1>6, <1>7 DEF Next, Run

\* Commits made by git push: an edit that is the head of a branch is never
\* taken for Renovate's own, in memory or in a cache, by this run or a later one.
THEOREM EditsNotForgotten ==
    ASSUME PlatformCommit = FALSE
    PROVE  Spec => []UnmodifiedIsTrue
<1>1. Spec => [](TypeInv /\ EditInv)
  BY InitTypeInv, InitEditInv, StepTypeInv, StepEditInv, PTL DEF Spec
<1> QED
  BY <1>1, PTL DEF EditInv

\* Then a run overwrites an edit that its ls-remote showed only if it was asked
\* to: processBranch's check and the lease work together.
THEOREM SeenEditsAreKept ==
    ASSUME PlatformCommit = FALSE
    PROVE  Spec => SeenEditsKept
<1>1. Spec => [](TypeInv /\ EditInv)
  BY InitTypeInv, InitEditInv, StepTypeInv, StepEditInv, PTL DEF Spec
<1>2. ASSUME TypeInv, EditInv, [Next]_vars, NEW br \in Branches, ReplacesEdit(br)
      PROVE  work.asked \/ work.override \/ snapshot[br] # remote[br]
  <2>1. At(br, "push") /\ HeadIsUsers(br, remote[br])
    BY <1>2 DEF ReplacesEdit
  <2>2. snapshot[br] = remote[br] => HeadIsUsers(br, snapshot[br])
    BY <2>1
  <2>3. snapshot[br] = NoSha \/ work.override \/ memModified[br] = "no"
    BY <1>2, <2>1 DEF At, EditInv, Checked
  <2> QED
    BY <1>2, <2>2, <2>3 DEF EditInv, UnmodifiedIsTrue, HeadIsUsers
<1>3. TypeInv /\ EditInv /\ [Next]_vars =>
        [\A br \in Branches :
           ReplacesEdit(br) => work.asked \/ work.override \/ snapshot[br] # remote[br]]_vars
  BY <1>2
<1> QED
  BY <1>1, <1>3, PTL DEF Spec, SeenEditsKept

-----------------------------------------------------------------------------
(***************************************************************************)
(* The cached answers about conflicts.  An answer is filed under the shas  *)
(* of the run's ls-remote although git gave it for those of the clone, and *)
(* "no conflict" is filed for a commit the run made on the base commit of  *)
(* the clone.  It is true because base branches only grow (BasesInv), so   *)
(* that what merges into a later base commit merges into an earlier one,   *)
(* and because a clone that differs about the branch is right about it     *)
(* (Superseded).  This holds for any bases and for both ways to push.      *)
(***************************************************************************)

\* a commit that base branch b has or had as its head
Past(b, sha) == sha[2] \in 0 .. remote[b][2] /\ sha = BaseCommit(b, sha[2])

\* A run sees a base branch move one way: first ls-remote, then the clone.
BasesInv ==
    \A b \in Bases :
        /\ remote[b] = BaseCommit(b, remote[b][2])
        /\ phase # "idle" => Past(b, snapshot[b])
        /\ cloned => Past(b, origin[b]) /\ snapshot[b][2] <= origin[b][2]

\* c was made on the base commit of the clone, or on top of such a commit
Contained(c, br) == c.base = baseOf[br] /\ origin[baseOf[br]][2] <= c.onto

\* What the run has pushed is on the base commit of its clone, whatever commit
\* fetchCommit takes for it.
PushedInv ==
    work # NoWork =>
        /\ work.stage = "fetch" /\ remote[work.br] # NoSha =>
              Contained(CommitAt(remote[work.br]), work.br)
        /\ work.stage = "record" =>
              snapshot[work.br] # NoSha /\ Contained(CommitAt(snapshot[work.br]), work.br)

\* "no conflict" holds for the base commit it was given for, however far the
\* base has moved since; "conflicted" holds as long as the base has not moved,
\* if git merged the branch into the base.  Nothing is known of an answer that
\* git gave over another base branch.
ConflictTrue(flag, over, br, sha, b, target) ==
    sha = remote[br] /\ over \notin Bases \ {b} =>
        /\ ~flag => ~MergeConflicts(CommitAt(sha), target)
        /\ flag /\ over \notin Branches /\ target = remote[b] => MergeConflicts(CommitAt(sha), target)

AnswersTrue(cache) ==
    \A b \in Bases, br \in Branches :
        LET answer == cache[b].source[br]
        IN /\ answer.sha \in MadeHead(br)
           /\ answer.sha # NoSha =>
                 /\ Past(b, cache[b].target)
                 /\ ConflictTrue(answer.isConflicted, answer.over, br, answer.sha, b, cache[b].target)

ConflictsInv == \A cache \in {conflicts, disk.conflicts} : AnswersTrue(cache)

CacheInv == BasesInv /\ Superseded /\ PushedInv /\ ConflictsInv

\* Base branches and the lists of commits grow.
Grows ==
    /\ \A b \in Bases : /\ remote'[b][2] \in Nat /\ remote[b][2] <= remote'[b][2]
                        /\ remote'[b] = BaseCommit(b, remote'[b][2])
    /\ \A br \in Branches : MadeHead(br) \subseteq MadeHead(br)'

LEMMA BaseCommitFacts ==
    ASSUME NEW b \in Bases, NEW n \in Nat
    PROVE  BaseCommit(b, n)[2] = n /\ (n > 0 => BaseCommit(b, n)[1] = b) /\ BaseCommit(b, n) # NoSha
<1>1. BaseCommit(b, n) \in Refs \X Nat
  BY ConstantsAssumption DEF BaseCommit, Root, Refs
<1> QED
  BY <1>1, NullsAssumption DEF BaseCommit, Root

LEMMA MergeConflictsOf ==
    ASSUME NEW c, NEW b \in Bases, NEW n \in Nat
    PROVE  MergeConflicts(c, BaseCommit(b, n)) <=>
             \E k \in 1 .. n : <<b, k>> \in ConflictCommits /\ ~Contains(c, <<b, k>>)
<1> DEFINE sha == BaseCommit(b, n)
<1>1. sha[2] = n /\ (n > 0 => sha[1] = b)
  BY BaseCommitFacts
<1>2. MergeConflicts(c, sha) <=>
        \E k \in 1 .. sha[2] : <<sha[1], k>> \in ConflictCommits /\ ~Contains(c, <<sha[1], k>>)
  BY DEF MergeConflicts
<1> HIDE DEF sha
<1>3. MergeConflicts(c, sha) <=>
        \E k \in 1 .. n : <<b, k>> \in ConflictCommits /\ ~Contains(c, <<b, k>>)
  <2>1. CASE n = 0
    BY <1>1, <1>2, <2>1
  <2>2. CASE n > 0
    BY <1>1, <1>2, <2>2
  <2> QED
    BY <2>1, <2>2
<1> QED
  BY <1>3 DEF sha

\* A commit that merges into a base commit merges into the earlier ones.
LEMMA MergesIntoEarlier ==
    ASSUME NEW c, NEW b \in Bases, NEW m \in Nat, NEW n \in Nat, m <= n,
           ~MergeConflicts(c, BaseCommit(b, n))
    PROVE  ~MergeConflicts(c, BaseCommit(b, m))
<1>1. 1 .. m \subseteq 1 .. n
  OBVIOUS
<1> QED
  BY <1>1, MergeConflictsOf

\* A commit contains the base commit it was made on and the earlier ones, and
\* merges into them.
LEMMA ContainsEarlier ==
    ASSUME NEW c \in Commit, NEW b \in Bases, NEW m \in Nat, c.base = b, m <= c.onto
    PROVE  Contains(c, BaseCommit(b, m)) /\ ~MergeConflicts(c, BaseCommit(b, m))
<1>1. Contains(c, BaseCommit(b, m))
  BY BaseCommitFacts DEF Contains
<1>2. ASSUME NEW k \in 1 .. m PROVE Contains(c, <<b, k>>)
  BY DEF Contains, Commit
<1> QED
  BY <1>1, <1>2, MergeConflictsOf

\* What is a base commit stays one as the base branch grows.
LEMMA PastStays ==
    ASSUME TypeInv, Grows, NEW b \in Bases, NEW sha, Past(b, sha)
    PROVE  Past(b, sha)'
<1>1. remote[b][2] \in Nat
  BY DEF TypeInv, ShasKnown, BaseHead
<1> QED
  BY <1>1 DEF Grows, Past

LEMMA PastFacts ==
    ASSUME TypeInv, BasesInv, NEW b \in Bases
    PROVE  /\ remote[b][2] \in Nat /\ Past(b, remote[b])
           /\ \A sha : Past(b, sha) =>
                 sha[2] \in Nat /\ sha # NoSha /\ (remote[b][2] <= sha[2] => sha = remote[b])
<1>1. remote[b][2] \in Nat /\ remote[b] = BaseCommit(b, remote[b][2])
  BY DEF TypeInv, ShasKnown, BaseHead, BasesInv
<1>2. ASSUME NEW sha, Past(b, sha)
      PROVE  sha[2] \in Nat /\ sha # NoSha /\ (remote[b][2] <= sha[2] => sha = remote[b])
  <2>1. sha[2] \in Nat /\ sha[2] <= remote[b][2] /\ sha = BaseCommit(b, sha[2])
    BY <1>1, <1>2 DEF Past
  <2>2. BaseCommit(b, sha[2]) # NoSha
    BY <2>1, BaseCommitFacts
  <2>3. remote[b][2] <= sha[2] => remote[b][2] = sha[2]
    BY <1>1, <2>1
  <2> QED
    BY <1>1, <2>1, <2>2, <2>3
<1> QED
  BY <1>1, <1>2 DEF Past

\* The clone is ahead of ls-remote about the bases, and right about a branch
\* that is still where ls-remote saw it.
LEMMA FetchedFacts ==
    ASSUME TypeInv, BasesInv, Superseded, phase # "idle"
    PROVE  /\ \A b \in Bases : Past(b, Fetched[b]) /\ Past(b, snapshot[b]) /\ snapshot[b][2] <= Fetched[b][2]
           /\ \A br \in Branches : snapshot[br] # NoSha /\ snapshot[br] = remote[br] => Fetched[br] = snapshot[br]
<1>1. ASSUME NEW b \in Bases
      PROVE  Past(b, Fetched[b]) /\ Past(b, snapshot[b]) /\ snapshot[b][2] <= Fetched[b][2]
  <2>1. Past(b, snapshot[b]) /\ Past(b, remote[b]) /\ remote[b][2] \in Nat
    BY PastFacts DEF BasesInv
  <2>2. snapshot[b][2] <= remote[b][2]
    BY <2>1 DEF Past
  <2> QED
    BY <2>1, <2>2 DEF Fetched, BasesInv
<1>2. ASSUME NEW br \in Branches, snapshot[br] # NoSha, snapshot[br] = remote[br]
      PROVE  Fetched[br] = snapshot[br]
  BY <1>2 DEF Superseded, Fetched
<1> QED
  BY <1>1, <1>2

-----------------------------------------------------------------------------
(* The answers stay true whatever anybody does *)

LEMMA ConflictStays ==
    ASSUME TypeInv, BasesInv, Forward, Grows, NEW flag, NEW over, NEW br \in Branches, NEW sha \in MadeHead(br),
           sha # NoSha, NEW b \in Bases, NEW target, Past(b, target), ConflictTrue(flag, over, br, sha, b, target)
    PROVE  ConflictTrue(flag, over, br, sha, b, target)'
<1> SUFFICES ASSUME sha = remote'[br], over \notin Bases \ {b}
             PROVE  /\ ~flag => ~MergeConflicts(CommitAt(sha)', target)
                    /\ flag /\ over \notin Branches /\ target = remote'[b] => MergeConflicts(CommitAt(sha)', target)
  BY DEF ConflictTrue, MergeConflicts, Contains
<1>1. remote[br] = sha /\ CommitAt(sha)' = CommitAt(sha)
  BY DEF Forward
<1>2. target = remote'[b] => target = remote[b]
  <2>1. remote[b][2] \in Nat /\ target[2] \in Nat /\ remote[b][2] <= remote'[b][2]
    BY PastFacts DEF Grows
  <2> QED
    BY <2>1, PastFacts
<1> QED
  BY <1>1, <1>2 DEF ConflictTrue

LEMMA AnswersStay ==
    ASSUME TypeInv, BasesInv, Forward, Grows, NEW cache, AnswersTrue(cache)
    PROVE  AnswersTrue(cache)'
<1> SUFFICES ASSUME NEW b \in Bases, NEW br \in Branches
             PROVE  /\ cache[b].source[br].sha \in MadeHead(br)'
                    /\ cache[b].source[br].sha # NoSha =>
                          /\ Past(b, cache[b].target)'
                          /\ ConflictTrue(cache[b].source[br].isConflicted, cache[b].source[br].over,
                                          br, cache[b].source[br].sha, b, cache[b].target)'
  BY DEF AnswersTrue
<1> DEFINE sha == cache[b].source[br].sha
           flag == cache[b].source[br].isConflicted
           over == cache[b].source[br].over
           target == cache[b].target
<1>1. sha \in MadeHead(br)
  BY DEF AnswersTrue
<1>2. sha # NoSha => Past(b, target) /\ ConflictTrue(flag, over, br, sha, b, target)
  BY DEF AnswersTrue
<1>3. sha \in MadeHead(br)'
  BY <1>1 DEF Grows
<1> HIDE DEF sha, flag, over, target
<1>4. sha # NoSha => Past(b, target)' /\ ConflictTrue(flag, over, br, sha, b, target)'
  BY <1>1, <1>2, PastStays, ConflictStays
<1> QED
  BY <1>3, <1>4 DEF sha, flag, over, target

\* setCachedConflictResult files a true answer among true answers.
LEMMA WithConflictTrue ==
    ASSUME TypeInv, BasesInv, AnswersTrue(conflicts), phase # "idle",
           NEW br \in Branches, snapshot[br] # NoSha, NEW flag, NEW ref,
           ConflictTrue(flag = "yes", ref, br, snapshot[br], baseOf[br], BaseSha(br))
    PROVE  AnswersTrue(WithConflict(br, snapshot[br], flag, ref))
<1> DEFINE base == baseOf[br]
           sha == snapshot[br]
           answer == [sha |-> sha, isConflicted |-> flag = "yes", over |-> ref]
           source == IF KeptAnswers(br)[br].sha = sha THEN KeptAnswers(br)
                     ELSE [KeptAnswers(br) EXCEPT ![br] = answer]
           cache == [conflicts EXCEPT ![base] = [target |-> BaseSha(br), source |-> source]]
<1>1. /\ base \in Bases /\ sha \in MadeHead(br) /\ Past(base, BaseSha(br))
      /\ conflicts \in Conflicts
  BY DEF TypeInv, TypeOK, ShasKnown, BasesInv, BaseSha
<1>2. WithConflict(br, snapshot[br], flag, ref) = cache
  BY DEF WithConflict
<1>3. KeptAnswers(br) \in [Branches -> [sha : Sha, isConflicted : BOOLEAN, over : Refs]]
  BY <1>1, RefTypes, ConstantsAssumption DEF KeptAnswers, Conflicts, Absent, Refs
<1>4. ASSUME NEW x \in Branches
      PROVE  (source[x] = answer /\ x = br) \/ source[x] = KeptAnswers(br)[x]
  BY <1>3
<1>5. ASSUME NEW x \in Branches
      PROVE  \/ KeptAnswers(br)[x] = Absent
             \/ /\ KeptAnswers(br)[x] = conflicts[base].source[x]
                /\ conflicts[base].target = BaseSha(br)
  BY DEF KeptAnswers
<1>6. cache[base].target = BaseSha(br) /\ cache[base].source = source
  BY <1>1 DEF Conflicts
<1>7. \A b \in Bases \ {base} : cache[b] = conflicts[b]
  BY <1>1 DEF Conflicts
<1> HIDE DEF source, cache
<1>8. ASSUME NEW b \in Bases, NEW x \in Branches
      PROVE  /\ cache[b].source[x].sha \in MadeHead(x)
             /\ cache[b].source[x].sha # NoSha =>
                   /\ Past(b, cache[b].target)
                   /\ ConflictTrue(cache[b].source[x].isConflicted, cache[b].source[x].over,
                                   x, cache[b].source[x].sha, b, cache[b].target)
  <2>1. CASE b # base
    BY <2>1, <1>7 DEF AnswersTrue
  <2>2. CASE b = base /\ source[x] = answer /\ x = br
    BY <2>2, <1>1, <1>6
  <2>3. CASE b = base /\ source[x] = KeptAnswers(br)[x]
    <3>1. CASE KeptAnswers(br)[x] = Absent
      BY <2>3, <3>1, <1>6 DEF Absent, MadeHead
    <3>2. CASE KeptAnswers(br)[x] = conflicts[base].source[x] /\ conflicts[base].target = BaseSha(br)
      BY <2>3, <3>2, <1>6 DEF AnswersTrue
    <3> QED
      BY <3>1, <3>2, <1>5
  <2> QED
    BY <2>1, <2>2, <2>3, <1>4
<1> QED
  BY <1>2, <1>8 DEF AnswersTrue

-----------------------------------------------------------------------------
(* What every step does to the remote *)

\* Only the world and a push change the remote repository.
LEMMA RemoteSteps ==
    ASSUME [Next]_vars
    PROVE  \/ World
           \/ \E br \in Branches : At(br, "push") /\ PutCommit(br)
           \/ UNCHANGED <<commits, remote>>
<1>1. CASE UNCHANGED vars
  BY <1>1 DEF vars, worldVars
<1>2. CASE World
  BY <1>2
<1>3. CASE InitRepo \/ Extract \/ SaveCache \/ Abort \/ \E lost, misread \in SUBSET Branches : SetBranchCache(lost, misread)
  BY <1>3 DEF InitRepo, Extract, SaveCache, Abort, SetBranchCache, worldVars
<1>4. ASSUME NEW br \in Branches, ProcessBranch(br)
      PROVE  (At(br, "push") /\ PutCommit(br)) \/ UNCHANGED <<commits, remote>>
  BY <1>4 DEF ProcessBranch, StartBranch, EarlyReturn, CheckEdited, DecideByUser, RebaseNever, DecideReuse,
              SkipUpdate, UpdateFails, UpdateFiles, PushWithLease, PushByApi, FetchCommit, PushFails,
              RecordCommit, worldVars
<1> QED
  BY <1>1, <1>2, <1>3, <1>4 DEF Next, Run

LEMMA StepForward ==
    ASSUME TypeInv, [Next]_vars
    PROVE  Forward
BY RemoteSteps, WorldForward, PushForward, UnchangedForward

LEMMA StepGrows ==
    ASSUME TypeInv, BasesInv, [Next]_vars
    PROVE  Grows
<1>1. ASSUME UNCHANGED commits PROVE \A br \in Branches : MadeHead(br) \subseteq MadeHead(br)'
  BY <1>1 DEF MadeHead, Made
<1>2. ASSUME \A b \in Bases : remote'[b] = remote[b]
      PROVE  \A b \in Bases : /\ remote'[b][2] \in Nat /\ remote[b][2] <= remote'[b][2]
                              /\ remote'[b] = BaseCommit(b, remote'[b][2])
  BY <1>2, PastFacts DEF BasesInv
<1>3. ASSUME NEW br \in Branches, NEW c \in Commit,
             commits' = [commits EXCEPT ![br] = Append(@, c)],
             remote' = [remote EXCEPT ![br] = <<br, Len(commits[br]) + 1>>]
      PROVE  Grows
  <2>1. /\ \A x \in Branches : MadeHead(x) \subseteq MadeHead(x)'
        /\ \A b \in Bases : remote'[b] = remote[b]
    BY <1>3, AppendKnown, RefTypes
  <2> QED
    BY <1>2, <2>1 DEF Grows
<1>4. ASSUME NEW b \in Bases, BaseMoves(b) PROVE Grows
  <2> DEFINE n == remote[b][2] + 1
  <2>1. n \in Nat /\ remote[b][2] <= n
    BY PastFacts
  <2>2. /\ remote' = [remote EXCEPT ![b] = BaseCommit(b, n)] /\ UNCHANGED commits
        /\ remote \in [Refs -> Sha] /\ b \in Refs
    BY <1>4 DEF BaseMoves, TypeInv, TypeOK, Refs
  <2> HIDE DEF n
  <2>3. BaseCommit(b, n)[2] = n
    BY <2>1, BaseCommitFacts
  <2>4. \A x \in Bases : /\ remote'[x][2] \in Nat /\ remote[x][2] <= remote'[x][2]
                         /\ remote'[x] = BaseCommit(x, remote'[x][2])
    <3> TAKE x \in Bases
    <3>1. CASE x = b
      BY <2>1, <2>2, <2>3, <3>1
    <3>2. CASE x # b
      BY <2>2, <3>2, PastFacts DEF BasesInv, Refs
    <3> QED
      BY <3>1, <3>2
  <2> QED
    BY <1>1, <2>2, <2>4 DEF Grows
<1>5. CASE World
  <2>1. ASSUME NEW br \in Branches, UserDelete(br) PROVE Grows
    <3>1. UNCHANGED commits /\ \A b \in Bases : remote'[b] = remote[b]
      BY <2>1, RefTypes DEF UserDelete, TypeInv, TypeOK
    <3> QED
      BY <1>1, <1>2, <3>1 DEF Grows
  <2>2. ASSUME UNCHANGED <<commits, remote>> PROVE Grows
    BY <1>1, <1>2, <2>2 DEF Grows
  <2>3. ASSUME NEW br \in Branches, NEW author \in Authors, NEW merge \in BOOLEAN, UserPush(br, author, merge)
        PROVE  Grows
    BY <1>3, <2>3, UserPushAppends
  <2> QED
    BY <1>4, <1>5, <2>1, <2>2, <2>3 DEF World, NewRelease, Reconfigure, LoseCache, worldVars
<1>6. ASSUME NEW br \in Branches, At(br, "push"), PutCommit(br) PROVE Grows
  <2>1. NewCommit(origin, br) \in Commit
    BY <1>6, NewCommitType DEF At, TypeInv, TypeOK, InProcess, ShasKnown
  <2> QED
    BY <1>3, <1>6, <2>1 DEF PutCommit
<1>7. ASSUME UNCHANGED <<commits, remote>> PROVE Grows
  BY <1>1, <1>2, <1>7 DEF Grows
<1> QED
  BY <1>5, <1>6, <1>7, RemoteSteps

-----------------------------------------------------------------------------
(* The steps of a run by what they do to the clone *)

\* A run begins, ends, or goes on with the same view of the base branches or
\* with a new clone; what it knows of a branch changes by a push or a fetch.
ViewStep ==
    \/ phase' = "idle" /\ ~cloned'
    \/ phase = "idle" /\ phase' # "idle" /\ snapshot' = remote /\ UNCHANGED <<remote, cloned>>
    \/ /\ (phase = "idle" <=> phase' = "idle")
       /\ \/ UNCHANGED <<cloned, origin, snapshot>>
          \/ phase # "idle" /\ SyncGit /\ UNCHANGED <<remote, snapshot>>
          \/ \E br \in Branches :
                /\ \A r \in Refs \ {br} : origin'[r] = origin[r] /\ snapshot'[r] = snapshot[r]
                /\ origin'[br] = snapshot'[br] /\ UNCHANGED cloned

LEMMA ViewSteps ==
    ASSUME TypeInv, [Next]_vars
    PROVE  ViewStep
<1>1. CASE UNCHANGED vars
  BY <1>1 DEF vars, runVars, gitVars, ViewStep
<1>2. CASE World
  BY <1>2 DEF World, BaseMoves, UserPush, UserDelete, NewRelease, Reconfigure, LoseCache, runVars, gitVars, ViewStep
<1>3. CASE InitRepo
  BY <1>3 DEF InitRepo, worldVars, ViewStep
<1>4. CASE Extract
  BY <1>4 DEF Extract, worldVars, ViewStep
<1>5. CASE SaveCache \/ Abort
  BY <1>5 DEF SaveCache, Abort, RunOver, ViewStep
<1>6. ASSUME NEW lost \in SUBSET Branches, NEW misread \in SUBSET Branches,
           SetBranchCache(lost, misread) PROVE ViewStep
  BY <1>6 DEF SetBranchCache, worldVars, ViewStep
<1>7. ASSUME NEW br \in Branches, ProcessBranch(br) PROVE ViewStep
  <2>1. phase # "idle" /\ phase' = phase
    BY <1>7 DEF ProcessBranch, StartBranch, EarlyReturn, CheckEdited, DecideByUser, RebaseNever, DecideReuse,
              SkipUpdate, UpdateFails, UpdateFiles, PushWithLease, PushByApi, FetchCommit, PushFails,
              RecordCommit, At, TypeInv, InProcess
  <2>2. CASE PushWithLease(br) \/ FetchCommit(br)
    <3>1. /\ \A r \in Refs \ {br} : origin'[r] = origin[r] /\ snapshot'[r] = snapshot[r]
          /\ origin'[br] = snapshot'[br] /\ UNCHANGED cloned
      <4>1. origin \in [Refs -> Sha] /\ snapshot \in [Refs -> Sha] /\ br \in Refs
        BY DEF TypeInv, TypeOK, Refs
      <4>2. \E sha : /\ origin' = [origin EXCEPT ![br] = sha] /\ snapshot' = [snapshot EXCEPT ![br] = sha]
                     /\ UNCHANGED cloned
        BY <2>2 DEF PushWithLease, FetchCommit
      <4> QED
        BY <4>1, <4>2
    <3> QED
      BY <2>1, <3>1 DEF ViewStep
  <2>3. CASE ~PushWithLease(br) /\ ~FetchCommit(br)
    <3>1. \/ UNCHANGED <<cloned, origin, snapshot>>
          \/ SyncGit /\ UNCHANGED <<remote, snapshot>>
      BY <1>7, <2>3 DEF ProcessBranch, StartBranch, EarlyReturn, CheckEdited, DecideByUser, RebaseNever, DecideReuse,
              SkipUpdate, UpdateFails, UpdateFiles, PushByApi, PushFails, RecordCommit, worldVars, gitVars
    <3> QED
      BY <2>1, <3>1 DEF ViewStep
  <2> QED
    BY <2>2, <2>3
<1> QED
  BY <1>1, <1>2, <1>3, <1>4, <1>5, <1>6, <1>7 DEF Next, Run

LEMMA StepBasesInv ==
    ASSUME TypeInv, BasesInv, [Next]_vars
    PROVE  BasesInv'
<1> DEFINE PastNow(x, sha) == sha[2] \in 0 .. remote'[x][2] /\ sha = BaseCommit(x, sha[2])
<1>1. Grows
  BY StepGrows
<1> SUFFICES ASSUME NEW b \in Bases
             PROVE  /\ phase' # "idle" => PastNow(b, snapshot'[b])
                    /\ cloned' => PastNow(b, origin'[b]) /\ snapshot'[b][2] <= origin'[b][2]
  BY <1>1 DEF BasesInv, Grows, Past
<1>2. \A sha : Past(b, sha) => PastNow(b, sha)
  BY <1>1, PastStays DEF Past
<1> HIDE DEF PastNow
<1>3. Past(b, remote[b]) /\ (phase = "idle" => ~cloned)
  BY PastFacts DEF TypeInv, InProcess
<1>4. /\ phase # "idle" => Past(b, snapshot[b]) /\ snapshot[b][2] <= remote[b][2]
      /\ cloned => Past(b, origin[b]) /\ snapshot[b][2] <= origin[b][2]
  <2>1. phase # "idle" => Past(b, snapshot[b])
    BY DEF BasesInv
  <2>2. Past(b, snapshot[b]) => snapshot[b][2] <= remote[b][2]
    BY PastFacts DEF Past
  <2> QED
    BY <2>1, <2>2 DEF BasesInv
<1>5. CASE phase' = "idle" /\ ~cloned'
  BY <1>5
<1>6. CASE phase = "idle" /\ phase' # "idle" /\ snapshot' = remote /\ UNCHANGED <<remote, cloned>>
  <2>1. Past(b, snapshot'[b])
    BY <1>3, <1>6
  <2> QED
    BY <1>2, <1>3, <1>6, <2>1
<1>7. CASE (phase = "idle" <=> phase' = "idle") /\ UNCHANGED <<cloned, origin, snapshot>>
  <2>1. /\ phase # "idle" => Past(b, snapshot'[b])
        /\ cloned => Past(b, origin'[b]) /\ snapshot'[b][2] <= origin'[b][2]
    BY <1>4, <1>7
  <2> QED
    BY <1>2, <1>7, <2>1
<1>8. CASE phase # "idle" /\ SyncGit /\ UNCHANGED <<remote, snapshot>>
  <2>1. Past(b, snapshot'[b]) /\ Past(b, origin'[b]) /\ snapshot'[b][2] <= origin'[b][2]
    BY <1>3, <1>4, <1>8 DEF SyncGit, Fetched
  <2> QED
    BY <1>2, <2>1
<1>9. ASSUME phase = "idle" <=> phase' = "idle", NEW br \in Branches, UNCHANGED cloned,
             \A r \in Refs \ {br} : origin'[r] = origin[r] /\ snapshot'[r] = snapshot[r]
      PROVE  /\ phase' # "idle" => PastNow(b, snapshot'[b])
             /\ cloned' => PastNow(b, origin'[b]) /\ snapshot'[b][2] <= origin'[b][2]
  <2>1. snapshot'[b] = snapshot[b] /\ origin'[b] = origin[b]
    BY <1>9, RefTypes
  <2>2. /\ phase # "idle" => Past(b, snapshot'[b])
        /\ cloned => Past(b, origin'[b]) /\ snapshot'[b][2] <= origin'[b][2]
    BY <1>4, <2>1
  <2> QED
    BY <1>2, <1>9, <2>2
<1> QED
  BY <1>5, <1>6, <1>7, <1>8, <1>9, ViewSteps DEF ViewStep

LEMMA StepSuperseded ==
    ASSUME TypeInv, Superseded, [Next]_vars
    PROVE  Superseded'
<1>1. Forward
  BY StepForward
<1>2. CASE ~cloned'
  BY <1>2 DEF Superseded
<1>3. CASE \E br \in Branches :
              /\ \A r \in Refs \ {br} : origin'[r] = origin[r] /\ snapshot'[r] = snapshot[r]
              /\ origin'[br] = snapshot'[br] /\ UNCHANGED cloned
  <2> SUFFICES ASSUME NEW x \in Branches, cloned', snapshot'[x] # NoSha, origin'[x] # snapshot'[x]
               PROVE  remote'[x] # snapshot'[x]
    BY DEF Superseded
  <2>1. snapshot'[x] = snapshot[x] /\ origin'[x] = origin[x] /\ cloned
    BY <1>3, RefTypes
  <2>2. remote[x] # snapshot[x] /\ snapshot[x] \in MadeHead(x) \ {NoSha}
    BY <2>1 DEF Superseded, TypeInv, ShasKnown
  <2> QED
    BY <1>1, <2>1, <2>2 DEF Forward
<1>4. phase = "idle" => ~cloned
  BY DEF TypeInv, InProcess
<1>5. CASE UNCHANGED <<cloned, origin, snapshot>> \/ (SyncGit /\ UNCHANGED <<remote, snapshot>>)
  BY <1>1, <1>5, SupersededStep
<1> QED
  BY <1>2, <1>3, <1>4, <1>5, ViewSteps DEF ViewStep

-----------------------------------------------------------------------------
(* What a run has pushed *)

\* A commit a person puts on a branch keeps what the branch was made on.
LEMMA WorldHeads ==
    ASSUME TypeInv, World, NEW br \in Branches, remote'[br] # NoSha
    PROVE  /\ remote[br] # NoSha
           /\ LET c == CommitAt(remote[br])
                  d == CommitAt(remote[br])'
              IN d.base = c.base /\ c.onto <= d.onto /\ d.want = c.want
<1> DEFINE c == CommitAt(remote[br])
           d == commits'[remote'[br][1]][remote'[br][2]]
<1>1. ASSUME remote[br] # NoSha PROVE c \in Commit /\ c.onto \in Nat
  BY <1>1, CommitAtType DEF TypeInv, ShasKnown, Commit
<1>2. ASSUME remote'[br] = remote[br], UNCHANGED commits
      PROVE  remote[br] # NoSha /\ d.base = c.base /\ c.onto <= d.onto /\ d.want = c.want
  BY <1>1, <1>2 DEF CommitAt
<1>3. ASSUME NEW b \in Bases, BaseMoves(b) PROVE remote'[br] = remote[br] /\ UNCHANGED commits
  BY <1>3, RefTypes DEF BaseMoves, TypeInv, TypeOK
<1>4. ASSUME NEW x \in Branches, UserDelete(x) PROVE remote'[br] = remote[br] /\ UNCHANGED commits
  BY <1>4, RefTypes DEF UserDelete, TypeInv, TypeOK
<1>5. ASSUME NEW x \in Branches, NEW author \in Authors, NEW merge \in BOOLEAN, UserPush(x, author, merge)
      PROVE  remote[br] # NoSha /\ d.base = c.base /\ c.onto <= d.onto /\ d.want = c.want
  <2>1. PICK e \in Commit :
              /\ commits' = [commits EXCEPT ![x] = Append(@, e)]
              /\ remote' = [remote EXCEPT ![x] = <<x, Len(commits[x]) + 1>>]
              /\ e.base = CommitAt(remote[x]).base /\ CommitAt(remote[x]).onto <= e.onto
              /\ e.want = CommitAt(remote[x]).want
    BY <1>5, UserPushAppends
  <2>2. remote[x] # NoSha
    BY <1>5 DEF UserPush
  <2>3. CASE x = br
    <3>1. d = e
      BY <2>1, <2>3, AppendKnown
    <3> QED
      BY <2>1, <2>2, <2>3, <3>1
  <2>4. CASE x # br
    <3>1. remote'[br] = remote[br] /\ remote[br] \in MadeHead(br) \ {NoSha}
      BY <2>1, <2>4, RefTypes DEF TypeInv, TypeOK, ShasKnown
    <3>2. commits'[remote[br][1]][remote[br][2]] = CommitAt(remote[br])
      BY <2>1, <3>1, AppendKnown DEF CommitAt
    <3> QED
      BY <1>1, <3>1, <3>2
  <2> QED
    BY <2>3, <2>4
<1> HIDE DEF c, d
<1>6. remote[br] # NoSha /\ d.base = c.base /\ c.onto <= d.onto /\ d.want = c.want
  BY <1>2, <1>3, <1>4, <1>5 DEF World, NewRelease, Reconfigure, LoseCache, worldVars
<1> QED
  BY <1>6 DEF c, d, CommitAt

\* The world leaves a run alone, and the configuration while one is under way.
LEMMA WorldLeaves ==
    ASSUME World
    PROVE  UNCHANGED runVars /\ (phase # "idle" => UNCHANGED <<want, baseOf, rebaseWhen>>)
BY DEF World, BaseMoves, UserPush, UserDelete, NewRelease, Reconfigure, LoseCache, worldVars

LEMMA RunLeaves ==
    ASSUME Run \/ Abort
    PROVE  UNCHANGED <<want, baseOf, rebaseWhen>>
<1>1. ASSUME InitRepo \/ Extract \/ SaveCache \/ Abort \/ \E lost, misread \in SUBSET Branches : SetBranchCache(lost, misread)
      PROVE  UNCHANGED <<want, baseOf, rebaseWhen>>
  BY <1>1 DEF InitRepo, Extract, SaveCache, Abort, SetBranchCache, worldVars
<1>2. ASSUME NEW br \in Branches, PushWithLease(br) \/ PushByApi(br)
      PROVE  UNCHANGED <<want, baseOf, rebaseWhen>>
  BY <1>2 DEF PushWithLease, PushByApi
<1>3. ASSUME NEW br \in Branches, ProcessBranch(br), ~PushWithLease(br), ~PushByApi(br)
      PROVE  UNCHANGED <<want, baseOf, rebaseWhen>>
  BY <1>3 DEF ProcessBranch, StartBranch, EarlyReturn, CheckEdited, DecideByUser, RebaseNever, DecideReuse,
              SkipUpdate, UpdateFails, UpdateFiles, FetchCommit, PushFails, RecordCommit, worldVars
<1> QED
  BY <1>1, <1>2, <1>3 DEF Run

\* The commit a push puts on the branch.
LEMMA PushedCommit ==
    ASSUME TypeInv, NEW br \in Branches, At(br, "push"), PutCommit(br)
    PROVE  /\ remote'[br] # NoSha
           /\ commits'[remote'[br][1]][remote'[br][2]] = NewCommit(origin, br)
           /\ NewCommit(origin, br) \in Commit
<1>1. NewCommit(origin, br) \in Commit
  BY NewCommitType DEF At, TypeInv, TypeOK, InProcess, ShasKnown
<1> QED
  BY <1>1, AppendKnown DEF PutCommit

LEMMA StepPushedInv ==
    ASSUME TypeInv, PushedInv, [Next]_vars
    PROVE  PushedInv'
<1> USE RefTypes
<1>1. CASE UNCHANGED vars
  BY <1>1 DEF vars, worldVars, runVars, gitVars, loopVars, PushedInv, Contained, CommitAt
<1>2. CASE World
  <2> SUFFICES ASSUME work # NoWork, work' = work
               PROVE  PushedInv'
    BY <1>2, WorldLeaves DEF PushedInv, runVars, loopVars
  <2>1. /\ UNCHANGED <<baseOf, origin, snapshot>>
        /\ work.br \in Branches
    BY <1>2, WorldLeaves DEF TypeInv, TypeOK, InProcess, runVars, gitVars, Work
  <2>2. ASSUME work.stage = "fetch", remote'[work.br] # NoSha
        PROVE  Contained(CommitAt(remote[work.br]), work.br)'
    <3> DEFINE c == CommitAt(remote[work.br])
               d == CommitAt(remote[work.br])'
               n == origin[baseOf[work.br]][2]
    <3>1. remote[work.br] # NoSha /\ d.base = c.base /\ c.onto <= d.onto
      BY <1>2, <2>1, <2>2, WorldHeads
    <3>2. c.base = baseOf[work.br] /\ n <= c.onto /\ c \in Commit
      BY <2>1, <2>2, <3>1, CommitAtType DEF PushedInv, Contained, TypeInv, ShasKnown
    <3>3. d \in Commit
      <4>1. CommitAt(remote[work.br]) \in Commit
        BY <3>2
      <4>2. TypeInv'
        BY <1>2, WorldTypeInv
      <4>3. remote'[work.br][1] = work.br /\ remote'[work.br][2] \in 1 .. Len(commits'[work.br])
            /\ commits' \in [Branches -> Seq(Commit)]
        BY <2>1, <2>2, <4>2 DEF TypeInv, TypeOK, ShasKnown, MadeHead, Made
      <4> QED
        BY <2>1, <4>3 DEF CommitAt
    <3>4. n \in Nat
      BY <2>1, <2>2 DEF TypeInv, TypeOK, InProcess, ShasKnown, BaseHead
    <3> HIDE DEF c, d, n
    <3>5. d.base = baseOf[work.br] /\ n <= d.onto
      BY <3>1, <3>2, <3>3, <3>4 DEF Commit
    <3> QED
      BY <2>1, <3>5 DEF d, n, Contained
  <2>3. ASSUME work.stage = "record"
        PROVE  snapshot[work.br] # NoSha /\ Contained(CommitAt(snapshot[work.br]), work.br)'
    <3>1. snapshot[work.br] # NoSha /\ Contained(CommitAt(snapshot[work.br]), work.br)
      BY <2>3 DEF PushedInv
    <3>2. CommitAt(snapshot[work.br])' = CommitAt(snapshot[work.br])
      <4>1. snapshot[work.br] \in MadeHead(work.br) \ {NoSha}
        BY <2>1, <3>1 DEF TypeInv, ShasKnown
      <4>2. Forward
        BY <1>2, WorldForward
      <4> QED
        BY <2>1, <4>1, <4>2 DEF Forward, CommitAt
    <3> QED
      BY <2>1, <3>1, <3>2 DEF Contained
  <2> QED
    BY <2>1, <2>2, <2>3 DEF PushedInv
<1>3. CASE InitRepo \/ Extract \/ SaveCache \/ Abort \/ \E lost, misread \in SUBSET Branches : SetBranchCache(lost, misread)
  <2>1. work' = NoWork
    BY <1>3 DEF InitRepo, Extract, SaveCache, Abort, SetBranchCache, RunOver, loopVars, TypeInv, InProcess
  <2> QED
    BY <2>1 DEF PushedInv
<1>4. ASSUME NEW br \in Branches, ProcessBranch(br) PROVE PushedInv'
  <2>1. CASE PushWithLease(br) \/ PushByApi(br)
    <3>1. /\ At(br, "push") /\ PutCommit(br) /\ work \in Work /\ baseOf[br] \in Bases /\ work.br = br
          /\ origin \in [Refs -> Sha] /\ snapshot \in [Refs -> Sha] /\ remote' \in [Refs -> Sha]
          /\ UNCHANGED baseOf /\ cloned
      <4>1. At(br, "push") /\ PutCommit(br) /\ UNCHANGED baseOf
        BY <2>1 DEF PushWithLease, PushByApi
      <4>2. /\ work \in Work /\ baseOf[br] \in Bases /\ work.br = br
            /\ origin \in [Refs -> Sha] /\ snapshot \in [Refs -> Sha] /\ remote' \in [Refs -> Sha] /\ cloned
        BY <1>4, <4>1, ProcessTypeInv DEF At, TypeInv, TypeOK, InProcess
      <4> QED
        BY <4>1, <4>2
    <3>2. remote'[br] # NoSha /\ commits'[remote'[br][1]][remote'[br][2]] = NewCommit(origin, br)
      BY <3>1, PushedCommit
    <3>3. origin'[baseOf[br]] = origin[baseOf[br]]
      BY <2>1, <3>1 DEF PushWithLease, PushByApi, gitVars
    <3>4. origin[baseOf[br]][2] \in Nat
      BY <3>1 DEF TypeInv, ShasKnown, BaseHead
    <3>5. /\ NewCommit(origin, br).base = baseOf'[br]
          /\ origin'[baseOf'[br]][2] <= NewCommit(origin, br).onto
      BY <3>1, <3>3, <3>4 DEF NewCommit
    <3>6. work'.br = br
          /\ \/ work'.stage = "fetch"
             \/ work'.stage = "record" /\ snapshot'[br] = remote'[br]
      BY <2>1, <3>1 DEF PushWithLease, PushByApi, Goto, Work
    <3> QED
      BY <3>2, <3>5, <3>6 DEF PushedInv, Contained, CommitAt
  <2>2. CASE FetchCommit(br)
    <3>1. /\ work \in Work /\ work # NoWork /\ baseOf[br] \in Bases /\ work.br = br /\ work.stage = "fetch"
          /\ origin \in [Refs -> Sha] /\ snapshot \in [Refs -> Sha]
          /\ UNCHANGED <<baseOf, commits>> /\ remote[br] # NoSha
      BY <2>2 DEF FetchCommit, At, TypeInv, TypeOK, worldVars
    <3>2. Contained(CommitAt(remote[br]), br)
      BY <3>1 DEF PushedInv
    <3>3. /\ work'.br = br /\ work'.stage = "record" /\ snapshot'[br] = remote[br]
          /\ origin'[baseOf[br]] = origin[baseOf[br]]
      BY <2>2, <3>1 DEF FetchCommit, Work
    <3> QED
      BY <3>1, <3>2, <3>3 DEF PushedInv, Contained, CommitAt
  <2>3. CASE ~PushWithLease(br) /\ ~PushByApi(br) /\ ~FetchCommit(br)
    <3>1. work' = NoWork \/ work'.stage \notin {"fetch", "record"}
      <4>1. work \in Work \cup {NoWork}
        BY DEF TypeInv, TypeOK
      <4>2. CASE StartBranch(br)
        BY <4>2 DEF StartBranch
      <4>3. CASE \E failed \in BOOLEAN : CheckEdited(br, failed)
        BY <4>1, <4>3 DEF CheckEdited, At, ReturnNoCommit, Work
      <4>4. CASE DecideReuse(br) \/ \E rebase \in BOOLEAN : DecideByUser(br, rebase)
        BY <4>1, <4>4 DEF DecideReuse, DecideByUser, At, Work
      <4>5. CASE UpdateFiles(br)
        BY <4>1, <4>5 DEF UpdateFiles, At, ReturnNoCommit, Goto, Work
      <4>6. CASE EarlyReturn(br) \/ RebaseNever(br) \/ SkipUpdate(br) \/ UpdateFails(br) \/ PushFails(br)
                 \/ RecordCommit(br)
        BY <4>6 DEF EarlyReturn, RebaseNever, SkipUpdate, UpdateFails, PushFails, RecordCommit, ReturnNoCommit
      <4> QED
        BY <1>4, <2>3, <4>2, <4>3, <4>4, <4>5, <4>6 DEF ProcessBranch
    <3> QED
      BY <3>1 DEF PushedInv
  <2> QED
    BY <2>1, <2>2, <2>3
<1> QED
  BY <1>1, <1>2, <1>3, <1>4 DEF Next, Run

-----------------------------------------------------------------------------
(* Every answer that is filed is true *)

\* What git says of the clone holds of the shas of ls-remote.
LEMMA GitConflictTrue ==
    ASSUME TypeInv, BasesInv, Superseded, phase # "idle", NEW br \in Branches, Exists(br),
           NEW ref \in Refs, NEW flag \in GitConflict(Fetched, br, ref)
    PROVE  ConflictTrue(flag = "yes", ref, br, snapshot[br], baseOf[br], BaseSha(br))
<1> DEFINE b == baseOf[br]
           c == CommitAt(snapshot[br])
           old == snapshot[b]
           new == Fetched[b]
<1> SUFFICES ASSUME snapshot[br] = remote[br], ref \notin Bases \ {b}
             PROVE  /\ flag # "yes" => ~MergeConflicts(c, old)
                    /\ flag = "yes" /\ ref \notin Branches /\ old = remote[b] => MergeConflicts(c, old)
  BY DEF ConflictTrue, BaseSha
<1>1. b \in Bases
  BY DEF TypeInv, TypeOK
<1>2. /\ Past(b, new) /\ Past(b, old) /\ old[2] <= new[2]
      /\ Fetched[br] = snapshot[br]
  BY <1>1, FetchedFacts DEF Exists
<1>3. /\ flag # "yes" => ~MergeConflicts(c, new)
      /\ flag = "yes" /\ ref \notin Branches => MergeConflicts(c, new)
  <2>1. ref \in Branches \/ ref = b
    BY DEF Refs
  <2>2. CASE ref = b
    BY <1>1, <1>2, <2>2 DEF GitConflict, Flag, Exists
  <2>3. CASE ref \in Branches
    <3>1. ref \notin Bases
      BY <2>3, ConstantsAssumption
    <3> QED
      BY <1>2, <2>3, <3>1 DEF GitConflict, Flag, Exists
  <2> QED
    BY <2>1, <2>2, <2>3
<1>4. /\ old[2] \in Nat /\ new[2] \in Nat /\ remote[b][2] \in Nat /\ new[2] <= remote[b][2]
      /\ old = BaseCommit(b, old[2]) /\ new = BaseCommit(b, new[2])
  BY <1>1, <1>2, PastFacts DEF Past
<1>5. old = remote[b] => new = old
  BY <1>1, <1>2, <1>4, PastFacts
<1> HIDE DEF b, c, old, new
<1>6. ~MergeConflicts(c, new) => ~MergeConflicts(c, old)
  <2> DEFINE m == old[2]
             n == new[2]
  <2>1. ~MergeConflicts(c, BaseCommit(b, n)) => ~MergeConflicts(c, BaseCommit(b, m))
    BY <1>1, <1>2, <1>4, MergesIntoEarlier
  <2> QED
    BY <1>4, <2>1
<1> QED
  BY <1>3, <1>5, <1>6

\* What the run has pushed merges into the base commit of ls-remote.
LEMMA PushedTrue ==
    ASSUME TypeInv, CacheInv, NEW br \in Branches, At(br, "record")
    PROVE  /\ snapshot[br] # NoSha /\ work.commit = snapshot[br] /\ phase # "idle"
           /\ CommitAt(snapshot[br]).base = baseOf[br]
           /\ Contains(CommitAt(snapshot[br]), BaseSha(br)) /\ ~MergeConflicts(CommitAt(snapshot[br]), BaseSha(br))
<1> DEFINE b == baseOf[br]
           c == CommitAt(snapshot[br])
           m == snapshot[b][2]
<1>1. b \in Bases /\ work # NoWork /\ work.br = br /\ work.stage = "record" /\ cloned /\ phase = "write"
      /\ work.commit = snapshot[br]
  BY DEF At, TypeInv, TypeOK, InProcess
<1>2. snapshot[br] # NoSha /\ c.base = b /\ origin[b][2] <= c.onto /\ c \in Commit
  BY <1>1, CommitAtType DEF CacheInv, PushedInv, Contained, TypeInv, ShasKnown
<1>3. Past(b, snapshot[b]) /\ m <= origin[b][2] /\ Past(b, origin[b])
  BY <1>1 DEF CacheInv, BasesInv
<1>4. m \in Nat /\ origin[b][2] \in Nat /\ snapshot[b] = BaseCommit(b, m)
  BY <1>1, <1>3, PastFacts DEF Past, CacheInv
<1>5. m <= c.onto
  BY <1>2, <1>3, <1>4 DEF Commit
<1> HIDE DEF b, c, m
<1>6. Contains(c, BaseCommit(b, m)) /\ ~MergeConflicts(c, BaseCommit(b, m))
  BY <1>1, <1>2, <1>4, <1>5, ContainsEarlier
<1> QED
  BY <1>1, <1>2, <1>4, <1>6 DEF b, c, m, BaseSha

\* DecideReuse files what git says, if it asks, and keeps the branch only on "no".
LEMMA DecidedConflict ==
    ASSUME NEW br \in Branches, DecideReuse(br)
    PROVE  LET asked == Exists(br) /\ rebaseWhen[br] = "behind-base-branch"
               saysBehind == IF asked /\ KnownBehind(br) = "unset" THEN GitBehind(Fetched, br) ELSE KnownBehind(br)
               behind == asked /\ "yes" = saysBehind
               merge == Exists(br) /\ ~behind
               ref == MergedInto(br)
           IN \E conflict :
                /\ \/ ~merge /\ conflict = "unset" /\ conflicts' = conflicts
                   \/ /\ merge /\ KnownConflict(br) # "unset"
                      /\ conflict = KnownConflict(br) /\ conflicts' = conflicts
                   \/ /\ merge /\ KnownConflict(br) = "unset" /\ conflict \in GitConflict(Fetched, br, ref)
                      /\ conflicts' = WithConflict(br, snapshot[br], conflict, ref)
                /\ work' = [work EXCEPT !.stage = "update", !.conflicted = conflict,
                                !.reuse = Exists(br) /\ (memModified[br] = "yes" \/ (~behind /\ conflict = "no"))]
BY DEF DecideReuse

LEMMA FiledTrue ==
    ASSUME TypeInv, CacheInv, [Next]_vars
    PROVE  \A cache \in {conflicts', disk'.conflicts} : AnswersTrue(cache)
<1>1. /\ AnswersTrue(conflicts) /\ AnswersTrue(disk.conflicts)
      /\ BasesInv /\ Superseded
  BY DEF CacheInv, ConflictsInv
<1>2. AnswersTrue(EmptyConflicts)
  BY DEF AnswersTrue, EmptyConflicts, Absent, MadeHead
<1>3. ASSUME conflicts' \in {conflicts, disk.conflicts, EmptyConflicts},
             disk'.conflicts \in {conflicts, disk.conflicts, EmptyConflicts}
      PROVE  \A cache \in {conflicts', disk'.conflicts} : AnswersTrue(cache)
  BY <1>1, <1>2, <1>3
<1>4. CASE UNCHANGED vars
  BY <1>3, <1>4 DEF vars, runVars, cacheVars
<1>5. CASE World
  <2>1. conflicts' = conflicts
    BY <1>5, WorldLeaves DEF runVars, cacheVars
  <2>2. disk' = disk \/ disk' = EmptyCache
    BY <1>5 DEF World, BaseMoves, UserPush, UserDelete, NewRelease, Reconfigure, LoseCache
  <2> QED
    BY <1>3, <2>1, <2>2 DEF EmptyCache
<1>6. CASE InitRepo \/ Extract \/ SaveCache \/ Abort \/ \E lost, misread \in SUBSET Branches : SetBranchCache(lost, misread)
  BY <1>3, <1>6 DEF InitRepo, Extract, SaveCache, Abort, SetBranchCache, RunOver, cacheVars
<1>7. ASSUME NEW br \in Branches, ProcessBranch(br)
      PROVE  \A cache \in {conflicts', disk'.conflicts} : AnswersTrue(cache)
  <2>1. phase # "idle" /\ disk' = disk
    BY <1>7 DEF ProcessBranch, StartBranch, EarlyReturn, CheckEdited, DecideByUser, RebaseNever, DecideReuse,
              SkipUpdate, UpdateFails, UpdateFiles, PushWithLease, PushByApi, FetchCommit, PushFails,
              RecordCommit, At, TypeInv, InProcess
  <2>2. ASSUME Exists(br), NEW ref \in Refs, NEW flag \in GitConflict(Fetched, br, ref),
               conflicts' = WithConflict(br, snapshot[br], flag, ref)
        PROVE  AnswersTrue(conflicts')
    BY <1>1, <2>1, <2>2, GitConflictTrue, WithConflictTrue DEF Exists
  <2>3. CASE DecideReuse(br)
    <3>1. \/ conflicts' = conflicts
          \/ /\ Exists(br)
             /\ \E flag \in GitConflict(Fetched, br, MergedInto(br)) :
                   conflicts' = WithConflict(br, snapshot[br], flag, MergedInto(br))
      BY <2>3, DecidedConflict
    <3>2. MergedInto(br) \in Refs
      BY DEF MergedInto, TypeInv, TypeOK, Refs
    <3> QED
      BY <1>1, <2>1, <2>2, <3>1, <3>2
  <2>4. CASE UpdateFiles(br)
    <3>1. \/ conflicts' = conflicts
          \/ /\ Exists(br)
             /\ \E flag \in GitConflict(Fetched, br, baseOf[br]) :
                   conflicts' = WithConflict(br, snapshot[br], flag, baseOf[br])
      BY <2>4 DEF UpdateFiles
    <3>2. baseOf[br] \in Refs
      BY DEF TypeInv, TypeOK, Refs
    <3> QED
      BY <1>1, <2>1, <2>2, <3>1, <3>2
  <2>5. CASE RecordCommit(br)
    <3>1. /\ snapshot[br] # NoSha
          /\ ConflictTrue("no" = "yes", baseOf[br], br, snapshot[br], baseOf[br], BaseSha(br))
      BY <2>5, PushedTrue DEF RecordCommit, ConflictTrue
    <3>2. conflicts' = WithConflict(br, snapshot[br], "no", baseOf[br])
      BY <2>5, PushedTrue DEF RecordCommit
    <3> QED
      BY <1>1, <2>1, <3>1, <3>2, WithConflictTrue
  <2>6. CASE ~DecideReuse(br) /\ ~UpdateFiles(br) /\ ~RecordCommit(br)
    <3>1. conflicts' = conflicts
      BY <1>7, <2>6 DEF ProcessBranch, StartBranch, EarlyReturn, CheckEdited, DecideByUser, RebaseNever,
              SkipUpdate, UpdateFails, PushWithLease, PushByApi, FetchCommit, PushFails, cacheVars
    <3> QED
      BY <1>1, <2>1, <3>1
  <2> QED
    BY <2>3, <2>4, <2>5, <2>6
<1> QED
  BY <1>4, <1>5, <1>6, <1>7 DEF Next, Run

LEMMA InitCacheInv == Init => CacheInv
<1> SUFFICES ASSUME Init PROVE CacheInv
  OBVIOUS
<1>1. ConflictsInv
  BY DEF Init, ConflictsInv, AnswersTrue, EmptyCache, EmptyConflicts, Absent, MadeHead
<1>2. BasesInv
  <2>1. \A b \in Bases : remote[b] = Root /\ BaseCommit(b, 0) = Root /\ Root[2] = 0
    BY DEF Init, Refs, BaseCommit, Root
  <2> QED
    BY <2>1 DEF Init, BasesInv
<1> QED
  BY <1>1, <1>2 DEF Init, CacheInv, Superseded, PushedInv

LEMMA StepCacheInv ==
    ASSUME TypeInv, CacheInv, [Next]_vars
    PROVE  CacheInv'
<1>1. Forward /\ Grows
  BY StepForward, StepGrows DEF CacheInv
<1>2. \A cache \in {conflicts', disk'.conflicts} : AnswersTrue(cache)'
  BY <1>1, FiledTrue, AnswersStay DEF CacheInv
<1>3. ConflictsInv'
  BY <1>2 DEF ConflictsInv
<1> QED
  BY <1>3, StepBasesInv, StepSuperseded, StepPushedInv DEF CacheInv

\* An answer about conflicts that the next run will use, because its two shas
\* are the heads of the remote, is true, unless git merged the branch into
\* something else than its base: "no conflict" also over the commit of another
\* branch, both over the base.  With any base branches, pushed by git or through
\* the platform's API, and whoever pushes what meanwhile.
THEOREM UsableConflictsAreTrue == Spec => []UsableConflictIsTrue
<1>1. Spec => [](TypeInv /\ CacheInv)
  BY InitTypeInv, InitCacheInv, StepTypeInv, StepCacheInv, PTL DEF Spec
<1>2. TypeInv /\ CacheInv => UsableConflictIsTrue
  <2> SUFFICES ASSUME TypeInv, CacheInv, NEW cache \in {conflicts, disk.conflicts}, NEW b \in Bases, NEW br \in Branches,
                      cache[b].source[br].sha # NoSha, cache[b].source[br].sha = remote[br],
                      cache[b].target = remote[b],
                      ~(cache[b].source[br].over \in Branches /\ cache[b].source[br].isConflicted),
                      cache[b].source[br].over \notin Bases \ {b}
               PROVE  cache[b].source[br].isConflicted =
                         MergeConflicts(CommitAt(cache[b].source[br].sha), remote[b])
    BY DEF UsableConflictIsTrue
  <2> DEFINE flag == cache[b].source[br].isConflicted
             over == cache[b].source[br].over
             merge == MergeConflicts(CommitAt(cache[b].source[br].sha), remote[b])
  <2>1. ConflictTrue(flag, over, br, cache[b].source[br].sha, b, cache[b].target)
    BY DEF CacheInv, ConflictsInv, AnswersTrue
  <2>2. flag \in BOOLEAN
    <3>1. cache \in Conflicts
      BY DEF TypeInv, TypeOK
    <3> QED
      BY <3>1 DEF Conflicts
  <2>3. merge \in BOOLEAN
    BY DEF MergeConflicts
  <2>4. flag <=> merge
    BY <2>1 DEF ConflictTrue
  <2> HIDE DEF flag, merge
  <2>5. flag = merge
    BY <2>2, <2>3, <2>4
  <2> QED
    BY <2>5 DEF flag, merge
<1> QED
  BY <1>1, <1>2, PTL

-----------------------------------------------------------------------------
(***************************************************************************)
(* The cached answers about being behind the base branch.  git is asked    *)
(* about the base branch that is checked out, not about the one the branch *)
(* belongs to, so the answers are true if there is one base branch: with   *)
(* two, TLC shows an answer about the other one.                           *)
(***************************************************************************)

SingleBase == Bases = {DefaultBase}

BehindTrue(flag, br, sha, b, target) ==
    sha = remote[br] =>
        /\ flag = "no" => Contains(CommitAt(sha), target)
        /\ flag = "yes" /\ target = remote[b] => ~Contains(CommitAt(sha), target)

EntryTrue(e, br) ==
    e.isBehindBase # "unset" /\ e.sha # NoSha =>
        Past(e.baseBranch, e.baseSha) /\ BehindTrue(e.isBehindBase, br, e.sha, e.baseBranch, e.baseSha)

BehindInv ==
    \A br \in Branches : \A e \in {branches[br], disk.branches[br]} : e # NoEntry => EntryTrue(e, br)

LEMMA BehindStays ==
    ASSUME TypeInv, BasesInv, Forward, Grows, NEW flag, NEW br \in Branches, NEW sha \in MadeHead(br),
           sha # NoSha, NEW b \in Bases, NEW target, Past(b, target), BehindTrue(flag, br, sha, b, target)
    PROVE  BehindTrue(flag, br, sha, b, target)'
<1> SUFFICES ASSUME sha = remote'[br]
             PROVE  /\ flag = "no" => Contains(CommitAt(sha)', target)
                    /\ flag = "yes" /\ target = remote'[b] => ~Contains(CommitAt(sha)', target)
  BY DEF BehindTrue, Contains
<1>1. remote[br] = sha /\ CommitAt(sha)' = CommitAt(sha)
  BY DEF Forward
<1>2. target = remote'[b] => target = remote[b]
  <2>1. remote[b][2] \in Nat /\ target[2] \in Nat /\ remote[b][2] <= remote'[b][2]
    BY PastFacts DEF Grows
  <2> QED
    BY <2>1, PastFacts
<1> QED
  BY <1>1, <1>2 DEF BehindTrue

LEMMA EntryStays ==
    ASSUME TypeInv, BasesInv, Forward, Grows, NEW br \in Branches, NEW e \in Entry,
           e.sha \in MadeHead(br), EntryTrue(e, br)
    PROVE  EntryTrue(e, br)'
<1> SUFFICES ASSUME e.isBehindBase # "unset", e.sha # NoSha
             PROVE  /\ Past(e.baseBranch, e.baseSha)'
                    /\ BehindTrue(e.isBehindBase, br, e.sha, e.baseBranch, e.baseSha)'
  BY DEF EntryTrue
<1> DEFINE flag == e.isBehindBase
           sha == e.sha
           b == e.baseBranch
           target == e.baseSha
<1>1. b \in Bases /\ sha \in MadeHead(br) /\ sha # NoSha
  BY DEF Entry
<1>2. Past(b, target) /\ BehindTrue(flag, br, sha, b, target)
  BY DEF EntryTrue
<1> HIDE DEF flag, sha, b, target
<1>3. Past(b, target)' /\ BehindTrue(flag, br, sha, b, target)'
  BY <1>1, <1>2, PastStays, BehindStays
<1> QED
  BY <1>3 DEF flag, sha, b, target

\* A commit that contains a base commit contains the earlier ones.
LEMMA ContainsBefore ==
    ASSUME NEW c \in Commit, NEW b \in Bases, NEW m \in Nat, NEW n \in Nat, m <= n,
           Contains(c, BaseCommit(b, n))
    PROVE  Contains(c, BaseCommit(b, m))
<1> DEFINE new == BaseCommit(b, n)
           old == BaseCommit(b, m)
<1>1. new[2] = n /\ (n > 0 => new[1] = b) /\ old[2] = m /\ (m > 0 => old[1] = b)
  BY BaseCommitFacts
<1>2. Contains(c, new) /\ c.onto \in Nat
  BY DEF Commit
<1> HIDE DEF new, old
<1>3. Contains(c, old)
  BY <1>1, <1>2 DEF Contains
<1> QED
  BY <1>3 DEF old

LEMMA GitBehindTrue ==
    ASSUME SingleBase, TypeInv, BasesInv, Superseded, phase # "idle", NEW br \in Branches, Exists(br)
    PROVE  BehindTrue(GitBehind(Fetched, br), br, snapshot[br], baseOf[br], BaseSha(br))
<1> DEFINE b == baseOf[br]
           c == CommitAt(snapshot[br])
           old == snapshot[b]
           new == Fetched[b]
<1> SUFFICES ASSUME snapshot[br] = remote[br]
             PROVE  /\ GitBehind(Fetched, br) = "no" => Contains(c, old)
                    /\ GitBehind(Fetched, br) = "yes" /\ old = remote[b] => ~Contains(c, old)
  BY DEF BehindTrue, BaseSha
<1>1. b \in Bases /\ current = b
  BY DEF TypeInv, TypeOK, SingleBase
<1>2. /\ Past(b, new) /\ Past(b, old) /\ old[2] <= new[2]
      /\ Fetched[br] = snapshot[br] /\ c \in Commit
  BY <1>1, FetchedFacts, CommitAtType DEF Exists, TypeInv, ShasKnown
<1>3. GitBehind(Fetched, br) = Flag(~Contains(c, new))
  BY <1>1, <1>2 DEF GitBehind, Exists
<1>4. /\ old[2] \in Nat /\ new[2] \in Nat /\ remote[b][2] \in Nat /\ new[2] <= remote[b][2]
      /\ old = BaseCommit(b, old[2]) /\ new = BaseCommit(b, new[2])
  BY <1>1, <1>2, PastFacts DEF Past
<1>5. old = remote[b] => new = old
  BY <1>1, <1>2, <1>4, PastFacts
<1> HIDE DEF b, c, old, new
<1>6. Contains(c, new) => Contains(c, old)
  <2> DEFINE m == old[2]
             n == new[2]
  <2>1. Contains(c, BaseCommit(b, n)) => Contains(c, BaseCommit(b, m))
    BY <1>1, <1>2, <1>4, ContainsBefore
  <2> QED
    BY <1>4, <2>1
<1> QED
  BY <1>3, <1>5, <1>6 DEF Flag

LEMMA KnownBehindTrue ==
    ASSUME TypeInv, BehindInv, NEW br \in Branches, Exists(br), KnownBehind(br) # "unset"
    PROVE  BehindTrue(KnownBehind(br), br, snapshot[br], baseOf[br], BaseSha(br))
BY DEF KnownBehind, BehindInv, EntryTrue, Exists

LEMMA SyncedBehind ==
    ASSUME SingleBase, TypeInv, BehindInv, NEW br \in Branches
    PROVE  EntryTrue(Synced(br), br)
<1> DEFINE minimal == [sha |-> snapshot[br], baseBranch |-> baseOf[br], baseSha |-> BaseSha(br),
                       isModified |-> "unset", isBehindBase |-> "unset",
                       fingerprint |-> NoPrint, parentSha |-> NoSha]
           e == IF branches[br] = NoEntry THEN minimal ELSE branches[br]
<1>1. /\ snapshot[br] \in Sha /\ BaseSha(br) \in Sha /\ NoSha \in Sha
      /\ baseOf[br] \in Bases /\ branches[br] \in Entry \cup {NoEntry}
  BY DEF TypeInv, TypeOK, Refs, BaseSha, Sha
<1>2. minimal \in Entry
  BY <1>1 DEF Entry, Flags, Prints
<1>3. e \in Entry /\ EntryTrue(e, br)
  BY <1>1, <1>2 DEF BehindInv, EntryTrue
<1> HIDE DEF e
<1>4. Synced(br) = [e EXCEPT !.sha = snapshot[br], !.baseBranch = baseOf[br], !.baseSha = BaseSha(br),
                 !.isModified = IF KeepModified(e, br) THEN @ ELSE "unset",
                 !.isBehindBase = IF KeepBehind(e, br) THEN @ ELSE "unset",
                 !.fingerprint = IF e.sha = snapshot[br] THEN @ ELSE NoPrint]
  BY DEF Synced, e
<1>5. /\ Synced(br).sha = snapshot[br] /\ Synced(br).baseBranch = baseOf[br] /\ Synced(br).baseSha = BaseSha(br)
      /\ Synced(br).isBehindBase = IF KeepBehind(e, br) THEN e.isBehindBase ELSE "unset"
  BY <1>3, <1>4 DEF Entry
<1>6. e.baseBranch = baseOf[br]
  BY <1>1, <1>3 DEF SingleBase, Entry
<1> QED
  BY <1>3, <1>5, <1>6 DEF KeepBehind, EntryTrue

LEMMA GeneratedBehind ==
    ASSUME SingleBase, TypeInv, BasesInv, Superseded, BehindInv, phase # "idle", NEW br \in Branches,
           NEW failed, branches[br] # NoEntry, Generated(br, Fetched, failed) # NoEntry
    PROVE  EntryTrue(Generated(br, Fetched, failed), br)
<1> DEFINE e == Generated(br, Fetched, failed)
           modified == IF KnownModified(br) # "unset" THEN KnownModified(br) ELSE GitModified(Fetched[br], failed)
           behind == IF KnownBehind(br) # "unset" THEN KnownBehind(br) ELSE GitBehind(Fetched, br)
           cachedParent == IF branches[br].sha = snapshot[br] THEN branches[br].parentSha ELSE NoSha
           parent == IF cachedParent # NoSha \/ ~cloned THEN cachedParent
                     ELSE CommitAt(snapshot[br]).parent
           base == [sha |-> snapshot[br], baseBranch |-> baseOf[br], baseSha |-> BaseSha(br),
                 fingerprint |-> fingerprints[br], isModified |-> "no",
                 isBehindBase |-> "no", parentSha |-> NoSha]
<1>1. CASE ~Exists(br)
  BY <1>1 DEF Generated, EntryTrue, Exists
<1>2. CASE Exists(br)
  <2>1. BehindTrue(behind, br, snapshot[br], baseOf[br], BaseSha(br))
    BY <1>2, GitBehindTrue, KnownBehindTrue
  <2>2. Past(baseOf[br], BaseSha(br))
    BY DEF BasesInv, BaseSha, TypeInv, TypeOK
  <2>3. e = [base EXCEPT !.isModified = modified, !.isBehindBase = behind, !.parentSha = parent]
    BY <1>2 DEF Generated
  <2> HIDE DEF behind, modified, parent, e
  <2>4. e.sha = snapshot[br] /\ e.baseBranch = baseOf[br] /\ e.baseSha = BaseSha(br) /\ e.isBehindBase = behind
    BY <2>3
  <2>5. EntryTrue(e, br)
    BY <2>1, <2>2, <2>4 DEF EntryTrue
  <2> QED
    BY <2>5 DEF e
<1> QED
  BY <1>1, <1>2

LEMMA EntriesFiled ==
    ASSUME SingleBase, TypeInv, CacheInv, BehindInv, [Next]_vars
    PROVE  \A br \in Branches : \A e \in {branches'[br], disk'.branches[br]} :
              e # NoEntry => EntryTrue(e, br) /\ e.sha \in MadeHead(br)
<1> DEFINE True(x, e) == e # NoEntry => EntryTrue(e, x) /\ e.sha \in MadeHead(x)
<1>1. \A x \in Branches : True(x, branches[x]) /\ True(x, disk.branches[x])
  BY DEF BehindInv, TypeInv, EntriesKnown
<1>2. \A x \in Branches : EmptyBranches[x] = NoEntry
  BY DEF EmptyBranches
<1> SUFFICES ASSUME NEW x \in Branches PROVE True(x, branches'[x]) /\ True(x, disk'.branches[x])
  OBVIOUS
<1>3. ASSUME branches'[x] \in {branches[x], disk.branches[x], NoEntry},
             disk'.branches[x] \in {branches[x], disk.branches[x], NoEntry}
      PROVE  True(x, branches'[x]) /\ True(x, disk'.branches[x])
  BY <1>1, <1>3
<1>4. CASE UNCHANGED vars
  BY <1>3, <1>4 DEF vars, runVars, cacheVars
<1>5. CASE World
  <2>1. branches' = branches
    BY <1>5, WorldLeaves DEF runVars, cacheVars
  <2>2. disk' = disk \/ disk' = EmptyCache
    BY <1>5 DEF World, BaseMoves, UserPush, UserDelete, NewRelease, Reconfigure, LoseCache
  <2> QED
    BY <1>2, <1>3, <2>1, <2>2 DEF EmptyCache
<1>6. CASE InitRepo \/ Extract \/ SaveCache \/ Abort
  BY <1>2, <1>3, <1>6 DEF InitRepo, Extract, SaveCache, Abort, RunOver, cacheVars
<1>7. ASSUME NEW lost \in SUBSET Branches, NEW misread \in SUBSET Branches,
           SetBranchCache(lost, misread)
      PROVE  True(x, branches'[x]) /\ True(x, disk'.branches[x])
  <2>1. /\ branches' = [br \in Branches |-> IF br \in lost THEN NoEntry ELSE Generated(br, Fetched, br \in misread)]
        /\ phase # "idle" /\ disk' = disk /\ branches[x] # NoEntry
    BY <1>7 DEF SetBranchCache, TypeInv, InProcess
  <2>2. branches'[x] = NoEntry \/ branches'[x] = Generated(x, Fetched, x \in misread)
    BY <2>1
  <2>3. True(x, Generated(x, Fetched, x \in misread))
    BY <2>1, GeneratedBehind, GeneratedType DEF CacheInv, TypeInv, ShasKnown
  <2> QED
    BY <1>1, <2>1, <2>2, <2>3
<1>8. ASSUME NEW br \in Branches, ProcessBranch(br)
      PROVE  True(x, branches'[x]) /\ True(x, disk'.branches[x])
  <2>1. disk' = disk
    BY <1>8 DEF ProcessBranch, StartBranch, EarlyReturn, CheckEdited, DecideByUser, RebaseNever, DecideReuse,
              SkipUpdate, UpdateFails, UpdateFiles, PushWithLease, PushByApi, FetchCommit, PushFails,
              RecordCommit
  <2>2. branches \in [Branches -> Entry \cup {NoEntry}]
    BY DEF TypeInv, TypeOK
  <2>3. CASE StartBranch(br)
    <3>1. branches' = [branches EXCEPT ![br] = Synced(br)]
      BY <2>3 DEF StartBranch
    <3>2. True(br, Synced(br))
      BY SyncedBehind, SyncedType DEF TypeInv, ShasKnown
    <3> QED
      BY <1>1, <2>1, <2>2, <3>1, <3>2
  <2>4. CASE \E failed \in BOOLEAN : CheckEdited(br, failed)
    <3>1. PICK answer : branches' = branches \/ branches' = [branches EXCEPT ![br].isModified = answer]
      BY <2>4 DEF CheckEdited
    <3>2. branches[br] \in Entry
      BY <2>4 DEF CheckEdited, At, TypeInv, TypeOK, InProcess
    <3> DEFINE e == [branches[br] EXCEPT !.isModified = answer]
    <3>3. /\ e.sha = branches[br].sha /\ e.baseBranch = branches[br].baseBranch
          /\ e.baseSha = branches[br].baseSha /\ e.isBehindBase = branches[br].isBehindBase
      BY <3>2 DEF Entry
    <3>4. branches' = branches \/ branches' = [branches EXCEPT ![br] = e]
      BY <3>1
    <3> HIDE DEF e
    <3>5. True(br, e)
      BY <1>1, <3>2, <3>3, NullsAssumption DEF EntryTrue
    <3> QED
      BY <1>1, <2>1, <2>2, <3>4, <3>5
  <2>5. CASE RecordCommit(br)
    <3> DEFINE e == [branches[br] EXCEPT !.sha = work.commit, !.baseSha = BaseSha(br), !.isBehindBase = "no",
                       !.isModified = "no", !.parentSha = BaseSha(br)]
    <3>1. At(br, "record") /\ branches' = [branches EXCEPT ![br] = e]
      BY <2>5 DEF RecordCommit
    <3>2. branches[br] \in Entry
      BY <3>1 DEF At, TypeInv, TypeOK, InProcess
    <3>3. /\ e.sha = work.commit /\ e.baseBranch = branches[br].baseBranch
          /\ e.baseSha = BaseSha(br) /\ e.isBehindBase = "no"
      BY <3>2 DEF Entry
    <3>4. e.baseBranch = baseOf[br] /\ baseOf[br] \in Bases
      BY <3>2, <3>3 DEF SingleBase, Entry, TypeInv, TypeOK
    <3>5. /\ snapshot[br] \in MadeHead(br) /\ work.commit = snapshot[br] /\ phase # "idle"
          /\ Contains(CommitAt(snapshot[br]), BaseSha(br))
      BY <3>1, PushedTrue DEF TypeInv, ShasKnown
    <3>6. Past(baseOf[br], BaseSha(br))
      BY <3>4, <3>5 DEF CacheInv, BasesInv, BaseSha
    <3> HIDE DEF e
    <3>7. True(br, e)
      BY <3>3, <3>4, <3>5, <3>6 DEF EntryTrue, BehindTrue
    <3> QED
      BY <1>1, <2>1, <2>2, <3>1, <3>7
  <2>6. CASE ~StartBranch(br) /\ ~(\E failed \in BOOLEAN : CheckEdited(br, failed)) /\ ~RecordCommit(br)
    <3>1. branches' = branches
      BY <1>8, <2>6 DEF ProcessBranch, EarlyReturn, DecideByUser, RebaseNever, DecideReuse,
              SkipUpdate, UpdateFails, UpdateFiles, PushWithLease, PushByApi, FetchCommit, PushFails, cacheVars
    <3> QED
      BY <1>1, <2>1, <3>1
  <2> QED
    BY <2>3, <2>4, <2>5, <2>6
<1> QED
  BY <1>4, <1>5, <1>6, <1>7, <1>8 DEF Next, Run

LEMMA StepBehindInv ==
    ASSUME SingleBase, TypeInv, CacheInv, BehindInv, [Next]_vars
    PROVE  BehindInv'
<1>1. Forward /\ Grows /\ BasesInv
  BY StepForward, StepGrows DEF CacheInv
<1> SUFFICES ASSUME NEW br \in Branches, NEW e \in {branches'[br], disk'.branches[br]}, e # NoEntry
             PROVE  EntryTrue(e, br)'
  BY DEF BehindInv
<1>2. EntryTrue(e, br) /\ e.sha \in MadeHead(br)
  BY EntriesFiled
<1>3. e \in Entry
  BY StepTypeInv DEF TypeInv, TypeOK
<1> QED
  BY <1>1, <1>2, <1>3, EntryStays

LEMMA InitBehindInv == Init => BehindInv
BY DEF Init, BehindInv, EmptyCache, EmptyBranches

\* One base branch: a saved "is behind base" that the next run will use,
\* because its two shas are the heads of the remote, is true.
THEOREM UsableBehindsAreTrue ==
    ASSUME SingleBase
    PROVE  Spec => []UsableBehindIsTrue
<1>1. Spec => [](TypeInv /\ CacheInv /\ BehindInv)
  BY InitTypeInv, InitCacheInv, InitBehindInv, StepTypeInv, StepCacheInv, StepBehindInv, PTL DEF Spec
<1>2. TypeInv /\ BehindInv => UsableBehindIsTrue
  <2> SUFFICES ASSUME TypeInv, BehindInv, NEW br \in Branches,
                      disk.branches[br] # NoEntry, disk.branches[br].sha # NoSha,
                      disk.branches[br].isBehindBase # "unset",
                      disk.branches[br].sha = remote[br],
                      disk.branches[br].baseSha = remote[disk.branches[br].baseBranch]
               PROVE  disk.branches[br].isBehindBase =
                         Flag(~Contains(CommitAt(disk.branches[br].sha), disk.branches[br].baseSha))
    BY DEF UsableBehindIsTrue
  <2>1. EntryTrue(disk.branches[br], br)
    BY DEF BehindInv
  <2>2. disk.branches[br].isBehindBase \in {"yes", "no"}
    BY DEF TypeInv, TypeOK, Entry, Flags
  <2> QED
    BY <2>1, <2>2 DEF EntryTrue, BehindTrue, Flag
<1> QED
  BY <1>1, <1>2, PTL

-----------------------------------------------------------------------------
(***************************************************************************)
(* A branch that is kept is current.  The answers shouldReuseExistingBranch *)
(* decides from are true, and stay true of the commit the run saw while it *)
(* is the head.                                                            *)
(***************************************************************************)

\* the answers about being behind are asked for, if at all, of one base branch
BehindOfOneBase == SingleBase \/ "behind-base-branch" \notin RebaseModes

ReusedExists == work # NoWork /\ work.stage = "update" /\ work.reuse => snapshot[work.br] # NoSha

ReusedInv == ReusedExists /\ ReusedIsCurrent

\* what git merged br into for the answer that the cache has of its base
Over(br) == conflicts[baseOf[br]].source[br].over

LEMMA KnownConflictTrue ==
    ASSUME TypeInv, CacheInv, NEW br \in Branches, Exists(br), KnownConflict(br) # "unset"
    PROVE  ConflictTrue(KnownConflict(br) = "yes", Over(br), br, snapshot[br], baseOf[br], BaseSha(br))
<1> DEFINE cached == conflicts[baseOf[br]]
           answer == cached.source[br]
<1>1. baseOf[br] \in Bases /\ conflicts \in Conflicts
  BY DEF TypeInv, TypeOK
<1>2. answer.isConflicted \in BOOLEAN
  BY <1>1 DEF Conflicts
<1>3. /\ cached.target = BaseSha(br) /\ answer.sha = snapshot[br]
      /\ KnownConflict(br) = "yes" <=> answer.isConflicted
  BY <1>2 DEF KnownConflict, Flag
<1>4. ConflictTrue(answer.isConflicted, answer.over, br, answer.sha, baseOf[br], cached.target)
  BY <1>1, <1>3 DEF CacheInv, ConflictsInv, AnswersTrue, Exists
<1> QED
  BY <1>3, <1>4 DEF ConflictTrue, Over

\* An answer that was missing is filed with what git merged the branch into.
LEMMA FiledOver ==
    ASSUME TypeInv, NEW br \in Branches, Exists(br), KnownConflict(br) = "unset", NEW flag, NEW ref
    PROVE  WithConflict(br, snapshot[br], flag, ref)[baseOf[br]].source[br].over = ref
<1> DEFINE b == baseOf[br]
           kept == KeptAnswers(br)
<1>1. b \in Bases /\ conflicts \in Conflicts
  BY DEF TypeInv, TypeOK
<1>2. kept[br].sha # snapshot[br]
  BY <1>1 DEF KeptAnswers, KnownConflict, Flag, Absent, Exists
<1>3. kept \in [Branches -> [sha : Sha, isConflicted : BOOLEAN, over : Refs]]
  BY <1>1, RefTypes, ConstantsAssumption DEF KeptAnswers, Conflicts, Absent, Refs
<1> HIDE DEF kept
<1>4. WithConflict(br, snapshot[br], flag, ref) =
        [conflicts EXCEPT ![b] = [target |-> BaseSha(br),
            source |-> [kept EXCEPT ![br] = [sha |-> snapshot[br], isConflicted |-> flag = "yes", over |-> ref]]]]
  BY <1>2 DEF WithConflict, kept
<1> QED
  BY <1>1, <1>3, <1>4 DEF Conflicts

LEMMA DecideReuseCurrent ==
    ASSUME BehindOfOneBase, TypeInv, CacheInv, SingleBase => BehindInv, NEW br \in Branches, DecideReuse(br)
    PROVE  ReusedInv'
<1> DEFINE asked == Exists(br) /\ rebaseWhen[br] = "behind-base-branch"
           askBehind == asked /\ KnownBehind(br) = "unset"
           saysBehind == IF askBehind THEN GitBehind(Fetched, br) ELSE KnownBehind(br)
           behind == asked /\ "yes" = saysBehind
           merge == Exists(br) /\ ~behind
           ref == MergedInto(br)
           Decided(conflict) ==
              /\ \/ ~merge /\ conflict = "unset" /\ conflicts' = conflicts
                 \/ /\ merge /\ KnownConflict(br) # "unset"
                    /\ conflict = KnownConflict(br) /\ conflicts' = conflicts
                 \/ /\ merge /\ KnownConflict(br) = "unset" /\ conflict \in GitConflict(Fetched, br, ref)
                    /\ conflicts' = WithConflict(br, snapshot[br], conflict, ref)
              /\ work' = [work EXCEPT !.stage = "update", !.conflicted = conflict,
                              !.reuse = Exists(br) /\ (memModified[br] = "yes" \/ (~behind /\ conflict = "no"))]
           c == CommitAt(snapshot[br])
<1>0. PICK conflict : Decided(conflict)
  BY DecidedConflict
<1> DEFINE reuse == Exists(br) /\ (memModified[br] = "yes" \/ (~behind /\ conflict = "no"))
<1>1. /\ UNCHANGED <<commits, remote, baseOf, rebaseWhen, snapshot, memModified>>
      /\ work \in Work /\ work # NoWork /\ work.br = br
      /\ work' = [work EXCEPT !.stage = "update", !.conflicted = conflict, !.reuse = reuse]
  BY <1>0 DEF DecideReuse, At, TypeInv, TypeOK, worldVars
<1>2. /\ phase # "idle" /\ BasesInv /\ Superseded /\ rebaseWhen[br] \in RebaseModes
      /\ baseOf[br] \in Bases /\ ref \in Refs
  BY <1>1 DEF TypeInv, TypeOK, InProcess, CacheInv, MergedInto, Refs
<1>3. ASSUME merge, conflict = "no", snapshot[br] = remote[br]
      PROVE  ~MergeConflicts(c, BaseSha(br)) \/ Over(br)' \in Bases \ {baseOf[br]}
  <2>1. CASE KnownConflict(br) = "unset"
    <3>1. conflict \in GitConflict(Fetched, br, ref) /\ conflicts' = WithConflict(br, snapshot[br], conflict, ref)
      BY <1>0, <1>3, <2>1
    <3>2. Over(br)' = ref
      BY <1>1, <1>3, <2>1, <3>1, FiledOver DEF Over
    <3>3. ConflictTrue(conflict = "yes", ref, br, snapshot[br], baseOf[br], BaseSha(br))
      BY <1>2, <1>3, <3>1, GitConflictTrue
    <3> QED
      BY <1>3, <3>2, <3>3 DEF ConflictTrue
  <2>2. CASE KnownConflict(br) # "unset"
    <3>1. conflict = KnownConflict(br) /\ Over(br)' = Over(br)
      BY <1>0, <1>1, <1>3, <2>2 DEF Over
    <3> QED
      BY <1>3, <2>2, <3>1, KnownConflictTrue DEF ConflictTrue
  <2> QED
    BY <2>1, <2>2
<1>4. ASSUME asked, ~behind, snapshot[br] = remote[br] PROVE Contains(c, BaseSha(br))
  <2>1. SingleBase /\ BehindInv
    BY <1>2, <1>4 DEF BehindOfOneBase
  <2>2. CASE askBehind
    <3>1. GitBehind(Fetched, br) = "no"
      BY <1>4, <2>2 DEF GitBehind, Flag
    <3> QED
      BY <1>2, <1>4, <2>1, <3>1, GitBehindTrue DEF BehindTrue
  <2>3. CASE ~askBehind
    <3>1. KnownBehind(br) \in Flags
      BY DEF KnownBehind, TypeInv, TypeOK, Entry, Flags
    <3>2. KnownBehind(br) = "no"
      BY <1>4, <2>3, <3>1 DEF Flags
    <3> QED
      BY <1>4, <2>1, <3>2, KnownBehindTrue DEF BehindTrue
  <2> QED
    BY <2>2, <2>3
<1>5. reuse => Exists(br) /\ (memModified[br] = "yes" \/ (merge /\ conflict = "no"))
  OBVIOUS
<1>6. asked <=> Exists(br) /\ rebaseWhen[br] = "behind-base-branch"
  OBVIOUS
<1>7. merge => ~behind
  OBVIOUS
<1> HIDE DEF reuse, behind, merge, asked, Decided
<1>8. work'.br = br /\ work'.stage = "update" /\ work'.reuse = reuse
  BY <1>1 DEF Work
<1>9. ReusedExists'
  BY <1>1, <1>5, <1>8 DEF ReusedExists, Exists
<1>10. ASSUME NEW x \in Branches, At(x, "update")', work'.reuse, memModified'[x] = "no", snapshot'[x] = remote'[x]
       PROVE  /\ ~MergeConflicts(CommitAt(snapshot[x]), BaseSha(x))' \/ (Over(x) \in Bases \ {baseOf[x]})'
              /\ rebaseWhen'[x] = "behind-base-branch" => Contains(CommitAt(snapshot[x]), BaseSha(x))'
  <2>1. x = br /\ memModified[br] = "no" /\ snapshot[br] = remote[br] /\ reuse
    BY <1>1, <1>8, <1>10 DEF At
  <2>2. /\ ~MergeConflicts(c, BaseSha(br)) \/ Over(br)' \in Bases \ {baseOf[br]}
        /\ rebaseWhen[br] = "behind-base-branch" => Contains(c, BaseSha(br))
    BY <2>1, <1>3, <1>4, <1>5, <1>6, <1>7
  <2> QED
    BY <1>1, <2>1, <2>2 DEF CommitAt, BaseSha, MergeConflicts, Contains
<1> QED
  BY <1>9, <1>10 DEF ReusedInv, ReusedIsCurrent, Over

LEMMA StepReusedInv ==
    ASSUME BehindOfOneBase, TypeInv, CacheInv, SingleBase => BehindInv, ReusedInv, [Next]_vars
    PROVE  ReusedInv'
<1>1. CASE UNCHANGED vars
  BY <1>1 DEF vars, worldVars, runVars, gitVars, cacheVars, loopVars, ReusedInv, ReusedExists, ReusedIsCurrent, At,
              CommitAt, BaseSha, MergeConflicts, Contains
<1>2. CASE World
  <2>1. UNCHANGED runVars /\ Forward
    BY <1>2, WorldLeaves, WorldForward
  <2>2. ReusedExists'
    BY <2>1 DEF runVars, gitVars, loopVars, ReusedInv, ReusedExists
  <2>3. ASSUME NEW x \in Branches, At(x, "update"), work.reuse, memModified[x] = "no", snapshot[x] = remote'[x]
        PROVE  /\ \/ ~MergeConflicts(CommitAt(snapshot[x])', BaseSha(x)')
                  \/ conflicts'[baseOf'[x]].source[x].over \in Bases \ {baseOf'[x]}
               /\ rebaseWhen'[x] = "behind-base-branch" => Contains(CommitAt(snapshot[x])', BaseSha(x)')
    <3>1. UNCHANGED <<baseOf, rebaseWhen, snapshot, conflicts>>
      BY <1>2, <2>1, <2>3, WorldLeaves DEF At, TypeInv, InProcess, runVars, gitVars, cacheVars
    <3>2. snapshot[x] \in MadeHead(x) \ {NoSha}
      BY <2>3 DEF At, ReusedInv, ReusedExists, TypeInv, ShasKnown
    <3>3. snapshot[x] = remote[x] /\ CommitAt(snapshot[x])' = CommitAt(snapshot[x])
      BY <2>1, <2>3, <3>1, <3>2 DEF Forward, CommitAt
    <3>4. BaseSha(x)' = BaseSha(x)
      BY <3>1 DEF BaseSha
    <3> QED
      BY <2>3, <3>1, <3>3, <3>4 DEF ReusedInv, ReusedIsCurrent
  <2>4. ReusedIsCurrent'
    BY <2>1, <2>3 DEF ReusedIsCurrent, At, runVars, gitVars, loopVars, MergeConflicts, Contains
  <2> QED
    BY <2>2, <2>4 DEF ReusedInv
<1>3. ASSUME work' = NoWork \/ work'.stage # "update" \/ ~work'.reuse PROVE ReusedInv'
  BY <1>3 DEF ReusedInv, ReusedExists, ReusedIsCurrent, At
<1>4. CASE InitRepo \/ Extract \/ SaveCache \/ Abort \/ \E lost, misread \in SUBSET Branches : SetBranchCache(lost, misread)
  <2>1. work' = NoWork
    BY <1>4 DEF InitRepo, Extract, SaveCache, Abort, SetBranchCache, RunOver, loopVars, TypeInv, InProcess
  <2> QED
    BY <1>3, <2>1
<1>5. ASSUME NEW br \in Branches, ProcessBranch(br) PROVE ReusedInv'
  <2>1. work \in Work \cup {NoWork}
    BY DEF TypeInv, TypeOK
  <2>2. CASE DecideReuse(br)
    BY <2>2, DecideReuseCurrent
  <2>3. CASE ~DecideReuse(br)
    <3>1. CASE StartBranch(br)
      BY <3>1, <1>3 DEF StartBranch
    <3>2. CASE \E failed \in BOOLEAN : CheckEdited(br, failed)
      BY <1>3, <2>1, <3>2 DEF CheckEdited, At, ReturnNoCommit, Work
    <3>3. CASE \E rebase \in BOOLEAN : DecideByUser(br, rebase)
      BY <1>3, <2>1, <3>3 DEF DecideByUser, At, Work
    <3>4. CASE UpdateFiles(br)
      BY <1>3, <2>1, <3>4 DEF UpdateFiles, At, ReturnNoCommit, Goto, Work
    <3>5. CASE PushWithLease(br) \/ PushByApi(br) \/ FetchCommit(br)
      <4>1. work \in Work
        BY <2>1, <3>5 DEF PushWithLease, PushByApi, FetchCommit, At
      <4>2. \/ \E sha : work' = [work EXCEPT !.stage = "record", !.commit = sha]
            \/ work' = [work EXCEPT !.stage = "fetch"]
        BY <3>5 DEF PushWithLease, PushByApi, FetchCommit, Goto
      <4>3. work'.stage # "update"
        BY <4>1, <4>2 DEF Work
      <4> QED
        BY <1>3, <4>3
    <3>6. CASE EarlyReturn(br) \/ RebaseNever(br) \/ SkipUpdate(br) \/ UpdateFails(br) \/ PushFails(br)
               \/ RecordCommit(br)
      BY <1>3, <3>6 DEF EarlyReturn, RebaseNever, SkipUpdate, UpdateFails, PushFails, RecordCommit, ReturnNoCommit
    <3> QED
      BY <1>5, <2>3, <3>1, <3>2, <3>3, <3>4, <3>5, <3>6 DEF ProcessBranch
  <2> QED
    BY <2>2, <2>3
<1> QED
  BY <1>1, <1>2, <1>4, <1>5 DEF Next, Run

LEMMA InitReusedInv == Init => ReusedInv
BY DEF Init, ReusedInv, ReusedExists, ReusedIsCurrent, At

\* A branch of Renovate's own that the run keeps merges into the base branch
\* the run saw, and contains it where rebaseWhen asks for it
\* (shouldReuseExistingBranch and the two caches it reads).
THEOREM ReusedAreCurrent ==
    ASSUME BehindOfOneBase
    PROVE  Spec => []ReusedIsCurrent
<1>1. Init => (SingleBase => BehindInv)
  BY InitBehindInv
<1>2. TypeInv /\ CacheInv /\ (SingleBase => BehindInv) /\ [Next]_vars => (SingleBase => BehindInv)'
  BY StepBehindInv DEF SingleBase
<1>3. TypeInv /\ CacheInv /\ (SingleBase => BehindInv) /\ ReusedInv /\ [Next]_vars => ReusedInv'
  BY StepReusedInv
<1>4. Spec => []ReusedInv
  BY <1>1, <1>2, <1>3, InitTypeInv, InitCacheInv, InitReusedInv, StepTypeInv, StepCacheInv, PTL DEF Spec
<1> QED
  BY <1>4, PTL DEF ReusedInv

-----------------------------------------------------------------------------
(***************************************************************************)
(* A branch is skipped only if it is up to date.  A fingerprint vouches    *)
(* for a commit: it has the release of the fingerprint, or the branch was  *)
(* left alone, as edited or because of rebaseWhen=never.  It needs one     *)
(* base branch and that no branch is left early: otherwise a fingerprint   *)
(* is recorded for a branch that nothing was done for.                     *)
(***************************************************************************)

Undisturbed == SingleBase /\ ~Faults

PrintTrue(print, sha, modified) ==
    print # NoPrint => modified = "yes" \/ print[3] = "never" \/ CommitAt(sha).want = print[1]

InHand(br, stages) == work # NoWork /\ work.br = br /\ work.stage \in stages
NotReached(br) == phase = "extract" \/ (phase = "write" /\ br \in todo)
EntryStages == {"check", "decide", "update", "push"}

PrintOf(br) ==
    LET e == branches[br]
        saved == disk.branches[br]
    IN /\ saved # NoEntry /\ saved.sha # NoSha /\ saved.sha = remote[br] =>
             PrintTrue(saved.fingerprint, saved.sha, saved.isModified)
       /\ (NotReached(br) \/ InHand(br, EntryStages)) /\ e # NoEntry /\ e.sha # NoSha /\ e.sha = snapshot[br] =>
             PrintTrue(e.fingerprint, e.sha, e.isModified)
       /\ phase = "save" /\ e # NoEntry /\ e.sha # NoSha /\ e.sha = remote[br] =>
             PrintTrue(e.fingerprint, e.sha, e.isModified)
       /\ phase = "write" /\ snapshot[br] # NoSha /\ snapshot[br] = remote[br] =>
             PrintTrue(fingerprints[br], snapshot[br], memModified[br])
       /\ (phase = "idle" \/ NotReached(br) \/ (work # NoWork /\ work.br = br)) => fingerprints[br] = NoPrint
       /\ NotReached(br) \/ InHand(br, {"check"}) => memModified[br] = "unset"

PrintInv == \A br \in Branches : PrintOf(br)

\* an entry with a fingerprint has an answer about edits
AnsweredInv ==
    \A br \in Branches : \A e \in {branches[br], disk.branches[br]} :
        e # NoEntry /\ e.fingerprint # NoPrint => e.isModified # "unset"

\* what is pushed has the release the upgrade stands at
WantInv ==
    work # NoWork =>
        /\ work.stage = "fetch" /\ remote[work.br] # NoSha => CommitAt(remote[work.br]).want = want[work.br]
        /\ work.stage = "record" => CommitAt(snapshot[work.br]).want = want[work.br]

HandOf(br) ==
    /\ InHand(br, EntryStages) => branches[br].sha = snapshot[br]
    /\ InHand(br, {"check", "decide", "update"}) /\ work.skip => branches[br].fingerprint = Fingerprint(br)
    /\ InHand(br, {"decide", "update", "push"}) /\ snapshot[br] # NoSha => branches[br].isModified = memModified[br]
    /\ InHand(br, {"update"}) /\ work.reuse => snapshot[br] # NoSha /\ rebaseWhen[br] # "never"

HandInv == \A br \in Branches : HandOf(br)

SkipInv == PrintInv /\ AnsweredInv /\ WantInv /\ HandInv

LEMMA InitSkipInv == Init => SkipInv
BY DEF Init, SkipInv, PrintInv, PrintOf, AnsweredInv, WantInv, HandInv, HandOf, InHand, NotReached,
       EmptyCache, EmptyBranches, PrintTrue

LEMMA FingerprintFacts ==
    ASSUME NEW br
    PROVE  /\ Fingerprint(br) # NoPrint
           /\ Fingerprint(br)[1] = want[br] /\ Fingerprint(br)[3] = rebaseWhen[br]
BY DEF Fingerprint, NoPrint

\* What a fingerprint says of a commit does not change.
LEMMA PrintStays ==
    ASSUME Forward, NEW br \in Branches, NEW sha \in MadeHead(br) \ {NoSha}, NEW print, NEW modified,
           PrintTrue(print, sha, modified)
    PROVE  PrintTrue(print, sha, modified)'
<1>1. CommitAt(sha)' = CommitAt(sha)
  BY DEF Forward
<1> QED
  BY <1>1 DEF PrintTrue

LEMMA SyncedPrint ==
    ASSUME SingleBase, TypeInv, NEW br \in Branches
    PROVE  \/ Synced(br).fingerprint = NoPrint
           \/ /\ branches[br] # NoEntry /\ branches[br].sha = snapshot[br]
              /\ Synced(br).fingerprint = branches[br].fingerprint
              /\ Synced(br).isModified = branches[br].isModified
<1> DEFINE minimal == [sha |-> snapshot[br], baseBranch |-> baseOf[br], baseSha |-> BaseSha(br),
                       isModified |-> "unset", isBehindBase |-> "unset",
                       fingerprint |-> NoPrint, parentSha |-> NoSha]
           e == IF branches[br] = NoEntry THEN minimal ELSE branches[br]
<1>1. /\ snapshot[br] \in Sha /\ BaseSha(br) \in Sha /\ NoSha \in Sha
      /\ baseOf[br] \in Bases /\ branches[br] \in Entry \cup {NoEntry}
  BY DEF TypeInv, TypeOK, Refs, BaseSha, Sha
<1>2. minimal \in Entry
  BY <1>1 DEF Entry, Flags, Prints
<1>3. e \in Entry /\ (branches[br] = NoEntry => e.fingerprint = NoPrint) /\ (branches[br] # NoEntry => e = branches[br])
  BY <1>1, <1>2
<1> HIDE DEF e
<1>4. Synced(br) = [e EXCEPT !.sha = snapshot[br], !.baseBranch = baseOf[br], !.baseSha = BaseSha(br),
                 !.isModified = IF KeepModified(e, br) THEN @ ELSE "unset",
                 !.isBehindBase = IF KeepBehind(e, br) THEN @ ELSE "unset",
                 !.fingerprint = IF e.sha = snapshot[br] THEN @ ELSE NoPrint]
  BY DEF Synced, e
<1>5. /\ Synced(br).isModified = IF KeepModified(e, br) THEN e.isModified ELSE "unset"
      /\ Synced(br).fingerprint = IF e.sha = snapshot[br] THEN e.fingerprint ELSE NoPrint
  BY <1>3, <1>4 DEF Entry
<1>6. e.baseBranch = baseOf[br]
  BY <1>1, <1>3 DEF SingleBase, Entry
<1> QED
  BY <1>3, <1>5, <1>6 DEF KeepModified

LEMMA GeneratedPrint ==
    ASSUME TypeInv, NEW br \in Branches, branches[br] # NoEntry, NEW heads, NEW failed, Generated(br, heads, failed) # NoEntry
    PROVE  /\ Generated(br, heads, failed).sha = snapshot[br]
           /\ Generated(br, heads, failed).fingerprint = fingerprints[br]
           /\ Generated(br, heads, failed).isModified # "unset"
           /\ Exists(br) /\ memModified[br] = "yes" => Generated(br, heads, failed).isModified = "yes"
<1> DEFINE e == Generated(br, heads, failed)
           modified == IF KnownModified(br) # "unset" THEN KnownModified(br) ELSE GitModified(heads[br], failed)
           behind == IF KnownBehind(br) # "unset" THEN KnownBehind(br) ELSE GitBehind(heads, br)
           cachedParent == IF branches[br].sha = snapshot[br] THEN branches[br].parentSha ELSE NoSha
           parent == IF cachedParent # NoSha \/ ~cloned THEN cachedParent
                     ELSE CommitAt(snapshot[br]).parent
           base == [sha |-> snapshot[br], baseBranch |-> baseOf[br], baseSha |-> BaseSha(br),
                 fingerprint |-> fingerprints[br], isModified |-> "no",
                 isBehindBase |-> "no", parentSha |-> NoSha]
<1>1. CASE ~Exists(br)
  BY <1>1 DEF Generated
<1>2. CASE Exists(br)
  <2>1. modified # "unset" /\ (memModified[br] = "yes" => modified = "yes")
    BY DEF GitModified, Flag, KnownModified
  <2>2. e = [base EXCEPT !.isModified = modified, !.isBehindBase = behind, !.parentSha = parent]
    BY <1>2 DEF Generated
  <2> HIDE DEF behind, modified, parent, e
  <2>3. e.sha = snapshot[br] /\ e.fingerprint = fingerprints[br] /\ e.isModified = modified
    BY <2>2
  <2>4. /\ e.sha = snapshot[br] /\ e.fingerprint = fingerprints[br] /\ e.isModified # "unset"
        /\ memModified[br] = "yes" => e.isModified = "yes"
    BY <2>1, <2>3
  <2> QED
    BY <2>4 DEF e
<1> QED
  BY <1>1, <1>2

-----------------------------------------------------------------------------
(* The steps outside processBranch *)

LEMMA SkipWorld ==
    ASSUME TypeInv, CacheInv, SkipInv, World
    PROVE  SkipInv'
<1>1. UNCHANGED runVars /\ Forward /\ (phase # "idle" => UNCHANGED <<want, baseOf, rebaseWhen>>)
  BY WorldLeaves, WorldForward
<1>2. /\ UNCHANGED <<phase, snapshot, memModified, branches, todo, work, fingerprints>>
      /\ work # NoWork => phase # "idle" /\ work.br \in Branches
  BY <1>1 DEF runVars, gitVars, cacheVars, loopVars, TypeInv, TypeOK, InProcess, Work
<1>3. \A x \in Branches : disk'.branches[x] \in {disk.branches[x], NoEntry}
  <2>1. disk' = disk \/ disk' = EmptyCache
    BY DEF World, BaseMoves, UserPush, UserDelete, NewRelease, Reconfigure, LoseCache
  <2> QED
    BY <2>1 DEF EmptyCache, EmptyBranches
<1>4. ASSUME NEW x \in Branches, NEW sha \in MadeHead(x) \ {NoSha}, sha = remote'[x]
      PROVE  sha = remote[x]
  BY <1>1, <1>4 DEF Forward
<1>5. PrintInv'
  <2> SUFFICES ASSUME NEW x \in Branches PROVE PrintOf(x)'
    BY DEF PrintInv
  <2>1. PrintOf(x)
    BY DEF SkipInv, PrintInv
  <2> DEFINE Tells(e) == PrintTrue(e.fingerprint, e.sha, e.isModified)
  <2>2. ASSUME NEW e \in {branches[x], disk.branches[x]}, e # NoEntry, e.sha # NoSha, Tells(e)
        PROVE  Tells(e)'
    <3>1. e.sha \in MadeHead(x) \ {NoSha}
      BY <2>2 DEF TypeInv, EntriesKnown
    <3> QED
      BY <1>1, <2>2, <3>1, PrintStays
  <2>3. ASSUME NEW e \in {branches[x], disk.branches[x]}, e # NoEntry, e.sha # NoSha, e.sha = remote'[x]
        PROVE  e.sha = remote[x]
    <3>1. e.sha \in MadeHead(x) \ {NoSha}
      BY <2>3 DEF TypeInv, EntriesKnown
    <3> QED
      BY <1>4, <2>3, <3>1
  <2>4. disk'.branches[x] # NoEntry /\ disk'.branches[x].sha # NoSha /\ disk'.branches[x].sha = remote'[x] =>
             PrintTrue(disk.branches[x].fingerprint, disk.branches[x].sha, disk.branches[x].isModified)'
    BY <1>3, <2>1, <2>2, <2>3 DEF PrintOf
  <2>5. (NotReached(x) \/ InHand(x, EntryStages)) /\ branches[x] # NoEntry /\ branches[x].sha # NoSha
           /\ branches[x].sha = snapshot[x] => Tells(branches[x])'
    BY <1>2, <2>1, <2>2 DEF PrintOf
  <2>6. phase = "save" /\ branches[x] # NoEntry /\ branches[x].sha # NoSha /\ branches[x].sha = remote'[x] =>
             Tells(branches[x])'
    BY <1>2, <2>1, <2>2, <2>3 DEF PrintOf
  <2>7. phase = "write" /\ snapshot[x] # NoSha /\ snapshot[x] = remote'[x] =>
             PrintTrue(fingerprints[x], snapshot[x], memModified[x])'
    <3> SUFFICES ASSUME phase = "write", snapshot[x] # NoSha, snapshot[x] = remote'[x]
                 PROVE  PrintTrue(fingerprints[x], snapshot[x], memModified[x])'
      OBVIOUS
    <3>1. snapshot[x] \in MadeHead(x) \ {NoSha}
      BY DEF TypeInv, ShasKnown
    <3>2. snapshot[x] = remote[x]
      BY <1>4, <3>1
    <3>3. PrintTrue(fingerprints[x], snapshot[x], memModified[x])
      BY <2>1, <3>2 DEF PrintOf
    <3> QED
      BY <1>1, <1>2, <3>1, <3>3, PrintStays DEF PrintTrue, CommitAt, Forward
  <2> QED
    BY <1>2, <1>3, <2>1, <2>4, <2>5, <2>6, <2>7 DEF PrintOf, InHand, NotReached
<1>6. AnsweredInv'
  BY <1>2, <1>3 DEF SkipInv, AnsweredInv
<1>7. WantInv'
  <2>1. ASSUME work # NoWork, work.stage = "fetch", remote'[work.br] # NoSha
        PROVE  CommitAt(remote[work.br])'.want = want'[work.br]
    BY <1>1, <1>2, <2>1, WorldHeads DEF SkipInv, WantInv
  <2>2. ASSUME work # NoWork, work.stage = "record"
        PROVE  CommitAt(snapshot[work.br])'.want = want'[work.br]
    <3>1. snapshot[work.br] \in MadeHead(work.br) /\ CommitAt(snapshot[work.br]).want = want[work.br]
      BY <1>2, <2>2 DEF TypeInv, ShasKnown, SkipInv, WantInv
    <3>2. snapshot[work.br] # NoSha
      BY <2>2 DEF CacheInv, PushedInv
    <3> QED
      BY <1>1, <1>2, <2>2, <3>1, <3>2 DEF Forward, CommitAt
  <2> QED
    BY <1>2, <2>1, <2>2 DEF WantInv
<1>8. HandInv'
  BY <1>1, <1>2 DEF SkipInv, HandInv, HandOf, InHand, Fingerprint
<1> QED
  BY <1>5, <1>6, <1>7, <1>8 DEF SkipInv

LEMMA SkipRun ==
    ASSUME TypeInv, SkipInv, InitRepo \/ Extract \/ SaveCache \/ Abort
                             \/ \E lost, misread \in SUBSET Branches : SetBranchCache(lost, misread)
    PROVE  SkipInv'
<1>1. work' = NoWork /\ UNCHANGED <<commits, remote>>
  BY DEF InitRepo, Extract, SaveCache, Abort, SetBranchCache, RunOver, loopVars, worldVars, TypeInv, InProcess
<1>2. WantInv' /\ HandInv'
  BY <1>1 DEF WantInv, HandInv, HandOf, InHand
<1>3. \A print, sha, modified : PrintTrue(print, sha, modified)' <=> PrintTrue(print, sha, modified)
  BY <1>1 DEF PrintTrue, CommitAt
<1>4. ASSUME NEW x \in Branches PROVE PrintOf(x)
  BY DEF SkipInv, PrintInv
<1>5. CASE InitRepo
  <2>1. /\ phase = "idle" /\ phase' = "extract" /\ snapshot' = remote /\ branches' = disk.branches
        /\ UNCHANGED <<disk, memModified, todo, fingerprints>>
    BY <1>5 DEF InitRepo, loopVars
  <2>2. \A x \in Branches : memModified[x] = "unset"
    BY <2>1 DEF TypeInv, InProcess
  <2>3. ASSUME NEW x \in Branches PROVE PrintOf(x)'
    BY <1>1, <1>4, <2>1, <2>2 DEF PrintOf, PrintTrue, CommitAt, NotReached, InHand
  <2>4. AnsweredInv'
    BY <2>1 DEF SkipInv, AnsweredInv
  <2> QED
    BY <1>2, <2>3, <2>4 DEF SkipInv, PrintInv
<1>6. CASE Extract
  <2>1. /\ phase = "extract" /\ phase' = "write" /\ todo' = Branches
        /\ UNCHANGED <<disk, snapshot, memModified, branches, fingerprints>>
    BY <1>6 DEF Extract, cacheVars
  <2>2. ASSUME NEW x \in Branches PROVE PrintOf(x)'
    <3>1. fingerprints[x] = NoPrint
      BY <1>4, <2>1 DEF PrintOf, NotReached
    <3> QED
      BY <1>1, <1>4, <2>1, <3>1 DEF PrintOf, PrintTrue, CommitAt, NotReached, InHand
  <2>3. AnsweredInv'
    BY <2>1 DEF SkipInv, AnsweredInv
  <2> QED
    BY <1>2, <2>2, <2>3 DEF SkipInv, PrintInv
<1>7. CASE SaveCache \/ Abort
  <2>1. /\ phase' = "idle" /\ \A x \in Branches : fingerprints'[x] = NoPrint /\ branches'[x] = NoEntry
    BY <1>7 DEF SaveCache, Abort, RunOver, EmptyBranches
  <2>2. \/ disk' = disk
        \/ phase = "save" /\ disk'.branches = branches
    BY <1>7 DEF SaveCache, Abort
  <2>3. ASSUME NEW x \in Branches PROVE PrintOf(x)'
    BY <1>1, <1>4, <2>1, <2>2 DEF PrintOf, PrintTrue, CommitAt, NotReached, InHand
  <2>4. AnsweredInv'
    BY <2>1, <2>2 DEF SkipInv, AnsweredInv
  <2> QED
    BY <1>2, <2>3, <2>4 DEF SkipInv, PrintInv
<1>8. ASSUME NEW lost \in SUBSET Branches, NEW misread \in SUBSET Branches,
           SetBranchCache(lost, misread) PROVE SkipInv'
  <2>1. /\ phase = "write" /\ phase' = "save" /\ \A x \in Branches : branches[x] # NoEntry
        /\ branches' = [br \in Branches |-> IF br \in lost THEN NoEntry ELSE Generated(br, Fetched, br \in misread)]
        /\ UNCHANGED <<disk, snapshot, memModified, fingerprints>>
    BY <1>8 DEF SetBranchCache, loopVars, TypeInv, InProcess
  <2>2. ASSUME NEW x \in Branches, branches'[x] # NoEntry
        PROVE  /\ branches'[x].sha = snapshot[x] /\ branches'[x].fingerprint = fingerprints[x]
               /\ branches'[x].isModified # "unset"
               /\ snapshot[x] # NoSha /\ memModified[x] = "yes" => branches'[x].isModified = "yes"
    <3>1. branches'[x] = Generated(x, Fetched, x \in misread)
      BY <2>1, <2>2
    <3> QED
      BY <2>1, <2>2, <3>1, GeneratedPrint DEF Exists
  <2>3. ASSUME NEW x \in Branches PROVE PrintOf(x)'
    <3>1. /\ disk.branches[x] # NoEntry /\ disk.branches[x].sha # NoSha /\ disk.branches[x].sha = remote[x] =>
             PrintTrue(disk.branches[x].fingerprint, disk.branches[x].sha, disk.branches[x].isModified)
          /\ snapshot[x] # NoSha /\ snapshot[x] = remote[x] =>
             PrintTrue(fingerprints[x], snapshot[x], memModified[x])
      BY <1>4, <2>1 DEF PrintOf
    <3>2. branches'[x] # NoEntry /\ branches'[x].sha # NoSha /\ branches'[x].sha = remote[x] =>
             PrintTrue(branches'[x].fingerprint, branches'[x].sha, branches'[x].isModified)
      BY <2>2, <3>1 DEF PrintTrue
    <3> QED
      BY <1>1, <2>1, <3>1, <3>2 DEF PrintOf, PrintTrue, CommitAt, NotReached, InHand
  <2>4. AnsweredInv'
    BY <2>1, <2>2 DEF SkipInv, AnsweredInv
  <2> QED
    BY <1>2, <2>3, <2>4 DEF SkipInv, PrintInv
<1> QED
  BY <1>5, <1>6, <1>7, <1>8

-----------------------------------------------------------------------------
(* The steps of processBranch *)

\* What a step that pushes nothing has to show, for its own branch only.
LEMMA SkipLocal ==
    ASSUME TypeInv, SkipInv, NEW br \in Branches, phase = "write", br \notin todo',
           todo' \subseteq todo, todo \subseteq todo' \cup {br},
           work # NoWork => work.br = br, work' # NoWork => work'.br = br,
           UNCHANGED <<commits, remote, want, baseOf, rebaseWhen, disk, phase, snapshot>>,
           \A x \in Branches \ {br} : /\ branches'[x] = branches[x] /\ memModified'[x] = memModified[x]
                                      /\ fingerprints'[x] = fingerprints[x],
           InHand(br, EntryStages)' /\ branches'[br].sha # NoSha =>
              PrintTrue(branches'[br].fingerprint, branches'[br].sha, branches'[br].isModified),
           snapshot[br] # NoSha /\ snapshot[br] = remote[br] =>
              PrintTrue(fingerprints'[br], snapshot[br], memModified'[br]),
           work' # NoWork => fingerprints'[br] = NoPrint,
           InHand(br, {"check"})' => memModified'[br] = "unset",
           branches'[br] # NoEntry /\ branches'[br].fingerprint # NoPrint => branches'[br].isModified # "unset",
           WantInv', HandOf(br)'
    PROVE  SkipInv'
<1>1. \A print, sha, modified : PrintTrue(print, sha, modified)' <=> PrintTrue(print, sha, modified)
  BY DEF PrintTrue, CommitAt
<1>2. ASSUME NEW x \in Branches PROVE PrintOf(x)'
  <2>1. PrintOf(x)
    BY DEF SkipInv, PrintInv
  <2>2. CASE x = br
    BY <1>1, <2>1, <2>2 DEF PrintOf, InHand, NotReached, PrintTrue, CommitAt
  <2>3. CASE x # br
    BY <1>1, <2>1, <2>3 DEF PrintOf, InHand, NotReached, PrintTrue, CommitAt
  <2> QED
    BY <2>2, <2>3
<1>3. AnsweredInv'
  BY DEF SkipInv, AnsweredInv
<1>4. HandInv'
  BY DEF HandInv, HandOf, InHand
<1> QED
  BY <1>2, <1>3, <1>4 DEF SkipInv, PrintInv

LEMMA SkipStart ==
    ASSUME SingleBase, TypeInv, SkipInv, NEW br \in Branches, StartBranch(br)
    PROVE  SkipInv'
<1>1. /\ UNCHANGED <<commits, remote, want, baseOf, rebaseWhen, disk, phase, snapshot, memModified, fingerprints>>
      /\ phase = "write" /\ br \in todo /\ todo' = todo \ {br} /\ work = NoWork
      /\ branches' = [branches EXCEPT ![br] = Synced(br)]
      /\ work' = [br |-> br, stage |-> "check", skip |-> CanSkip(Synced(br), br),
                asked |-> FALSE, override |-> FALSE, reuse |-> FALSE,
                conflicted |-> "unset", commit |-> NoSha]
  BY DEF StartBranch, worldVars, gitVars
<1>2. branches'[br] = Synced(br) /\ \A x \in Branches \ {br} : branches'[x] = branches[x]
  BY <1>1 DEF TypeInv, TypeOK
<1>3. Synced(br).sha = snapshot[br]
  BY SyncedType DEF TypeInv
<1>4. PrintOf(br) /\ NotReached(br)
  BY <1>1 DEF SkipInv, PrintInv, NotReached
<1>5. memModified[br] = "unset" /\ fingerprints[br] = NoPrint
  BY <1>4 DEF PrintOf
<1>6. snapshot[br] # NoSha => PrintTrue(Synced(br).fingerprint, snapshot[br], Synced(br).isModified)
  BY <1>4, SyncedPrint DEF PrintOf, PrintTrue
<1>7. Synced(br).fingerprint # NoPrint => Synced(br).isModified # "unset"
  BY SyncedPrint DEF SkipInv, AnsweredInv
<1>8. work'.br = br /\ work'.stage = "check" /\ (work'.skip <=> CanSkip(Synced(br), br))
  BY <1>1
<1>9. HandOf(br)'
  BY <1>1, <1>2, <1>3, <1>8 DEF HandOf, InHand, CanSkip, Fingerprint
<1>10. WantInv'
  BY <1>8 DEF WantInv
<1>11. PrintTrue(fingerprints'[br], snapshot[br], memModified'[br])
  BY <1>1, <1>5 DEF PrintTrue
<1>12. /\ phase = "write" /\ br \notin todo' /\ todo' \subseteq todo /\ todo \subseteq todo' \cup {br}
       /\ (work # NoWork => work.br = br) /\ fingerprints'[br] = NoPrint /\ memModified'[br] = "unset"
       /\ \A x \in Branches \ {br} : /\ branches'[x] = branches[x] /\ memModified'[x] = memModified[x]
                                     /\ fingerprints'[x] = fingerprints[x]
  BY <1>1, <1>2, <1>5
<1> QED
  BY <1>1, <1>2, <1>3, <1>6, <1>7, <1>8, <1>9, <1>10, <1>11, <1>12, SkipLocal

LEMMA SkipCheck ==
    ASSUME SingleBase, TypeInv, SkipInv, NEW br \in Branches, NEW failed \in BOOLEAN, CheckEdited(br, failed)
    PROVE  SkipInv'
<1> DEFINE known == KnownModified(br)
           ask == Exists(br) /\ known = "unset"
           answer == IF ~Exists(br) THEN "no" ELSE IF ask THEN GitModified(Fetched[br], failed) ELSE known
           retargeted == Exists(br) /\ CommitAt(snapshot[br]).base # baseOf[br]
           decided == [work EXCEPT !.stage = "decide", !.override = answer = "yes"]
<1>1. /\ UNCHANGED <<commits, remote, want, baseOf, rebaseWhen, disk, phase, snapshot, todo>>
      /\ branches' = IF ask THEN [branches EXCEPT ![br].isModified = answer] ELSE branches
      /\ memModified' = IF Exists(br) THEN [memModified EXCEPT ![br] = answer] ELSE memModified
      /\ \/ (answer = "yes" \/ retargeted) /\ ReturnNoCommit(br)
         \/ work' = decided /\ UNCHANGED fingerprints
  BY DEF CheckEdited, worldVars
<1>2. /\ work \in Work /\ work # NoWork /\ work.br = br /\ work.stage = "check"
      /\ branches[br] \in Entry /\ phase = "write" /\ br \notin todo
      /\ branches \in [Branches -> Entry \cup {NoEntry}] /\ memModified \in [Branches -> Flags]
  BY DEF CheckEdited, At, TypeInv, TypeOK, InProcess
<1>3. /\ PrintOf(br) /\ HandOf(br) /\ InHand(br, {"check"}) /\ InHand(br, EntryStages)
      /\ InHand(br, {"check", "decide", "update"})
  BY <1>2 DEF SkipInv, PrintInv, HandInv, InHand, EntryStages
<1>4. /\ memModified[br] = "unset" /\ fingerprints[br] = NoPrint /\ branches[br].sha = snapshot[br]
      /\ work.skip => branches[br].fingerprint = Fingerprint(br)
      /\ snapshot[br] # NoSha => PrintTrue(branches[br].fingerprint, snapshot[br], branches[br].isModified)
  BY <1>2, <1>3, NullsAssumption DEF PrintOf, HandOf
<1>5. known = branches[br].isModified
  BY <1>2, <1>4, NullsAssumption DEF KnownModified
<1>6. answer # "unset" /\ (Exists(br) /\ ~ask => answer = branches[br].isModified) /\ (~Exists(br) => answer = "no")
  BY <1>5 DEF GitModified, Flag
<1>7. ~retargeted
  <2>1. ASSUME Exists(br) PROVE CommitAt(snapshot[br]).base \in Bases /\ baseOf[br] \in Bases
    BY <2>1, CommitAtType DEF Exists, TypeInv, TypeOK, ShasKnown, Commit
  <2> QED
    BY <2>1 DEF SingleBase
<1>8. ask => Exists(br) /\ branches[br].fingerprint = NoPrint
  BY <1>2, <1>5, NullsAssumption DEF SkipInv, AnsweredInv
<1> HIDE DEF answer, ask, retargeted, known
<1>9. /\ \A x \in Branches \ {br} : branches'[x] = branches[x] /\ memModified'[x] = memModified[x]
      /\ branches'[br].sha = branches[br].sha /\ branches'[br].fingerprint = branches[br].fingerprint
      /\ branches'[br].isModified = IF ask THEN answer ELSE branches[br].isModified
      /\ memModified'[br] = IF Exists(br) THEN answer ELSE memModified[br]
  <2> DEFINE e == [branches[br] EXCEPT !.isModified = answer]
  <2>1. e.sha = branches[br].sha /\ e.fingerprint = branches[br].fingerprint /\ e.isModified = answer
    BY <1>2 DEF Entry
  <2>2. branches' = IF ask THEN [branches EXCEPT ![br] = e] ELSE branches
    BY <1>1
  <2> HIDE DEF e
  <2> QED
    BY <1>1, <1>2, <2>1, <2>2
<1>10. Exists(br) => branches'[br].isModified = answer /\ memModified'[br] = answer
  BY <1>6, <1>9
<1>11. snapshot[br] # NoSha => PrintTrue(branches'[br].fingerprint, branches'[br].sha, branches'[br].isModified)
  BY <1>4, <1>8, <1>9 DEF PrintTrue
<1>12. branches'[br].fingerprint # NoPrint => branches'[br].isModified # "unset"
  BY <1>2, <1>6, <1>9, NullsAssumption DEF SkipInv, AnsweredInv
<1>13. CASE answer = "yes" /\ ReturnNoCommit(br)
  <2>1. Exists(br) /\ work' = NoWork /\ \A x \in Branches \ {br} : fingerprints'[x] = fingerprints[x]
    BY <1>6, <1>13 DEF ReturnNoCommit, TypeInv, TypeOK
  <2>2. PrintTrue(fingerprints'[br], snapshot[br], memModified'[br])
    BY <1>10, <1>13, <2>1 DEF PrintTrue
  <2>3. WantInv' /\ HandOf(br)' /\ ~InHand(br, EntryStages)' /\ ~InHand(br, {"check"})'
    BY <2>1 DEF WantInv, HandOf, InHand
  <2> QED
    BY <1>1, <1>2, <1>9, <1>12, <2>1, <2>2, <2>3, SkipLocal
<1>14. CASE work' = decided /\ UNCHANGED fingerprints
  <2>1. work'.br = br /\ work'.stage = "decide" /\ work'.skip = work.skip
    BY <1>2, <1>14 DEF Work
  <2>2. PrintTrue(fingerprints'[br], snapshot[br], memModified'[br])
    BY <1>4, <1>14 DEF PrintTrue
  <2>3. HandOf(br)'
    BY <1>1, <1>4, <1>9, <1>10, <2>1 DEF HandOf, InHand, Fingerprint, Exists, EntryStages
  <2>4. WantInv' /\ ~InHand(br, {"check"})'
    BY <2>1 DEF WantInv, InHand
  <2>5. branches'[br].sha = snapshot[br] /\ fingerprints'[br] = NoPrint
    BY <1>4, <1>9, <1>14
  <2> QED
    BY <1>1, <1>2, <1>9, <1>11, <1>12, <1>14, <2>1, <2>2, <2>3, <2>4, <2>5, SkipLocal
<1> QED
  BY <1>1, <1>7, <1>13, <1>14

\* What a return without a commit has to show: that the branch has the release
\* its upgrade stands at, or is left alone.
LEMMA SkipReturn ==
    ASSUME TypeInv, SkipInv, NEW br \in Branches, work # NoWork, work.br = br, ReturnNoCommit(br),
           UNCHANGED <<commits, remote, want, baseOf, rebaseWhen, disk, phase, snapshot, memModified, branches, todo>>,
           snapshot[br] # NoSha /\ snapshot[br] = remote[br] =>
              /\ work.stage \in {"decide", "update", "push"}
              /\ PrintTrue(Fingerprint(br), snapshot[br], memModified[br]) \/ branches[br].fingerprint # NoPrint
    PROVE  SkipInv'
<1>1. work' = NoWork /\ \A x \in Branches \ {br} : fingerprints'[x] = fingerprints[x]
  BY DEF ReturnNoCommit, TypeInv, TypeOK
<1>2. fingerprints'[br] = IF branches[br].fingerprint = NoPrint THEN Fingerprint(br) ELSE branches[br].fingerprint
  BY DEF ReturnNoCommit, TypeInv, TypeOK
<1>3. phase = "write" /\ br \notin todo /\ branches[br] # NoEntry
  BY DEF TypeInv, InProcess
<1>4. ASSUME snapshot[br] # NoSha, snapshot[br] = remote[br]
      PROVE  PrintTrue(fingerprints'[br], snapshot[br], memModified[br])
  <2>1. InHand(br, EntryStages) /\ InHand(br, {"decide", "update", "push"}) /\ PrintOf(br) /\ HandOf(br)
    BY <1>4 DEF InHand, EntryStages, SkipInv, PrintInv, HandInv
  <2>2. branches[br].sha = snapshot[br] /\ branches[br].isModified = memModified[br]
    BY <1>4, <2>1 DEF HandOf
  <2>3. PrintTrue(branches[br].fingerprint, snapshot[br], memModified[br])
    BY <1>3, <1>4, <2>1, <2>2 DEF PrintOf
  <2> QED
    BY <1>2, <1>4, <2>3
<1>5. WantInv' /\ HandOf(br)' /\ ~InHand(br, EntryStages)' /\ ~InHand(br, {"check"})'
  BY <1>1 DEF WantInv, HandOf, InHand
<1>6. branches[br].fingerprint # NoPrint => branches[br].isModified # "unset"
  BY <1>3 DEF SkipInv, AnsweredInv
<1> QED
  BY <1>1, <1>3, <1>4, <1>5, <1>6, SkipLocal

LEMMA SkipGoOn ==
    ASSUME TypeInv, SkipInv, NEW br \in Branches, InHand(br, {"decide", "update"}),
           UNCHANGED <<commits, remote, want, baseOf, rebaseWhen, disk, phase, snapshot, memModified, branches,
                       todo, fingerprints>>,
           work' # NoWork, work'.br = br, work'.stage \in {"update", "push"}, work'.skip = work.skip,
           work'.stage = "update" /\ work'.reuse => snapshot[br] # NoSha /\ rebaseWhen[br] # "never"
    PROVE  SkipInv'
<1>1. phase = "write" /\ br \notin todo /\ branches[br] # NoEntry /\ work # NoWork /\ work.br = br
  BY DEF InHand, TypeInv, InProcess
<1>2. PrintOf(br) /\ HandOf(br) /\ InHand(br, EntryStages)
  BY DEF SkipInv, PrintInv, HandInv, InHand, EntryStages
<1>3. fingerprints[br] = NoPrint /\ branches[br].sha = snapshot[br]
  BY <1>1, <1>2 DEF PrintOf, HandOf
<1>4. snapshot[br] # NoSha => PrintTrue(branches[br].fingerprint, branches[br].sha, branches[br].isModified)
  BY <1>1, <1>2, <1>3 DEF PrintOf
<1>5. HandOf(br)'
  BY <1>2, <1>3 DEF HandOf, InHand, Fingerprint, EntryStages
<1>6. WantInv' /\ ~InHand(br, {"check"})'
  BY DEF WantInv, InHand
<1>7. PrintTrue(fingerprints'[br], snapshot[br], memModified'[br])
  BY <1>3 DEF PrintTrue
<1>8. branches[br].fingerprint # NoPrint => branches[br].isModified # "unset"
  BY <1>1 DEF SkipInv, AnsweredInv
<1> QED
  BY <1>1, <1>3, <1>4, <1>5, <1>6, <1>7, <1>8, SkipLocal

\* a push, and the fetch of what was pushed
LEMMA SkipMoved ==
    ASSUME TypeInv, SkipInv, Forward, NEW br \in Branches, InHand(br, {"push", "fetch"}),
           UNCHANGED <<want, baseOf, rebaseWhen, disk, phase, branches, todo, fingerprints>>,
           \A x \in Branches \ {br} : /\ snapshot'[x] = snapshot[x] /\ memModified'[x] = memModified[x]
                                      /\ remote'[x] = remote[x],
           work' # NoWork, work'.br = br, work'.stage \in {"fetch", "record"}, WantInv'
    PROVE  SkipInv'
<1>1. phase = "write" /\ br \notin todo /\ work # NoWork /\ work.br = br
  BY DEF InHand, TypeInv, InProcess
<1> DEFINE Tells(e) == PrintTrue(e.fingerprint, e.sha, e.isModified)
<1>2. ASSUME NEW x \in Branches PROVE PrintOf(x)'
  <2>1. PrintOf(x)
    BY DEF SkipInv, PrintInv
  <2>2. ASSUME NEW e \in {branches[x], disk.branches[x]}, e # NoEntry, e.sha # NoSha
        PROVE  (Tells(e) => Tells(e)') /\ (e.sha = remote'[x] => e.sha = remote[x])
    <3>1. e.sha \in MadeHead(x) \ {NoSha}
      BY <2>2 DEF TypeInv, EntriesKnown
    <3> QED
      BY <3>1, PrintStays DEF Forward
  <2>3. disk.branches[x] # NoEntry /\ disk.branches[x].sha # NoSha /\ disk.branches[x].sha = remote'[x] =>
             Tells(disk.branches[x])'
    BY <2>1, <2>2 DEF PrintOf
  <2>4. CASE x = br
    <3>1. fingerprints[x] = NoPrint
      BY <1>1, <2>1, <2>4 DEF PrintOf
    <3> QED
      BY <1>1, <2>3, <2>4, <3>1 DEF PrintOf, InHand, NotReached, PrintTrue, EntryStages
  <2>5. CASE x # br
    <3>1. snapshot[x] # NoSha /\ snapshot[x] = remote[x] => PrintTrue(fingerprints[x], snapshot[x], memModified[x])'
      <4>1. snapshot[x] # NoSha /\ snapshot[x] = remote[x] => PrintTrue(fingerprints[x], snapshot[x], memModified[x])
        BY <1>1, <2>1 DEF PrintOf
      <4>2. snapshot[x] # NoSha => CommitAt(snapshot[x])' = CommitAt(snapshot[x])
        <5>1. snapshot[x] \in MadeHead(x)
          BY DEF TypeInv, ShasKnown
        <5> QED
          BY <2>5, <5>1 DEF Forward, CommitAt
      <4> QED
        BY <2>5, <4>1, <4>2 DEF PrintTrue
    <3>2. NotReached(x) /\ branches[x] # NoEntry /\ branches[x].sha # NoSha /\ branches[x].sha = snapshot[x] =>
             Tells(branches[x])'
      BY <2>1, <2>2 DEF PrintOf
    <3>3. ~InHand(x, EntryStages)' /\ ~InHand(x, {"check"})' /\ ~(work' # NoWork /\ work'.br = x)
      BY <2>5 DEF InHand
    <3>4. /\ phase = "idle" \/ NotReached(x) => fingerprints[x] = NoPrint
          /\ NotReached(x) => memModified[x] = "unset"
      BY <2>1 DEF PrintOf
    <3> QED
      BY <1>1, <2>3, <2>5, <3>1, <3>2, <3>3, <3>4 DEF PrintOf, NotReached
  <2> QED
    BY <2>4, <2>5
<1>3. AnsweredInv'
  BY DEF SkipInv, AnsweredInv
<1>4. HandInv'
  BY DEF HandInv, HandOf, InHand, EntryStages
<1> QED
  BY <1>2, <1>3, <1>4 DEF SkipInv, PrintInv

LEMMA SkipUpdateFiles ==
    ASSUME TypeInv, CacheInv, SkipInv, NEW br \in Branches, UpdateFiles(br)
    PROVE  SkipInv'
<1> DEFINE head == Fetched[br]
           ask == Exists(br) /\ work.conflicted = "unset" /\ KnownConflict(br) = "unset"
           files == ~work.reuse \/ head = NoSha \/ CommitAt(head).want # want[br]
           diff == head = NoSha \/ HasDiff(CommitAt(head), NewCommit(Fetched, br))
<1>1. /\ UNCHANGED <<commits, remote, want, baseOf, rebaseWhen, disk, phase, snapshot, memModified, branches, todo>>
      /\ work \in Work /\ work # NoWork /\ work.br = br /\ work.stage = "update" /\ phase = "write"
      /\ \/ files /\ Goto("push") /\ UNCHANGED fingerprints
         \/ ~(files /\ diff) /\ ReturnNoCommit(br)
  BY DEF UpdateFiles, At, worldVars, TypeInv, TypeOK, InProcess
<1>2. CASE files /\ Goto("push") /\ UNCHANGED fingerprints
  <2>1. work'.br = br /\ work'.stage = "push" /\ work'.skip = work.skip /\ work' # NoWork
    <3>1. work' = [work EXCEPT !.stage = "push"]
      BY <1>1, <1>2 DEF Goto
    <3>2. work' \in Work /\ work'.br = br /\ work'.stage = "push" /\ work'.skip = work.skip
      BY <1>1, <3>1 DEF Work
    <3> QED
      BY <3>2, NullsAssumption
  <2> QED
    BY <1>1, <1>2, <2>1, SkipGoOn DEF InHand
<1>3. CASE ~(files /\ diff) /\ ReturnNoCommit(br)
  <2>1. ASSUME snapshot[br] # NoSha, snapshot[br] = remote[br]
        PROVE  PrintTrue(Fingerprint(br), snapshot[br], memModified[br])
    <3>1. Fetched[br] = snapshot[br]
      BY <1>1, <2>1, FetchedFacts DEF CacheInv
    <3>2. ~files => CommitAt(snapshot[br]).want = want[br]
      BY <3>1
    <3>3. ~diff => CommitAt(snapshot[br]).want = want[br]
      BY <3>1 DEF HasDiff, NewCommit
    <3> QED
      BY <1>3, <3>2, <3>3, FingerprintFacts DEF PrintTrue
  <2> QED
    BY <1>1, <1>3, <2>1, SkipReturn
<1> QED
  BY <1>1, <1>2, <1>3

LEMMA SkipPush ==
    ASSUME TypeInv, SkipInv, NEW br \in Branches, PushWithLease(br) \/ PushByApi(br)
    PROVE  SkipInv'
<1>1. /\ At(br, "push") /\ PutCommit(br)
      /\ UNCHANGED <<want, baseOf, rebaseWhen, disk, phase, branches, todo, fingerprints>>
  BY DEF PushWithLease, PushByApi, gitVars, cacheVars
<1>2. /\ work \in Work /\ work # NoWork /\ work.br = br /\ work.stage = "push" /\ InHand(br, {"push", "fetch"})
      /\ snapshot \in [Refs -> Sha] /\ memModified \in [Branches -> Flags]
  BY <1>1 DEF At, InHand, TypeInv, TypeOK
<1>3. Forward /\ \A x \in Branches \ {br} : remote'[x] = remote[x]
  <2>1. remote \in [Refs -> Sha]
    BY DEF TypeInv, TypeOK
  <2> QED
    BY <1>1, <2>1, PushForward, RefTypes DEF PutCommit
<1>4. /\ remote'[br] # NoSha /\ commits'[remote'[br][1]][remote'[br][2]] = NewCommit(origin, br)
      /\ NewCommit(origin, br).want = want[br]
  BY <1>1, PushedCommit DEF NewCommit
<1>5. CASE PushWithLease(br)
  <2>1. PICK sha : /\ sha = remote'[br] /\ snapshot' = [snapshot EXCEPT ![br] = sha]
                   /\ memModified' = [memModified EXCEPT ![br] = "no"]
                   /\ work' = [work EXCEPT !.stage = "record", !.commit = sha]
    BY <1>5 DEF PushWithLease
  <2>2. work'.br = br /\ work'.stage = "record" /\ snapshot'[br] = remote'[br]
    BY <1>2, <2>1, RefTypes DEF Work
  <2>3. \A x \in Branches \ {br} : snapshot'[x] = snapshot[x] /\ memModified'[x] = memModified[x]
    BY <1>2, <2>1, RefTypes
  <2>4. WantInv'
    BY <1>1, <1>4, <2>2 DEF WantInv, CommitAt
  <2>5. work' # NoWork
    <3>1. work' \in Work \cup {NoWork} /\ TypeInv'
      BY <1>5, ProcessTypeInv DEF ProcessBranch, TypeInv, TypeOK
    <3>2. [work EXCEPT !.stage = "record", !.commit = sha] \in Work
      <4>1. sha \in Sha
        BY <2>1, <3>1, RefTypes DEF TypeInv, TypeOK
      <4> QED
        BY <1>2, <4>1 DEF Work
    <3> QED
      BY <2>1, <3>2, NullsAssumption
  <2> QED
    BY <1>1, <1>2, <1>3, <2>2, <2>3, <2>4, <2>5, SkipMoved
<1>6. CASE PushByApi(br)
  <2>1. work' = [work EXCEPT !.stage = "fetch"] /\ UNCHANGED <<snapshot, memModified>>
    BY <1>6 DEF PushByApi, Goto, gitVars
  <2>2. work'.br = br /\ work'.stage = "fetch" /\ work' \in Work
    BY <1>2, <2>1 DEF Work
  <2>3. work' # NoWork
    BY <2>2, NullsAssumption
  <2>4. WantInv'
    BY <1>1, <1>4, <2>2 DEF WantInv, CommitAt
  <2> QED
    BY <1>1, <1>2, <1>3, <2>1, <2>2, <2>3, <2>4, SkipMoved
<1> QED
  BY <1>5, <1>6

LEMMA SkipFetch ==
    ASSUME TypeInv, SkipInv, NEW br \in Branches, FetchCommit(br)
    PROVE  SkipInv'
<1>1. /\ UNCHANGED <<commits, remote, want, baseOf, rebaseWhen, disk, phase, branches, todo, fingerprints>>
      /\ snapshot' = [snapshot EXCEPT ![br] = remote[br]]
      /\ memModified' = [memModified EXCEPT ![br] = "no"]
      /\ work' = [work EXCEPT !.stage = "record", !.commit = remote[br]]
      /\ remote[br] # NoSha
  BY DEF FetchCommit, worldVars, cacheVars
<1>2. /\ work \in Work /\ work # NoWork /\ work.br = br /\ work.stage = "fetch" /\ InHand(br, {"push", "fetch"})
      /\ snapshot \in [Refs -> Sha] /\ memModified \in [Branches -> Flags] /\ remote[br] \in Sha
  BY RefTypes DEF FetchCommit, At, InHand, TypeInv, TypeOK
<1>3. work'.br = br /\ work'.stage = "record" /\ work' \in Work /\ snapshot'[br] = remote[br]
  BY <1>1, <1>2, RefTypes DEF Work
<1>4. work' # NoWork
  BY <1>3, NullsAssumption
<1>5. \A x \in Branches \ {br} : snapshot'[x] = snapshot[x] /\ memModified'[x] = memModified[x]
  BY <1>1, <1>2, RefTypes
<1>6. CommitAt(remote[br]).want = want[br]
  BY <1>1, <1>2 DEF SkipInv, WantInv
<1>7. WantInv'
  BY <1>1, <1>3, <1>6 DEF WantInv, CommitAt
<1> QED
  BY <1>1, <1>2, <1>3, <1>4, <1>5, <1>7, UnchangedForward, SkipMoved

LEMMA SkipRecord ==
    ASSUME TypeInv, CacheInv, SkipInv, NEW br \in Branches, RecordCommit(br)
    PROVE  SkipInv'
<1> DEFINE e == [branches[br] EXCEPT !.sha = work.commit, !.baseSha = BaseSha(br), !.isBehindBase = "no",
                       !.isModified = "no", !.parentSha = BaseSha(br)]
<1>1. /\ UNCHANGED <<commits, remote, want, baseOf, rebaseWhen, disk, phase, snapshot, memModified, todo>>
      /\ branches' = [branches EXCEPT ![br] = e]
      /\ fingerprints' = [fingerprints EXCEPT ![br] = Fingerprint(br)] /\ work' = NoWork
  BY DEF RecordCommit, worldVars, gitVars
<1>2. /\ work # NoWork /\ work.br = br /\ work.stage = "record" /\ phase = "write" /\ br \notin todo
      /\ branches[br] \in Entry /\ branches \in [Branches -> Entry \cup {NoEntry}]
      /\ fingerprints \in [Branches -> Prints]
  BY DEF RecordCommit, At, TypeInv, TypeOK, InProcess
<1>3. e.isModified = "no"
  BY <1>2 DEF Entry
<1> HIDE DEF e
<1>4. /\ branches'[br] = e /\ fingerprints'[br] = Fingerprint(br)
      /\ \A x \in Branches \ {br} : branches'[x] = branches[x] /\ fingerprints'[x] = fingerprints[x]
  BY <1>1, <1>2
<1>5. PrintTrue(Fingerprint(br), snapshot[br], memModified'[br])
  BY <1>2, FingerprintFacts DEF SkipInv, WantInv, PrintTrue
<1>6. WantInv' /\ HandOf(br)' /\ ~InHand(br, EntryStages)' /\ ~InHand(br, {"check"})'
  BY <1>1 DEF WantInv, HandOf, InHand
<1> QED
  BY <1>1, <1>2, <1>3, <1>4, <1>5, <1>6, SkipLocal

LEMMA SkipDecide ==
    ASSUME TypeInv, SkipInv, NEW br \in Branches,
           DecideReuse(br) \/ \E rebase \in BOOLEAN : DecideByUser(br, rebase)
    PROVE  SkipInv'
<1>1. /\ UNCHANGED <<commits, remote, want, baseOf, rebaseWhen, disk, phase, snapshot, memModified, branches, todo, fingerprints>>
      /\ work \in Work /\ work # NoWork /\ work.br = br /\ work.stage = "decide"
  BY DEF DecideReuse, DecideByUser, At, worldVars, gitVars, cacheVars, TypeInv, TypeOK
<1>2. /\ work'.br = br /\ work'.stage = "update" /\ work'.skip = work.skip
      /\ work'.reuse => snapshot[br] # NoSha /\ rebaseWhen[br] # "never"
      /\ work' \in Work
  <2>1. CASE \E rebase \in BOOLEAN : DecideByUser(br, rebase)
    BY <1>1, <2>1 DEF DecideByUser, Work
  <2>2. CASE DecideReuse(br)
    <3>1. PICK conflict, reuse : /\ work' = [work EXCEPT !.stage = "update", !.conflicted = conflict, !.reuse = reuse]
                                 /\ conflict \in Flags /\ reuse \in BOOLEAN /\ (reuse => Exists(br))
      <4>1. \A conflict : conflict \in GitConflict(Fetched, br, MergedInto(br)) \cup {KnownConflict(br), "unset"}
                             => conflict \in Flags
        BY DEF GitConflict, KnownConflict, Flag, Flags
      <4> QED
        BY <2>2, <4>1, DecidedConflict
    <3>2. ~(Exists(br) /\ rebaseWhen[br] = "never")
      BY <2>2 DEF DecideReuse
    <3> QED
      BY <1>1, <3>1, <3>2 DEF Work, Exists
  <2> QED
    BY <2>1, <2>2
<1>3. work' # NoWork
  BY <1>2, NullsAssumption
<1> QED
  BY <1>1, <1>2, <1>3, SkipGoOn DEF InHand

LEMMA SkipReturns ==
    ASSUME ~Faults, TypeInv, SkipInv, NEW br \in Branches,
           RebaseNever(br) \/ SkipUpdate(br) \/ PushFails(br) \/ EarlyReturn(br) \/ UpdateFails(br)
    PROVE  SkipInv'
<1>1. RebaseNever(br) \/ SkipUpdate(br) \/ PushFails(br)
  BY DEF EarlyReturn, UpdateFails
<1>2. /\ UNCHANGED <<commits, remote, want, baseOf, rebaseWhen, disk, phase, snapshot, memModified, branches, todo>>
      /\ work # NoWork /\ work.br = br /\ ReturnNoCommit(br)
  BY <1>1 DEF RebaseNever, SkipUpdate, PushFails, At, worldVars, gitVars, cacheVars
<1>3. CASE RebaseNever(br)
  <2>1. work.stage = "decide" /\ PrintTrue(Fingerprint(br), snapshot[br], memModified[br])
    BY <1>3, FingerprintFacts DEF RebaseNever, At, PrintTrue
  <2> QED
    BY <1>2, <2>1, SkipReturn
<1>4. CASE SkipUpdate(br)
  <2>1. work.stage = "update" /\ work.skip /\ HandOf(br) /\ InHand(br, {"check", "decide", "update"})
    BY <1>4 DEF SkipUpdate, At, InHand, SkipInv, HandInv
  <2>2. branches[br].fingerprint # NoPrint
    BY <2>1, FingerprintFacts DEF HandOf
  <2> QED
    BY <1>2, <2>1, <2>2, SkipReturn
<1>5. CASE PushFails(br)
  <2>1. ~(snapshot[br] # NoSha /\ snapshot[br] = remote[br])
    BY <1>5 DEF PushFails, Exists
  <2> QED
    BY <1>2, <2>1, SkipReturn
<1> QED
  BY <1>1, <1>3, <1>4, <1>5

LEMMA StepSkipInv ==
    ASSUME Undisturbed, TypeInv, CacheInv, SkipInv, [Next]_vars
    PROVE  SkipInv'
<1>1. CASE UNCHANGED vars
  BY <1>1 DEF vars, worldVars, runVars, gitVars, cacheVars, loopVars, SkipInv, PrintInv, PrintOf, AnsweredInv,
              WantInv, HandInv, HandOf, InHand, NotReached, PrintTrue, CommitAt, Fingerprint
<1>2. CASE World
  BY <1>2, SkipWorld
<1>3. CASE InitRepo \/ Extract \/ SaveCache \/ Abort \/ \E lost, misread \in SUBSET Branches : SetBranchCache(lost, misread)
  BY <1>3, SkipRun
<1>4. ASSUME NEW br \in Branches, ProcessBranch(br) PROVE SkipInv'
  <2>1. CASE StartBranch(br) \/ \E failed \in BOOLEAN : CheckEdited(br, failed)
    BY <2>1, SkipStart, SkipCheck DEF Undisturbed
  <2>2. CASE DecideReuse(br) \/ \E rebase \in BOOLEAN : DecideByUser(br, rebase)
    BY <2>2, SkipDecide
  <2>3. CASE RebaseNever(br) \/ SkipUpdate(br) \/ PushFails(br) \/ EarlyReturn(br) \/ UpdateFails(br)
    BY <2>3, SkipReturns DEF Undisturbed
  <2>4. CASE UpdateFiles(br)
    BY <2>4, SkipUpdateFiles
  <2>5. CASE PushWithLease(br) \/ PushByApi(br) \/ FetchCommit(br) \/ RecordCommit(br)
    BY <2>5, SkipPush, SkipFetch, SkipRecord
  <2> QED
    BY <1>4, <2>1, <2>2, <2>3, <2>4, <2>5 DEF ProcessBranch
<1> QED
  BY <1>1, <1>2, <1>3, <1>4 DEF Next, Run

\* A branch of Renovate's own whose update check is skipped has the release its
\* upgrade stands at (canSkipBranchUpdateCheck, and the fingerprint writeUpdates
\* records): with one base branch, and if no branch is left early.
THEOREM SkippedAreUpToDate ==
    ASSUME Undisturbed
    PROVE  Spec => []SkippedIsUpToDate
<1>1. Spec => [](TypeInv /\ CacheInv /\ SkipInv)
  BY InitTypeInv, InitCacheInv, InitSkipInv, StepTypeInv, StepCacheInv, StepSkipInv, PTL DEF Spec
<1>2. TypeInv /\ SkipInv => SkippedIsUpToDate
  <2> SUFFICES ASSUME TypeInv, SkipInv, NEW br \in Branches, At(br, "update"), work.reuse, work.skip,
                      memModified[br] = "no"
               PROVE  CommitAt(snapshot[br]).want = want[br]
    BY DEF SkippedIsUpToDate
  <2>1. /\ PrintOf(br) /\ HandOf(br) /\ InHand(br, EntryStages) /\ InHand(br, {"update"})
        /\ InHand(br, {"check", "decide", "update"}) /\ InHand(br, {"decide", "update", "push"})
    BY DEF At, InHand, EntryStages, SkipInv, PrintInv, HandInv
  <2>2. branches[br] # NoEntry
    BY DEF At, TypeInv, InProcess
  <2>3. /\ branches[br].sha = snapshot[br] /\ snapshot[br] # NoSha /\ rebaseWhen[br] # "never"
        /\ branches[br].fingerprint = Fingerprint(br) /\ branches[br].isModified = "no"
    BY <2>1 DEF HandOf
  <2>4. PrintTrue(Fingerprint(br), snapshot[br], "no")
    BY <2>1, <2>2, <2>3 DEF PrintOf
  <2> QED
    BY <2>3, <2>4, FingerprintFacts DEF PrintTrue
<1> QED
  BY <1>1, <1>2, PTL
============================================================================
