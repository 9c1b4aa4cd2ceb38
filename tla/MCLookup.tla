------------------------------ MODULE MCLookup ------------------------------
EXTENDS Lookup

\* 1.0.0, 1.0.1, 1.1.0, 2.0.0-beta, 2.0.0, 3.0.0
SomeVersions == {1001, 1011, 1101, 2000, 2001, 3001}
Old == {1001, 1011}
OldValues == {Version(1001), Caret(1001), Version(2000)}

Config(strategy, filter, separate) ==
    [rangeStrategy |-> strategy, internalChecksFilter |-> filter,
     separateMajorMinor |-> separate, separateMultipleMajor |-> separate,
     separateMinorPatch |-> separate,
     ignoreDeprecated |-> TRUE, respectLatest |-> TRUE, ignoreUnstable |-> TRUE,
     rollbackPrs |-> TRUE, rangesAreStable |-> separate]
SomeConfigs ==
    {Config(s, "none", TRUE) : s \in Strategies}
        \cup {Config("replace", "strict", TRUE), Config("bump", "strict", FALSE),
              Config("replace", "flexible", FALSE)}
=============================================================================
