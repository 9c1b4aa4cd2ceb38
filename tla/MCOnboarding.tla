---------------------------- MODULE MCOnboarding ----------------------------
EXTENDS Onboarding

Option(requireConfig, onboarding, extracts) ==
    [requireConfig |-> requireConfig, onboarding |-> onboarding, extracts |-> extracts]
\* all but onboarding = FALSE with requireConfig = "optional": see README
MCOptions ==
    {Option("required", TRUE, TRUE), Option("optional", TRUE, TRUE),
     Option("required", TRUE, FALSE), Option("required", FALSE, TRUE),
     Option("ignored", TRUE, TRUE)}
=============================================================================
