----------------------------- MODULE MCDashboard -----------------------------
EXTENDS Dashboard

\* two boxes that one box stands for, and soon three PRs that one box rebases
TwoToApprove == {<<"approve", "approve", "rebase">>}
=============================================================================
