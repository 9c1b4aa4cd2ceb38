---- MODULE MCGithubPrs ----
EXTENDS GithubPrs
====
