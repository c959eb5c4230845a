-------------------------- MODULE MCGitController --------------------------
(* Instances of GitController for TLC: one linked worktree, one submodule.  *)
EXTENDS GitController

OneWorktree == {"tree-1"}
OneSubmodule == {"sub-1"}
NoSubmodule == {}
=============================================================================
