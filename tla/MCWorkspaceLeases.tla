-------------------------- MODULE MCWorkspaceLeases --------------------------
(***************************************************************************)
(* Instances of WorkspaceLeases: one worktree and two branches, so that    *)
(* two workspaces may share the worktree, a branch, both or neither.       *)
(***************************************************************************)
EXTENDS WorkspaceLeases, TLC

\* Tickets, controllers and branches are interchangeable (safety runs only).
Interchangeable == Permutations(Tickets) \cup Permutations(Runs) \cup Permutations(Branches)
===============================================================================
