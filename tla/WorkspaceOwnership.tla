-------------------------- MODULE WorkspaceOwnership --------------------------
(***************************************************************************)
(* What the board's lease verbs promise about workspaces                   *)
(* (packages/core/src/store.ts, assertWorkspaceFree: "One live writer per  *)
(* workspace").  A claimant is a ticket worked on in isolation or a whole  *)
(* batch; a workspace is a branch with or without a worktree, and two      *)
(* workspaces clash when they share either.  Claiming, moving and giving   *)
(* up a workspace are single steps here, however many files they take.     *)
(***************************************************************************)
CONSTANTS
  Claimants,     \* isolated tickets and batches
  Workspaces,
  Clash(_, _),   \* do two workspaces share a worktree or a branch?
  NoWorkspace

VARIABLE owns     \* [Claimants -> Workspaces \cup {NoWorkspace}]

Free(x, w) == \A y \in Claimants \ {x} : owns[y] # NoWorkspace => ~Clash(w, owns[y])

Init == owns = [x \in Claimants |-> NoWorkspace]

\* A claim, or a forced retake that moves x to another workspace.
Claim(x, w) == /\ Free(x, w)
               /\ owns' = [owns EXCEPT ![x] = w]

GiveUp(x) == owns' = [owns EXCEPT ![x] = NoWorkspace]

Next == \E x \in Claimants : GiveUp(x) \/ \E w \in Workspaces : Claim(x, w)

Spec == Init /\ [][Next]_owns
===============================================================================
