-------------------------------- MODULE BoardSync ---------------------------------
(***************************************************************************)
(* Synchronising the board worktree of one project over git, in the        *)
(* desktop's main process (apps/gui/src/main/kanmerGit.ts, index.ts,       *)
(* syncLifecycle.ts, syncTimer.ts): commit, fetch, rebase with autostash,  *)
(* commit again, push, while agents write the board and other machines     *)
(* push theirs.                                                            *)
(*                                                                         *)
(* A content is the set of writes it holds.  A step is a git command, and *)
(* between two steps anything may happen.  Commands in a row of which all  *)
(* but the last only prepare or read are one step: add and commit,         *)
(* ls-remote and fetch, the two probes after the rebase.  The rebase and   *)
(* its abort are two.  Which changes collide is git's choice.              *)
(* The operations of one open context form a chain (withSyncLifecycles);   *)
(* closing and opening again makes a new context, with a new chain, for    *)
(* the same worktree.  Branch renames and the first set-up of the worktree *)
(* are left out.                                                           *)
(***************************************************************************)
EXTENDS Naturals, Sequences

CONSTANTS
  Mine,          \* writes of agents on this machine
  Theirs,        \* writes pushed by other machines
  Markers,       \* what git leaves in a file it could not merge
  MaxContexts,   \* bound: times the project is opened
  MaxQueue       \* bound: operations waiting in one chain

ASSUME ContentAssumption == Mine \cap Theirs = {} /\ Markers \notin Mine \cup Theirs
ASSUME BoundAssumption == MaxContexts \in Nat \ {0} /\ MaxQueue \in Nat \ {0}

Contexts == 1..MaxContexts
Contents == SUBSET (Mine \cup Theirs \cup {Markers})
Kinds == {"auto", "manual", "close"}
\* In the steps named for an error the rebase has failed with it, and its abort is next.
Steps == {"idle", "stage", "fetch", "rebase", "check", "conflict", "transient",
          "restage", "push", "closing"}

VARIABLES
  tree,      \* uncommitted content of the worktree
  unmerged,  \* the index has unmerged paths
  head, fetched, remote,
  stash,     \* what the stash list keeps
  entries,   \* how many entries that list has
  rebasing,  \* a rebase has stopped half-way: HEAD is detached
  branch,    \* what the branch holds while a rebase is stopped, otherwise nothing
  autostash, \* what a stopped rebase has put aside
  written,   \* what the agents here have written so far
  current,   \* the open context, 0 when the project is closed
  opened,    \* contexts made so far
  chain,     \* a context's operations; the first one runs
  at,        \* the step of that operation
  before,    \* stashBefore of syncBoard, by the number of entries
  paused,    \* syncStatus.paused after a conflict
  timer,     \* the interval is armed
  conflict,  \* the last sync that ended met a real conflict
  stopped,   \* a preflight stopped the open project's timer, and no retry has started
             \* it again
  calm,      \* the network and the file system have stopped failing
  lapse,     \* "resumed": a retry began, or the project was opened, on an unresolved
             \* tree; "behind": a sync began on a context that had been closed, or went
             \* on over unmerged paths that no probe of its check could tell
  exposed    \* writes that landed while a rebase was stopped and did not survive it

work == <<tree, unmerged, head, rebasing, branch, autostash>>
git == <<work, fetched, remote, stash, entries>>
app == <<current, opened, chain, at, paused, timer>>
ghosts == <<written, calm, stopped, conflict, lapse, exposed>>
vars == <<git, before, app, ghosts>>

Init ==
  /\ tree = {} /\ unmerged = FALSE
  /\ head = {} /\ fetched = {} /\ remote = {} /\ stash = {} /\ entries = 0
  /\ rebasing = FALSE /\ branch = {} /\ autostash = {} /\ written = {} /\ exposed = {}
  /\ current = 0 /\ opened = 0
  /\ chain = [c \in Contexts |-> <<>>]
  /\ at = [c \in Contexts |-> "idle"]
  /\ before = [c \in Contexts |-> 0]
  /\ paused = [c \in Contexts |-> FALSE]
  /\ timer = [c \in Contexts |-> FALSE]
  /\ calm = FALSE /\ stopped = FALSE /\ conflict = FALSE /\ lapse = "none"

-----------------------------------------------------------------------------------
(* Agents, other machines, the operator at the worktree                    *)

Write(w) ==
  /\ w \in Mine \ written
  /\ tree' = tree \cup {w} /\ written' = written \cup {w}
  /\ exposed' = IF rebasing THEN exposed \cup {w} ELSE exposed
  /\ UNCHANGED <<unmerged, head, rebasing, branch, autostash, fetched, remote, stash, entries>>
  /\ UNCHANGED <<before, app, calm, stopped, conflict, lapse>>

TheyPush(w) ==
  /\ w \in Theirs \ remote
  /\ remote' = remote \cup {w}
  /\ UNCHANGED <<work, fetched, stash, entries, before, app, ghosts>>

\* Failures stop in the end; what they do before is unbounded.
Calm ==
  /\ ~calm /\ calm' = TRUE
  /\ UNCHANGED <<git, before, app, written, stopped, conflict, lapse, exposed>>

\* The markers give way to the stashed writes.
Resolve ==
  /\ unmerged /\ ~rebasing
  /\ unmerged' = FALSE /\ tree' = (tree \ {Markers}) \cup stash
  /\ UNCHANGED <<head, rebasing, branch, autostash, fetched, remote, stash, entries>>
  /\ UNCHANGED <<before, app, ghosts>>

\* A rebase is over: it leaves content t in the tree and h on the branch.
RebaseOver(t, h) ==
  /\ tree' = t /\ head' = h
  /\ rebasing' = FALSE /\ unmerged' = FALSE /\ branch' = {} /\ autostash' = {}
  /\ exposed' = exposed \ (t \cup h)

\* The operator resolves a rebase that was left stopped, and continues it.
FinishRebase ==
  /\ rebasing
  /\ RebaseOver((tree \ {Markers}) \cup autostash, head \cup branch)
  /\ UNCHANGED <<fetched, remote, stash, entries, before, app>>
  /\ UNCHANGED <<written, calm, stopped, conflict, lapse>>

-----------------------------------------------------------------------------------
(* Opening, asking, closing                                                *)

\* The board is taken up again, as it is.
Resumes == IF unmerged /\ lapse = "none" THEN "resumed" ELSE lapse

\* The status of a fresh context is not paused, whatever the tree is like; only a
\* detached worktree is not taken for the board.
OpenProject ==
  /\ current = 0 /\ opened < MaxContexts
  /\ opened' = opened + 1 /\ current' = opened + 1
  /\ timer' = [timer EXCEPT ![opened + 1] = ~rebasing]
  /\ stopped' = rebasing
  /\ lapse' = Resumes
  /\ UNCHANGED <<git, before, chain, at, paused, written, calm, conflict, exposed>>

Ask(kind) ==
  /\ current # 0 /\ Len(chain[current]) < MaxQueue
  /\ kind = "auto" => timer[current]
  /\ kind = "close" => \A i \in 1..Len(chain[current]) : chain[current][i] # "close"
  /\ chain' = [chain EXCEPT ![current] = Append(@, kind)]
  /\ UNCHANGED <<git, before, current, opened, at, paused, timer, ghosts>>

\* The operation is over: the next in the chain may begin.
Over(c) ==
  /\ chain' = [chain EXCEPT ![c] = Tail(@)]
  /\ at' = [at EXCEPT ![c] = "idle"]

\* shouldRunAutomaticSync
Runs(kind, c) == kind = "manual" \/ ~paused[c]

\* syncProjectLocked does not ask whether its context is still the open one. A worktree
\* that is detached, or whose HEAD cannot be read, counts as off its branch.
Begin(c) ==
  /\ chain[c] # <<>> /\ at[c] = "idle"
  /\ LET kind == Head(chain[c])
     IN  \/ /\ kind = "close"
            /\ at' = [at EXCEPT ![c] = "closing"]
            /\ UNCHANGED <<chain, timer, stopped, lapse>>
         \/ /\ kind # "close" /\ Runs(kind, c) /\ ~rebasing
            /\ at' = [at EXCEPT ![c] = "stage"]
            /\ lapse' = IF c # current THEN "behind" ELSE IF kind = "manual" THEN Resumes ELSE lapse
            /\ UNCHANGED <<chain, timer, stopped>>
         \/ /\ kind # "close"
            /\ \/ (rebasing \/ ~calm) /\ stopped' = (stopped \/ c = current)
               \/ ~rebasing /\ ~Runs(kind, c) /\ UNCHANGED stopped
            /\ Over(c)
            /\ timer' = [timer EXCEPT ![c] = FALSE]
            /\ UNCHANGED lapse
  /\ UNCHANGED <<git, before, current, opened, paused, written, calm, conflict, exposed>>

\* The tunnels and the watcher are closed first; more may be asked meanwhile.
CloseProject(c) ==
  /\ at[c] = "closing"
  /\ Over(c)
  /\ current' = 0
  /\ timer' = [timer EXCEPT ![c] = FALSE]
  /\ stopped' = FALSE
  /\ UNCHANGED <<git, before, opened, paused, written, calm, conflict, lapse, exposed>>

-----------------------------------------------------------------------------------
(* syncBoard                                                               *)

Goto(c, step) ==
  /\ at' = [at EXCEPT ![c] = step]
  /\ UNCHANGED <<current, opened, chain, paused, timer>>


\* What syncProjectLocked makes of the result. Only a conflict pauses; a retry that
\* is not paused arms the timer again.
Finish(c, result) ==
  /\ Over(c)
  /\ paused' = [paused EXCEPT ![c] = result = "conflict"]
  /\ timer' = [timer EXCEPT ![c] =
       result # "conflict" /\ (@ \/ Head(chain[c]) = "manual")]
  /\ conflict' = (result = "conflict")
  /\ before' = [before EXCEPT ![c] = 0]
  /\ stopped' = (stopped /\ (c = current => ~timer'[c]))
  /\ UNCHANGED <<current, opened>>

\* git add and git commit take the whole tree, markers included. HEAD is asked for its
\* branch before the first of them only.
Stage(c) ==
  /\ at[c] \in {"stage", "restage"} /\ (at[c] = "stage" => ~rebasing)
  /\ head' = head \cup tree /\ tree' = {} /\ unmerged' = FALSE
  /\ Goto(c, IF at[c] = "stage" THEN "fetch" ELSE "push")
  /\ UNCHANGED <<rebasing, branch, autostash, fetched, remote, stash, entries, before, ghosts>>

\* A commit that fails may come after an add that has settled the unmerged paths.
StageFails(c) ==
  /\ at[c] \in {"stage", "restage"}
  /\ \/ at[c] = "stage" /\ rebasing /\ UNCHANGED unmerged
     \/ ~calm /\ unmerged' \in {unmerged, FALSE}
  /\ Finish(c, "transient")
  /\ UNCHANGED <<tree, head, rebasing, branch, autostash, fetched, remote, stash, entries>>
  /\ UNCHANGED <<written, calm, lapse, exposed>>

\* A stash that cannot be read counts as none.
Fetch(c) ==
  /\ at[c] = "fetch"
  /\ fetched' = remote
  /\ \E n \in {entries} \cup (IF calm THEN {} ELSE {0}) : before' = [before EXCEPT ![c] = n]
  /\ Goto(c, "rebase")
  /\ UNCHANGED <<work, remote, stash, entries, ghosts>>

\* The branch is not there yet, or ls-remote fails and it is taken not to be.
FetchSkipped(c) ==
  /\ at[c] = "fetch" /\ (remote = {} \/ ~calm)
  /\ Goto(c, "push")
  /\ UNCHANGED <<git, before, ghosts>>

FetchFails(c) ==
  /\ at[c] = "fetch" /\ ~calm
  /\ Finish(c, "transient")
  /\ UNCHANGED <<git, written, calm, lapse, exposed>>

RebaseClean(c) ==
  /\ at[c] = "rebase" /\ ~unmerged /\ ~rebasing
  /\ head' = head \cup fetched
  /\ Goto(c, "check")
  /\ UNCHANGED <<tree, unmerged, rebasing, branch, autostash, fetched, remote, stash, entries>>
  /\ UNCHANGED <<before, ghosts>>

\* The rebase exits 0, and what landed since the commit does not re-apply.
AutostashConflicts(c) ==
  /\ at[c] = "rebase" /\ ~unmerged /\ ~rebasing
  /\ tree # {} /\ fetched \ head # {}
  /\ head' = head \cup fetched
  /\ stash' = stash \cup tree /\ entries' = entries + 1
  /\ tree' = {Markers} /\ unmerged' = TRUE
  /\ Goto(c, "check")
  /\ UNCHANGED <<rebasing, branch, autostash, fetched, remote, before, ghosts>>

\* The rebase stops half-way: commits on both sides, and git cannot replay ours, or
\* the file system fails it.
RebaseStops(c) ==
  /\ at[c] = "rebase" /\ ~unmerged /\ ~rebasing
  /\ rebasing' = TRUE /\ branch' = head /\ autostash' = tree
  /\ \E replayed \in SUBSET (head \ fetched) : head' = fetched \cup replayed
  /\ \/ /\ head \ fetched # {} /\ fetched \ head # {}
        /\ tree' = {Markers} /\ unmerged' = TRUE
        /\ Goto(c, "conflict")
     \/ /\ ~calm
        /\ tree' = {} /\ unmerged' = FALSE
        /\ Goto(c, "transient")
  /\ UNCHANGED <<fetched, remote, stash, entries, before, ghosts>>

\* The rebase does not start: another is stopped, which is reported as a conflict, the
\* index is unmerged, or the file system fails it.
RebaseRefused(c) ==
  /\ at[c] = "rebase"
  /\ \/ rebasing /\ Goto(c, "conflict")
     \/ ((unmerged /\ ~rebasing) \/ ~calm) /\ Goto(c, "transient")
  /\ UNCHANGED <<git, before, ghosts>>

\* rebase --abort: a hard reset of what is tracked, after which the autostash is applied
\* again. What has landed meanwhile survives in files that are not tracked yet.
Abort(c) ==
  /\ at[c] \in {"conflict", "transient"} /\ rebasing
  /\ \E survivors \in SUBSET (tree \ {Markers}) : RebaseOver(autostash \cup survivors, branch)
  /\ Finish(c, at[c])
  /\ UNCHANGED <<fetched, remote, stash, entries, written, calm, lapse>>

\* There is nothing to abort, or the abort fails and nobody is told.
NothingAborted(c) ==
  /\ at[c] \in {"conflict", "transient"} /\ (~rebasing \/ ~calm)
  /\ Finish(c, at[c])
  /\ UNCHANGED <<git, written, calm, lapse, exposed>>

\* Mutant: a rebase that exits 0 is taken for a clean one.
CheckExitCode(c) ==
  /\ at[c] = "check"
  /\ Goto(c, "restage")
  /\ UNCHANGED <<git, before, ghosts>>

\* Unmerged paths, or a new stash entry, stop the sync before it stages again. A probe
\* that fails finds nothing.
Check(c) ==
  /\ at[c] = "check"
  /\ \E u \in {unmerged} \cup (IF calm THEN {} ELSE {FALSE}),
        n \in {entries} \cup (IF calm THEN {} ELSE {0}) :
       IF u \/ n \notin {0, before[c]}
         THEN Goto(c, "conflict") /\ UNCHANGED lapse
         ELSE Goto(c, "restage") /\ lapse' = IF unmerged THEN "behind" ELSE lapse
  /\ before' = [before EXCEPT ![c] = 0]
  /\ UNCHANGED <<git, written, calm, stopped, conflict, exposed>>

\* The push is of HEAD, whatever it is on.
Push(c) ==
  /\ at[c] = "push" /\ remote \subseteq head
  /\ remote' = head
  /\ Finish(c, "pushed")
  /\ UNCHANGED <<work, fetched, stash, entries, written, calm, lapse, exposed>>

\* The push is not a fast-forward, or the network fails, before the push or after it.
PushFails(c) ==
  /\ at[c] = "push"
  /\ \/ ~(remote \subseteq head) /\ UNCHANGED remote
     \/ ~calm /\ (UNCHANGED remote \/ (remote \subseteq head /\ remote' = head))
  /\ Finish(c, "transient")
  /\ UNCHANGED <<work, fetched, stash, entries, written, calm, lapse, exposed>>

SyncStep(c) ==
  \/ Stage(c) \/ StageFails(c)
  \/ Fetch(c) \/ FetchSkipped(c) \/ FetchFails(c)
  \/ RebaseClean(c) \/ AutostashConflicts(c) \/ RebaseStops(c) \/ RebaseRefused(c)
  \/ Abort(c) \/ NothingAborted(c) \/ Check(c)
  \/ Push(c) \/ PushFails(c)

Next ==
  \/ \E w \in Mine : Write(w)
  \/ \E w \in Theirs : TheyPush(w)
  \/ Calm \/ Resolve \/ FinishRebase \/ OpenProject
  \/ \E kind \in Kinds : Ask(kind)
  \/ \E c \in Contexts : Begin(c) \/ CloseProject(c) \/ SyncStep(c)

Spec == Init /\ [][Next]_vars

\* The interval fires, a chain goes on, and git answers. Nobody has to open, close,
\* retry or resolve. Failures stop: one that never does would excuse everything.
Fairness ==
  /\ WF_vars(Calm) /\ WF_vars(Ask("auto"))
  /\ \A c \in Contexts :
       WF_vars(Begin(c)) /\ WF_vars(CloseProject(c)) /\ WF_vars(SyncStep(c))

FairSpec == Spec /\ Fairness

-----------------------------------------------------------------------------------
(* Properties *)

\* A conflict stays on the machine that met it, and nothing is lost over it. Every write
\* of an agent is in the worktree, a commit, the stash, or what a stopped rebase has put
\* aside, unless it landed while a rebase was stopped: the abort may sweep such a write
\* away. The markers of a conflict reach a commit only if somebody retried, or opened the
\* project again, before they were resolved, if a sync queued behind a close ran after
\* it, or if both probes for them failed.
ConflictsStayLocal ==
  /\ written \ exposed \subseteq tree \cup head \cup stash \cup branch \cup autostash
  /\ Markers \in head \cup remote => lapse # "none"

===================================================================================
