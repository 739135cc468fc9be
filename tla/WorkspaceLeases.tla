---------------------------- MODULE WorkspaceLeases ----------------------------
(***************************************************************************)
(* The lease verbs of packages/core/src/store.ts that decide who may write *)
(* in which workspace: isolated takes, frozen batches with their manifest  *)
(* (a write-ahead journal that later becomes the batch's roster), release, *)
(* transfer, and the edits and deletions that must keep out of their way.  *)
(*                                                                         *)
(* Every verb runs inside the board's write lock (module FileLock), so its *)
(* checks and its first file write are one step.  A verb that writes more  *)
(* than one file goes on in `task`, one write a step; its process may die  *)
(* between any two, which leaves the rest unwritten and the lock free.     *)
(*                                                                         *)
(* A verb that is refused writes nothing and is not a step.  The revision  *)
(* CAS and the lease tokens only refuse, and are left out.                 *)
(***************************************************************************)
EXTENDS Naturals, FiniteSets

CONSTANTS
  Tickets, Batches,
  Runs,          \* controllers: the calling actor with its controller_run
  Branches, Worktrees,
  NoTree,        \* a branch-only workspace records no worktree
  None,          \* no workspace, no batch, no controller, no manifest
  MaxCrashes,    \* bound: processes that die inside a verb
  MaxPolicy      \* bound: board writes that change what the document gate asks

Workspaces == [tree : Worktrees \cup {NoTree}, branch : Branches]

\* workspace comparison of assertWorkspaceFree: the same worktree, or the same
\* branch.
Clash(v, w) == (v.tree = w.tree /\ v.tree # NoTree) \/ v.branch = w.branch

VARIABLES
  ticket,    \* the ticket files
  manifest,  \* the batch manifest files
  task,      \* the verb in the lock that has files left to write, or None
  gateOpen,  \* would the document gate let a declaring ticket move?
  policies,  \* board policy writes so far
  crashes    \* processes that died inside a verb so far

vars == <<ticket, manifest, task, gateOpen, policies, crashes>>
env == <<gateOpen, policies, crashes>>

\* A claim records its workspace and its controller, and nothing else does.
Records ==
  {r \in [exists : BOOLEAN, taken : BOOLEAN, space : Workspaces \cup {None},
          run : Runs \cup {None}, batch : Batches \cup {None}, terminal : BOOLEAN] :
     /\ r.taken <=> r.space # None
     /\ r.taken <=> r.run # None
     /\ ~r.exists => ~r.taken /\ r.batch = None}

\* `take` is the declaring ticket, `ends` whether the stage it asks for is Done.
Manifests ==
  [state : {"pending", "active", "releasing"}, members : SUBSET Tickets,
   take : Tickets, ends : BOOLEAN, space : Workspaces, run : Runs]

Tasks == [verb : {"stamp", "clear", "drop"}, batch : Batches, ticket : Tickets]

ASSUME LeaseAssumption ==
  /\ NoTree \notin Worktrees
  /\ None \notin Batches \cup Runs \cup Workspaces \cup Manifests \cup Tasks
  /\ Tickets \cap Batches = {}
  /\ MaxCrashes \in Nat /\ MaxPolicy \in Nat

NewTicket == [exists |-> TRUE, taken |-> FALSE, space |-> None, run |-> None,
              batch |-> None, terminal |-> FALSE]

Init ==
  /\ ticket = [t \in Tickets |-> NewTicket]
  /\ manifest = [b \in Batches |-> None]
  /\ task = None
  /\ gateOpen = TRUE
  /\ policies = 0
  /\ crashes = 0

-------------------------------------------------------------------------------
Declared(b) == manifest[b] # None
InState(b, s) == Declared(b) /\ manifest[b].state = s
Covers(b, t) == Declared(b) /\ t \in manifest[b].members

\* Mutant: only a release holds the members still.
FrozenByRelease(t) == \E b \in Batches : Covers(b, t) /\ manifest[b].state = "releasing"

\* assertNoPendingBatchMutation refuses these.
Frozen(t) == \E b \in Batches : Covers(b, t) /\ manifest[b].state # "active"

\* Mutants of SpaceFree: finished tickets no longer own their workspace; a branch
\* is no workspace; the manifests are not asked.
SpaceFreeOfLive(t, w, batch) ==
  /\ \A u \in Tickets \ {t} :
       ticket[u].taken /\ ~ticket[u].terminal /\ (batch = None \/ ticket[u].batch # batch)
         => ~Clash(w, ticket[u].space)
  /\ \A b \in Batches \ {batch} : Declared(b) => ~Clash(w, manifest[b].space)

SpaceFreeByTree(t, w, batch) ==
  /\ \A u \in Tickets \ {t} :
       ticket[u].taken /\ (batch = None \/ ticket[u].batch # batch)
         => w.tree = NoTree \/ w.tree # ticket[u].space.tree
  /\ \A b \in Batches \ {batch} : Declared(b) => w.tree # manifest[b].space.tree

SpaceFreeOfTickets(t, w, batch) ==
  \A u \in Tickets \ {t} :
    ticket[u].taken /\ (batch = None \/ ticket[u].batch # batch)
      => ~Clash(w, ticket[u].space)

\* assertWorkspaceFree, for a ticket of `batch` (or of None): no taken ticket
\* outside the batch clashes, and no other batch's manifest does, whatever its
\* state.  Expiry, stage and archiving do not matter.
SpaceFree(t, w, batch) ==
  /\ \A u \in Tickets \ {t} :
       ticket[u].taken /\ (batch = None \/ ticket[u].batch # batch)
         => ~Clash(w, ticket[u].space)
  /\ \A b \in Batches \ {batch} : Declared(b) => ~Clash(w, manifest[b].space)

\* ~hasClaimResidue
Unclaimed(r) == ~r.taken /\ r.space = None /\ r.run = None /\ r.batch = None

Cleared(r) == r.exists /\ r.terminal /\ Unclaimed(r)

\* batchStateOf: a manifest is consistent when every member carries its stamp,
\* and nothing or the batch's own lease besides; a release may have cleared it.
Stamped(r, b, m) ==
  /\ r.exists /\ r.batch = b
  /\ IF r.taken THEN r.space = m.space /\ r.run = m.run
                ELSE r.space = None /\ r.run = None

Consistent(b) ==
  LET m == manifest[b]
  IN  /\ \A t \in m.members :
           Stamped(ticket[t], b, m) \/ (m.state = "releasing" /\ Cleared(ticket[t]))
      /\ \A t \in Tickets : ticket[t].batch = b => t \in m.members

-------------------------------------------------------------------------------
(* File writes *)

WriteTicket(t, r) == /\ ticket' = [ticket EXCEPT ![t] = r]
                     /\ UNCHANGED <<manifest, env>>

WriteManifest(b, m) == /\ manifest' = [manifest EXCEPT ![b] = m]
                       /\ UNCHANGED <<ticket, env>>

\* A verb with a single write leaves the lock free again.
InLock == task = None
Done == task' = None
GoOn(verb, b, t) == task' = [verb |-> verb, batch |-> b, ticket |-> t]
Going(verb, b, t) == task = [verb |-> verb, batch |-> b, ticket |-> t]

-------------------------------------------------------------------------------
(* takeTicket *)

Held(r, c, w, ends) == [r EXCEPT !.taken = TRUE, !.space = w, !.run = c, !.terminal = ends]

\* An isolated take names any stage: the ticket may leave Done, or go to it.
TakeAlone(c, t, w, force) ==
  /\ InLock /\ Done
  /\ ticket[t].exists /\ ticket[t].batch = None
  /\ ~Frozen(t)
  /\ ticket[t].taken => force
  /\ SpaceFree(t, w, None)
  /\ \E ends \in BOOLEAN : WriteTicket(t, Held(ticket[t], c, w, ends))

\* A later member's take: by the batch's own controller, in its workspace.
TakeMember(c, b, t, force) ==
  /\ InLock /\ Done
  /\ ticket[t].exists /\ ticket[t].batch = b
  /\ InState(b, "active") /\ Covers(b, t) /\ Consistent(b)
  /\ ~ticket[t].terminal
  /\ ticket[t].taken => force
  /\ c = manifest[b].run
  /\ SpaceFree(t, manifest[b].space, b)
  /\ \E ends \in BOOLEAN : WriteTicket(t, Held(ticket[t], c, manifest[b].space, ends))

-------------------------------------------------------------------------------
(* declareBatchAndTake *)

\* batchAfterItem: what the declaration makes of a member.
AfterImage(b, m, t) ==
  LET r == [NewTicket EXCEPT !.batch = b]
  IN  IF t = m.take THEN Held(r, m.run, m.space, m.ends) ELSE r

\* Mutant: the rosters of other batches are not compared.
DeclareOverlapping(c, b, t, members, w, ends) ==
  /\ InLock
  /\ ~Declared(b)
  /\ t \in members /\ Cardinality(members) >= 2
  /\ w.tree # NoTree
  /\ \A u \in Tickets : ticket[u].batch # b
  /\ \A u \in members : ticket[u].exists /\ ~ticket[u].terminal /\ Unclaimed(ticket[u])
  /\ SpaceFree(t, w, b)
  /\ gateOpen
  /\ WriteManifest(b, [state |-> "pending", members |-> members, take |-> t,
                       ends |-> ends, space |-> w, run |-> c])
  /\ GoOn("stamp", b, t)

\* validateBatchDeclaration and assertWorkspaceFree, then the journal.
Declare(c, b, t, members, w, ends) ==
  /\ InLock
  /\ ~Declared(b)
  /\ t \in members /\ Cardinality(members) >= 2
  /\ w.tree # NoTree
  /\ \A a \in Batches : Declared(a) => manifest[a].members \cap members = {}
  /\ \A u \in Tickets : ticket[u].batch # b
  /\ \A u \in members : ticket[u].exists /\ ~ticket[u].terminal /\ Unclaimed(ticket[u])
  /\ SpaceFree(t, w, b)
  /\ gateOpen
  /\ WriteManifest(b, [state |-> "pending", members |-> members, take |-> t,
                       ends |-> ends, space |-> w, run |-> c])
  /\ GoOn("stamp", b, t)

\* Mutant: a recovery expects to find nothing of the interrupted attempt.
ResumeUntouched(b) ==
  /\ InLock
  /\ InState(b, "pending")
  /\ SpaceFree(manifest[b].take, manifest[b].space, b)
  /\ \A t \in manifest[b].members : ticket[t] = NewTicket
  /\ gateOpen
  /\ GoOn("stamp", b, manifest[b].take)
  /\ UNCHANGED <<ticket, manifest, env>>

\* The exact request again while its journal is pending: applyBatchDeclaration
\* preflights every member before it writes one.
Resume(b) ==
  LET m == manifest[b]
  IN  /\ InLock
      /\ InState(b, "pending")
      /\ SpaceFree(m.take, m.space, b)
      /\ \A t \in Tickets : ticket[t].batch = b => t \in m.members
      /\ \A t \in m.members : ticket[t] \in {NewTicket, AfterImage(b, m, t)}
      /\ gateOpen
      /\ GoOn("stamp", b, m.take)
      /\ UNCHANGED <<ticket, manifest, env>>

\* The roll-forward, in any order of the members.
Stamp(b, t) ==
  LET m == manifest[b]
  IN  /\ InState(b, "pending") /\ Going("stamp", b, m.take)
      /\ t \in m.members /\ ticket[t] # AfterImage(b, m, t)
      /\ WriteTicket(t, AfterImage(b, m, t))
      /\ UNCHANGED task

\* Mutant: the journal is removed when it is done, like any write-ahead log.
ActivateAndForget(b) ==
  LET m == manifest[b]
  IN  /\ InState(b, "pending") /\ Going("stamp", b, m.take) /\ Done
      /\ \A t \in m.members : ticket[t] = AfterImage(b, m, t)
      /\ WriteManifest(b, None)

Activate(b) ==
  LET m == manifest[b]
  IN  /\ InState(b, "pending") /\ Going("stamp", b, m.take) /\ Done
      /\ \A t \in m.members : ticket[t] = AfterImage(b, m, t)
      /\ WriteManifest(b, [m EXCEPT !.state = "active"])

-------------------------------------------------------------------------------
(* releaseTicket *)

\* Mutant: the branch and worktree survive the release.
ReleasedInPlace(r) == [r EXCEPT !.taken = FALSE, !.run = None, !.batch = None]

Released(r) == [r EXCEPT !.taken = FALSE, !.space = None, !.run = None, !.batch = None]

ReleaseAlone(t) ==
  /\ InLock /\ Done
  /\ ticket[t].exists /\ ticket[t].taken /\ ticket[t].batch = None
  /\ \A b \in Batches : ~Covers(b, t)
  /\ WriteTicket(t, Released(ticket[t]))

AllCleared(b) == \A t \in manifest[b].members : Cleared(ticket[t])

\* Mutant: a member cleared before has nothing left to release.
ReleaseMemberOnce(b, t) ==
  /\ InLock
  /\ Covers(b, t) /\ manifest[b].state \in {"active", "releasing"}
  /\ Consistent(b)
  /\ \A u \in manifest[b].members : ticket[u].terminal
  /\ ~Cleared(ticket[t])
  /\ WriteManifest(b, [manifest[b] EXCEPT !.state = "releasing"])
  /\ GoOn("clear", b, t)

\* Waits for every member of the manifest's roster, then holds them all still.
ReleaseMember(b, t) ==
  /\ InLock
  /\ Covers(b, t) /\ manifest[b].state \in {"active", "releasing"}
  /\ Consistent(b)
  /\ \A u \in manifest[b].members : ticket[u].terminal
  /\ WriteManifest(b, [manifest[b] EXCEPT !.state = "releasing"])
  /\ IF Cleared(ticket[t]) THEN AllCleared(b) /\ GoOn("drop", b, t)
                           ELSE GoOn("clear", b, t)

\* Mutant: the first member to be cleared takes the manifest with it.
ClearMemberAndBatch(b, t) ==
  /\ Going("clear", b, t)
  /\ WriteTicket(t, Released(ticket[t]))
  /\ GoOn("drop", b, t)

ClearMember(b, t) ==
  /\ Going("clear", b, t)
  /\ WriteTicket(t, Released(ticket[t]))
  /\ IF \A u \in manifest[b].members \ {t} : Cleared(ticket[u])
       THEN GoOn("drop", b, t) ELSE Done

DropManifest(b, t) ==
  /\ Going("drop", b, t) /\ Done
  /\ WriteManifest(b, None)

-------------------------------------------------------------------------------
(* The other writers of a ticket file, and of the board *)

\* Mutant: a batch member is transferred like any other ticket.
ReholdMember(c, t) ==
  /\ InLock /\ Done
  /\ ticket[t].exists /\ ticket[t].taken
  /\ ~Frozen(t)
  /\ WriteTicket(t, [ticket[t] EXCEPT !.run = c])

\* transferTicket, and a renewal that names another controller_run; a batch
\* member is never transferred, and its renewal keeps the run.
Rehold(c, t) ==
  /\ InLock /\ Done
  /\ ticket[t].exists /\ ticket[t].taken /\ ticket[t].batch = None
  /\ \A b \in Batches : ~Covers(b, t)
  /\ WriteTicket(t, [ticket[t] EXCEPT !.run = c])

\* updateItem and moveItem: a stage move or an archive flag.
Update(t, terminal) ==
  /\ InLock /\ Done
  /\ ticket[t].exists /\ ticket[t].terminal # terminal
  /\ ~Frozen(t)
  /\ WriteTicket(t, [ticket[t] EXCEPT !.terminal = terminal])

\* deleteItem removes the folder, claim and all.
Delete(t) ==
  /\ InLock /\ Done
  /\ ticket[t].exists /\ ticket[t].batch = None
  /\ \A b \in Batches : ~Covers(b, t)
  /\ WriteTicket(t, [NewTicket EXCEPT !.exists = FALSE])

\* setBoard and updateBoard do not look at the batches.
ChangePolicy ==
  /\ InLock
  /\ policies < MaxPolicy
  /\ policies' = policies + 1
  /\ gateOpen' = ~gateOpen
  /\ UNCHANGED <<ticket, manifest, task, crashes>>

Crash ==
  /\ task # None
  /\ crashes < MaxCrashes
  /\ crashes' = crashes + 1
  /\ task' = None
  /\ UNCHANGED <<ticket, manifest, gateOpen, policies>>

-------------------------------------------------------------------------------
Continue == \E b \in Batches, t \in Tickets :
              Stamp(b, t) \/ Activate(b) \/ ClearMember(b, t) \/ DropManifest(b, t)

Take == \E c \in Runs, t \in Tickets, force \in BOOLEAN :
          \/ \E w \in Workspaces : TakeAlone(c, t, w, force)
          \/ \E b \in Batches : TakeMember(c, b, t, force)

DeclareBatch ==
  \E c \in Runs, b \in Batches, members \in SUBSET Tickets, ends \in BOOLEAN :
    \E t \in members, w \in Workspaces : Declare(c, b, t, members, w, ends)

Next ==
  \/ Continue \/ Take \/ DeclareBatch
  \/ \E b \in Batches : Resume(b)
  \/ \E t \in Tickets : \/ ReleaseAlone(t) \/ Delete(t)
                        \/ \E b \in Batches : ReleaseMember(b, t)
                        \/ \E c \in Runs : Rehold(c, t)
                        \/ \E terminal \in BOOLEAN : Update(t, terminal)
  \/ ChangePolicy \/ Crash

Spec == Init /\ [][Next]_vars

\* A live process finishes its verb.  A controller repeats the declaring take
\* until it is answered, and somebody repeats a started release for every member;
\* strong fairness, because other verbs keep taking the lock in between.
FairSpec ==
  /\ Spec
  /\ WF_vars(Continue)
  /\ \A b \in Batches : SF_vars(Resume(b))
  /\ \A b \in Batches, t \in Tickets : SF_vars(InState(b, "releasing") /\ ReleaseMember(b, t))

-------------------------------------------------------------------------------
TypeOK ==
  /\ ticket \in [Tickets -> Records]
  /\ manifest \in [Batches -> Manifests \cup {None}]
  /\ task \in Tasks \cup {None}
  /\ gateOpen \in BOOLEAN
  /\ policies \in Nat /\ crashes \in Nat

\* Two taken tickets whose workspaces share a worktree or a branch are members of
\* one declared batch: the rule of assertWorkspaceFree holds for the whole board,
\* through forced retakes, half-written declarations and releases.
OneWriterPerWorkspace ==
  \A t, u \in Tickets :
    /\ t # u /\ ticket[t].taken /\ ticket[u].taken
    /\ Clash(ticket[t].space, ticket[u].space)
    => /\ ticket[t].batch = ticket[u].batch
       /\ \E b \in Batches : b = ticket[t].batch /\ Covers(b, t) /\ Covers(b, u)

\* No ticket is left with a batch stamp that no manifest explains, and none is
\* named by two manifests: either makes every later verb on it refuse with
\* BATCH_INCONSISTENT or BATCH_TRANSACTION_INVALID.
NoOrphanStamp ==
  \A t \in Tickets :
    /\ ticket[t].batch # None => Covers(ticket[t].batch, t)
    /\ \A a, b \in Batches : Covers(a, t) /\ Covers(b, t) => a = b

\* Whatever is done to its members one by one, a started batch stays consistent:
\* no legal sequence of verbs and deaths reaches BATCH_INCONSISTENT.
StaysConsistent == \A b \in Batches : Declared(b) /\ ~InState(b, "pending") => Consistent(b)

\* While a declaration is pending, every member holds the bytes the journal
\* observed or the bytes it intends, so the declaring take can be repeated.
RollsForward ==
  \A b \in Batches : InState(b, "pending") =>
    \A t \in manifest[b].members : ticket[t] \in {NewTicket, AfterImage(b, manifest[b], t)}

\* A batch's roster, workspace and controller are frozen from its journal to its
\* removal, it goes pending, active, releasing and away, and it goes away only
\* once every member of the roster is cleared.
ManifestLifecycle ==
  [][\A b \in Batches : Declared(b) /\ manifest'[b] # manifest[b] =>
       \/ /\ manifest'[b] = None
          /\ InState(b, "releasing") /\ AllCleared(b)
       \/ \E s \in {"active", "releasing"} :
            /\ manifest'[b] = [manifest[b] EXCEPT !.state = s]
            /\ <<manifest[b].state, s>> \in {<<"pending", "active">>, <<"active", "releasing">>}]_vars

\* A declaration that was journalled is completed, whatever died in between,
\* unless a board policy write has closed the document gate behind it.
DeclarationCompletes ==
  \A b \in Batches : InState(b, "pending") ~> ~InState(b, "pending") \/ ~gateOpen

\* A release that was started is completed and gives the workspace back.
ReleaseCompletes == \A b \in Batches : InState(b, "releasing") ~> ~Declared(b)

\* A batch owns its workspace from its journal to the removal of its manifest; a
\* ticket owns one only while it is taken in isolation.
Owner(x) ==
  IF x \in Batches THEN IF Declared(x) THEN manifest[x].space ELSE None
                   ELSE IF ticket[x].batch = None THEN ticket[x].space ELSE None

Ownership == INSTANCE WorkspaceOwnership WITH
  Claimants <- Tickets \cup Batches, NoWorkspace <- None,
  owns <- [x \in Tickets \cup Batches |-> Owner(x)]

\* However many files a verb writes and wherever it dies, workspaces are claimed
\* and given up one at a time and only when free.
ImplementsOwnership == Ownership!Spec

-------------------------------------------------------------------------------
(* Inductive strengthenings, for the proofs in WorkspaceLeasesProofs. *)

\* What a member's ticket can look like in each state of its manifest.
MemberInv ==
  \A b \in Batches, t \in Tickets : Covers(b, t) =>
    LET m == manifest[b]
    IN  /\ m.take \in m.members
        /\ m.state = "pending" => ticket[t] \in {NewTicket, AfterImage(b, m, t)}
        /\ m.state = "active" => Stamped(ticket[t], b, m)
        /\ m.state = "releasing" =>
             ticket[t].terminal /\ (Stamped(ticket[t], b, m) \/ Cleared(ticket[t]))

Isolated(t) == ticket[t].taken /\ ticket[t].batch = None

\* No two owners of a workspace clash, be they isolated tickets or batches.
SpaceInv ==
  /\ \A t, u \in Tickets : t # u /\ Isolated(t) /\ Isolated(u) => ~Clash(ticket[t].space, ticket[u].space)
  /\ \A t \in Tickets, b \in Batches :
       Isolated(t) /\ Declared(b) => ~Clash(ticket[t].space, manifest[b].space)
  /\ \A a, b \in Batches :
       a # b /\ Declared(a) /\ Declared(b) => ~Clash(manifest[a].space, manifest[b].space)

\* What the verb in the lock still relies on.
TaskInv ==
  task # None =>
    /\ task.verb = "stamp" => InState(task.batch, "pending")
    /\ task.verb = "clear" => InState(task.batch, "releasing") /\ Covers(task.batch, task.ticket)
    /\ task.verb = "drop" => InState(task.batch, "releasing") /\ AllCleared(task.batch)

IInv == TypeOK /\ NoOrphanStamp /\ MemberInv /\ SpaceInv /\ TaskInv
===============================================================================
