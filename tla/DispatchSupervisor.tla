---------------------------- MODULE DispatchSupervisor ----------------------------
(***************************************************************************)
(* The dispatch supervisor (packages/core/src/dispatch-supervisor.ts): one *)
(* per desktop process or MCP server, it starts agent processes for        *)
(* tickets, at most MaxActive of them and one per ticket, and ends each    *)
(* with one recorded outcome.                                              *)
(*                                                                         *)
(* Everything between two awaits is one step.  The awaits that matter are  *)
(* the mkdir inside start and the deliverable check inside finishClose;    *)
(* timers, cancellations and child events run between them. Both callers   *)
(* of start name a task, so every dispatch has a deliverable to check.     *)
(***************************************************************************)
EXTENDS Naturals, FiniteSets

CONSTANTS
  Dispatches,   \* dispatch ids: each names one call of start
  Tickets,      \* project and ticket, the key of the lock
  MaxActive,    \* options.maxActive: 16 in the desktop, the policy's in MCP
  None

ASSUME MaxActiveAssumption == MaxActive \in Nat \ {0}
ASSUME FiniteAssumption == IsFiniteSet(Dispatches)
ASSUME NoneAssumption == None \notin Dispatches /\ None \notin Tickets

States == {"running", "done", "failed", "cancelled", "timed-out"}
Terminals == States \ {"running"}

VARIABLES
  phase,      \* new, starting, active, verifying, finished, refused
  ticket,     \* the ticket a dispatch was asked for
  state,      \* handle.status.state
  child,      \* none, unborn (spawn will report an error), running, killed, closed
  proven,     \* the verifier found the deliverable
  lock,       \* the locks map: ticket -> dispatch
  recorded,   \* the outcomes handed to the recorder, a set per dispatch
  armed,      \* dispatches whose timer is set
  told,       \* a caller of cancel was told that the dispatch is cancelled
  overlapped, \* tickets two starts of which were once in flight together
  peak        \* the most starts ever in flight together

vars == <<phase, ticket, state, child, proven, lock, recorded, armed,
          told, overlapped, peak>>
ghosts == <<told, overlapped, peak>>

In(p) == {d \in Dispatches : phase[d] = p}

\* The active map: finish deletes an entry, the terminal flag does not.
Active == In("active") \cup In("verifying")

Init ==
  /\ phase = [d \in Dispatches |-> "new"]
  /\ ticket = [d \in Dispatches |-> None]
  /\ state = [d \in Dispatches |-> "running"]
  /\ child = [d \in Dispatches |-> "none"]
  /\ proven = [d \in Dispatches |-> FALSE]
  /\ lock = [t \in Tickets |-> None]
  /\ recorded = [d \in Dispatches |-> {}]
  /\ armed = {} /\ told = {} /\ overlapped = {} /\ peak = 0

-----------------------------------------------------------------------------------
(* start: the checks, the await, the reservation                           *)

\* Mutant: only the limit is looked at.
AdmitsLocked(t) == Cardinality(Active) < MaxActive

Admits(t) == lock[t] = None /\ Cardinality(Active) < MaxActive

\* randomUUID: any id that was never used.
FreshId == CHOOSE d \in Dispatches : phase[d] = "new"

Start(t) ==
  /\ In("new") # {}
  /\ LET d == FreshId
         together == {e \in In("starting") : ticket[e] = t}
         n == Cardinality(In("starting")) + 1
     IN  \/ /\ Admits(t)
            /\ phase' = [phase EXCEPT ![d] = "starting"]
            /\ ticket' = [ticket EXCEPT ![d] = t]
            /\ overlapped' = IF together = {} THEN overlapped ELSE overlapped \cup {t}
            /\ peak' = IF n > peak THEN n ELSE peak
         \/ /\ ~Admits(t)
            /\ phase' = [phase EXCEPT ![d] = "refused"]
            /\ UNCHANGED <<ticket, overlapped, peak>>
  /\ UNCHANGED <<state, child, proven, lock, recorded, armed, told>>

\* After mkdir: spawn, then reserve, with no second look at the lock or the limit.
Reserve(d) ==
  /\ phase[d] = "starting"
  /\ phase' = [phase EXCEPT ![d] = "active"]
  /\ lock' = [lock EXCEPT ![ticket[d]] = d]
  /\ \E c \in {"running", "unborn"} : child' = [child EXCEPT ![d] = c]
  /\ armed' = armed \cup {d}
  /\ UNCHANGED <<ticket, state, proven, recorded, ghosts>>

\* spawn throws, or mkdir does: nothing was reserved.
SpawnThrows(d) ==
  /\ phase[d] = "starting"
  /\ phase' = [phase EXCEPT ![d] = "refused"]
  /\ UNCHANGED <<armed, ticket, state, child, proven, lock, recorded, ghosts>>

-----------------------------------------------------------------------------------
(* The life of a handle                                                    *)

\* killFn: an unborn child has no pid, a killed one may never mind.
Killed(c) == IF c = "running" THEN "killed" ELSE c

\* Mutant: the timer runs on to its end and leaves the child alive.
TimeoutWithoutKill(d) ==
  /\ d \in armed
  /\ armed' = armed \ {d}
  /\ state' = [state EXCEPT ![d] = "timed-out"]
  /\ UNCHANGED <<phase, ticket, child, proven, lock, recorded, ghosts>>

\* The timer is armed once and only the terminal flag disarms it, so it also
\* fires on a dispatch that was cancelled and has not closed yet.
Timeout(d) ==
  /\ d \in armed
  /\ armed' = armed \ {d}
  /\ state' = [state EXCEPT ![d] = "timed-out"]
  /\ child' = [child EXCEPT ![d] = Killed(child[d])]
  /\ UNCHANGED <<phase, ticket, proven, lock, recorded, ghosts>>

\* Mutant: the terminal flag is not looked at.
CancelAnyway(d) ==
  /\ d \in Active /\ state[d] # "cancelled"
  /\ state' = [state EXCEPT ![d] = "cancelled"]
  /\ child' = [child EXCEPT ![d] = Killed(child[d])]
  /\ told' = told \cup {d}
  /\ UNCHANGED <<armed, phase, ticket, proven, lock, recorded, overlapped, peak>>

\* A cancellation is accepted, and its caller told so, until the child has ended.
Cancel(d) ==
  /\ phase[d] = "active" /\ state[d] # "cancelled"
  /\ state' = [state EXCEPT ![d] = "cancelled"]
  /\ child' = [child EXCEPT ![d] = Killed(child[d])]
  /\ told' = told \cup {d}
  /\ UNCHANGED <<armed, phase, ticket, proven, lock, recorded, overlapped, peak>>

\* Shutdown: every handle that is not terminal, in one turn.
KillAll ==
  /\ In("active") # {}
  /\ state' = [d \in Dispatches |-> IF phase[d] = "active" THEN "cancelled" ELSE state[d]]
  /\ child' = [d \in Dispatches |-> IF phase[d] = "active" THEN Killed(child[d]) ELSE child[d]]
  /\ UNCHANGED <<armed, phase, ticket, proven, lock, recorded, ghosts>>

\* Mutant: the outcome that is recorded is not the final one.
FinishStale(d, s) ==
  /\ phase' = [phase EXCEPT ![d] = "finished"]
  /\ state' = [state EXCEPT ![d] = s]
  /\ lock' = IF lock[ticket[d]] = d THEN [lock EXCEPT ![ticket[d]] = None] ELSE lock
  /\ recorded' = [recorded EXCEPT ![d] = @ \cup {state[d]}]

\* finish: the lock is given back only by the dispatch it names.
Finish(d, s) ==
  /\ phase' = [phase EXCEPT ![d] = "finished"]
  /\ state' = [state EXCEPT ![d] = s]
  /\ lock' = IF lock[ticket[d]] = d THEN [lock EXCEPT ![ticket[d]] = None] ELSE lock
  /\ recorded' = [recorded EXCEPT ![d] = @ \cup {s}]

\* The child's "error" event: spawn could not start it.
SpawnError(d) ==
  /\ phase[d] = "active" /\ child[d] = "unborn"
  /\ child' = [child EXCEPT ![d] = "closed"]
  /\ Finish(d, "failed")
  /\ armed' = armed \ {d}
  /\ UNCHANGED <<ticket, proven, ghosts>>

\* The child's "close" event. A handle still running whose child left with code 0
\* goes to the deliverable check; any other outcome is settled at once.
Close(d) ==
  /\ phase[d] = "active" /\ child[d] \in {"running", "killed"}
  /\ child' = [child EXCEPT ![d] = "closed"]
  /\ \/ /\ state[d] = "running"
        /\ phase' = [phase EXCEPT ![d] = "verifying"]
        /\ UNCHANGED <<state, lock, recorded>>
     \/ Finish(d, IF state[d] = "running" THEN "failed" ELSE state[d])
  /\ armed' = armed \ {d}
  /\ UNCHANGED <<ticket, proven, ghosts>>

\* The deliverable check answers; a check that throws counts as unproven.
Verified(d) ==
  /\ phase[d] = "verifying"
  /\ \E p \in BOOLEAN :
       /\ proven' = [proven EXCEPT ![d] = p]
       /\ Finish(d, IF p THEN "done" ELSE "failed")
  /\ armed' = armed \ {d}
  /\ UNCHANGED <<ticket, child, ghosts>>

Next ==
  \/ KillAll
  \/ \E t \in Tickets : Start(t)
  \/ \E d \in Dispatches :
       \/ Reserve(d) \/ SpawnThrows(d)
       \/ Timeout(d) \/ Cancel(d) \/ SpawnError(d) \/ Close(d) \/ Verified(d)

Spec == Init /\ [][Next]_vars

\* mkdir and the deliverable check settle, an armed timer fires, and a spawn that
\* failed says so. A child need never close, be it running or signalled: killFn sends
\* one SIGTERM and nothing comes after it, and "close" waits for whoever holds stdio.
Fairness ==
  \A d \in Dispatches :
    /\ WF_vars(Reserve(d) \/ SpawnThrows(d))
    /\ WF_vars(Timeout(d)) /\ WF_vars(SpawnError(d)) /\ WF_vars(Verified(d))

FairSpec == Spec /\ Fairness

-----------------------------------------------------------------------------------
(* Properties *)

TypeOK ==
  /\ phase \in [Dispatches -> {"new", "starting", "active", "verifying", "finished", "refused"}]
  /\ ticket \in [Dispatches -> Tickets \cup {None}]
  /\ state \in [Dispatches -> States]
  /\ child \in [Dispatches -> {"none", "unborn", "running", "killed", "closed"}]
  /\ proven \in [Dispatches -> BOOLEAN]
  /\ lock \in [Tickets -> Dispatches \cup {None}]
  /\ recorded \in [Dispatches -> SUBSET Terminals]
  /\ armed \subseteq Dispatches /\ told \subseteq Dispatches /\ overlapped \subseteq Tickets /\ peak \in Nat

ActiveFor(t) == {d \in Active : ticket[d] = t}

\* The lock and the limit can be broken in one way only: by starts that sat in
\* mkdir together. A ticket none of whose starts overlapped has at most one
\* dispatch, and that one owns the lock; and however long the supervisor runs, the
\* limit is exceeded by at most the overlapping starts beyond the first.
OnlyOverlapsBreakTheLock ==
  /\ \A t \in Tickets \ overlapped :
       ActiveFor(t) = IF lock[t] = None THEN {} ELSE {lock[t]}
  /\ \A t \in Tickets : lock[t] # None => lock[t] \in ActiveFor(t)
  /\ Cardinality(Active) + Cardinality(In("starting"))
       <= MaxActive + (IF peak = 0 THEN 0 ELSE peak - 1)

\* A dispatch is recorded once, and as "done" only when its child left with code 0,
\* the deliverable was found, and nobody was told meanwhile that it was cancelled:
\* what happens while the check is awaited can no longer change the verdict.
OneHonestOutcome ==
  \A d \in Dispatches :
    /\ phase[d] = "finished" => recorded[d] = {state[d]}
    /\ phase[d] # "finished" => recorded[d] = {}
    /\ recorded[d] = {"done"} <=> phase[d] = "finished" /\ proven[d]
    /\ d \in told => state[d] # "done"

\* Whatever the child, the timer and the callers do, an admitted start ends with a
\* recorded outcome, or is refused, with one exception: a process that was signalled
\* and never closes keeps its dispatch open, its ticket locked and its place under the
\* limit taken, for nothing signals it harder or gives it up.
EveryDispatchEnds ==
  \A d \in Dispatches :
    \/ phase[d] = "starting" ~> phase[d] \in {"finished", "refused"}
    \/ <>[](child[d] = "killed")
===================================================================================
