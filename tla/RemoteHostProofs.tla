----------------------------- MODULE RemoteHostProofs ----------------------------
(***************************************************************************)
(* Theorems about RemoteHost, for any limit of restarts.                   *)
(*                                                                         *)
(* The invariant says who has the tunnel process in hand (a launch, the    *)
(* supervisor, or nobody), that a supervisor told to stop never schedules  *)
(* another launch, and that a launch in flight when the adapter is told to *)
(* stop either is in reach of that signal or will refuse to spawn.         *)
(***************************************************************************)
EXTENDS RemoteHost, TLAPS

TypeInv ==
  /\ launch \in {"idle", "project", "verify", "prepare", "spawning", "readiness", "abandon", "discard"}
  /\ child \in {"none", "running", "dying", "gone"}
  /\ closing \in {"no", "http", "tunnel", "supervisor", "process", "join", "joined", "rejoin",
                  "closed", "rejected"}
  /\ invalidation \in {"no", "process", "join", "done"}

\* One process at a time, and somebody always has it in hand.
OwnedInv ==
  /\ published => launch = "idle" /\ ~delay /\ child \in {"running", "dying"} /\ active /\ ready
  /\ delay => launch = "idle" /\ ready /\ child = "gone"
  /\ launch \notin {"idle", "project"} => ready
  /\ launch \in {"project", "verify", "prepare"} => child \in {"none", "gone"}
  /\ launch \in {"readiness", "abandon"} => active
  /\ launch \in {"spawning", "readiness"} => child # "none"
  /\ launch \in {"abandon", "discard"} => child \in {"dying", "gone"}
  /\ launch = "idle" /\ ~published => child \in {"none", "gone"}
  /\ launch = "discard" /\ child = "dying" => active
  /\ launch = "discard" => stopping
  /\ ~started => launch = "idle" /\ ~delay /\ ~published

\* Who may have stopped the supervisor, and what that ends.
StoppedInv ==
  /\ stopped <=> closing # "no"
  /\ closing \in {"no", "http", "tunnel", "supervisor"} /\ stopping => invalidation # "no"
  /\ closing \notin {"no", "http", "tunnel", "supervisor"} => stopping
  /\ invalidation # "no" => stopping
  /\ stopping => ~delay
  /\ invalidation = "done" => launch = "idle"
  /\ stopped /\ invalidation \in {"process", "join"} => "invalidation" \in overtaken
  /\ stopping /\ monitor => launch = "discard" \/ closing = "join"

\* What a close that has stopped the tunnel still meets.
ClosingInv ==
  /\ AfterTunnelStop => child # "running" /\ (launch = "prepare" => stopRequested)
  /\ closing \notin {"no", "http", "tunnel"} => child \in {"none", "gone"} /\ closing # "process"
  /\ stopped /\ launch = "project" => "lookup" \in overtaken
  /\ stopped /\ listener => "lookup" \in overtaken
  /\ closing = "rejoin" => "invalidation" \in overtaken

\* The property itself is the last conjunct: inductive relative to the others.
IInv == TypeInv /\ OwnedInv /\ StoppedInv /\ ClosingInv /\ ShutdownIsComplete

-----------------------------------------------------------------------------------
(* The steps *)

LEMMA InvInit == Init => IInv
  BY DEF Init, IInv, TypeInv, OwnedInv, StoppedInv, ClosingInv, ShutdownIsComplete,
         AfterTunnelStop, Settled

LEMMA StartKeeps ==
  ASSUME IInv, Start
  PROVE  IInv'
<1> USE DEF IInv, Start, Enter, Rejected, hostVars, httpVars, superVars, tunnelVars, closeVars
<1>1. TypeInv'
  BY DEF TypeInv, OwnedInv
<1>2. OwnedInv'
  BY DEF TypeInv, OwnedInv, StoppedInv
<1>3. StoppedInv'
  BY DEF TypeInv, OwnedInv, StoppedInv, ClosingInv
<1>4. ClosingInv'
  BY DEF TypeInv, OwnedInv, StoppedInv, ClosingInv, AfterTunnelStop
<1>5. ShutdownIsComplete'
  BY DEF TypeInv, OwnedInv, StoppedInv, ClosingInv, ShutdownIsComplete, AfterTunnelStop, Settled
<1> QED
  BY <1>1, <1>2, <1>3, <1>4, <1>5

LEMMA ProjectFoundKeeps ==
  ASSUME IInv, ProjectFound
  PROVE  IInv'
<1> USE DEF IInv, ProjectFound, Rejected, hostVars, httpVars, superVars, tunnelVars, closeVars
<1>1. TypeInv'
  BY DEF TypeInv, OwnedInv
<1>2. OwnedInv'
  BY DEF TypeInv, OwnedInv, StoppedInv
<1>3. StoppedInv'
  BY DEF TypeInv, OwnedInv, StoppedInv, ClosingInv
<1>4. ClosingInv'
  BY DEF TypeInv, OwnedInv, StoppedInv, ClosingInv, AfterTunnelStop
<1>5. ShutdownIsComplete'
  BY DEF TypeInv, OwnedInv, StoppedInv, ClosingInv, ShutdownIsComplete, AfterTunnelStop, Settled
<1> QED
  BY <1>1, <1>2, <1>3, <1>4, <1>5

LEMMA ProjectLostKeeps ==
  ASSUME IInv, ProjectLost
  PROVE  IInv'
<1> USE DEF IInv, ProjectLost, Rejected, hostVars, httpVars, superVars, tunnelVars, closeVars
<1>1. TypeInv'
  BY DEF TypeInv, OwnedInv
<1>2. OwnedInv'
  BY DEF TypeInv, OwnedInv, StoppedInv
<1>3. StoppedInv'
  BY DEF TypeInv, OwnedInv, StoppedInv, ClosingInv
<1>4. ClosingInv'
  BY DEF TypeInv, OwnedInv, StoppedInv, ClosingInv, AfterTunnelStop
<1>5. ShutdownIsComplete'
  BY DEF TypeInv, OwnedInv, StoppedInv, ClosingInv, ShutdownIsComplete, AfterTunnelStop, Settled
<1> QED
  BY <1>1, <1>2, <1>3, <1>4, <1>5

LEMMA VerifiedKeeps ==
  ASSUME IInv, Verified
  PROVE  IInv'
<1> USE DEF IInv, Verified, Rejected, hostVars, httpVars, superVars, tunnelVars, closeVars
<1>1. TypeInv'
  BY DEF TypeInv, OwnedInv
<1>2. OwnedInv'
  BY DEF TypeInv, OwnedInv, StoppedInv
<1>3. StoppedInv'
  BY DEF TypeInv, OwnedInv, StoppedInv, ClosingInv
<1>4. ClosingInv'
  BY DEF TypeInv, OwnedInv, StoppedInv, ClosingInv, AfterTunnelStop
<1>5. ShutdownIsComplete'
  BY DEF TypeInv, OwnedInv, StoppedInv, ClosingInv, ShutdownIsComplete, AfterTunnelStop, Settled
<1> QED
  BY <1>1, <1>2, <1>3, <1>4, <1>5

LEMMA PreparedKeeps ==
  ASSUME IInv, Prepared
  PROVE  IInv'
<1> USE DEF IInv, Prepared, Rejected, hostVars, httpVars, superVars, tunnelVars, closeVars
<1>1. TypeInv'
  BY DEF TypeInv, OwnedInv
<1>2. OwnedInv'
  BY DEF TypeInv, OwnedInv, StoppedInv
<1>3. StoppedInv'
  BY DEF TypeInv, OwnedInv, StoppedInv, ClosingInv
<1>4. ClosingInv'
  BY DEF TypeInv, OwnedInv, StoppedInv, ClosingInv, AfterTunnelStop
<1>5. ShutdownIsComplete'
  BY DEF TypeInv, OwnedInv, StoppedInv, ClosingInv, ShutdownIsComplete, AfterTunnelStop, Settled
<1> QED
  BY <1>1, <1>2, <1>3, <1>4, <1>5

LEMMA LaunchFailsKeeps ==
  ASSUME IInv, LaunchFails
  PROVE  IInv'
<1> USE DEF IInv, LaunchFails, Rejected, hostVars, httpVars, superVars, tunnelVars, closeVars
<1>1. TypeInv'
  BY DEF TypeInv, OwnedInv
<1>2. OwnedInv'
  BY DEF TypeInv, OwnedInv, StoppedInv
<1>3. StoppedInv'
  BY DEF TypeInv, OwnedInv, StoppedInv, ClosingInv
<1>4. ClosingInv'
  BY DEF TypeInv, OwnedInv, StoppedInv, ClosingInv, AfterTunnelStop
<1>5. ShutdownIsComplete'
  BY DEF TypeInv, OwnedInv, StoppedInv, ClosingInv, ShutdownIsComplete, AfterTunnelStop, Settled
<1> QED
  BY <1>1, <1>2, <1>3, <1>4, <1>5

LEMMA SpawnedKeeps ==
  ASSUME IInv, Spawned
  PROVE  IInv'
<1> USE DEF IInv, Spawned, Rejected, hostVars, httpVars, superVars, tunnelVars, closeVars
<1>1. TypeInv'
  BY DEF TypeInv, OwnedInv
<1>2. OwnedInv'
  BY DEF TypeInv, OwnedInv, StoppedInv
<1>3. StoppedInv'
  BY DEF TypeInv, OwnedInv, StoppedInv, ClosingInv
<1>4. ClosingInv'
  BY DEF TypeInv, OwnedInv, StoppedInv, ClosingInv, AfterTunnelStop
<1>5. ShutdownIsComplete'
  BY DEF TypeInv, OwnedInv, StoppedInv, ClosingInv, ShutdownIsComplete, AfterTunnelStop, Settled
<1> QED
  BY <1>1, <1>2, <1>3, <1>4, <1>5

LEMMA ReadyKeeps ==
  ASSUME IInv, Ready
  PROVE  IInv'
<1> USE DEF IInv, Ready, Signalled, hostVars, httpVars, superVars, tunnelVars, closeVars
<1>1. TypeInv'
  BY DEF TypeInv, OwnedInv
<1>2. OwnedInv'
  BY DEF TypeInv, OwnedInv, StoppedInv
<1>3. StoppedInv'
  BY DEF TypeInv, OwnedInv, StoppedInv, ClosingInv
<1>4. ClosingInv'
  BY DEF TypeInv, OwnedInv, StoppedInv, ClosingInv, AfterTunnelStop
<1>5. ShutdownIsComplete'
  BY DEF TypeInv, OwnedInv, StoppedInv, ClosingInv, ShutdownIsComplete, AfterTunnelStop, Settled
<1> QED
  BY <1>1, <1>2, <1>3, <1>4, <1>5

LEMMA UnreadyKeeps ==
  ASSUME IInv, Unready
  PROVE  IInv'
<1> USE DEF IInv, Unready, Signalled, hostVars, httpVars, superVars, tunnelVars, closeVars
<1>1. TypeInv'
  BY DEF TypeInv, OwnedInv
<1>2. OwnedInv'
  BY DEF TypeInv, OwnedInv, StoppedInv
<1>3. StoppedInv'
  BY DEF TypeInv, OwnedInv, StoppedInv, ClosingInv
<1>4. ClosingInv'
  BY DEF TypeInv, OwnedInv, StoppedInv, ClosingInv, AfterTunnelStop
<1>5. ShutdownIsComplete'
  BY DEF TypeInv, OwnedInv, StoppedInv, ClosingInv, ShutdownIsComplete, AfterTunnelStop, Settled
<1> QED
  BY <1>1, <1>2, <1>3, <1>4, <1>5

LEMMA AbandonedKeeps ==
  ASSUME IInv, Abandoned
  PROVE  IInv'
<1> USE DEF IInv, Abandoned, Rejected, hostVars, httpVars, superVars, tunnelVars, closeVars
<1>1. TypeInv'
  BY DEF TypeInv, OwnedInv
<1>2. OwnedInv'
  BY DEF TypeInv, OwnedInv, StoppedInv
<1>3. StoppedInv'
  BY DEF TypeInv, OwnedInv, StoppedInv, ClosingInv
<1>4. ClosingInv'
  BY DEF TypeInv, OwnedInv, StoppedInv, ClosingInv, AfterTunnelStop
<1>5. ShutdownIsComplete'
  BY DEF TypeInv, OwnedInv, StoppedInv, ClosingInv, ShutdownIsComplete, AfterTunnelStop, Settled
<1> QED
  BY <1>1, <1>2, <1>3, <1>4, <1>5

LEMMA ChildExitsKeeps ==
  ASSUME IInv, ChildExits
  PROVE  IInv'
<1> USE DEF IInv, ChildExits, OnExit, Restart, hostVars, httpVars, superVars, tunnelVars, closeVars
<1>1. TypeInv'
  BY DEF TypeInv, OwnedInv
<1>2. OwnedInv'
  BY DEF TypeInv, OwnedInv, StoppedInv
<1>3. StoppedInv'
  BY DEF TypeInv, OwnedInv, StoppedInv, ClosingInv
<1>4. ClosingInv'
  BY DEF TypeInv, OwnedInv, StoppedInv, ClosingInv, AfterTunnelStop
<1>5. ShutdownIsComplete'
  BY DEF TypeInv, OwnedInv, StoppedInv, ClosingInv, ShutdownIsComplete, AfterTunnelStop, Settled
<1> QED
  BY <1>1, <1>2, <1>3, <1>4, <1>5

LEMMA DelayExpiresKeeps ==
  ASSUME IInv, DelayExpires
  PROVE  IInv'
<1> USE DEF IInv, DelayExpires, Enter, Rejected, hostVars, httpVars, superVars, tunnelVars, closeVars
<1>1. TypeInv'
  BY DEF TypeInv, OwnedInv
<1>2. OwnedInv'
  BY DEF TypeInv, OwnedInv, StoppedInv
<1>3. StoppedInv'
  BY DEF TypeInv, OwnedInv, StoppedInv, ClosingInv
<1>4. ClosingInv'
  BY DEF TypeInv, OwnedInv, StoppedInv, ClosingInv, AfterTunnelStop
<1>5. ShutdownIsComplete'
  BY DEF TypeInv, OwnedInv, StoppedInv, ClosingInv, ShutdownIsComplete, AfterTunnelStop, Settled
<1> QED
  BY <1>1, <1>2, <1>3, <1>4, <1>5

LEMMA ProbeKeeps ==
  ASSUME IInv, Probe
  PROVE  IInv'
<1> USE DEF IInv, Probe, hostVars, httpVars, superVars, tunnelVars, closeVars
<1>1. TypeInv'
  BY DEF TypeInv, OwnedInv
<1>2. OwnedInv'
  BY DEF TypeInv, OwnedInv, StoppedInv
<1>3. StoppedInv'
  BY DEF TypeInv, OwnedInv, StoppedInv, ClosingInv
<1>4. ClosingInv'
  BY DEF TypeInv, OwnedInv, StoppedInv, ClosingInv, AfterTunnelStop
<1>5. ShutdownIsComplete'
  BY DEF TypeInv, OwnedInv, StoppedInv, ClosingInv, ShutdownIsComplete, AfterTunnelStop, Settled
<1> QED
  BY <1>1, <1>2, <1>3, <1>4, <1>5

LEMMA InvalidateKeeps ==
  ASSUME IInv, Invalidate
  PROVE  IInv'
<1> USE DEF IInv, Invalidate, StopSupervisor, Signalled, hostVars, httpVars, superVars, tunnelVars, closeVars
<1>1. TypeInv'
  BY DEF TypeInv, OwnedInv
<1>2. OwnedInv'
  BY DEF TypeInv, OwnedInv, StoppedInv
<1>3. StoppedInv'
  BY DEF TypeInv, OwnedInv, StoppedInv, ClosingInv
<1>4. ClosingInv'
  BY DEF TypeInv, OwnedInv, StoppedInv, ClosingInv, AfterTunnelStop
<1>5. ShutdownIsComplete'
  BY DEF TypeInv, OwnedInv, StoppedInv, ClosingInv, ShutdownIsComplete, AfterTunnelStop, Settled
<1> QED
  BY <1>1, <1>2, <1>3, <1>4, <1>5

LEMMA InvalidatedKeeps ==
  ASSUME IInv, Invalidated
  PROVE  IInv'
<1> USE DEF IInv, Invalidated, Settled, hostVars, httpVars, superVars, tunnelVars, closeVars
<1>1. TypeInv'
  BY DEF TypeInv, OwnedInv
<1>2. OwnedInv'
  BY DEF TypeInv, OwnedInv, StoppedInv
<1>3. StoppedInv'
  BY DEF TypeInv, OwnedInv, StoppedInv, ClosingInv
<1>4. ClosingInv'
  BY DEF TypeInv, OwnedInv, StoppedInv, ClosingInv, AfterTunnelStop
<1>5. ShutdownIsComplete'
  BY DEF TypeInv, OwnedInv, StoppedInv, ClosingInv, ShutdownIsComplete, AfterTunnelStop, Settled
<1> QED
  BY <1>1, <1>2, <1>3, <1>4, <1>5

LEMMA CloseKeeps ==
  ASSUME IInv, Close
  PROVE  IInv'
<1> USE DEF IInv, Close, hostVars, httpVars, superVars, tunnelVars, closeVars
<1>1. TypeInv'
  BY DEF TypeInv, OwnedInv
<1>2. OwnedInv'
  BY DEF TypeInv, OwnedInv, StoppedInv
<1>3. StoppedInv'
  BY DEF TypeInv, OwnedInv, StoppedInv, ClosingInv
<1>4. ClosingInv'
  BY DEF TypeInv, OwnedInv, StoppedInv, ClosingInv, AfterTunnelStop
<1>5. ShutdownIsComplete'
  BY DEF TypeInv, OwnedInv, StoppedInv, ClosingInv, ShutdownIsComplete, AfterTunnelStop, Settled
<1> QED
  BY <1>1, <1>2, <1>3, <1>4, <1>5

LEMMA HttpClosedKeeps ==
  ASSUME IInv, HttpClosed
  PROVE  IInv'
<1> USE DEF IInv, HttpClosed, Signalled, Starting, hostVars, httpVars, superVars, tunnelVars, closeVars
<1>1. TypeInv'
  BY DEF TypeInv, OwnedInv
<1>2. OwnedInv'
  BY DEF TypeInv, OwnedInv, StoppedInv
<1>3. StoppedInv'
  BY DEF TypeInv, OwnedInv, StoppedInv, ClosingInv
<1>4. ClosingInv'
  BY DEF TypeInv, OwnedInv, StoppedInv, ClosingInv, AfterTunnelStop
<1>5. ShutdownIsComplete'
  BY DEF TypeInv, OwnedInv, StoppedInv, ClosingInv, ShutdownIsComplete, AfterTunnelStop, Settled
<1> QED
  BY <1>1, <1>2, <1>3, <1>4, <1>5

LEMMA TunnelStoppedKeeps ==
  ASSUME IInv, TunnelStopped
  PROVE  IInv'
<1> USE DEF IInv, TunnelStopped, hostVars, httpVars, superVars, tunnelVars, closeVars
<1>1. TypeInv'
  BY DEF TypeInv, OwnedInv
<1>2. OwnedInv'
  BY DEF TypeInv, OwnedInv, StoppedInv
<1>3. StoppedInv'
  BY DEF TypeInv, OwnedInv, StoppedInv, ClosingInv
<1>4. ClosingInv'
  BY DEF TypeInv, OwnedInv, StoppedInv, ClosingInv, AfterTunnelStop
<1>5. ShutdownIsComplete'
  BY DEF TypeInv, OwnedInv, StoppedInv, ClosingInv, ShutdownIsComplete, AfterTunnelStop, Settled
<1> QED
  BY <1>1, <1>2, <1>3, <1>4, <1>5

LEMMA SupervisorStopsKeeps ==
  ASSUME IInv, SupervisorStops
  PROVE  IInv'
<1> USE DEF IInv, SupervisorStops, StopSupervisor, Signalled, Settled, hostVars, httpVars, superVars, tunnelVars, closeVars
<1>1. TypeInv'
  BY DEF TypeInv, OwnedInv
<1>2. OwnedInv'
  BY DEF TypeInv, OwnedInv, StoppedInv
<1>3. StoppedInv'
  BY DEF TypeInv, OwnedInv, StoppedInv, ClosingInv
<1>4. ClosingInv'
  BY DEF TypeInv, OwnedInv, StoppedInv, ClosingInv, AfterTunnelStop
<1>5. ShutdownIsComplete'
  BY DEF TypeInv, OwnedInv, StoppedInv, ClosingInv, ShutdownIsComplete, AfterTunnelStop, Settled
<1> QED
  BY <1>1, <1>2, <1>3, <1>4, <1>5

LEMMA ClosedKeeps ==
  ASSUME IInv, Closed
  PROVE  IInv'
<1> USE DEF IInv, Closed, Settled, hostVars, httpVars, superVars, tunnelVars, closeVars
<1>1. TypeInv'
  BY DEF TypeInv, OwnedInv
<1>2. OwnedInv'
  BY DEF TypeInv, OwnedInv, StoppedInv
<1>3. StoppedInv'
  BY DEF TypeInv, OwnedInv, StoppedInv, ClosingInv
<1>4. ClosingInv'
  BY DEF TypeInv, OwnedInv, StoppedInv, ClosingInv, AfterTunnelStop
<1>5. ShutdownIsComplete'
  BY DEF TypeInv, OwnedInv, StoppedInv, ClosingInv, ShutdownIsComplete, AfterTunnelStop, Settled
<1> QED
  BY <1>1, <1>2, <1>3, <1>4, <1>5

LEMMA LaunchKeeps == IInv /\ Launch => IInv'
  BY ProjectFoundKeeps, ProjectLostKeeps, VerifiedKeeps, PreparedKeeps, LaunchFailsKeeps,
     SpawnedKeeps, ReadyKeeps, UnreadyKeeps, AbandonedKeeps DEF Launch

LEMMA CloseStepKeeps == IInv /\ CloseStep => IInv'
  BY HttpClosedKeeps, TunnelStoppedKeeps, SupervisorStopsKeeps, ClosedKeeps DEF CloseStep

LEMMA InvStep == IInv /\ [Next]_vars => IInv'
<1> SUFFICES ASSUME IInv, [Next]_vars PROVE IInv'
  OBVIOUS
<1>1. CASE Next
  BY <1>1, StartKeeps, LaunchKeeps, ChildExitsKeeps, DelayExpiresKeeps, ProbeKeeps,
     InvalidateKeeps, InvalidatedKeeps, CloseKeeps, CloseStepKeeps DEF Next
<1>2. CASE UNCHANGED vars
  BY <1>2 DEF IInv, TypeInv, OwnedInv, StoppedInv, ClosingInv, ShutdownIsComplete,
     AfterTunnelStop, Settled, vars, hostVars, httpVars, superVars, tunnelVars, closeVars
<1> QED
  BY <1>1, <1>2

-----------------------------------------------------------------------------------

\* For any limit of restarts: once the adapter was told to stop no tunnel process is
\* left unsignalled, and a close that has answered leaves no process, launch, delay
\* or health timer behind, nor a status that says otherwise.
THEOREM NothingSurvivesClose == Spec => []ShutdownIsComplete
<1>1. IInv => ShutdownIsComplete
  BY DEF IInv
<1> QED
  BY <1>1, InvInit, InvStep, PTL DEF Spec

-----------------------------------------------------------------------------------
(* A close is never stuck and comes to its end                             *)

\* The adapter's handle is that of a process, and the await of tunnel.stop is for one.
HandleInv ==
  /\ active => child # "none"
  /\ closing = "tunnel" => child \in {"dying", "gone"}

EndInv == IInv /\ HandleInv

LEMMA HandleInit == Init => HandleInv
  BY DEF Init, HandleInv

LEMMA HandleStep == EndInv /\ [Next]_vars => HandleInv'
<1> SUFFICES ASSUME EndInv, [Next]_vars PROVE HandleInv'
  OBVIOUS
<1> USE DEF EndInv, HandleInv, hostVars, httpVars, superVars, tunnelVars, closeVars
<1>1. CASE Start
  BY <1>1 DEF Start, Enter, Rejected
<1>2. CASE Launch
  <2>1. CASE ProjectFound \/ ProjectLost \/ Verified \/ LaunchFails
    BY <2>1 DEF ProjectFound, ProjectLost, Verified, LaunchFails, Rejected
  <2>2. CASE Prepared
    BY <2>2 DEF Prepared, Rejected, IInv, ClosingInv, AfterTunnelStop
  <2>3. CASE Spawned
    BY <2>3 DEF Spawned, Rejected, IInv, OwnedInv
  <2>4. CASE Ready \/ Unready \/ Abandoned
    BY <2>4 DEF Ready, Unready, Abandoned, Signalled, Rejected
  <2>5. QED
    BY <1>2, <2>1, <2>2, <2>3, <2>4 DEF Launch
<1>3. CASE ChildExits
  BY <1>3 DEF ChildExits, OnExit
<1>4. CASE DelayExpires
  BY <1>4 DEF DelayExpires
<1>5. CASE Probe \/ Close
  BY <1>5 DEF Probe, Close
<1>12. CASE Invalidated
  BY <1>12 DEF Invalidated
<1>6. CASE Invalidate
  BY <1>6 DEF Invalidate, StopSupervisor, Signalled
<1>7. CASE HttpClosed
  BY <1>7 DEF HttpClosed, Signalled, IInv, TypeInv, OwnedInv
<1>8. CASE TunnelStopped
  BY <1>8 DEF TunnelStopped
<1>13. CASE Closed
  BY <1>13 DEF Closed
<1>9. CASE SupervisorStops
  BY <1>9 DEF SupervisorStops, StopSupervisor, Signalled
<1>10. CASE UNCHANGED vars
  BY <1>10 DEF vars
<1>11. QED
  BY <1>1, <1>2, <1>3, <1>4, <1>5, <1>6, <1>7, <1>8, <1>9, <1>10, <1>12, <1>13 DEF Next, CloseStep

LEMMA EndInit == Init => EndInv
  BY InvInit, HandleInit DEF EndInv

LEMMA EndStep == EndInv /\ [Next]_vars => EndInv'
  BY InvStep, HandleStep DEF EndInv

\* The guards of the steps that the fairness is about: an await of the launch, the end
\* of a signalled process, a restart delay, the next step of close.
LaunchCanGo ==
  \/ launch \in {"project", "verify", "prepare", "spawning", "readiness"}
  \/ launch \in {"abandon", "discard"} /\ child = "gone"

CloseCanGo ==
  \/ closing \in {"http", "supervisor"}
  \/ closing = "tunnel" /\ child = "gone"
  \/ closing \in {"process", "join", "joined", "rejoin"} /\ Settled
     /\ (closing = "process" => child = "gone")

SomethingCanGo == LaunchCanGo \/ child = "dying" \/ delay \/ CloseCanGo

CloseNotStuck == stopped /\ closing \notin {"closed", "rejected"} => SomethingCanGo

LEMMA NotStuck == EndInv => CloseNotStuck
<1> SUFFICES ASSUME EndInv, stopped, closing \notin {"closed", "rejected"}
             PROVE  SomethingCanGo
  BY DEF CloseNotStuck
<1>1. closing \in {"http", "tunnel", "supervisor", "process", "join", "joined", "rejoin"}
  BY DEF EndInv, IInv, TypeInv, StoppedInv
<1>2. CASE launch # "idle"
  BY <1>2 DEF EndInv, IInv, TypeInv, OwnedInv, SomethingCanGo, LaunchCanGo
<1>3. CASE launch = "idle" /\ closing \in {"http", "supervisor"}
  BY <1>3 DEF SomethingCanGo, CloseCanGo
<1>4. CASE closing = "tunnel"
  BY <1>4 DEF EndInv, HandleInv, SomethingCanGo, CloseCanGo
<1>5. CASE launch = "idle" /\ closing \in {"process", "join", "joined", "rejoin"}
  BY <1>5 DEF EndInv, IInv, ClosingInv, SomethingCanGo, CloseCanGo, Settled
<1>6. QED
  BY <1>1, <1>2, <1>3, <1>4, <1>5

\* What is still to come of each of the actors once the host is stopped. A launch at
\* prepare may still spawn a process, one at readiness may still publish it, and the
\* exit of a published process may still arm a delay.
LaunchWork(l) ==
  IF l = "project" THEN 9
  ELSE IF l = "verify" THEN 8
  ELSE IF l = "prepare" THEN 7
  ELSE IF l = "spawning" THEN 4
  ELSE IF l = "readiness" THEN 3
  ELSE IF l \in {"abandon", "discard"} THEN 1 ELSE 0

ChildWork(c) == IF c = "running" THEN 2 ELSE IF c = "dying" THEN 1 ELSE 0

ExitWork(p, d) == IF p THEN 2 ELSE IF d THEN 1 ELSE 0

CloseWork(k) ==
  IF k = "http" THEN 4
  ELSE IF k = "tunnel" THEN 3
  ELSE IF k = "supervisor" THEN 2
  ELSE IF k \in {"process", "join", "joined", "rejoin"} THEN 1 ELSE 0

Work == LaunchWork(launch) + ChildWork(child) + ExitWork(published, delay) + CloseWork(closing)

WorkTypes ==
  /\ LaunchWork(launch) \in 0..9 /\ ChildWork(child) \in 0..2
  /\ ExitWork(published, delay) \in 0..2 /\ CloseWork(closing) \in 0..4
  /\ Work \in Nat

LEMMA WorkIsNat == WorkTypes
<1>1. LaunchWork(launch) \in 0..9
  BY DEF LaunchWork
<1>2. ChildWork(child) \in 0..2
  BY DEF ChildWork
<1>3. ExitWork(published, delay) \in 0..2
  BY DEF ExitWork
<1>4. CloseWork(closing) \in 0..4
  BY DEF CloseWork
<1>5. QED
  BY <1>1, <1>2, <1>3, <1>4 DEF Work, WorkTypes

LEMMA WorkIsNatNext == WorkTypes /\ WorkTypes'
  BY WorkIsNat, PTL

LEMMA WorkIsBounded == EndInv => Work <= 13
<1> SUFFICES ASSUME EndInv PROVE Work <= 13
  OBVIOUS
<1>1. LaunchWork(launch) + ChildWork(child) + ExitWork(published, delay) <= 9
  <2>1. CASE launch \in {"project", "verify", "prepare"}
    BY <2>1, WorkIsNat DEF WorkTypes, EndInv, IInv, OwnedInv, LaunchWork, ChildWork, ExitWork
  <2>2. CASE launch \notin {"project", "verify", "prepare"}
    <3>1. LaunchWork(launch) <= 4
      BY <2>2 DEF LaunchWork
    <3>2. QED
      BY <3>1, WorkIsNat DEF WorkTypes
  <2>3. QED
    BY <2>1, <2>2
<1>2. QED
  BY <1>1, WorkIsNat DEF Work, WorkTypes

LEMMA LaunchWorks == EndInv /\ stopped /\ Launch => Work' < Work
<1> SUFFICES ASSUME EndInv, stopped, Launch PROVE Work' < Work
  OBVIOUS
<1> USE DEF Rejected, Signalled, hostVars, httpVars, superVars, tunnelVars, closeVars
<1>1. CloseWork(closing)' = CloseWork(closing)
  BY DEF Launch, ProjectFound, ProjectLost, Verified, Prepared, LaunchFails, Spawned, Ready,
         Unready, Abandoned, CloseWork
<1>2. LaunchWork(launch)' + ChildWork(child)' + ExitWork(published, delay)'
        < LaunchWork(launch) + ChildWork(child) + ExitWork(published, delay)
  <2>1. CASE ProjectFound
    <3>1. ChildWork(child)' = ChildWork(child) /\ ExitWork(published, delay)' = ExitWork(published, delay)
      BY <2>1 DEF ProjectFound, ChildWork, ExitWork
    <3>2. LaunchWork(launch)' < LaunchWork(launch)
      BY <2>1 DEF ProjectFound, LaunchWork
    <3>3. QED
      BY <3>1, <3>2, WorkIsNatNext DEF WorkTypes
  <2>2. CASE ProjectLost
    <3>1. ChildWork(child)' = ChildWork(child) /\ ExitWork(published, delay)' = ExitWork(published, delay)
      BY <2>2 DEF ProjectLost, ChildWork, ExitWork
    <3>2. LaunchWork(launch)' < LaunchWork(launch)
      BY <2>2 DEF ProjectLost, LaunchWork
    <3>3. QED
      BY <3>1, <3>2, WorkIsNatNext DEF WorkTypes
  <2>3. CASE Verified
    <3>1. ChildWork(child)' = ChildWork(child) /\ ExitWork(published, delay)' = ExitWork(published, delay)
      BY <2>3 DEF Verified, ChildWork, ExitWork
    <3>2. LaunchWork(launch)' < LaunchWork(launch)
      BY <2>3 DEF Verified, LaunchWork
    <3>3. QED
      BY <3>1, <3>2, WorkIsNatNext DEF WorkTypes
  <2>4. CASE LaunchFails
    <3>1. ChildWork(child)' = ChildWork(child) /\ ExitWork(published, delay)' = ExitWork(published, delay)
      BY <2>4 DEF LaunchFails, ChildWork, ExitWork
    <3>2. LaunchWork(launch)' < LaunchWork(launch)
      BY <2>4 DEF LaunchFails, LaunchWork
    <3>3. QED
      BY <3>1, <3>2, WorkIsNatNext DEF WorkTypes
  <2>5. CASE Spawned
    <3>1. ChildWork(child)' = ChildWork(child) /\ ExitWork(published, delay)' = ExitWork(published, delay)
      BY <2>5 DEF Spawned, ChildWork, ExitWork
    <3>2. LaunchWork(launch)' < LaunchWork(launch)
      BY <2>5 DEF Spawned, LaunchWork
    <3>3. QED
      BY <3>1, <3>2, WorkIsNatNext DEF WorkTypes
  <2>6. CASE Abandoned
    <3>1. ChildWork(child)' = ChildWork(child) /\ ExitWork(published, delay)' = ExitWork(published, delay)
      BY <2>6 DEF Abandoned, ChildWork, ExitWork
    <3>2. LaunchWork(launch)' < LaunchWork(launch)
      BY <2>6 DEF Abandoned, LaunchWork
    <3>3. QED
      BY <3>1, <3>2, WorkIsNatNext DEF WorkTypes
  <2>7. CASE Prepared
    <3>1. ExitWork(published, delay)' = ExitWork(published, delay) /\ LaunchWork(launch) = 7
      BY <2>7 DEF Prepared, ExitWork, LaunchWork
    <3>2. ChildWork(child) = 0
      BY <2>7 DEF EndInv, IInv, OwnedInv, Prepared, ChildWork
    <3>3. LaunchWork(launch)' <= 4
      BY <2>7 DEF Prepared, LaunchWork
    <3>4. QED
      BY <3>1, <3>2, <3>3, WorkIsNatNext DEF WorkTypes
  <2>8. CASE Ready
    <3>1. ChildWork(child)' <= ChildWork(child)
      BY <2>8 DEF Ready, ChildWork
    <3>2. LaunchWork(launch) = 3
      BY <2>8 DEF Ready, LaunchWork
    <3>3. CASE stopping
      <4>1. LaunchWork(launch)' = 1
        BY <2>8, <3>3 DEF Ready, LaunchWork
      <4>2. ExitWork(published, delay)' = ExitWork(published, delay)
        BY <2>8, <3>3 DEF Ready, ExitWork
      <4>3. QED
        BY <3>1, <3>2, <4>1, <4>2, WorkIsNatNext DEF WorkTypes
    <3>4. CASE ~stopping
      <4>1. LaunchWork(launch)' = 0
        BY <2>8, <3>4 DEF Ready, LaunchWork
      <4>2. ExitWork(published, delay)' = 2
        BY <2>8, <3>4 DEF Ready, ExitWork
      <4>3. QED
        BY <3>1, <3>2, <4>1, <4>2, WorkIsNatNext DEF WorkTypes
    <3>5. QED
      BY <3>3, <3>4
  <2>9. CASE Unready
    <3>1. ChildWork(child)' <= ChildWork(child)
      BY <2>9 DEF Unready, ChildWork
    <3>2. LaunchWork(launch)' < LaunchWork(launch)
      BY <2>9 DEF Unready, LaunchWork
    <3>3. ExitWork(published, delay)' = ExitWork(published, delay)
      BY <2>9 DEF Unready, ExitWork
    <3>4. QED
      BY <3>1, <3>2, <3>3, WorkIsNatNext DEF WorkTypes
  <2>10. QED
    BY <2>1, <2>2, <2>3, <2>4, <2>5, <2>6, <2>7, <2>8, <2>9 DEF Launch
<1>3. QED
  BY <1>1, <1>2, WorkIsNatNext DEF Work, WorkTypes

LEMMA ExitWorks == EndInv /\ stopped /\ ChildExits => Work' < Work
<1> SUFFICES ASSUME EndInv, stopped, ChildExits PROVE Work' < Work
  OBVIOUS
<1> USE DEF hostVars, httpVars, superVars, tunnelVars, closeVars
<1>1. CloseWork(closing)' = CloseWork(closing) /\ LaunchWork(launch)' = LaunchWork(launch)
  BY DEF ChildExits, CloseWork, LaunchWork
<1>2. ChildWork(child)' < ChildWork(child)
  BY DEF ChildExits, ChildWork
<1>3. ExitWork(published, delay)' <= ExitWork(published, delay)
  BY DEF ChildExits, OnExit, Restart, ExitWork
<1>4. QED
  BY <1>1, <1>2, <1>3, WorkIsNatNext DEF Work, WorkTypes

\* The restart finds the listener bound and the host stopped: it rejects at once.
LEMMA DelayWorks == EndInv /\ stopped /\ DelayExpires => Work' < Work
<1> SUFFICES ASSUME EndInv, stopped, DelayExpires PROVE Work' < Work
  OBVIOUS
<1> USE DEF hostVars, httpVars, superVars, tunnelVars, closeVars
<1>1. ready /\ ~published /\ launch = "idle"
  BY DEF EndInv, IInv, OwnedInv, DelayExpires
<1>2. CloseWork(closing)' = CloseWork(closing) /\ ChildWork(child)' = ChildWork(child)
  BY DEF DelayExpires, CloseWork, ChildWork
<1>3. LaunchWork(launch)' = LaunchWork(launch)
  BY <1>1 DEF DelayExpires, Enter, Rejected, LaunchWork
<1>4. ExitWork(published, delay)' < ExitWork(published, delay)
  BY <1>1 DEF DelayExpires, ExitWork
<1>5. QED
  BY <1>2, <1>3, <1>4, WorkIsNatNext DEF Work, WorkTypes

LEMMA CloseWorks == EndInv /\ stopped /\ CloseStep => Work' < Work
<1> SUFFICES ASSUME EndInv, stopped, CloseStep PROVE Work' < Work
  OBVIOUS
<1> USE DEF Signalled, StopSupervisor, hostVars, httpVars, superVars, tunnelVars, closeVars
<1>1. CASE HttpClosed
  <2>1. LaunchWork(launch)' = LaunchWork(launch)
    BY <1>1 DEF HttpClosed, LaunchWork
  <2>2. ChildWork(child)' <= ChildWork(child)
    BY <1>1 DEF HttpClosed, ChildWork
  <2>3. ExitWork(published, delay)' <= ExitWork(published, delay)
    BY <1>1 DEF HttpClosed, ExitWork
  <2>4. CloseWork(closing)' < CloseWork(closing)
    BY <1>1 DEF HttpClosed, CloseWork
  <2>5. QED
    BY <2>1, <2>2, <2>3, <2>4, WorkIsNatNext DEF Work, WorkTypes
<1>2. CASE TunnelStopped
  <2>1. LaunchWork(launch)' = LaunchWork(launch)
    BY <1>2 DEF TunnelStopped, LaunchWork
  <2>2. ChildWork(child)' <= ChildWork(child)
    BY <1>2 DEF TunnelStopped, ChildWork
  <2>3. ExitWork(published, delay)' <= ExitWork(published, delay)
    BY <1>2 DEF TunnelStopped, ExitWork
  <2>4. CloseWork(closing)' < CloseWork(closing)
    BY <1>2 DEF TunnelStopped, CloseWork
  <2>5. QED
    BY <2>1, <2>2, <2>3, <2>4, WorkIsNatNext DEF Work, WorkTypes
<1>3. CASE SupervisorStops
  <2>1. LaunchWork(launch)' = LaunchWork(launch)
    BY <1>3 DEF SupervisorStops, LaunchWork
  <2>2. ChildWork(child)' <= ChildWork(child)
    BY <1>3 DEF SupervisorStops, ChildWork
  <2>3. ExitWork(published, delay)' <= ExitWork(published, delay)
    BY <1>3 DEF SupervisorStops, ExitWork
  <2>4. CloseWork(closing)' < CloseWork(closing)
    BY <1>3 DEF SupervisorStops, CloseWork
  <2>5. QED
    BY <2>1, <2>2, <2>3, <2>4, WorkIsNatNext DEF Work, WorkTypes
<1>4. CASE Closed
  <2>1. LaunchWork(launch)' = LaunchWork(launch)
    BY <1>4 DEF Closed, LaunchWork
  <2>2. ChildWork(child)' <= ChildWork(child)
    BY <1>4 DEF Closed, ChildWork
  <2>3. ExitWork(published, delay)' <= ExitWork(published, delay)
    BY <1>4 DEF Closed, ExitWork
  <2>4. CloseWork(closing)' < CloseWork(closing)
    BY <1>4 DEF Closed, CloseWork
  <2>5. QED
    BY <2>1, <2>2, <2>3, <2>4, WorkIsNatNext DEF Work, WorkTypes
<1>5. QED
  BY <1>1, <1>2, <1>3, <1>4 DEF CloseStep

\* A stopped host is not started, closed, probed or invalidated again, and the end of
\* an invalidation in flight leaves every actor where it is.
LEMMA NothingElseWorks ==
  ASSUME stopped, Start \/ Probe \/ Invalidate \/ Invalidated \/ Close \/ UNCHANGED vars
  PROVE  Work' = Work
<1>1. Invalidated \/ UNCHANGED vars
  BY DEF Start, Probe, Invalidate, Close
<1>2. UNCHANGED <<launch, child, published, delay, closing>>
  BY <1>1 DEF Invalidated, vars, superVars, tunnelVars, closeVars
<1>3. QED
  BY <1>2 DEF Work, LaunchWork, ChildWork, ExitWork, CloseWork

\* What a step does to the work of a close.
WorkIsDone ==
  stopped =>
    /\ Work' <= Work
    /\ Launch \/ ChildExits \/ DelayExpires \/ CloseStep => Work' < Work

LEMMA StepWorks == EndInv /\ [Next]_vars => WorkIsDone
<1> SUFFICES ASSUME EndInv, [Next]_vars, stopped
             PROVE  /\ Work' <= Work
                    /\ Launch \/ ChildExits \/ DelayExpires \/ CloseStep => Work' < Work
  BY DEF WorkIsDone
<1>1. Launch \/ ChildExits \/ DelayExpires \/ CloseStep => Work' < Work
  BY LaunchWorks, ExitWorks, DelayWorks, CloseWorks
<1>2. Work' <= Work
  <2>1. CASE Launch \/ ChildExits \/ DelayExpires \/ CloseStep
    BY <2>1, <1>1, WorkIsNatNext DEF Work, WorkTypes
  <2>2. CASE ~(Launch \/ ChildExits \/ DelayExpires \/ CloseStep)
    <3>1. Work' = Work
      BY <2>2, NothingElseWorks DEF Next
    <3>2. QED
      BY <3>1, WorkIsNatNext DEF Work, WorkTypes
  <2>3. QED
    BY <2>1, <2>2
<1>3. QED
  BY <1>1, <1>2

\* For any limit of restarts, wherever the launch, the delay, the process and an
\* invalidation stand when close is called: until close has answered, one of the steps
\* that are bound to come can be taken; each of them is one of at most thirteen that are
\* left, and no other step adds to them.
THEOREM CloseComesToItsEnd ==
  Spec => /\ []CloseNotStuck
          /\ [](Work <= 13)
          /\ [][WorkIsDone]_vars
<1>1. Spec => []EndInv
  BY EndInit, EndStep, PTL DEF Spec
<1>2. EndInv /\ [Next]_vars => [WorkIsDone]_vars
  BY StepWorks
<1>3. QED
  BY <1>1, <1>2, NotStuck, WorkIsBounded, PTL DEF Spec
===================================================================================
