-------------------------------- MODULE RemoteHost --------------------------------
(***************************************************************************)
(* The remote host (packages/mcp-server/src/remote-host.ts): a loopback    *)
(* HTTP listener, the supervisor that keeps one tunnel process in front of *)
(* it (tunnels/supervisor.ts), and the cloudflared adapter that spawns and *)
(* stops that process (tunnels/cloudflared.ts).                            *)
(*                                                                         *)
(* Everything between two awaits is one step.  The launch that awaits, the *)
(* child, a restart delay, the close and an origin invalidation run        *)
(* independently of one another.  The host is started once, as remote-cli  *)
(* does; close and invalidateOrigin may come at any time, even before it.  *)
(* Exit codes, time and readiness answers are choices.                     *)
(***************************************************************************)
EXTENDS Naturals

CONSTANT MaxRestarts    \* restartPolicy.maxRestarts

ASSUME MaxRestartsAssumption == MaxRestarts \in Nat

VARIABLES
  started,       \* start has been called
  stopped,       \* KanmerRemoteHost.stopped: close has been called
  httpStopping,  \* KanmerHttpHost.stopping
  listener,      \* the HTTP server is bound
  ready,         \* http.start has answered once
  launch,        \* the await at which the one launch stands, or "idle"
  first,         \* that launch is start's, not a restart
  delay,         \* a restart delay is armed
  restarts,
  stopping,      \* TunnelSupervisor.stopping
  published,     \* TunnelSupervisor.process is set
  child,         \* the tunnel process: none, running, dying (signalled), gone
  active,        \* the adapter's active handle is set
  stopRequested, \* the adapter was asked to stop while it was starting
  monitor,       \* the health timer is running
  local,         \* status.local
  provider,      \* status.provider
  closing,       \* how far close is
  sessionError,  \* a session did not close: close will reject
  invalidation,  \* how far invalidateOrigin is
  overtaken      \* what was in flight when close was called

hostVars == <<started, stopped, local, provider, monitor>>
httpVars == <<httpStopping, listener, ready>>
superVars == <<launch, first, delay, restarts, stopping, published>>
tunnelVars == <<child, active, stopRequested>>
closeVars == <<closing, sessionError, invalidation, overtaken>>
vars == <<hostVars, httpVars, superVars, tunnelVars, closeVars>>

Init ==
  /\ started = FALSE /\ stopped = FALSE
  /\ httpStopping = FALSE /\ listener = FALSE /\ ready = FALSE
  /\ launch = "idle" /\ first = TRUE /\ delay = FALSE /\ restarts = 0
  /\ stopping = FALSE /\ published = FALSE
  /\ child = "none" /\ active = FALSE /\ stopRequested = FALSE
  /\ monitor = FALSE /\ local = "stopped" /\ provider = "stopped"
  /\ closing = "no" /\ sessionError = FALSE /\ invalidation = "no" /\ overtaken = {}

-----------------------------------------------------------------------------------
(* A launch: TunnelSupervisor.launch around the host's start closure       *)

\* stopOwnedChild signals the process; its end is awaited.
Signalled(c) == IF c = "running" THEN "dying" ELSE c

\* adapter.start is between its first and its last line.
Starting == launch \in {"prepare", "spawning", "readiness", "abandon"}

\* The launch rejects: start reports a failure, a restart a stop if one was asked for.
Rejected ==
  /\ launch' = "idle"
  /\ provider' = IF ~first /\ stopping THEN "stopped" ELSE "failed"
  /\ monitor' = FALSE

\* http.start resolves the project and binds, whatever close has done meanwhile.
ProjectFound ==
  /\ launch = "project"
  /\ listener' = TRUE /\ ready' = TRUE
  /\ IF stopped THEN Rejected /\ UNCHANGED local
     ELSE launch' = "verify" /\ local' = "ready" /\ UNCHANGED <<provider, monitor>>
  /\ UNCHANGED <<started, stopped, httpStopping, first, delay, restarts, stopping, published>>
  /\ UNCHANGED <<tunnelVars, closeVars>>

\* No board, or the port is taken: http.start rolls itself back.
ProjectLost ==
  /\ launch = "project"
  /\ httpStopping' = TRUE
  /\ Rejected
  /\ UNCHANGED <<started, stopped, local, listener, ready, first, delay, restarts>>
  /\ UNCHANGED <<stopping, published, tunnelVars, closeVars>>

\* Mutant: the host is not looked at again after the verification.
VerifiedAnyway ==
  /\ launch = "verify"
  /\ IF active THEN Rejected /\ UNCHANGED stopRequested
     ELSE launch' = "prepare" /\ stopRequested' = FALSE /\ UNCHANGED <<provider, monitor>>
  /\ UNCHANGED <<started, stopped, local, httpVars, first, delay, restarts, stopping>>
  /\ UNCHANGED <<published, child, active, closeVars>>

\* verifyLocal passes and the adapter starts, unless the host was closed meanwhile.
Verified ==
  /\ launch = "verify"
  /\ IF stopped \/ active THEN Rejected /\ UNCHANGED stopRequested
     ELSE launch' = "prepare" /\ stopRequested' = FALSE /\ UNCHANGED <<provider, monitor>>
  /\ UNCHANGED <<started, stopped, local, httpVars, first, delay, restarts, stopping>>
  /\ UNCHANGED <<published, child, active, closeVars>>

\* The adapter's checks, its port and its configuration: then it spawns.
Prepared ==
  /\ launch = "prepare"
  /\ IF stopRequested THEN Rejected /\ UNCHANGED child
     ELSE launch' = "spawning" /\ child' = "running" /\ UNCHANGED <<provider, monitor>>
  /\ UNCHANGED <<started, stopped, local, httpVars, first, delay, restarts, stopping>>
  /\ UNCHANGED <<published, active, stopRequested, closeVars>>

\* The verification, or one of the adapter's checks, fails.
LaunchFails ==
  /\ launch \in {"verify", "prepare"}
  /\ Rejected
  /\ UNCHANGED <<started, stopped, local, httpVars, first, delay, restarts, stopping>>
  /\ UNCHANGED <<published, tunnelVars, closeVars>>

\* The "spawn" event publishes the adapter's handle; the exit of a process that
\* never spawned ends the launch.
Spawned ==
  /\ launch = "spawning"
  /\ IF child = "gone" THEN Rejected /\ UNCHANGED active
     ELSE launch' = "readiness" /\ active' = TRUE /\ UNCHANGED <<provider, monitor>>
  /\ UNCHANGED <<started, stopped, local, httpVars, first, delay, restarts, stopping>>
  /\ UNCHANGED <<published, child, stopRequested, closeVars>>

\* The tunnel is ready. launch publishes it, or stops it when it comes too late.
Ready ==
  /\ launch = "readiness" /\ child # "gone" /\ ~stopRequested
  /\ monitor' = TRUE
  /\ IF stopping THEN /\ launch' = "discard" /\ child' = Signalled(child)
                      /\ UNCHANGED <<published, provider>>
                 ELSE /\ launch' = "idle" /\ published' = TRUE /\ provider' = "running"
                      /\ UNCHANGED child
  /\ UNCHANGED <<started, stopped, local, httpVars, first, delay, restarts, stopping>>
  /\ UNCHANGED <<active, stopRequested, closeVars>>

\* Not ready in time, dead, or asked to stop: the adapter stops its own process.
Unready ==
  /\ launch = "readiness"
  /\ launch' = "abandon" /\ child' = Signalled(child)
  /\ UNCHANGED <<hostVars, httpVars, first, delay, restarts, stopping, published>>
  /\ UNCHANGED <<active, stopRequested, closeVars>>

Abandoned ==
  /\ launch \in {"abandon", "discard"} /\ child = "gone"
  /\ active' = FALSE
  /\ Rejected
  /\ UNCHANGED <<started, stopped, local, httpVars, first, delay, restarts, stopping>>
  /\ UNCHANGED <<published, child, stopRequested, closeVars>>

-----------------------------------------------------------------------------------
(* The supervisor: start, exits, restarts, stop                            *)

\* The start closure up to its first await. A restart finds the listener bound.
Enter ==
  IF ~ready THEN launch' = "project" /\ local' = "starting" /\ provider' = "starting"
                 /\ UNCHANGED monitor
  ELSE IF stopped THEN Rejected /\ local' = "starting"
  ELSE launch' = "verify" /\ local' = "ready" /\ UNCHANGED <<provider, monitor>>

Start ==
  /\ ~started /\ ~stopped /\ ~stopping
  /\ started' = TRUE /\ first' = TRUE
  /\ Enter
  /\ UNCHANGED <<stopped, httpVars, delay, restarts, stopping, published, tunnelVars, closeVars>>

\* onExit of the published process. Exit code 78 is terminal; a process that ran
\* for the stable period gives the restarts back.
Restart ==
  \E r \in {0, restarts} :
    IF r >= MaxRestarts THEN provider' = "failed" /\ monitor' = FALSE /\ restarts' = r
                             /\ UNCHANGED delay
    ELSE provider' = "restarting" /\ delay' = TRUE /\ restarts' = r + 1 /\ UNCHANGED monitor

OnExit ==
  /\ published' = FALSE /\ active' = FALSE
  /\ IF stopping
     THEN provider' = "stopped" /\ monitor' = FALSE /\ UNCHANGED <<delay, restarts>>
     ELSE \/ provider' = "failed" /\ monitor' = FALSE /\ UNCHANGED <<delay, restarts>>
          \/ Restart

ChildExits ==
  /\ child \in {"running", "dying"}
  /\ child' = "gone"
  /\ IF published THEN OnExit
     ELSE /\ active' = (active /\ launch # "discard")
          /\ UNCHANGED <<published, provider, monitor, delay, restarts>>
  /\ UNCHANGED <<started, stopped, local, httpVars, launch, first, stopping>>
  /\ UNCHANGED <<stopRequested, closeVars>>

DelayExpires ==
  /\ delay
  /\ delay' = FALSE /\ first' = FALSE
  /\ Enter
  /\ UNCHANGED <<started, stopped, httpVars, restarts, stopping, published, tunnelVars, closeVars>>

\* A health check that answers after the host, or its process, has gone is ignored.
Probe ==
  /\ monitor /\ ~stopped /\ provider \in {"running", "degraded"}
  /\ provider' = IF provider = "running" THEN "degraded" ELSE "running"
  /\ UNCHANGED <<started, stopped, local, monitor, httpVars, superVars, tunnelVars, closeVars>>

\* The synchronous part of TunnelSupervisor.stop.
StopSupervisor ==
  /\ stopping' = TRUE /\ delay' = FALSE
  /\ child' = IF published THEN Signalled(child) ELSE child

Settled == launch = "idle" /\ ~delay

-----------------------------------------------------------------------------------
(* invalidateOrigin and close                                              *)

Invalidate ==
  /\ invalidation = "no" /\ ~stopped
  /\ monitor' = FALSE
  /\ StopSupervisor
  /\ invalidation' = IF published THEN "process" ELSE "join"
  /\ UNCHANGED <<started, stopped, local, provider, httpVars, launch, first, restarts>>
  /\ UNCHANGED <<published, active, stopRequested, closing, sessionError, overtaken>>

\* The status is written whether or not a close has finished meanwhile.
Invalidated ==
  /\ invalidation \in {"process", "join"}
  /\ invalidation = "process" => child = "gone"
  /\ Settled
  /\ invalidation' = "done" /\ provider' = "failed"
  /\ monitor' = IF invalidation = "join" THEN FALSE ELSE monitor
  /\ UNCHANGED <<started, stopped, local, httpVars, superVars, tunnelVars>>
  /\ UNCHANGED <<closing, sessionError, overtaken>>

\* http.close stops accepting at once; the sessions take up to the grace period.
Close ==
  /\ ~stopped
  /\ stopped' = TRUE /\ monitor' = FALSE /\ local' = "stopping"
  /\ httpStopping' = TRUE /\ listener' = FALSE
  /\ closing' = "http"
  /\ overtaken' = (IF launch = "project" THEN {"lookup"} ELSE {})
       \cup (IF invalidation \in {"process", "join"} THEN {"invalidation"} ELSE {})
  /\ UNCHANGED <<started, provider, ready, superVars, tunnelVars, sessionError, invalidation>>

\* Mutant: the end of a process is awaited whether or not there is one.
HttpClosedAwaits ==
  /\ closing = "http"
  /\ sessionError' \in BOOLEAN
  /\ stopRequested' = (stopRequested \/ Starting)
  /\ closing' = "tunnel" /\ child' = Signalled(child)
  /\ UNCHANGED <<hostVars, httpVars, superVars, active, invalidation, overtaken>>

\* tunnel.stop follows, and awaits the process only if there is one to stop.
HttpClosed ==
  /\ closing = "http"
  /\ sessionError' \in BOOLEAN
  /\ stopRequested' = (stopRequested \/ Starting)
  /\ IF active \/ launch = "spawning"
     THEN closing' = "tunnel" /\ child' = Signalled(child)
     ELSE closing' = "supervisor" /\ UNCHANGED child
  /\ UNCHANGED <<hostVars, httpVars, superVars, active, invalidation, overtaken>>

TunnelStopped ==
  /\ closing = "tunnel" /\ child = "gone"
  /\ closing' = "supervisor"
  /\ UNCHANGED <<hostVars, httpVars, superVars, tunnelVars, sessionError, invalidation, overtaken>>

\* supervisor.stop. One that finds the supervisor stopping only joins the launch,
\* and rejects with it.
SupervisorStops ==
  /\ closing = "supervisor"
  /\ IF stopping THEN closing' = (IF Settled THEN "joined" ELSE "rejoin")
                      /\ UNCHANGED <<stopping, delay, child>>
     ELSE closing' = (IF published THEN "process" ELSE "join") /\ StopSupervisor
  /\ UNCHANGED <<hostVars, httpVars, launch, first, restarts, published, active, stopRequested>>
  /\ UNCHANGED <<sessionError, invalidation, overtaken>>

\* The last await of close: the final snapshot, or a rejection without one.
Closed ==
  /\ closing \in {"process", "join", "joined", "rejoin"}
  /\ closing = "process" => child = "gone"
  /\ Settled
  /\ monitor' = IF closing = "join" THEN FALSE ELSE monitor
  /\ IF sessionError \/ closing = "rejoin"
     THEN closing' = "rejected" /\ UNCHANGED local
          /\ provider' = IF closing = "join" THEN "stopped" ELSE provider
     ELSE closing' = "closed" /\ local' = "stopped" /\ provider' = "stopped"
  /\ UNCHANGED <<started, stopped, httpVars, superVars, tunnelVars>>
  /\ UNCHANGED <<sessionError, invalidation, overtaken>>

Launch ==
  \/ ProjectFound \/ ProjectLost \/ Verified \/ Prepared \/ LaunchFails
  \/ Spawned \/ Ready \/ Unready \/ Abandoned

CloseStep == HttpClosed \/ TunnelStopped \/ SupervisorStops \/ Closed

Next ==
  \/ Start \/ Launch \/ ChildExits \/ DelayExpires \/ Probe
  \/ Invalidate \/ Invalidated \/ Close \/ CloseStep

Spec == Init /\ [][Next]_vars

\* Every await of a launch settles (readiness has a deadline), a signalled process
\* ends or is given up after its grace, and a close goes on. A delay may be
\* cancelled instead, and a running tunnel may run for ever.
Fairness ==
  /\ WF_vars(Launch) /\ WF_vars(child = "dying" /\ ChildExits)
  /\ WF_vars(DelayExpires) /\ WF_vars(CloseStep)

FairSpec == Spec /\ Fairness

-----------------------------------------------------------------------------------
(* Properties *)

\* The awaits of a shutdown after tunnel.stop has been asked for.
AfterTunnelStop == closing \notin {"no", "http"}

\* A shutdown leaves nothing behind, wherever the launch, the restart delay, the
\* process and an invalidation stood when it came: once the adapter was asked to
\* stop, no tunnel process is alive that has not been signalled; and when close has
\* answered there is no process, launch, delay or health timer, and the last status
\* says so. Two calls escape it: a project lookup that close overtook still binds
\* the listener, and an invalidation in flight can write its status last or make
\* close reject.
ShutdownIsComplete ==
  /\ AfterTunnelStop => child # "running"
  /\ closing \in {"closed", "rejected"} =>
       /\ Settled /\ ~published /\ ~monitor /\ child \in {"none", "gone"}
       /\ listener => "lookup" \in overtaken
  /\ closing = "closed" =>
       /\ local = "stopped"
       /\ provider # "stopped" => "invalidation" \in overtaken
  /\ closing = "rejected" => sessionError \/ "invalidation" \in overtaken

\* A close answers, whatever it meets: a launch in any of its awaits, a process that
\* dies by itself, a restart delay, a session that does not close.
CloseEnds == stopped ~> closing \in {"closed", "rejected"}
===================================================================================
