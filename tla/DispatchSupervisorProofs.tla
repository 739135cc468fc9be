------------------------- MODULE DispatchSupervisorProofs -------------------------
(***************************************************************************)
(* Theorems about DispatchSupervisor, for any tickets, any finite number   *)
(* of calls of start and any limit.                                        *)
(***************************************************************************)
EXTENDS DispatchSupervisor, FiniteSetTheorems, TLAPS

-----------------------------------------------------------------------------------
(* Sets of dispatches *)

LEMMA PhasesFinite ==
  \A S \in SUBSET Dispatches : IsFiniteSet(S) /\ Cardinality(S) \in Nat
  BY FiniteAssumption, FS_Subset, FS_CardinalityType

LEMMA InSubset == \A p : In(p) \subseteq Dispatches
  BY DEF In

LEMMA ActiveSubset == Active \subseteq Dispatches
  BY DEF Active, In

LEMMA FreshIdNew == In("new") # {} => FreshId \in Dispatches /\ phase[FreshId] = "new"
  BY DEF In, FreshId

-----------------------------------------------------------------------------------
(* Type correctness *)

LEMMA TypeInit == Init => TypeOK
  BY DEF Init, TypeOK, States

LEMMA FinishType ==
  ASSUME TypeOK, NEW d \in Dispatches, NEW s \in Terminals, Finish(d, s)
  PROVE  /\ phase' \in [Dispatches -> {"new", "starting", "active", "verifying", "finished", "refused"}]
         /\ state' \in [Dispatches -> States]
         /\ lock' \in [Tickets -> Dispatches \cup {None}]
         /\ recorded' \in [Dispatches -> SUBSET Terminals]
  BY DEF TypeOK, Finish, Terminals

LEMMA TypeStep == TypeOK /\ [Next]_vars => TypeOK'
<1> SUFFICES ASSUME TypeOK, [Next]_vars PROVE TypeOK'
  OBVIOUS
<1>1. ASSUME NEW t \in Tickets, Start(t) PROVE TypeOK'
  <2>1. FreshId \in Dispatches
    BY <1>1, FreshIdNew DEF Start
  <2>2. Cardinality(In("starting")) \in Nat
    BY InSubset, PhasesFinite
  <2>3. peak' \in Nat
    BY <1>1, <2>2 DEF Start, TypeOK
  <2>4. QED
    BY <1>1, <2>1, <2>3 DEF Start, TypeOK
<1>2. CASE KillAll
  BY <1>2 DEF KillAll, TypeOK, ghosts, Killed, States
<1>3. ASSUME NEW d \in Dispatches, Reserve(d) \/ SpawnThrows(d) PROVE TypeOK'
  BY <1>3 DEF Reserve, SpawnThrows, TypeOK, ghosts
<1>4. ASSUME NEW d \in Dispatches, Timeout(d) \/ Cancel(d) PROVE TypeOK'
  BY <1>4 DEF Timeout, Cancel, TypeOK, ghosts, Killed, States, Active, In
<1>5. ASSUME NEW d \in Dispatches, SpawnError(d) PROVE TypeOK'
  <2>1. "failed" \in Terminals
    BY DEF Terminals, States
  <2>2. QED
    BY <1>5, <2>1, FinishType DEF SpawnError, TypeOK, ghosts
<1>6. ASSUME NEW d \in Dispatches, Close(d) PROVE TypeOK'
  <2>1. (IF state[d] = "running" THEN "failed" ELSE state[d]) \in Terminals
    BY DEF TypeOK, Terminals, States
  <2>2. CASE Finish(d, IF state[d] = "running" THEN "failed" ELSE state[d])
    <3>1. /\ child' \in [Dispatches -> {"none", "unborn", "running", "killed", "closed"}]
          /\ armed' \subseteq Dispatches
      BY <1>6 DEF Close, TypeOK
    <3>2. QED
      BY <1>6, <2>1, <2>2, <3>1, FinishType DEF Close, TypeOK, ghosts
  <2>3. QED
    BY <1>6, <2>2 DEF Close, TypeOK, ghosts
<1>7. ASSUME NEW d \in Dispatches, Verified(d) PROVE TypeOK'
  <2>1. PICK p \in BOOLEAN : /\ proven' = [proven EXCEPT ![d] = p]
                             /\ Finish(d, IF p THEN "done" ELSE "failed")
    BY <1>7 DEF Verified
  <2>2. (IF p THEN "done" ELSE "failed") \in Terminals
    BY DEF Terminals, States
  <2>3. /\ proven' \in [Dispatches -> BOOLEAN] /\ armed' \subseteq Dispatches
    BY <1>7, <2>1 DEF Verified, TypeOK
  <2>4. QED
    BY <1>7, <2>1, <2>2, <2>3, FinishType DEF Verified, TypeOK, ghosts
<1>8. CASE UNCHANGED vars
  BY <1>8 DEF vars, TypeOK
<1>9. QED
  BY <1>1, <1>2, <1>3, <1>4, <1>5, <1>6, <1>7, <1>8 DEF Next

\* The supervisor's records keep their shapes: phases, outcomes, locks and timers.
THEOREM TypeCorrect == Spec => []TypeOK
  BY TypeInit, TypeStep, PTL DEF Spec

-----------------------------------------------------------------------------------
(* One honest outcome                                                      *)
(*                                                                         *)
(* The outcome of one dispatch is settled by what its phase allows: a timer *)
(* is armed while the child lives, a dispatch under verification has not   *)
(* been cancelled, and the proof is found in the step that finishes it.    *)

Honest(d) ==
  /\ d \in armed => phase[d] = "active"
  /\ phase[d] \in {"new", "starting", "refused"} => state[d] = "running" /\ d \notin told
  /\ phase[d] = "active" =>
       /\ state[d] \in {"running", "cancelled", "timed-out"}
       /\ d \in told => state[d] # "running"
  /\ phase[d] = "verifying" => state[d] = "running" /\ d \notin told
  /\ proven[d] => phase[d] = "finished"
  /\ phase[d] = "finished" => recorded[d] = {state[d]} /\ (proven[d] <=> state[d] = "done")
  /\ phase[d] # "finished" => recorded[d] = {}
  /\ d \in told => state[d] # "done"

HonestInv == \A d \in Dispatches : Honest(d)

LEMMA HonestInit == Init => HonestInv
  BY DEF Init, HonestInv, Honest

LEMMA HonestStep == TypeOK /\ HonestInv /\ [Next]_vars => HonestInv'
<1> SUFFICES ASSUME TypeOK, HonestInv, [Next]_vars, NEW e \in Dispatches
             PROVE  Honest(e)'
  BY DEF HonestInv
<1>0. Honest(e)
  BY DEF HonestInv
<1>1. ASSUME NEW t \in Tickets, Start(t) PROVE Honest(e)'
  <2>1. FreshId \in Dispatches /\ phase[FreshId] = "new"
    BY <1>1, FreshIdNew DEF Start
  <2>2. /\ phase'[e] = phase[e] \/ (phase[e] = "new" /\ phase'[e] \in {"starting", "refused"})
        /\ UNCHANGED <<state, proven, recorded, armed, told>>
    BY <1>1, <2>1 DEF Start, TypeOK
  <2>3. QED
    BY <1>0, <2>2 DEF Honest
<1>2. CASE KillAll
  <2>1. state'[e] = IF phase[e] = "active" THEN "cancelled" ELSE state[e]
    BY <1>2 DEF KillAll
  <2>2. QED
    BY <1>0, <1>2, <2>1 DEF KillAll, Honest, ghosts
<1>3. ASSUME NEW d \in Dispatches, Reserve(d) \/ SpawnThrows(d) PROVE Honest(e)'
  BY <1>0, <1>3 DEF Reserve, SpawnThrows, Honest, TypeOK, ghosts
<1>4. ASSUME NEW d \in Dispatches, Timeout(d) \/ Cancel(d) PROVE Honest(e)'
  BY <1>0, <1>4 DEF Timeout, Cancel, Honest, TypeOK, ghosts
<1>5. ASSUME NEW d \in Dispatches, SpawnError(d) PROVE Honest(e)'
  BY <1>0, <1>5 DEF SpawnError, Finish, Honest, TypeOK, ghosts
<1>6. ASSUME NEW d \in Dispatches, Close(d) PROVE Honest(e)'
  BY <1>0, <1>6 DEF Close, Finish, Honest, TypeOK, ghosts
<1>7. ASSUME NEW d \in Dispatches, Verified(d) PROVE Honest(e)'
  <2>1. PICK p \in BOOLEAN : /\ proven' = [proven EXCEPT ![d] = p]
                             /\ Finish(d, IF p THEN "done" ELSE "failed")
    BY <1>7 DEF Verified
  <2>2. CASE p
    BY <1>0, <1>7, <2>1, <2>2 DEF Verified, Finish, Honest, TypeOK, ghosts
  <2>3. CASE ~p
    BY <1>0, <1>7, <2>1, <2>3 DEF Verified, Finish, Honest, TypeOK, ghosts
  <2>4. QED
    BY <2>2, <2>3
<1>8. CASE UNCHANGED vars
  BY <1>0, <1>8 DEF vars, Honest
<1>9. QED
  BY <1>1, <1>2, <1>3, <1>4, <1>5, <1>6, <1>7, <1>8 DEF Next

LEMMA HonestIsEnough == TypeOK /\ HonestInv => OneHonestOutcome
  BY DEF TypeOK, HonestInv, Honest, OneHonestOutcome

\* Whatever the timer, the callers and the check do, in whatever order: a dispatch is
\* recorded once, and as "done" only if its deliverable was found and no caller was
\* told that it had been cancelled.
THEOREM OutcomesAreHonest == Spec => []OneHonestOutcome
<1>1. TypeOK /\ HonestInv /\ [Next]_vars => HonestInv'
  BY HonestStep
<1>2. QED
  BY TypeCorrect, HonestInit, <1>1, HonestIsEnough, PTL DEF Spec

-----------------------------------------------------------------------------------
(* The lock and the limit                                                  *)

Pending(d) == phase[d] \in {"starting", "active", "verifying"}

\* Two dispatches of a ticket are under way together only if its starts overlapped,
\* and a dispatch that runs unchallenged owns the lock.
LockInv ==
  /\ \A d \in Dispatches : Pending(d) => ticket[d] \in Tickets
  /\ \A t \in Tickets : lock[t] # None => lock[t] \in Active /\ ticket[lock[t]] = t
  /\ \A d \in Active : ticket[d] \notin overlapped => lock[ticket[d]] = d
  /\ \A d, e \in Dispatches :
       Pending(d) /\ Pending(e) /\ ticket[d] = ticket[e] /\ ticket[d] \notin overlapped => d = e

LimitInv ==
  /\ Cardinality(In("starting")) <= peak
  /\ Cardinality(Active) + Cardinality(In("starting"))
       <= MaxActive + (IF peak = 0 THEN 0 ELSE peak - 1)

LEMMA LockInit == Init => LockInv /\ LimitInv
<1> SUFFICES ASSUME Init PROVE LockInv /\ LimitInv
  OBVIOUS
<1>1. In("starting") = {} /\ Active = {}
  BY DEF Init, In, Active
<1>2. LockInv
  BY <1>1 DEF Init, LockInv, Pending
<1>3. LimitInv
  BY <1>1, FS_EmptySet, MaxActiveAssumption DEF Init, LimitInv
<1>4. QED
  BY <1>2, <1>3

\* What a dispatch that ends leaves behind.
LEMMA FinishLock ==
  ASSUME TypeOK, LockInv, NEW d \in Dispatches, NEW s, d \in Active, Finish(d, s),
         UNCHANGED <<ticket, overlapped>>
  PROVE  LockInv'
  BY NoneAssumption DEF TypeOK, LockInv, Finish, Active, In, Pending

LEMMA LockStep == TypeOK /\ LockInv /\ [Next]_vars => LockInv'
<1> SUFFICES ASSUME TypeOK, LockInv, [Next]_vars PROVE LockInv'
  OBVIOUS
<1>1. ASSUME NEW t \in Tickets, Start(t) PROVE LockInv'
  <2>1. FreshId \in Dispatches /\ phase[FreshId] = "new"
    BY <1>1, FreshIdNew DEF Start
  <2>2. CASE Admits(t)
    <3> DEFINE d == FreshId
    <3>1. /\ phase' = [phase EXCEPT ![d] = "starting"] /\ ticket' = [ticket EXCEPT ![d] = t]
          /\ overlapped \subseteq overlapped' /\ lock' = lock
          /\ {e \in In("starting") : ticket[e] = t} # {} => t \in overlapped'
      BY <1>1, <2>2 DEF Start
    <3>2. lock[t] = None
      BY <2>2 DEF Admits
    <3>3. Active' = Active
      BY <2>1, <3>1 DEF Active, In, TypeOK
    <3>4. \A e \in Dispatches : e # d => phase'[e] = phase[e] /\ ticket'[e] = ticket[e]
      BY <2>1, <3>1 DEF TypeOK
    <3>5. phase'[d] = "starting" /\ ticket'[d] = t
      BY <2>1, <3>1 DEF TypeOK
    <3>6. d \notin Active
      BY <2>1 DEF Active, In
    <3>7. \A e \in Dispatches : e # d /\ Pending(e)' /\ ticket'[e] = t => t \in overlapped'
      <4> SUFFICES ASSUME NEW e \in Dispatches, e # d, Pending(e)', ticket'[e] = t
                   PROVE  t \in overlapped'
        OBVIOUS
      <4>1. CASE phase[e] = "starting"
        BY <3>1, <3>4, <4>1 DEF In
      <4>2. CASE e \in Active
        BY <3>1, <3>2, <3>4, <4>2, NoneAssumption, ActiveSubset DEF LockInv
      <4>3. QED
        BY <3>4, <4>1, <4>2 DEF Pending, Active, In
    <3>8. QED
      BY <3>1, <3>2, <3>3, <3>4, <3>5, <3>6, <3>7, <2>1, ActiveSubset DEF LockInv, Pending
  <2>3. CASE ~Admits(t)
    <3>1. /\ phase' = [phase EXCEPT ![FreshId] = "refused"]
          /\ UNCHANGED <<ticket, lock, overlapped>>
      BY <1>1, <2>3 DEF Start
    <3>2. QED
      BY <2>1, <3>1 DEF LockInv, Pending, Active, In, TypeOK
  <2>4. QED
    BY <2>2, <2>3
<1>2. CASE KillAll
  BY <1>2 DEF KillAll, LockInv, Pending, Active, In, ghosts
<1>3. ASSUME NEW d \in Dispatches, Reserve(d) PROVE LockInv'
  <2>1. d \notin Active /\ Pending(d) /\ ticket[d] \in Tickets
    BY <1>3 DEF Reserve, Active, In, Pending, LockInv
  <2>2. Active' = Active \cup {d}
    BY <1>3 DEF Reserve, Active, In, TypeOK
  <2>3. \A e \in Dispatches : Pending(e)' <=> Pending(e)
    BY <1>3 DEF Reserve, Pending, TypeOK
  <2>4. /\ lock' = [lock EXCEPT ![ticket[d]] = d]
        /\ UNCHANGED <<ticket, overlapped>>
    BY <1>3 DEF Reserve, ghosts
  <2>5. \A e \in Active : Pending(e) /\ e \in Dispatches
    BY DEF Active, In, Pending
  <2>6. QED
    BY <2>1, <2>2, <2>3, <2>4, <2>5 DEF LockInv, TypeOK
<1>4. ASSUME NEW d \in Dispatches, SpawnThrows(d) PROVE LockInv'
  BY <1>4 DEF SpawnThrows, LockInv, Pending, Active, In, TypeOK, ghosts
<1>5. ASSUME NEW d \in Dispatches, Timeout(d) \/ Cancel(d) PROVE LockInv'
  BY <1>5 DEF Timeout, Cancel, LockInv, Pending, Active, In, ghosts
<1>6. ASSUME NEW d \in Dispatches, SpawnError(d) PROVE LockInv'
  BY <1>6, FinishLock DEF SpawnError, Active, In, ghosts
<1>7. ASSUME NEW d \in Dispatches, Close(d) PROVE LockInv'
  <2>1. d \in Active /\ UNCHANGED <<ticket, overlapped>>
    BY <1>7 DEF Close, Active, In, ghosts
  <2>2. CASE phase' = [phase EXCEPT ![d] = "verifying"] /\ UNCHANGED lock
    BY <2>1, <2>2 DEF LockInv, Pending, Active, In, TypeOK
  <2>3. CASE Finish(d, IF state[d] = "running" THEN "failed" ELSE state[d])
    BY <2>1, <2>3, FinishLock
  <2>4. QED
    BY <1>7, <2>2, <2>3 DEF Close
<1>8. ASSUME NEW d \in Dispatches, Verified(d) PROVE LockInv'
  <2>1. d \in Active /\ UNCHANGED <<ticket, overlapped>>
    BY <1>8 DEF Verified, Active, In, ghosts
  <2>2. QED
    BY <1>8, <2>1, FinishLock DEF Verified
<1>9. CASE UNCHANGED vars
  BY <1>9 DEF vars, LockInv, Pending, Active, In
<1>10. QED
  BY <1>1, <1>2, <1>3, <1>4, <1>5, <1>6, <1>7, <1>8, <1>9 DEF Next

-----------------------------------------------------------------------------------
(* Counting: the limit only shrinks, except that a start moves into it     *)

LEMMA Shrinks ==
  ASSUME LimitInv, NEW A \in SUBSET Active, NEW S \in SUBSET In("starting"), peak \in Nat
  PROVE  /\ Cardinality(S) <= peak
         /\ Cardinality(A) + Cardinality(S)
              <= MaxActive + (IF peak = 0 THEN 0 ELSE peak - 1)
<1>1. Cardinality(A) <= Cardinality(Active) /\ Cardinality(S) <= Cardinality(In("starting"))
  BY PhasesFinite, ActiveSubset, InSubset, FS_Subset
<1>2. A \subseteq Dispatches /\ S \subseteq Dispatches
  BY ActiveSubset, InSubset
<1>3. /\ Cardinality(A) \in Nat /\ Cardinality(S) \in Nat
      /\ Cardinality(Active) \in Nat /\ Cardinality(In("starting")) \in Nat
  BY <1>2, PhasesFinite, ActiveSubset, InSubset
<1>4. QED
  BY <1>1, <1>3, MaxActiveAssumption DEF LimitInv

LEMMA LimitStep == TypeOK /\ LimitInv /\ [Next]_vars => LimitInv'
<1> SUFFICES ASSUME TypeOK, LimitInv, [Next]_vars PROVE LimitInv'
  OBVIOUS
<1> DEFINE starting == In("starting")
<1>0. /\ IsFiniteSet(Active) /\ IsFiniteSet(starting)
      /\ Cardinality(Active) \in Nat /\ Cardinality(starting) \in Nat /\ peak \in Nat
  BY PhasesFinite, ActiveSubset, InSubset DEF TypeOK
<1>1. ASSUME Active' \subseteq Active, In("starting")' \subseteq In("starting"), UNCHANGED peak
      PROVE  LimitInv'
  <2>1. /\ Cardinality(In("starting")') <= peak
        /\ Cardinality(Active') + Cardinality(In("starting")')
             <= MaxActive + (IF peak = 0 THEN 0 ELSE peak - 1)
    BY <1>0, <1>1, Shrinks
  <2>2. QED
    BY <1>1, <2>1 DEF LimitInv
<1>2. ASSUME NEW t \in Tickets, Start(t) PROVE LimitInv'
  <2>1. FreshId \in Dispatches /\ phase[FreshId] = "new"
    BY <1>2, FreshIdNew DEF Start
  <2>2. CASE Admits(t)
    <3>1. phase' = [phase EXCEPT ![FreshId] = "starting"]
      BY <1>2, <2>2 DEF Start
    <3>2. Active' = Active /\ In("starting")' = In("starting") \cup {FreshId}
      BY <2>1, <3>1 DEF Active, In, TypeOK
    <3>3. FreshId \notin In("starting")
      BY <2>1 DEF In
    <3>4. Cardinality(In("starting")') = Cardinality(In("starting")) + 1
      BY <1>0, <3>2, <3>3, FS_AddElement
    <3>5. Cardinality(Active) <= MaxActive - 1
      BY <1>0, <2>2, MaxActiveAssumption DEF Admits
    <3>6. peak' = IF Cardinality(In("starting")) + 1 > peak
                  THEN Cardinality(In("starting")) + 1 ELSE peak
      BY <1>2, <2>2 DEF Start
    <3>7. Cardinality(Active') = Cardinality(Active)
      BY <3>2
    <3>8. QED
      BY <1>0, <3>4, <3>5, <3>6, <3>7, MaxActiveAssumption DEF LimitInv
  <2>3. CASE ~Admits(t)
    <3>1. phase' = [phase EXCEPT ![FreshId] = "refused"] /\ UNCHANGED peak
      BY <1>2, <2>3 DEF Start
    <3>2. QED
      BY <1>1, <2>1, <3>1 DEF Active, In, TypeOK
  <2>4. QED
    BY <2>2, <2>3
<1>3. ASSUME NEW d \in Dispatches, Reserve(d) PROVE LimitInv'
  <2>1. /\ Active' = Active \cup {d} /\ d \notin Active
        /\ In("starting")' = In("starting") \ {d} /\ d \in In("starting")
        /\ UNCHANGED peak
    BY <1>3 DEF Reserve, Active, In, TypeOK, ghosts
  <2>2. /\ Cardinality(Active') = Cardinality(Active) + 1
        /\ Cardinality(In("starting")') = Cardinality(In("starting")) - 1
    BY <1>0, <2>1, FS_AddElement, FS_RemoveElement
  <2>3. QED
    BY <1>0, <2>1, <2>2, MaxActiveAssumption DEF LimitInv
<1>4. CASE KillAll
  BY <1>1, <1>4 DEF KillAll, Active, In, ghosts
<1>5. ASSUME NEW d \in Dispatches,
             SpawnThrows(d) \/ Timeout(d) \/ Cancel(d) \/ SpawnError(d) \/ Close(d) \/ Verified(d)
      PROVE  LimitInv'
  <2>1. UNCHANGED peak /\ \/ UNCHANGED phase
                          \/ phase' = [phase EXCEPT ![d] = "refused"]
                          \/ phase' = [phase EXCEPT ![d] = "finished"]
                          \/ phase[d] = "active" /\ phase' = [phase EXCEPT ![d] = "verifying"]
    BY <1>5 DEF SpawnThrows, Timeout, Cancel, SpawnError, Close, Verified, Finish, ghosts
  <2>2. QED
    BY <1>1, <2>1 DEF Active, In, TypeOK
<1>6. CASE UNCHANGED vars
  BY <1>1, <1>6 DEF vars, Active, In
<1>7. QED
  BY <1>2, <1>3, <1>4, <1>5, <1>6 DEF Next

LEMMA LockIsEnough == TypeOK /\ LockInv /\ LimitInv => OnlyOverlapsBreakTheLock
<1> SUFFICES ASSUME TypeOK, LockInv, LimitInv PROVE OnlyOverlapsBreakTheLock
  OBVIOUS
<1>1. ASSUME NEW t \in Tickets \ overlapped
      PROVE  ActiveFor(t) = IF lock[t] = None THEN {} ELSE {lock[t]}
  <2>1. \A d \in ActiveFor(t) : d = lock[t] /\ d # None
    BY NoneAssumption, ActiveSubset DEF ActiveFor, LockInv
  <2>2. lock[t] # None => lock[t] \in ActiveFor(t)
    BY DEF ActiveFor, LockInv
  <2>3. QED
    BY <2>1, <2>2
<1>2. QED
  BY <1>1 DEF OnlyOverlapsBreakTheLock, LockInv, LimitInv, ActiveFor

\* One dispatch per ticket and at most MaxActive in all, but for starts that waited
\* for their directory at the same time: for any number of tickets and dispatches.
THEOREM LockAndLimit == Spec => []OnlyOverlapsBreakTheLock
<1>1. TypeOK /\ LockInv /\ LimitInv /\ [Next]_vars => LockInv' /\ LimitInv'
  BY LockStep, LimitStep
<1>2. QED
  BY TypeCorrect, LockInit, <1>1, LockIsEnough, PTL DEF Spec

-----------------------------------------------------------------------------------
(* No dispatch is forgotten                                                *)
(*                                                                         *)
(* The part of EveryDispatchEnds that needs no fairness.                   *)

\* A dispatch has a process exactly while it is active, and one that nobody has
\* killed yet has its timer.
Awaited(d) ==
  /\ child[d] \in {"running", "killed", "unborn"} <=> phase[d] = "active"
  /\ child[d] = "running" => d \in armed
  /\ d \in armed => phase[d] = "active"

AwaitedInv == \A d \in Dispatches : Awaited(d)

\* The events that are still to come to a dispatch.
Remaining(d) ==
  CASE phase[d] = "new" -> 5
    [] phase[d] = "starting" -> 4
    [] phase[d] = "active" -> IF d \in armed THEN 3 ELSE 2
    [] phase[d] = "verifying" -> 1
    [] OTHER -> 0

LEMMA AwaitedInit == Init => AwaitedInv
  BY DEF Init, AwaitedInv, Awaited

LEMMA AwaitedStep == TypeOK /\ AwaitedInv /\ [Next]_vars => AwaitedInv'
<1> SUFFICES ASSUME TypeOK, AwaitedInv, [Next]_vars, NEW e \in Dispatches PROVE Awaited(e)'
  BY DEF AwaitedInv
<1>0. Awaited(e)
  BY DEF AwaitedInv
<1> USE DEF TypeOK, Awaited
<1>1. ASSUME NEW t \in Tickets, Start(t) PROVE Awaited(e)'
  <2>1. FreshId \in Dispatches /\ phase[FreshId] = "new"
    BY <1>1, FreshIdNew DEF Start
  <2>2. QED
    BY <1>0, <1>1, <2>1 DEF Start
<1>2. CASE KillAll
  BY <1>0, <1>2 DEF KillAll, Killed, ghosts
<1>3. ASSUME NEW d \in Dispatches, Reserve(d) \/ SpawnThrows(d) PROVE Awaited(e)'
  BY <1>0, <1>3 DEF Reserve, SpawnThrows, ghosts
<1>4. ASSUME NEW d \in Dispatches, Timeout(d) \/ Cancel(d) PROVE Awaited(e)'
  BY <1>0, <1>4 DEF Timeout, Cancel, Killed, ghosts
<1>5. ASSUME NEW d \in Dispatches, SpawnError(d) \/ Close(d) PROVE Awaited(e)'
  BY <1>0, <1>5 DEF SpawnError, Close, Finish, ghosts
<1>6. ASSUME NEW d \in Dispatches, Verified(d) PROVE Awaited(e)'
  BY <1>0, <1>6 DEF Verified, Finish, ghosts
<1>7. CASE UNCHANGED vars
  BY <1>0, <1>7 DEF vars
<1>8. QED
  BY <1>1, <1>2, <1>3, <1>4, <1>5, <1>6, <1>7 DEF Next

\* No process outlives its record, and none runs unsignalled without a timer: however
\* starts, cancellations, shutdowns and the child's events fall together, the only
\* dispatch with nothing but its child's report to wait for is one that was killed.
THEOREM NoneIsForgotten == Spec => []AwaitedInv
  BY TypeCorrect, AwaitedInit, AwaitedStep, PTL DEF Spec

\* No event gives a dispatch a new lease of life, and each one it waits for is the
\* last of its kind.
LEMMA RemainingShrinks ==
  ASSUME TypeOK, AwaitedInv, [Next]_vars, NEW e \in Dispatches
  PROVE  /\ Remaining(e)' <= Remaining(e)
         /\ \/ Reserve(e) \/ SpawnThrows(e) \/ Timeout(e) \/ SpawnError(e) \/ Close(e) \/ Verified(e)
            => Remaining(e)' < Remaining(e)
<1>0. Awaited(e)
  BY DEF AwaitedInv
<1>01. Remaining(e) \in Nat
  BY DEF Remaining
<1> USE DEF TypeOK, Awaited, Remaining
<1>1. ASSUME NEW t \in Tickets, Start(t) PROVE Remaining(e)' <= Remaining(e)
  <2>1. FreshId \in Dispatches /\ phase[FreshId] = "new"
    BY <1>1, FreshIdNew DEF Start
  <2>2. /\ armed' = armed
        /\ \/ phase' = [phase EXCEPT ![FreshId] = "starting"]
           \/ phase' = [phase EXCEPT ![FreshId] = "refused"]
    BY <1>1 DEF Start
  <2>3. CASE phase'[e] = phase[e]
    <3>1. Remaining(e)' = Remaining(e)
      BY <2>2, <2>3
    <3>2. QED
      BY <1>01, <3>1
  <2>4. CASE phase'[e] # phase[e]
    <3>1. phase[e] = "new" /\ phase'[e] \in {"starting", "refused"}
      BY <2>1, <2>2, <2>4
    <3>2. QED
      BY <3>1
  <2>5. QED
    BY <2>3, <2>4
<1>2. ASSUME KillAll \/ UNCHANGED vars PROVE Remaining(e)' <= Remaining(e)
  <2>1. Remaining(e)' = Remaining(e)
    BY <1>2 DEF KillAll, ghosts, vars
  <2>2. QED
    BY <1>01, <2>1
<1>3. ASSUME NEW d \in Dispatches, Cancel(d) PROVE Remaining(e)' <= Remaining(e)
  <2>1. Remaining(e)' = Remaining(e)
    BY <1>3 DEF Cancel
  <2>2. QED
    BY <1>01, <2>1
<1>4. ASSUME NEW d \in Dispatches, d # e,
             Reserve(d) \/ SpawnThrows(d) \/ Timeout(d) \/ SpawnError(d) \/ Close(d) \/ Verified(d)
      PROVE  Remaining(e)' <= Remaining(e)
  <2>1. Remaining(e)' = Remaining(e)
    BY <1>4 DEF Reserve, SpawnThrows, Timeout, SpawnError, Close, Verified, Finish, ghosts
  <2>2. QED
    BY <1>01, <2>1
<1>5. ASSUME Reserve(e) \/ SpawnThrows(e) PROVE Remaining(e)' < Remaining(e)
  BY <1>5 DEF Reserve, SpawnThrows, ghosts
<1>6. ASSUME Timeout(e) PROVE Remaining(e)' < Remaining(e)
  BY <1>0, <1>6 DEF Timeout, ghosts
<1>7. ASSUME SpawnError(e) \/ Close(e) PROVE Remaining(e)' < Remaining(e)
  BY <1>7 DEF SpawnError, Close, Finish, ghosts
<1>8. ASSUME Verified(e) PROVE Remaining(e)' < Remaining(e)
  BY <1>8 DEF Verified, Finish, ghosts
<1>9. Remaining(e)' \in Nat
  OBVIOUS
<1> HIDE DEF TypeOK, Awaited, Remaining
<1>10. Reserve(e) \/ SpawnThrows(e) \/ Timeout(e) \/ SpawnError(e) \/ Close(e) \/ Verified(e)
         => Remaining(e)' < Remaining(e)
  BY <1>5, <1>6, <1>7, <1>8
<1>11. Remaining(e)' < Remaining(e) => Remaining(e)' <= Remaining(e)
  BY <1>01, <1>9
<1>12. Remaining(e)' <= Remaining(e)
  BY <1>1, <1>2, <1>3, <1>4, <1>10, <1>11 DEF Next
<1>13. QED
  BY <1>10, <1>12

\* A dispatch has at most five events from its start to its outcome: each one that
\* happens is one of those it had left, and nothing that falls between adds to them.
THEOREM DispatchEventsRunOut ==
  Spec => [][\A d \in Dispatches :
               /\ Remaining(d)' <= Remaining(d)
               /\ \/ Reserve(d) \/ SpawnThrows(d) \/ Timeout(d) \/ SpawnError(d) \/ Close(d) \/ Verified(d)
                  => Remaining(d)' < Remaining(d)]_vars
<1> DEFINE Goes(d) ==
             /\ Remaining(d)' <= Remaining(d)
             /\ \/ Reserve(d) \/ SpawnThrows(d) \/ Timeout(d) \/ SpawnError(d) \/ Close(d) \/ Verified(d)
                => Remaining(d)' < Remaining(d)
<1>1. TypeOK /\ AwaitedInv /\ [Next]_vars => [\A d \in Dispatches : Goes(d)]_vars
  BY RemainingShrinks
<1>2. QED
  BY <1>1, TypeCorrect, NoneIsForgotten, PTL DEF Spec
===================================================================================
