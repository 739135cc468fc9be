---------------------------- MODULE FileLockProofs ----------------------------
(***************************************************************************)
(* Theorems about FileLock, for any number of callers and processes.       *)
(***************************************************************************)
EXTENDS FileLock, FiniteSetTheorems, WellFoundedInduction, TLAPS

-------------------------------------------------------------------------------
(* Type correctness *)

LEMMA TokIsToken == TypeOK => \A c \in Callers : Tok(c) \in Tokens
  BY DEF TypeOK, Tok, Tokens

LEMMA TypeInit == Init => TypeOK
<1> SUFFICES ASSUME Init PROVE TypeOK
  OBVIOUS
<1>1. Leftovers \subseteq Tokens
  BY DEF Leftovers, Tokens
<1>2. QED
  BY <1>1, FileLockAssumption DEF Init, TypeOK, Places

LEMMA TypeStep == TypeOK /\ [Next]_vars => TypeOK'
<1> SUFFICES ASSUME TypeOK, [Next]_vars PROVE TypeOK'
  OBVIOUS
<1> USE FileLockAssumption DEF TypeOK
<1>1. ASSUME NEW c \in Callers, Call(c) PROVE TypeOK'
  BY <1>1 DEF Call, Step, files, Places, Claiming
<1>2. ASSUME NEW c \in Callers, Claim(c) PROVE TypeOK'
  <2>1. Tok(c) \in Tokens
    BY TokIsToken
  <2>2. ASSUME ListOwners(c) \/ PassOwner(c) \/ MeetOwner(c) PROVE TypeOK'
    BY <2>2 DEF ListOwners, PassOwner, MeetOwner, Refused, Step, files,
                Places, Claiming, Recovering
  <2>3. ASSUME WriteMarker(c) \/ CreateLock(c) \/ LoseLock(c) PROVE TypeOK'
    BY <2>1, <2>3 DEF WriteMarker, CreateLock, LoseLock, Step, files,
                      Places, Claiming
  <2>4. ASSUME UndoClaim(c) PROVE TypeOK'
    BY <2>4 DEF UndoClaim, Refused, Step, Places, Recovering
  <2>5. ASSUME NextAttempt(c) PROVE TypeOK'
    <3>1. CASE left[c] = 0
      BY <2>5, <3>1 DEF NextAttempt, Step, files, Places
    <3>2. CASE left[c] # 0
      <4>1. left[c] - 1 \in Nat
        BY <3>2
      <4>2. QED
        BY <2>5, <3>2, <4>1 DEF NextAttempt, Step, files, Places, Claiming
    <3>3. QED
      BY <3>1, <3>2
  <2>6. QED
    BY <1>2, <2>2, <2>3, <2>4, <2>5 DEF Claim
<1>3. ASSUME NEW c \in Callers, Recover(c) PROVE TypeOK'
  <2>1. ASSUME InspectAbsent(c) \/ InspectKeep(c) \/ InspectStale(c) PROVE TypeOK'
    BY <2>1 DEF InspectAbsent, InspectKeep, InspectStale, ClaimAgain, Step,
                files, Places, Claiming, Recovering
  <2>2. ASSUME Confirm(c) \/ Confirmed(c) PROVE TypeOK'
    BY <2>2 DEF Confirm, Confirmed, Step, files, Places, Recovering
  <2>3. ASSUME Quarantine(c) PROVE TypeOK'
    <3>1. [by |-> c, call |-> call[c], try |-> left[c], tok |-> lock] \in Quarantines
      BY <2>3 DEF Quarantine, Quarantines
    <3>2. QED
      BY <2>3, <3>1 DEF Quarantine, Step, Places, Recovering
  <2>4. ASSUME RenameAbsent(c) \/ RenameBlocked(c) PROVE TypeOK'
    BY <2>4 DEF RenameAbsent, RenameBlocked, Step, files, Places, Recovering
  <2>5. ASSUME Judge(c) PROVE TypeOK'
    BY <2>5 DEF Judge, Step, Places, Recovering
  <2>6. ASSUME Discard(c) PROVE TypeOK'
    BY <2>6 DEF Discard, ClaimAgain, Step, Places, Claiming, Recovering
  <2>7. ASSUME Restore(c) PROVE TypeOK'
    <3>1. Mine(c) # {} => (CHOOSE q \in Mine(c) : TRUE).tok \in Tokens
      <4>1. Mine(c) # {} => (CHOOSE q \in Mine(c) : TRUE) \in Mine(c)
        OBVIOUS
      <4>2. Mine(c) \subseteq Quarantines
        BY DEF Mine
      <4>3. QED
        BY <4>1, <4>2 DEF Quarantines
    <3>2. QED
      BY <2>7, <3>1 DEF Restore, Step, Places, Recovering
  <2>8. QED
    BY <1>3, <2>1, <2>2, <2>3, <2>4, <2>5, <2>6, <2>7 DEF Recover
<1>4. ASSUME NEW c \in Callers, FinishWork(c) \/ Release(c) PROVE TypeOK'
  <2>1. ASSUME FinishWork(c) PROVE TypeOK'
    BY <2>1 DEF FinishWork, Step, files, Places, Releasing
  <2>2. ASSUME CheckLock(c) \/ Unlink(c) PROVE TypeOK'
    BY <2>2 DEF CheckLock, Unlink, PastPath, Step, files, Places, Releasing
  <2>3. ASSUME DropMarker(c) PROVE TypeOK'
    BY <2>3 DEF DropMarker, Step, Places, Releasing
  <2>4. ASSUME ListQuarantines(c) PROVE TypeOK'
    BY <2>4 DEF ListQuarantines, Step, files, Places, Releasing
  <2>5. ASSUME Sweep(c) PROVE TypeOK'
    <3>1. quar' \subseteq Quarantines
      BY <2>5 DEF Sweep
    <3>2. pc' \in [Callers -> Places]
      BY <2>5 DEF Sweep, Step, Places, Releasing
    <3>3. QED
      BY <2>5, <3>1, <3>2 DEF Sweep
  <2>6. QED
    BY <1>4, <2>1, <2>2, <2>3, <2>4, <2>5 DEF Release
<1>5. ASSUME NEW p \in Procs, Crash(p) PROVE TypeOK'
  BY <1>5 DEF Crash, files, Places
<1>6. CASE UNCHANGED vars
  BY <1>6 DEF vars
<1>7. QED
  BY <1>1, <1>2, <1>3, <1>4, <1>5, <1>6 DEF Next, Run

\* Every variable of the lock keeps its type in every reachable state.
THEOREM TypeCorrect == Spec => []TypeOK
<1>1. Init => TypeOK
  BY TypeInit
<1>2. TypeOK /\ [Next]_vars => TypeOK'
  BY TypeStep
<1>3. QED
  BY <1>1, <1>2, PTL DEF Spec

-------------------------------------------------------------------------------
(* The holder's owner marker *)

LEMMA TokInjective ==
  \A c, d \in Callers : Tok(c) = Tok(d) => c = d
  BY DEF Tok

\* The marker of a caller that still runs is not a dead owner's marker.
LEMMA RunningOwnerSeemsAlive ==
  ASSUME MarkerInv, NEW c \in Callers, pc[c] # "dead"
  PROVE  SeemsAlive(Tok(c))
  BY DEF MarkerInv, SeemsAlive, Owner, Tok

LEMMA MarkerInit == Init => MarkerInv
  BY FileLockAssumption DEF Init, MarkerInv, KeepsMarker

LEMMA MarkerStep == TypeOK /\ MarkerInv /\ [Next]_vars => MarkerInv'
<1> SUFFICES ASSUME TypeOK, MarkerInv, [Next]_vars PROVE MarkerInv'
  OBVIOUS
<1> USE FileLockAssumption
<1>0. \A x \in Callers : pc[x] # "dead" => SeemsAlive(Tok(x))
  BY RunningOwnerSeemsAlive
\* Steps that leave tokens, inspections and the dead alone: it is enough that
\* no marker in use is removed and that nobody acquires a duty without a marker.
<1>1. ASSUME UNCHANGED <<dead, call, insp>>,
             \A x \in Callers : pc'[x] # "dead" <=> pc[x] # "dead",
             \A x \in Callers : KeepsMarker(x)' => Tok(x) \in marker'
      PROVE  MarkerInv'
  BY <1>1 DEF MarkerInv, SeemsAlive, Owner, Tok
<1>2. ASSUME NEW c \in Callers, Call(c) PROVE MarkerInv'
  <2>1. \A x \in Callers : KeepsMarker(x)' => x # c /\ KeepsMarker(x) /\ Tok(x)' = Tok(x)
    BY <1>2 DEF Call, Step, KeepsMarker, TypeOK, Tok
  <2>2. QED
    BY <1>2, <2>1 DEF Call, Step, files, MarkerInv, TypeOK, SeemsAlive, Owner
<1>3. ASSUME NEW c \in Callers, ListOwners(c) \/ MeetOwner(c) \/ LoseLock(c) \/ CreateLock(c)
      PROVE MarkerInv'
  <2>1. \A x \in Callers : KeepsMarker(x)' => KeepsMarker(x)
    BY <1>3 DEF ListOwners, MeetOwner, LoseLock, CreateLock, Refused, Step, KeepsMarker, TypeOK
  <2>2. QED
    BY <1>1, <1>3, <2>1 DEF ListOwners, MeetOwner, LoseLock, CreateLock, Refused, Step,
                            files, MarkerInv, TypeOK, Tok
<1>4. ASSUME NEW c \in Callers, PassOwner(c) PROVE MarkerInv'
  <2>1. PICK m \in scan[c] : /\ m \notin marker \/ ~SeemsAlive(m)
                             /\ marker' = marker \ {m}
    BY <1>4 DEF PassOwner
  <2>2. \A x \in Callers : KeepsMarker(x) => Tok(x) # m
    BY <1>0, <2>1 DEF MarkerInv, KeepsMarker
  <2>3. QED
    BY <1>1, <1>4, <2>1, <2>2 DEF PassOwner, KeepsMarker, MarkerInv, Tok
<1>5. ASSUME NEW c \in Callers, WriteMarker(c) PROVE MarkerInv'
  <2>1. \A x \in Callers : KeepsMarker(x)' => x = c \/ KeepsMarker(x)
    BY <1>5 DEF WriteMarker, Step, KeepsMarker, TypeOK
  <2>2. QED
    BY <1>1, <1>5, <2>1 DEF WriteMarker, Step, MarkerInv, TypeOK, Tok
<1>6. ASSUME NEW c \in Callers, UndoClaim(c) \/ DropMarker(c) PROVE MarkerInv'
  <2>1. \A x \in Callers : KeepsMarker(x)' => KeepsMarker(x) /\ x # c
    BY <1>6 DEF UndoClaim, DropMarker, Refused, Step, KeepsMarker, TypeOK
  <2>2. \A x \in Callers : x # c => Tok(x) # Tok(c)
    BY TokInjective
  <2>3. QED
    BY <1>1, <1>6, <2>1, <2>2 DEF UndoClaim, DropMarker, Refused, Step, MarkerInv, TypeOK, Tok
<1>7. ASSUME NEW c \in Callers,
             \/ InspectAbsent(c) \/ InspectKeep(c) \/ Confirmed(c) \/ Quarantine(c)
             \/ RenameAbsent(c) \/ Discard(c) \/ Restore(c)
      PROVE MarkerInv'
  <2>1. \A x \in Callers : KeepsMarker(x)' => KeepsMarker(x)
    BY <1>7 DEF InspectAbsent, InspectKeep, Confirmed, Quarantine, RenameAbsent, Discard,
                Restore, ClaimAgain, Step, KeepsMarker, TypeOK
  <2>2. UNCHANGED <<dead, call, insp, marker>>
    BY <1>7 DEF InspectAbsent, InspectKeep, Confirmed, Quarantine, RenameAbsent, Discard,
                Restore, files
  <2>3. \A x \in Callers : pc'[x] # "dead" <=> pc[x] # "dead"
    BY <1>7 DEF InspectAbsent, InspectKeep, Confirmed, Quarantine, RenameAbsent, Discard,
                Restore, ClaimAgain, Step, TypeOK
  <2>4. QED
    BY <1>1, <2>1, <2>2, <2>3 DEF MarkerInv, Tok
<1>8. ASSUME NEW c \in Callers, InspectStale(c) PROVE MarkerInv'
  <2>1. \A x \in Callers : KeepsMarker(x)' => KeepsMarker(x) /\ Tok(x) # lock
    BY <1>0, <1>8 DEF InspectStale, Step, KeepsMarker, TypeOK
  <2>2. QED
    BY <1>8, <2>1 DEF InspectStale, Step, MarkerInv, TypeOK, Tok, SeemsAlive, Owner
<1>9. ASSUME NEW c \in Callers, Confirm(c) PROVE MarkerInv'
  <2>1. \A x \in Callers : KeepsMarker(x)' => KeepsMarker(x) /\ pc[x] # "dead"
    BY <1>9 DEF Confirm, Step, KeepsMarker, TypeOK
  <2>2. \A x \in Callers : KeepsMarker(x)' /\ lock = insp[c] => Tok(x) # lock
    <3>1. lock = insp[c] => lock = NoTok \/ ~SeemsAlive(lock)
      BY DEF MarkerInv
    <3>2. QED
      BY <1>0, <2>1, <3>1, TokIsToken
  <2>3. \A x \in Callers : KeepsMarker(x)' => Tok(x) \in marker'
    BY <1>9, <2>1, <2>2 DEF Confirm, MarkerInv
  <2>4. QED
    BY <1>1, <1>9, <2>3 DEF Confirm, Step, TypeOK, Tok
<1>10. ASSUME NEW c \in Callers, RenameBlocked(c) \/ NextAttempt(c) PROVE MarkerInv'
  <2>1. \A x \in Callers : KeepsMarker(x)' => KeepsMarker(x)
    BY <1>10 DEF RenameBlocked, NextAttempt, Step, KeepsMarker, TypeOK
  <2>2. UNCHANGED <<dead, call, marker>>
    BY <1>10 DEF RenameBlocked, NextAttempt, files
  <2>3. \A x \in Callers : /\ pc'[x] # "dead" <=> pc[x] # "dead"
                           /\ insp'[x] \in {insp[x], NoTok}
    BY <1>10 DEF RenameBlocked, NextAttempt, Step, TypeOK
  <2>4. QED
    BY <2>1, <2>2, <2>3 DEF MarkerInv, Tok, SeemsAlive, Owner
<1>11. ASSUME NEW c \in Callers, Judge(c) PROVE MarkerInv'
  <2>1. \A x \in Callers : KeepsMarker(x)' => KeepsMarker(x) /\ pc[x] # "dead"
    BY <1>11 DEF Judge, Step, KeepsMarker, TypeOK
  <2>2. \A t \in marker : SeemsAlive(t) => t \in marker'
    BY <1>11 DEF Judge
  <2>3. \A x \in Callers : KeepsMarker(x)' => Tok(x) \in marker'
    BY <1>0, <2>1, <2>2 DEF MarkerInv
  <2>4. \A x \in Callers : pc'[x] # "dead" <=> pc[x] # "dead"
    BY <1>11 DEF Judge, Step, TypeOK
  <2>5. QED
    BY <1>1, <1>11, <2>3, <2>4 DEF Judge, Tok
<1>12. ASSUME NEW c \in Callers, FinishWork(c) PROVE MarkerInv'
  <2>1. \A x \in Callers : KeepsMarker(x)' => KeepsMarker(x)
    BY <1>12 DEF FinishWork, Step, KeepsMarker, TypeOK
  <2>2. \A x \in Callers : /\ pc'[x] # "dead" <=> pc[x] # "dead"
                           /\ insp'[x] \in {insp[x], NoTok}
    BY <1>12 DEF FinishWork, Step, TypeOK
  <2>3. QED
    BY <1>12, <2>1, <2>2 DEF FinishWork, files, MarkerInv, Tok, SeemsAlive, Owner
<1>13. ASSUME NEW c \in Callers, CheckLock(c) \/ Unlink(c) PROVE MarkerInv'
  <2>1. \A x \in Callers : KeepsMarker(x)' => KeepsMarker(x)
    BY <1>13 DEF CheckLock, Unlink, PastPath, Step, KeepsMarker, TypeOK
  <2>2. QED
    BY <1>1, <1>13, <2>1 DEF CheckLock, Unlink, PastPath, Step, files, MarkerInv, TypeOK, Tok
<1>14. ASSUME NEW c \in Callers, ListQuarantines(c) \/ Sweep(c) PROVE MarkerInv'
  <2>1. \A x \in Callers : KeepsMarker(x)' => KeepsMarker(x)
    BY <1>14 DEF ListQuarantines, Sweep, Step, KeepsMarker, TypeOK
  <2>2. QED
    BY <1>1, <1>14, <2>1 DEF ListQuarantines, Sweep, Step, files, MarkerInv, TypeOK, Tok
<1>15. ASSUME NEW p \in Procs, Crash(p) PROVE MarkerInv'
  <2>1. \A x \in Callers : KeepsMarker(x)' => KeepsMarker(x)
    BY <1>15 DEF Crash, KeepsMarker, TypeOK
  <2>2. \A x \in Callers : pc'[x] # "dead" <=> ProcOf[x] \notin dead'
    BY <1>15 DEF Crash, MarkerInv, TypeOK
  <2>3. QED
    BY <1>15, <2>1, <2>2 DEF Crash, files, MarkerInv, Tok, SeemsAlive, Owner
<1>16. CASE UNCHANGED vars
  BY <1>16 DEF vars, MarkerInv, KeepsMarker, Tok, SeemsAlive, Owner
<1>17. QED
  BY <1>2, <1>3, <1>4, <1>5, <1>6, <1>7, <1>8, <1>9, <1>10, <1>11, <1>12, <1>13,
     <1>14, <1>15, <1>16 DEF Next, Run, Claim, Recover, Release

\* Whatever the others claim, reclaim and release, and whichever processes die,
\* a caller in its section has its owner marker on disk.
THEOREM HolderMarked == Spec => []HolderIsMarked
<1>1. Init => TypeOK /\ MarkerInv
  BY TypeInit, MarkerInit
<1>2. TypeOK /\ MarkerInv /\ [Next]_vars => (TypeOK /\ MarkerInv)'
  BY TypeStep, MarkerStep
<1>3. MarkerInv => HolderIsMarked
  BY DEF MarkerInv, KeepsMarker, HolderIsMarked, InSection
<1>4. QED
  BY <1>1, <1>2, <1>3, PTL DEF Spec

-------------------------------------------------------------------------------
(* Mutual exclusion, for as long as no process dies.  A record is only ever  *)
(* taken for stale after a death, so the lock path alone decides who enters. *)

CalmRun == Departed = {} /\ MaxCrashes = 0

LEMMA CalmInit == CalmRun /\ Init => CalmInv
  BY FileLockAssumption DEF CalmRun, Init, CalmInv, Leftovers, Holds

LEMMA EveryoneSeemsAlive ==
  ASSUME CalmInv, NEW t \in Tokens PROVE SeemsAlive(t)
  BY DEF CalmInv, SeemsAlive

LEMMA NobodyDies ==
  ASSUME CalmRun, CalmInv, NEW p \in Procs PROVE ~Crash(p)
<1>1. Cardinality(dead \ Departed) = 0
  BY FS_EmptySet DEF CalmInv
<1>2. QED
  BY <1>1 DEF Crash, CalmRun

\* Two holders would both be named by the one lock record.
LEMMA OneHolder ==
  ASSUME TypeOK, CalmInv, NEW c \in Callers, NEW d \in Callers, Holds(c), Holds(d)
  PROVE  c = d
  BY TokInjective DEF CalmInv

LEMMA HolderFillsPath ==
  ASSUME TypeOK, CalmInv, NEW c \in Callers, Holds(c) PROVE lock # NoTok
  BY FileLockAssumption, TokIsToken DEF CalmInv

LEMMA CalmStep == CalmRun /\ TypeOK /\ CalmInv /\ [Next]_vars => CalmInv'
<1> SUFFICES ASSUME CalmRun, TypeOK, CalmInv, [Next]_vars PROVE CalmInv'
  OBVIOUS
<1> USE FileLockAssumption
\* Steps that leave the files' owners alone: nobody starts or stops holding.
<1>1. ASSUME UNCHANGED <<dead, quar, lock, call>>,
             \A x \in Callers : /\ Holds(x)' <=> Holds(x)
                                /\ pc'[x] = "unlink" => ~again'[x]
                                /\ pc'[x] \notin {"confirm", "relist", "revet", "rename",
                                                  "judge", "discard", "restore", "dead"}
      PROVE  CalmInv'
  BY <1>1 DEF CalmInv, Tok
<1>2. ASSUME NEW c \in Callers, Call(c) PROVE CalmInv'
  <2>1. \A x \in Callers : Holds(x)' <=> Holds(x)
    BY <1>2 DEF Call, Step, Holds, TypeOK
  <2>2. \A x \in Callers : Holds(x) => Tok(x)' = Tok(x)
    BY <1>2 DEF Call, Step, Holds, TypeOK, Tok
  <2>3. QED
    BY <1>2, <2>1, <2>2 DEF Call, Step, files, CalmInv, TypeOK
<1>3. ASSUME NEW c \in Callers,
             \/ ListOwners(c) \/ PassOwner(c) \/ MeetOwner(c) \/ WriteMarker(c)
             \/ LoseLock(c) \/ UndoClaim(c) \/ NextAttempt(c)
      PROVE CalmInv'
  <2>1. pc[c] \in Claiming \cup {"retry"} /\ pc'[c] \in Claiming \cup {"inspect", "retry", "idle"}
    BY <1>3 DEF CalmInv, ListOwners, PassOwner, MeetOwner, WriteMarker, LoseLock, UndoClaim,
                NextAttempt, Refused, Step, TypeOK, Claiming
  <2>2. \A x \in Callers : x # c => pc'[x] = pc[x] /\ again'[x] = again[x]
    BY <1>3 DEF ListOwners, PassOwner, MeetOwner, WriteMarker, LoseLock, UndoClaim,
                NextAttempt, Refused, Step, TypeOK
  <2>3. UNCHANGED <<dead, quar, lock, call>>
    BY <1>3 DEF ListOwners, PassOwner, MeetOwner, WriteMarker, LoseLock, UndoClaim,
                NextAttempt, files
  <2>4. QED
    BY <1>1, <2>1, <2>2, <2>3 DEF Holds, CalmInv, Claiming
<1>4. ASSUME NEW c \in Callers, CreateLock(c) PROVE CalmInv'
  <2>1. \A x \in Callers : ~Holds(x)
    BY <1>4, HolderFillsPath DEF CreateLock
  <2>2. \A x \in Callers : Holds(x)' <=> x = c
    BY <1>4, <2>1 DEF CreateLock, Step, Holds, TypeOK
  <2>3. QED
    BY <1>4, <2>2 DEF CreateLock, Step, CalmInv, TypeOK, Tok
<1>5. ASSUME NEW c \in Callers, Recover(c) PROVE CalmInv'
  <2>1. ~InspectStale(c)
    BY EveryoneSeemsAlive DEF InspectStale, TypeOK
  <2>2. InspectAbsent(c) \/ InspectKeep(c)
    BY <1>5, <2>1 DEF Recover, CalmInv, Confirm, Confirmed, Quarantine, RenameAbsent,
                      RenameBlocked, Judge, Discard, Restore, ClaimAgain, Step
  <2>3. \A x \in Callers : /\ Holds(x)' <=> Holds(x)
                           /\ pc'[x] \in {pc[x], "claim", "retry"}
                           /\ pc'[x] = "unlink" => again'[x] = again[x]
    BY <2>2 DEF InspectAbsent, InspectKeep, ClaimAgain, Step, Holds, TypeOK
  <2>4. UNCHANGED <<dead, quar, lock, call>>
    BY <2>2 DEF InspectAbsent, InspectKeep, files
  <2>5. QED
    BY <1>1, <2>3, <2>4 DEF CalmInv
<1>6. ASSUME NEW c \in Callers, FinishWork(c) PROVE CalmInv'
  BY <1>1, <1>6 DEF FinishWork, Step, files, CalmInv, Holds, TypeOK
<1>7. ASSUME NEW c \in Callers, CheckLock(c) PROVE CalmInv'
  <2>1. lock = Tok(c) => Holds(c)
    BY <1>7, TokInjective, TokIsToken DEF CalmInv
  <2>2. again[c] => lock # Tok(c)
    BY <1>7, <2>1 DEF CheckLock, Step, Holds
  <2>3. ~again[c] => lock = Tok(c)
    BY <1>7 DEF CheckLock, Step, Holds, CalmInv
  <2>4. QED
    BY <1>1, <1>7, <2>2, <2>3 DEF CheckLock, PastPath, Step, files, CalmInv, Holds, TypeOK
<1>8. ASSUME NEW c \in Callers, Unlink(c) PROVE CalmInv'
  <2>1. Holds(c)
    BY <1>8 DEF Unlink, Step, Holds, CalmInv
  <2>2. \A x \in Callers : Holds(x) => x = c
    BY <2>1, OneHolder
  <2>3. \A x \in Callers : ~Holds(x)'
    BY <1>8, <2>2 DEF Unlink, PastPath, Step, Holds, TypeOK
  <2>4. QED
    BY <1>8, <2>3 DEF Unlink, PastPath, Step, CalmInv, TypeOK
<1>9. ASSUME NEW c \in Callers, DropMarker(c) \/ ListQuarantines(c) \/ Sweep(c) PROVE CalmInv'
  <2>1. quar' = {}
    BY <1>9 DEF DropMarker, ListQuarantines, Sweep, files, CalmInv
  <2>2. \A x \in Callers : /\ Holds(x)' <=> Holds(x)
                           /\ pc'[x] = "unlink" => ~again'[x]
                           /\ pc'[x] \in {pc[x], "list", "sweep", "idle", "check"}
    BY <1>9 DEF DropMarker, ListQuarantines, Sweep, Step, CalmInv, Holds, TypeOK
  <2>3. QED
    BY <1>1, <1>9, <2>1, <2>2 DEF DropMarker, ListQuarantines, Sweep, files, CalmInv
<1>10. CASE UNCHANGED vars
  BY <1>10 DEF vars, CalmInv, Holds, Tok
<1>11. QED
  BY <1>2, <1>3, <1>4, <1>5, <1>6, <1>7, <1>8, <1>9, <1>10, NobodyDies
     DEF Next, Run, Claim, Release

\* While no process dies, however many callers contend and however their claims,
\* undone claims and two-pass releases interleave, one caller runs `work`.
THEOREM CalmExclusion == CalmRun /\ Spec => []MutualExclusion
<1>1. CalmRun /\ Init => TypeOK /\ CalmInv
  BY TypeInit, CalmInit
<1>2. CalmRun /\ TypeOK /\ CalmInv /\ [Next]_vars => (TypeOK /\ CalmInv)'
  BY TypeStep, CalmStep
<1>3. TypeOK /\ CalmInv => MutualExclusion
  BY OneHolder DEF MutualExclusion, InSection, Holds
<1>4. CalmRun => []CalmRun
  <2>1. CalmRun => CalmRun'
    BY DEF CalmRun
  <2>2. QED
    BY <2>1, PTL
<1>5. QED
  BY <1>1, <1>2, <1>3, <1>4, PTL DEF Spec

\* A step implements the abstract lock if a record is created only while nobody is
\* inside and at most one caller is: creating the record is Acquire, the end of
\* `work` or the death of the holder's process is Leave, every other operation is a
\* stutter.
LEMMA LockStep ==
  ASSUME TypeOK, MutualExclusion, [Next]_vars,
         \A c, x \in Callers : CreateLock(c) => ~InSection(x)
  PROVE  \/ Atomic!Next
         \/ UNCHANGED {c \in Callers : InSection(c)}
<1> DEFINE holders == {c \in Callers : InSection(c)}
<1>1. ASSUME NEW c \in Callers, CreateLock(c) PROVE Atomic!Next
  <2>1. holders = {}
    BY <1>1
  <2>2. holders' = {c}
    BY <1>1, <2>1 DEF CreateLock, Step, InSection, TypeOK
  <2>3. QED
    BY <2>1, <2>2 DEF Atomic!Next, Atomic!Acquire
<1>2. ASSUME NEW c \in Callers, FinishWork(c) PROVE Atomic!Next
  <2>1. c \in holders /\ holders' = holders \ {c}
    BY <1>2 DEF FinishWork, Step, InSection, TypeOK
  <2>2. QED
    BY <2>1 DEF Atomic!Next, Atomic!Leave
<1>3. ASSUME \A x \in Callers : InSection(x)' <=> InSection(x)
      PROVE  holders' = holders
  BY <1>3
<1>4. ASSUME NEW c \in Callers,
             \/ Call(c) \/ ListOwners(c) \/ PassOwner(c) \/ MeetOwner(c) \/ WriteMarker(c)
             \/ LoseLock(c) \/ UndoClaim(c) \/ NextAttempt(c)
      PROVE  holders' = holders
  BY <1>3, <1>4 DEF Call, ListOwners, PassOwner, MeetOwner, WriteMarker, LoseLock,
                    UndoClaim, NextAttempt, Refused, Step, InSection, TypeOK
<1>5. ASSUME NEW c \in Callers, Recover(c) PROVE holders' = holders
  BY <1>3, <1>5 DEF Recover, InspectAbsent, InspectKeep, InspectStale, Confirm, Confirmed,
                    Quarantine, RenameAbsent, RenameBlocked, Judge, Discard, Restore,
                    ClaimAgain, Step, InSection, TypeOK
<1>6. ASSUME NEW c \in Callers, Release(c) PROVE holders' = holders
  BY <1>3, <1>6 DEF Release, CheckLock, Unlink, DropMarker, ListQuarantines, Sweep,
                    PastPath, Step, InSection, TypeOK
<1>7. ASSUME NEW p \in Procs, Crash(p) PROVE Atomic!Next \/ holders' = holders
  <2>1. holders' = {x \in holders : ProcOf[x] # p}
    BY <1>7 DEF Crash, InSection
  <2>2. CASE \E c \in holders : ProcOf[c] = p
    <3>1. PICK c \in holders : ProcOf[c] = p
      BY <2>2
    <3>2. holders = {c}
      BY <3>1 DEF MutualExclusion
    <3>3. holders' = holders \ {c}
      BY <2>1, <3>1, <3>2
    <3>4. QED
      BY <3>1, <3>3 DEF Atomic!Next, Atomic!Leave
  <2>3. CASE ~\E c \in holders : ProcOf[c] = p
    BY <2>1, <2>3
  <2>4. QED
    BY <2>2, <2>3
<1>8. CASE UNCHANGED vars
  BY <1>3, <1>8 DEF vars, InSection
<1>9. QED
  BY <1>1, <1>2, <1>4, <1>5, <1>6, <1>7, <1>8 DEF Next, Run, Claim

\* And the files then implement the abstract lock.
THEOREM CalmRefinement == CalmRun /\ Spec => ImplementsAtomicLock
<1> DEFINE holders == {c \in Callers : InSection(c)}
<1>1. CalmRun /\ Init => TypeOK /\ CalmInv
  BY TypeInit, CalmInit
<1>2. CalmRun /\ TypeOK /\ CalmInv /\ [Next]_vars => (TypeOK /\ CalmInv)'
  BY TypeStep, CalmStep
<1>3. CalmRun /\ Init => Atomic!Init
  BY DEF Init, Atomic!Init, InSection
<1>4. CalmRun /\ TypeOK /\ CalmInv /\ [Next]_vars => [Atomic!Next]_holders
  <2> SUFFICES ASSUME CalmRun, TypeOK, CalmInv, [Next]_vars
               PROVE  Atomic!Next \/ UNCHANGED holders
    OBVIOUS
  <2>1. MutualExclusion
    BY OneHolder DEF MutualExclusion, InSection, Holds
  <2>2. \A c, x \in Callers : CreateLock(c) => ~InSection(x)
    BY HolderFillsPath DEF CreateLock, Holds, InSection
  <2>3. QED
    BY <2>1, <2>2, LockStep
<1>5. CalmRun => []CalmRun
  <2>1. CalmRun => CalmRun'
    BY DEF CalmRun
  <2>2. QED
    BY <2>1, PTL
<1>6. QED
  BY <1>1, <1>2, <1>3, <1>4, <1>5, PTL DEF Spec, ImplementsAtomicLock, Atomic!Spec

-------------------------------------------------------------------------------
(* Two callers that run and any number that have departed: mutual exclusion  *)
(* with deaths at any point, the reclaims that follow them, and the record   *)
(* that a reclaimer moves away from its live owner and puts back.            *)

\* At most two callers belong to processes that run when the program starts.
\* The hypothesis cannot be dropped: file_lock_three has a third caller.
TwoLive ==
  \A c, d, e \in Callers :
    {ProcOf[c], ProcOf[d], ProcOf[e]} \cap Departed = {} => c = d \/ c = e \/ d = e

LEMMA QuarantineFields ==
  ASSUME TypeOK, NEW q \in quar
  PROVE  /\ q.by \in Callers /\ q.call \in Nat /\ q.try \in Nat
         /\ q.tok \in Tokens /\ q.tok[1] \in Callers
  BY DEF TypeOK, Quarantines, Tokens

LEMMA TokFields ==
  ASSUME TypeOK, NEW c \in Callers
  PROVE  Tok(c) \in Tokens /\ Tok(c) # NoTok /\ Tok(c)[1] = c
  BY TokIsToken, FileLockAssumption DEF Tok

\* A step of one caller leaves the other callers' variables alone.
LEMMA OthersUntouched ==
  ASSUME TypeOK, NEW c \in Callers, Call(c) \/ Run(c),
         NEW x \in Callers, x # c
  PROVE  /\ pc'[x] = pc[x] /\ again'[x] = again[x] /\ call'[x] = call[x]
         /\ left'[x] = left[x] /\ sweep'[x] = sweep[x] /\ insp'[x] = insp[x]
<1>1. CASE Call(c)
  BY <1>1 DEF Call, Step, TypeOK
<1>2. CASE Claim(c)
  BY <1>2 DEF Claim, ListOwners, PassOwner, MeetOwner, WriteMarker, CreateLock, LoseLock,
              UndoClaim, NextAttempt, Step, TypeOK
<1>3. CASE Recover(c)
  BY <1>3 DEF Recover, InspectAbsent, InspectKeep, InspectStale, Confirm, Confirmed,
              Quarantine, RenameAbsent, RenameBlocked, Judge, Discard, Restore, ClaimAgain,
              Step, TypeOK
<1>4. CASE FinishWork(c) \/ Release(c)
  BY <1>4 DEF FinishWork, Release, CheckLock, Unlink, DropMarker, ListQuarantines, Sweep,
              Step, TypeOK
<1>5. QED
  BY <1>1, <1>2, <1>3, <1>4 DEF Run

\* Only callers that run take steps, and a step of theirs kills nobody.
LEMMA StepsAreOfTheLiving ==
  ASSUME TypeOK, NEW c \in Callers, Call(c) \/ Run(c)
  PROVE  Alive(c) /\ Alive(c)' /\ UNCHANGED dead
<1>1. CASE Call(c)
  BY <1>1 DEF Call, Step, TypeOK, Alive
<1>2. CASE Claim(c)
  BY <1>2 DEF Claim, ListOwners, PassOwner, MeetOwner, WriteMarker, CreateLock, LoseLock,
              UndoClaim, NextAttempt, Refused, Step, TypeOK, Alive
<1>3. CASE Recover(c)
  BY <1>3 DEF Recover, InspectAbsent, InspectKeep, InspectStale, Confirm, Confirmed,
              Quarantine, RenameAbsent, RenameBlocked, Judge, Discard, Restore, ClaimAgain,
              Step, TypeOK, Alive
<1>4. CASE FinishWork(c) \/ Release(c)
  BY <1>4 DEF FinishWork, Release, CheckLock, Unlink, DropMarker, ListQuarantines, Sweep,
              PastPath, Step, TypeOK, Alive
<1>5. QED
  BY <1>1, <1>2, <1>3, <1>4 DEF Run

LEMMA AliveShrinks ==
  ASSUME TypeOK, [Next]_vars, NEW x \in Callers, Alive(x)'
  PROVE  Alive(x)
<1>1. ASSUME NEW c \in Callers, Call(c) \/ Run(c) PROVE Alive(x)
  BY <1>1, OthersUntouched, StepsAreOfTheLiving DEF Alive
<1>2. ASSUME NEW p \in Procs, Crash(p) PROVE Alive(x)
  BY <1>2 DEF Crash, Alive, TypeOK
<1>3. CASE UNCHANGED vars
  BY <1>3 DEF vars, Alive
<1>4. QED
  BY <1>1, <1>2, <1>3 DEF Next

\* While another caller runs that is not about to judge a moved record, a holder's
\* record is at the lock path.
LEMMA HolderFillsPathInPair ==
  ASSUME PairInv, NEW x \in Callers, Holds(x),
         NEW c \in Callers, c # x, Alive(c), ~MayPutBack(c)
  PROVE  lock = Tok(x)
  BY DEF PairInv, HolderAtPath

LEMMA AtMostOneHolds ==
  ASSUME TypeOK, PairInv, NEW c \in Callers, NEW d \in Callers, Holds(c), Holds(d)
  PROVE  c = d
<1>1. /\ Alive(c) /\ ~MayPutBack(c)
      /\ Alive(d) /\ ~MayPutBack(d)
  BY DEF Holds, Alive, MayPutBack
<1>2. QED
  BY <1>1, HolderFillsPathInPair, TokInjective

LEMMA PairInit == TwoLive /\ Init => PairInv
<1> SUFFICES ASSUME TwoLive, Init PROVE PairInv
  OBVIOUS
<1>1. AtMostTwoAlive
  BY DEF AtMostTwoAlive, Alive, Init, TwoLive
<1>2. OneQuarantineEach /\ QuarantineIsSwept
  BY DEF OneQuarantineEach, QuarantineIsSwept, IsSwept, Mine, Init
<1>3. \A c \in Callers : HolderAtPath(c) /\ PutBackStays(c)
  <2>1. \A c \in Callers : pc[c] \in {"idle", "dead"}
    BY DEF Init
  <2>2. \A c, d \in Callers : ~Holds(c) /\ ~Reclaiming(d) /\ pc[c] # "unlink"
    BY <2>1 DEF Holds, Reclaiming
  <2>3. QED
    BY <2>2 DEF HolderAtPath, PutBackStays
<1>4. \A c \in Callers : PathIsCurrent(c) /\ MarkerIsCurrent(c)
  <2>1. \A t \in Leftovers, c \in Callers : Alive(c) => t[1] # c
    BY DEF Leftovers, Alive, Init
  <2>2. QED
    BY <2>1 DEF PathIsCurrent, MarkerIsCurrent, Init
<1>5. QED
  BY <1>1, <1>2, <1>3, <1>4 DEF PairInv

\* Places where a caller neither holds, releases, nor has a moved record to judge.
Outside == Claiming \cup {"inspect", "confirm", "relist", "revet", "rename",
                          "retry", "idle"}

\* A step between two such places that creates or moves no record.
LEMMA OutsideStep ==
  ASSUME TypeOK, MarkerInv, PairInv, AtMostTwoAlive',
         NEW c \in Callers, Call(c) \/ Run(c),
         UNCHANGED <<lock, quar, sweep>>, call'[c] = call[c],
         pc[c] \in Outside, pc'[c] \in Outside,
         left'[c] \in Nat, left'[c] <= left[c],
         pc'[c] \in {"retry", "idle"} \/ left'[c] < left[c] \/ (Mine(c) = {} /\ left'[c] = left[c]),
         Reclaiming(c)' => Reclaiming(c) \/ ~SeemsAlive(lock),
         \A m \in marker' : m \in marker \/ m = Tok(c),
         Tok(c) \in marker' => KeepsMarker(c)'
  PROVE  PairInv'
<1> USE FileLockAssumption
<1>1. \A x \in Callers : x # c =>
        /\ pc'[x] = pc[x] /\ again'[x] = again[x] /\ call'[x] = call[x]
        /\ left'[x] = left[x]
  BY OthersUntouched
<1>2. \A x \in Callers : /\ call'[x] = call[x] /\ Tok(x)' = Tok(x)
                         /\ Holds(x)' <=> Holds(x)
                         /\ FirstSweep(x)' <=> FirstSweep(x)
                         /\ x # c => (KeepsMarker(x)' <=> KeepsMarker(x))
                         /\ Alive(x)' <=> Alive(x)
                         /\ MayPutBack(x)' <=> MayPutBack(x)
                         /\ MayPutBack(x) => Mine(x)' = Mine(x)
                         /\ pc[x] = "sweep" <=> pc'[x] = "sweep"
  BY <1>1 DEF Tok, Holds, FirstSweep, KeepsMarker, Alive, MayPutBack, Mine, Outside, Claiming
<1>3. OneQuarantineEach'
  <2>1. \A q \in quar : q.by = c /\ q.call = call[c] =>
          q.try >= left'[c] /\ (left'[c] < left[c] => q.try # left'[c])
    BY QuarantineFields DEF PairInv, OneQuarantineEach, TypeOK
  <2>2. pc'[c] \in {"retry", "idle"} \/ Mine(c)' = {}
    BY <2>1 DEF Mine
  <2>3. \A x \in Callers : x # c => Mine(x)' = Mine(x)
    BY <1>1 DEF Mine
  <2>4. \A q \in quar : q.call <= call'[q.by] /\ (q.call = call'[q.by] => q.try >= left'[q.by])
    BY <1>1, <1>2, <2>1, QuarantineFields DEF PairInv, OneQuarantineEach
  <2>5. \A x \in Callers : pc'[x] \in Claiming \cup {"inspect"} \/ Reclaiming(x)' => Mine(x)' = {}
    BY <1>1, <2>2, <2>3 DEF PairInv, OneQuarantineEach, Reclaiming, Claiming
  <2>6. QED
    BY <2>4, <2>5 DEF PairInv, OneQuarantineEach
<1>4. QuarantineIsSwept'
  BY <1>2, QuarantineFields DEF PairInv, QuarantineIsSwept, IsSwept
<1>5. ASSUME NEW x \in Callers PROVE HolderAtPath(x)'
  BY <1>2 DEF PairInv, HolderAtPath
<1>6. ASSUME NEW x \in Callers PROVE PathIsCurrent(x)'
  <2>1. x # c => pc'[x] = pc[x] /\ again'[x] = again[x]
    BY <1>1
  <2>2. x = c => pc[x] \notin {"check", "unlink"}
    BY DEF Outside, Claiming
  <2>3. QED
    BY <1>2, <2>1, <2>2 DEF PairInv, PathIsCurrent
<1>7. ASSUME NEW x \in Callers PROVE PutBackStays(x)'
  <2>1. ASSUME Alive(x), ~Holds(x), lock = Tok(x), NEW d \in Callers, d # x, Reclaiming(d)'
        PROVE  FALSE
    <3>1. ~Reclaiming(d)
      BY <2>1 DEF PairInv, PutBackStays
    <3>2. SeemsAlive(lock)
      BY <2>1, RunningOwnerSeemsAlive DEF Alive
    <3>3. QED
      BY <1>1, <2>1, <3>1, <3>2 DEF Reclaiming
  <2>2. pc'[x] = "unlink" => pc[x] = "unlink" /\ again'[x] = again[x]
    BY <1>1 DEF Outside, Claiming
  <2>3. QED
    BY <1>2, <2>1, <2>2 DEF PairInv, PutBackStays
<1>8. ASSUME NEW x \in Callers PROVE MarkerIsCurrent(x)'
  <2>1. \A m \in marker' : Alive(x)' /\ m[1] = x => m = Tok(x)' /\ KeepsMarker(x)'
    <3>1. SUFFICES ASSUME NEW m \in marker', Alive(x), m[1] = x
                   PROVE  m = Tok(x) /\ KeepsMarker(x)'
      BY <1>2
    <3>2. m = Tok(x)
      BY <3>1, TokFields DEF PairInv, MarkerIsCurrent
    <3>3. m \in marker => KeepsMarker(x)
      BY <3>1 DEF PairInv, MarkerIsCurrent
    <3>4. x # c => m # Tok(c)
      BY <3>2, TokFields
    <3>5. QED
      BY <1>2, <3>1, <3>2, <3>3, <3>4
  <2>2. pc'[x] = "drop" => ~again'[x]
    BY <1>1 DEF PairInv, MarkerIsCurrent, Outside, Claiming
  <2>3. QED
    BY <1>2, <2>1, <2>2 DEF PairInv, MarkerIsCurrent
<1>9. QED
  BY <1>3, <1>4, <1>5, <1>6, <1>7, <1>8 DEF PairInv

\* Claiming, waiting and reclaiming up to the rename keep the invariant.
LEMMA PairOutside ==
  ASSUME TypeOK, MarkerInv, PairInv, AtMostTwoAlive',
         NEW c \in Callers,
         \/ ListOwners(c) \/ PassOwner(c) \/ MeetOwner(c) \/ WriteMarker(c) \/ LoseLock(c)
         \/ UndoClaim(c) \/ NextAttempt(c) \/ InspectAbsent(c) \/ InspectKeep(c)
         \/ InspectStale(c) \/ Confirm(c) \/ Confirmed(c) \/ RenameAbsent(c) \/ RenameBlocked(c)
  PROVE  PairInv'
<1> USE DEF TypeOK, Outside, Claiming, Reclaiming
<1>1. pc[c] \in Outside \ {"idle"}
  BY DEF ListOwners, PassOwner, MeetOwner, WriteMarker, LoseLock, UndoClaim, NextAttempt,
         InspectAbsent, InspectKeep, InspectStale, Confirm, Confirmed, RenameAbsent,
         RenameBlocked, ClaimAgain, Step
<1>2. /\ pc'[c] \in Outside
      /\ pc'[c] \in {"confirm", "relist", "revet", "rename"} =>
           pc[c] \in {"confirm", "relist", "revet", "rename"} \/ ~SeemsAlive(lock)
  BY DEF ListOwners, PassOwner, MeetOwner, WriteMarker, LoseLock, UndoClaim, NextAttempt,
         InspectAbsent, InspectKeep, InspectStale, Confirm, Confirmed, RenameAbsent,
         RenameBlocked, ClaimAgain, Step, Refused
<1>3. UNCHANGED <<lock, quar, sweep, call>>
  BY DEF ListOwners, PassOwner, MeetOwner, WriteMarker, LoseLock, UndoClaim, NextAttempt,
         InspectAbsent, InspectKeep, InspectStale, Confirm, Confirmed, RenameAbsent,
         RenameBlocked, files
<1>4. /\ left'[c] \in Nat /\ left'[c] <= left[c]
      /\ \/ pc'[c] \in {"retry", "idle"} \/ left'[c] < left[c]
         \/ pc[c] # "retry" /\ left'[c] = left[c]
  <2>1. CASE NextAttempt(c)
    <3>1. CASE left[c] = 0
      BY <2>1, <3>1 DEF NextAttempt, Step
    <3>2. CASE left[c] # 0
      <4>1. left[c] - 1 \in Nat /\ left[c] - 1 < left[c]
        BY <3>2
      <4>2. QED
        BY <2>1, <3>2, <4>1 DEF NextAttempt
    <3>3. QED
      BY <3>1, <3>2
  <2>2. CASE ~NextAttempt(c)
    <3>1. left' = left /\ pc[c] # "retry"
      BY <2>2 DEF ListOwners, PassOwner, MeetOwner, WriteMarker, LoseLock, UndoClaim,
             InspectAbsent, InspectKeep, InspectStale, Confirm, Confirmed, RenameAbsent,
             RenameBlocked, ClaimAgain, Step
    <3>2. QED
      BY <3>1
  <2>3. QED
    BY <2>1, <2>2
<1>5. pc[c] \notin {"retry", "idle"} => Mine(c) = {}
  BY <1>1 DEF PairInv, OneQuarantineEach
<1>6. \A m \in marker' : m \in marker \/ (m = Tok(c) /\ pc'[c] = "create")
  BY DEF ListOwners, PassOwner, MeetOwner, WriteMarker, LoseLock, UndoClaim, NextAttempt,
         InspectAbsent, InspectKeep, InspectStale, Confirm, Confirmed, RenameAbsent,
         RenameBlocked, files, Step
<1>7. Tok(c) \in marker' => KeepsMarker(c)'
  <2>1. CASE Tok(c) \in marker
    <3>1. KeepsMarker(c)
      BY <1>1, <2>1, TokFields DEF PairInv, MarkerIsCurrent, Alive
    <3>2. pc[c] \in {"create", "unmark"}
      BY <1>1, <3>1 DEF KeepsMarker
    <3>3. Tok(c) \in marker' => pc'[c] = "unmark"
      BY <3>2 DEF ListOwners, PassOwner, MeetOwner, WriteMarker, LoseLock, UndoClaim,
         NextAttempt, InspectAbsent, InspectKeep, InspectStale, Confirm, Confirmed,
         RenameAbsent, RenameBlocked, ClaimAgain, Step
    <3>4. QED
      BY <3>3 DEF KeepsMarker
  <2>2. CASE Tok(c) \notin marker
    BY <1>6, <2>2 DEF KeepsMarker
  <2>3. QED
    BY <2>1, <2>2
<1>8. Call(c) \/ Run(c)
  BY DEF Run, Claim, Recover
<1>9. QED
  BY <1>1, <1>2, <1>3, <1>4, <1>5, <1>6, <1>7, <1>8, OutsideStep

\* So does starting a call: nothing of the caller's earlier calls is left.
LEMMA PairCall ==
  ASSUME TypeOK, MarkerInv, PairInv, AtMostTwoAlive', NEW c \in Callers, Call(c)
  PROVE  PairInv'
<1>0. /\ pc[c] = "idle" /\ pc'[c] = "claim" /\ call'[c] = call[c] + 1
      /\ UNCHANGED <<lock, quar, marker, sweep>>
      /\ left'[c] \in Nat
  BY FileLockAssumption DEF Call, Step, TypeOK, files
<1>1. \A x \in Callers : x # c =>
        /\ pc'[x] = pc[x] /\ again'[x] = again[x] /\ call'[x] = call[x] /\ left'[x] = left[x]
  BY OthersUntouched
<1>2. \A x \in Callers : /\ Holds(x)' <=> Holds(x)
                         /\ FirstSweep(x)' <=> FirstSweep(x)
                         /\ KeepsMarker(x)' <=> KeepsMarker(x)
                         /\ Alive(x)' <=> Alive(x)
                         /\ Reclaiming(x)' <=> Reclaiming(x)
                         /\ MayPutBack(x)' <=> MayPutBack(x)
                         /\ x # c => Mine(x)' = Mine(x) /\ Tok(x)' = Tok(x)
  BY <1>0, <1>1 DEF Tok, Holds, FirstSweep, KeepsMarker, Alive, MayPutBack, Reclaiming, Mine
<1>3. ~Holds(c) /\ ~FirstSweep(c) /\ ~KeepsMarker(c) /\ Alive(c) /\ ~Reclaiming(c)
  BY <1>0 DEF Holds, FirstSweep, KeepsMarker, Alive, Reclaiming
<1>4. /\ \A q \in quar : q.tok[1] # c
      /\ \A m \in marker : m[1] # c
      /\ lock # NoTok => lock[1] # c
  BY <1>0, <1>3 DEF PairInv, QuarantineIsSwept, IsSwept, PathIsCurrent, MarkerIsCurrent
<1>5. OneQuarantineEach'
  <2>1. \A q \in quar : q.by = c => q.call < call'[c]
    BY <1>0, QuarantineFields DEF PairInv, OneQuarantineEach, TypeOK
  <2>2. Mine(c)' = {}
    BY <1>0, <2>1 DEF Mine, TypeOK
  <2>3. \A q \in quar : q.call <= call'[q.by] /\ (q.call = call'[q.by] => q.try >= left'[q.by])
    BY <1>0, <1>1, <2>1, QuarantineFields DEF PairInv, OneQuarantineEach, TypeOK
  <2>4. QED
    BY <1>0, <1>1, <1>2, <2>2, <2>3 DEF PairInv, OneQuarantineEach
<1>6. QuarantineIsSwept'
  <2>1. ASSUME NEW q \in quar PROVE q.tok[1] \in Callers /\ q.tok[1] # c
    BY <1>4, QuarantineFields
  <2>2. QED
    BY <1>0, <1>1, <1>2, <2>1 DEF PairInv, QuarantineIsSwept, IsSwept
<1>7. ASSUME NEW x \in Callers
      PROVE  HolderAtPath(x)' /\ PathIsCurrent(x)' /\ PutBackStays(x)' /\ MarkerIsCurrent(x)'
  <2>1. CASE x # c
    <3>1. HolderAtPath(x)'
      <4>1. ~Holds(x) \/ lock = Tok(x)
        BY <1>0, <1>3, <2>1, HolderFillsPathInPair DEF MayPutBack
      <4>2. QED
        BY <1>0, <1>2, <2>1, <4>1 DEF HolderAtPath
    <3>2. PathIsCurrent(x)' /\ PutBackStays(x)' /\ MarkerIsCurrent(x)'
      BY <1>0, <1>1, <1>2, <2>1 DEF PairInv, PathIsCurrent, PutBackStays, MarkerIsCurrent
    <3>3. QED
      BY <3>1, <3>2
  <2>2. CASE x = c
    <3>0. Tok(c)'[1] = c /\ Tok(c)' # NoTok
      <4>1. Tok(c)' \in Tokens
        BY <1>0 DEF Tok, Tokens, TypeOK
      <4>2. QED
        BY <4>1, FileLockAssumption DEF Tok
    <3>1. HolderAtPath(c)' /\ PathIsCurrent(c)' /\ PutBackStays(c)'
      BY <1>0, <1>2, <1>3, <1>4, <3>0 DEF HolderAtPath, PathIsCurrent, PutBackStays
    <3>2. sweep[c] = {}
      BY <1>0 DEF PairInv, MarkerIsCurrent
    <3>3. QED
      BY <1>0, <1>4, <2>2, <3>1, <3>2 DEF MarkerIsCurrent
  <2>3. QED
    BY <2>1, <2>2
<1>8. QED
  BY <1>5, <1>6, <1>7 DEF PairInv

\* What the clauses say of another caller is made of that caller's variables.
LEMMA OthersSame ==
  ASSUME TypeOK, NEW c \in Callers, Call(c) \/ Run(c), NEW x \in Callers, x # c
  PROVE  /\ Tok(x)' = Tok(x)
         /\ Holds(x)' <=> Holds(x)
         /\ FirstSweep(x)' <=> FirstSweep(x)
         /\ KeepsMarker(x)' <=> KeepsMarker(x)
         /\ Alive(x)' <=> Alive(x)
         /\ Reclaiming(x)' <=> Reclaiming(x)
         /\ MayPutBack(x)' <=> MayPutBack(x)
         /\ quar' = quar => Mine(x)' = Mine(x)
  BY OthersUntouched
     DEF Tok, Holds, FirstSweep, KeepsMarker, Alive, MayPutBack, Reclaiming, Mine

LEMMA OthersMarkers ==
  ASSUME TypeOK, PairInv, NEW c \in Callers, Call(c) \/ Run(c), NEW x \in Callers, x # c,
         \A m \in marker' : m \in marker \/ m[1] = c
  PROVE  MarkerIsCurrent(x)'
  BY OthersUntouched, OthersSame DEF PairInv, MarkerIsCurrent

LEMMA OthersPaths ==
  ASSUME TypeOK, PairInv, NEW c \in Callers, Call(c) \/ Run(c), NEW x \in Callers, x # c,
         lock' \in {lock, NoTok, Tok(c)}
  PROVE  PathIsCurrent(x)'
  BY OthersUntouched, OthersSame, TokFields DEF PairInv, PathIsCurrent

LEMMA OthersSwept ==
  ASSUME TypeOK, PairInv, NEW c \in Callers, Call(c) \/ Run(c), NEW q \in quar, q.tok[1] # c
  PROVE  IsSwept(q)'
  BY QuarantineFields, OthersUntouched, OthersSame DEF PairInv, QuarantineIsSwept, IsSwept

\* Moving between places other than the first ones of an attempt, without
\* touching quarantine, keeps one file per attempt.
LEMMA QuarantineStays ==
  ASSUME TypeOK, PairInv, NEW c \in Callers, Call(c) \/ Run(c),
         UNCHANGED <<quar, call, left>>,
         pc'[c] \notin Claiming \cup {"inspect"} /\ ~Reclaiming(c)'
  PROVE  OneQuarantineEach'
  BY OthersUntouched, OthersSame DEF PairInv, OneQuarantineEach, Mine

\* A caller that is not inside or on its way out has no record anywhere.
LEMMA OwnClauses ==
  ASSUME TypeOK, PairInv, NEW c \in Callers, UNCHANGED <<lock, sweep, call>>,
         Alive(c), pc[c] \notin Releasing \cup {"work"},
         pc'[c] \notin Releasing \cup {"work"}, ~KeepsMarker(c), marker' \subseteq marker
  PROVE  HolderAtPath(c)' /\ PathIsCurrent(c)' /\ PutBackStays(c)' /\ MarkerIsCurrent(c)'
<1>1. ~Holds(c)' /\ ~Holds(c) /\ ~FirstSweep(c) /\ Tok(c)' = Tok(c)
  BY DEF Holds, FirstSweep, Tok, Releasing
<1>2. lock # NoTok => lock[1] # c
  BY <1>1 DEF PairInv, PathIsCurrent, Releasing
<1>3. lock # Tok(c)
  BY <1>2, TokFields
<1>4. HolderAtPath(c)' /\ PathIsCurrent(c)'
  BY <1>1, <1>2 DEF HolderAtPath, PathIsCurrent
<1>5. PutBackStays(c)'
  BY <1>1, <1>3 DEF PutBackStays, Releasing
<1>6. MarkerIsCurrent(c)'
  <2>1. \A m \in marker : m[1] # c
    BY DEF PairInv, MarkerIsCurrent
  <2>2. sweep[c] = {}
    BY DEF PairInv, MarkerIsCurrent, Releasing
  <2>3. QED
    BY <2>1, <2>2 DEF MarkerIsCurrent, Releasing
<1>7. QED
  BY <1>4, <1>5, <1>6

\* Creating the record: the free path shows that nobody holds.
LEMMA PairCreate ==
  ASSUME TypeOK, MarkerInv, PairInv, AtMostTwoAlive', NEW c \in Callers, CreateLock(c)
  PROVE  PairInv'
<1>0. /\ pc[c] = "create" /\ pc'[c] = "work" /\ lock = NoTok /\ lock' = Tok(c)
      /\ UNCHANGED <<quar, marker, sweep, call, left, again>>
      /\ Call(c) \/ Run(c)
  BY DEF CreateLock, Step, TypeOK, Run, Claim
<1>1. ASSUME NEW x \in Callers, Holds(x) PROVE FALSE
  <2>1. x # c /\ Alive(c) /\ ~MayPutBack(c)
    BY <1>0, <1>1 DEF Holds, Alive, MayPutBack
  <2>2. QED
    BY <1>0, <1>1, <2>1, HolderFillsPathInPair, TokFields
<1>2. Tok(c)' = Tok(c) /\ Holds(c)' /\ KeepsMarker(c)' /\ ~Reclaiming(c)'
  BY <1>0 DEF Tok, Holds, KeepsMarker, Reclaiming
<1>3. OneQuarantineEach'
  BY <1>0, <1>2, QuarantineStays DEF Claiming
<1>4. QuarantineIsSwept'
  <2>1. ASSUME NEW q \in quar PROVE q.tok[1] # c
    BY <1>0, <2>1 DEF PairInv, QuarantineIsSwept, IsSwept, Alive, Holds, FirstSweep
  <2>2. QED
    BY <1>0, <2>1, OthersSwept DEF QuarantineIsSwept
<1>5. ASSUME NEW x \in Callers
      PROVE  HolderAtPath(x)' /\ PathIsCurrent(x)' /\ PutBackStays(x)' /\ MarkerIsCurrent(x)'
  <2>1. CASE x # c
    <3>1. HolderAtPath(x)'
      BY <1>0, <1>1, <2>1, OthersSame DEF HolderAtPath
    <3>2. PutBackStays(x)'
      <4>1. lock' # Tok(x)'
        BY <1>0, <2>1, OthersSame, TokFields
      <4>2. ~(pc'[x] = "unlink" /\ again'[x])
        BY <1>0, <2>1, OthersUntouched, TokFields DEF PairInv, PutBackStays
      <4>3. QED
        BY <4>1, <4>2 DEF PutBackStays
    <3>3. QED
      BY <1>0, <2>1, <3>1, <3>2, OthersPaths, OthersMarkers
  <2>2. CASE x = c
    <3>1. HolderAtPath(c)' /\ PathIsCurrent(c)' /\ PutBackStays(c)'
      BY <1>0, <1>2 DEF HolderAtPath, PathIsCurrent, PutBackStays
    <3>2. MarkerIsCurrent(c)'
      BY <1>0, <1>2 DEF PairInv, MarkerIsCurrent, Alive
    <3>3. QED
      BY <2>2, <3>1, <3>2
  <2>3. QED
    BY <2>1, <2>2
<1>6. QED
  BY <1>3, <1>4, <1>5 DEF PairInv

\* Renaming away what is at the path: a holder's record is now in this caller's
\* hands, and this caller is the only other one that runs.
LEMMA PairQuarantine ==
  ASSUME TypeOK, MarkerInv, PairInv, AtMostTwoAlive', NEW c \in Callers, Quarantine(c)
  PROVE  PairInv'
<1> PICK q0 : q0 = [by |-> c, call |-> call[c], try |-> left[c], tok |-> lock]
  OBVIOUS
<1>0. /\ pc[c] = "rename" /\ pc'[c] = "judge" /\ lock # NoTok /\ lock' = NoTok
      /\ quar' = quar \cup {q0}
      /\ UNCHANGED <<marker, sweep, call, left, again>>
      /\ Call(c) \/ Run(c)
  BY DEF Quarantine, Step, TypeOK, Run, Recover
<1>1. Alive(c) /\ Reclaiming(c) /\ ~MayPutBack(c) /\ ~Holds(c) /\ ~FirstSweep(c) /\ ~KeepsMarker(c)
  BY <1>0 DEF Alive, Reclaiming, MayPutBack, Holds, FirstSweep, KeepsMarker
<1>2. Alive(c)' /\ MayPutBack(c)' /\ ~Reclaiming(c)' /\ ~Holds(c)' /\ q0 \in Mine(c)'
  BY <1>0 DEF Alive, Reclaiming, MayPutBack, Holds, Mine
<1>3. ASSUME NEW x \in Callers, Alive(x), lock[1] = x
      PROVE  x # c /\ Holds(x) /\ lock = Tok(x)
  BY <1>0, <1>1, <1>3 DEF PairInv, PathIsCurrent, PutBackStays
<1>4. OneQuarantineEach'
  <2>1. Mine(c) = {}
    BY <1>1 DEF PairInv, OneQuarantineEach
  <2>2. \A q \in quar : ~(q.by = c /\ q.call = call[c] /\ q.try = left[c])
    BY <2>1 DEF Mine
  <2>3. \A x \in Callers : x # c => Mine(x)' = Mine(x)
    BY <1>0 DEF Mine
  <2>4. \A q \in quar' : q.call <= call[q.by] /\ (q.call = call[q.by] => q.try >= left[q.by])
    BY <1>0 DEF PairInv, OneQuarantineEach, TypeOK
  <2>5. \A q, r \in quar' : q.by = r.by /\ q.call = r.call /\ q.try = r.try => q = r
    BY <1>0, <2>2 DEF PairInv, OneQuarantineEach
  <2>6. \A x \in Callers : pc'[x] \in Claiming \cup {"inspect"} \/ Reclaiming(x)' => Mine(x)' = {}
    BY <1>0, <1>2, <2>3, OthersUntouched, OthersSame DEF PairInv, OneQuarantineEach, Claiming
  <2>7. QED
    BY <1>0, <2>4, <2>5, <2>6 DEF OneQuarantineEach
<1>5. QuarantineIsSwept'
  <2>1. ASSUME NEW q \in quar PROVE IsSwept(q)'
    <3>1. q.tok[1] # c
      BY <1>1 DEF PairInv, QuarantineIsSwept, IsSwept
    <3>2. QED
      BY <1>0, <3>1, OthersSwept
  <2>2. IsSwept(q0)'
    <3>1. lock[1] \in Callers
      BY <1>0 DEF TypeOK, Tokens
    <3>2. CASE Alive(lock[1])
      BY <1>0, <1>3, <3>1, <3>2, OthersSame DEF IsSwept
    <3>3. CASE ~Alive(lock[1])
      BY <1>0, <1>1, <3>1, <3>3, OthersSame DEF IsSwept
    <3>4. QED
      BY <3>2, <3>3
  <2>3. QED
    BY <1>0, <2>1, <2>2 DEF QuarantineIsSwept
<1>6. ASSUME NEW x \in Callers
      PROVE  HolderAtPath(x)' /\ PathIsCurrent(x)' /\ PutBackStays(x)' /\ MarkerIsCurrent(x)'
  <2>1. HolderAtPath(x)'
    <3>1. SUFFICES ASSUME Holds(x)'
                   PROVE  /\ q0.tok = Tok(x)'
                          /\ \A d \in Callers \ {x} : Alive(d)' => MayPutBack(d)' /\ q0 \in Mine(d)'
      BY <1>0 DEF HolderAtPath
    <3>2. x # c /\ Holds(x)
      BY <1>2, <1>0, <3>1, OthersSame
    <3>3. lock = Tok(x)
      BY <1>1, <3>2, HolderFillsPathInPair
    <3>4. \A d \in Callers \ {x} : Alive(d)' => d = c
      BY <1>2, <3>1, <3>2 DEF AtMostTwoAlive, Holds, Alive
    <3>5. QED
      BY <1>0, <1>2, <3>2, <3>3, <3>4, OthersSame
  <2>2. PathIsCurrent(x)'
    BY <1>0 DEF PathIsCurrent
  <2>3. PutBackStays(x)'
    <3>1. pc[x] = "unlink" /\ again[x] => FALSE
      BY <1>0, <1>1 DEF PairInv, PutBackStays, Holds, Alive
    <3>2. ~(pc'[x] = "unlink" /\ again'[x])
      BY <1>0, <3>1, OthersUntouched
    <3>3. Tok(x)' # NoTok
      BY <1>0, TokFields DEF Tok
    <3>4. QED
      BY <1>0, <3>2, <3>3 DEF PutBackStays
  <2>4. MarkerIsCurrent(x)'
    <3>1. CASE x # c
      BY <1>0, <3>1, OthersMarkers
    <3>2. CASE x = c
      BY <1>0, <1>1, <3>2 DEF PairInv, MarkerIsCurrent
    <3>3. QED
      BY <3>1, <3>2
  <2>5. QED
    BY <2>1, <2>2, <2>3, <2>4
<1>7. QED
  BY <1>4, <1>5, <1>6 DEF PairInv

\* Reading back what was moved: a holder's record is never taken for stale.
LEMMA PairJudge ==
  ASSUME TypeOK, MarkerInv, PairInv, AtMostTwoAlive', NEW c \in Callers, Judge(c)
  PROVE  PairInv'
<1>0. /\ pc[c] = "judge" /\ pc'[c] \in {"retry", "discard", "restore"}
      /\ UNCHANGED <<lock, quar, sweep, call, left, again>>
      /\ marker' \subseteq marker
      /\ Call(c) \/ Run(c)
  BY DEF Judge, Step, TypeOK, Run, Recover
<1>1. /\ ~Holds(c) /\ ~FirstSweep(c) /\ ~KeepsMarker(c) /\ Alive(c)
      /\ {pc[c], pc'[c]} \cap (Releasing \cup {"work"}) = {}
      /\ ~Holds(c)' /\ ~FirstSweep(c)' /\ ~Reclaiming(c)' /\ Tok(c)' = Tok(c)
  BY <1>0 DEF Alive, Reclaiming, Holds, FirstSweep, KeepsMarker, Tok, Releasing
<1>2. OneQuarantineEach'
  BY <1>0, <1>1, QuarantineStays DEF Claiming
<1>3. QuarantineIsSwept'
  <2>1. \A q \in quar : q.tok[1] # c
    BY <1>1 DEF PairInv, QuarantineIsSwept, IsSwept
  <2>2. QED
    BY <1>0, <2>1, OthersSwept DEF QuarantineIsSwept
<1>4. ASSUME NEW x \in Callers
      PROVE  HolderAtPath(x)' /\ PathIsCurrent(x)' /\ PutBackStays(x)' /\ MarkerIsCurrent(x)'
  <2>1. CASE x = c
    BY <1>0, <1>1, <2>1, OwnClauses
  <2>2. CASE x # c
    <3>1. HolderAtPath(x)'
      <4>1. SUFFICES ASSUME Holds(x), lock # Tok(x) PROVE HolderAtPath(x)'
        BY <1>0, <2>2, OthersSame DEF HolderAtPath
      <4>2. PICK q \in quar : /\ lock = NoTok /\ q.tok = Tok(x)
                              /\ \A d \in Callers \ {x} : Alive(d) => MayPutBack(d) /\ q \in Mine(d)
        BY <4>1 DEF PairInv, HolderAtPath
      <4>3. q \in Mine(c)
        BY <1>1, <2>2, <4>2
      <4>4. \A r \in Mine(c) : r = q
        BY <4>3 DEF Mine, PairInv, OneQuarantineEach
      <4>5. SeemsAlive(Tok(x)) /\ Tok(x) \in marker
        BY <4>1, RunningOwnerSeemsAlive DEF MarkerInv, KeepsMarker, Holds
      <4>6. q.tok # insp[c]
        BY <4>2, <4>5, TokFields DEF MarkerInv
      <4>7. pc'[c] = "restore"
        BY <4>2, <4>3, <4>4, <4>5, <4>6 DEF Judge, Step, TypeOK
      <4>8. Mine(c)' = Mine(c) /\ MayPutBack(c)'
        BY <1>0, <4>7 DEF Mine, MayPutBack
      <4>9. \A d \in Callers \ {x} : Alive(d)' => MayPutBack(d)' /\ q \in Mine(d)'
        BY <1>0, <4>2, <4>3, <4>8, OthersSame
      <4>10. QED
        BY <1>0, <2>2, <4>2, <4>9, OthersSame DEF HolderAtPath
    <3>2. PutBackStays(x)'
      BY <1>0, <1>1, <2>2, OthersSame, OthersUntouched DEF PairInv, PutBackStays
    <3>3. QED
      BY <1>0, <2>2, <3>1, <3>2, OthersPaths, OthersMarkers
  <2>3. QED
    BY <2>1, <2>2
<1>5. QED
  BY <1>2, <1>3, <1>4 DEF PairInv

\* Deleting the moved file: this caller is past judging, so no holder's record is
\* in its hands.
LEMMA PairDiscard ==
  ASSUME TypeOK, MarkerInv, PairInv, AtMostTwoAlive', NEW c \in Callers, Discard(c)
  PROVE  PairInv'
<1>0. /\ pc[c] = "discard" /\ pc'[c] \in {"retry", "claim"}
      /\ UNCHANGED <<lock, marker, sweep, call, left>>
      /\ quar' = quar \ Mine(c)
      /\ Call(c) \/ Run(c)
  BY DEF Discard, ClaimAgain, Step, TypeOK, Run, Recover
<1>1. /\ ~Holds(c) /\ ~FirstSweep(c) /\ ~KeepsMarker(c) /\ Alive(c) /\ ~MayPutBack(c)
      /\ {pc[c], pc'[c]} \cap (Releasing \cup {"work"}) = {}
      /\ ~Holds(c)' /\ ~FirstSweep(c)' /\ ~Reclaiming(c)' /\ Tok(c)' = Tok(c)
  BY <1>0 DEF Alive, Reclaiming, Holds, FirstSweep, KeepsMarker, MayPutBack, Tok, Releasing
<1>2. OneQuarantineEach'
  <2>1. Mine(c)' = {}
    BY <1>0 DEF Mine
  <2>2. \A x \in Callers : x # c => Mine(x)' \subseteq Mine(x)
    BY <1>0 DEF Mine
  <2>3. \A x \in Callers : pc'[x] \in Claiming \cup {"inspect"} \/ Reclaiming(x)' => Mine(x)' = {}
    BY <2>1, <2>2, OthersUntouched, OthersSame, <1>0 DEF PairInv, OneQuarantineEach
  <2>4. QED
    BY <1>0, <2>3 DEF PairInv, OneQuarantineEach
<1>3. QuarantineIsSwept'
  <2>1. \A q \in quar : q.tok[1] # c
    BY <1>1 DEF PairInv, QuarantineIsSwept, IsSwept
  <2>2. QED
    BY <1>0, <2>1, OthersSwept DEF QuarantineIsSwept
<1>4. ASSUME NEW x \in Callers
      PROVE  HolderAtPath(x)' /\ PathIsCurrent(x)' /\ PutBackStays(x)' /\ MarkerIsCurrent(x)'
  <2>1. CASE x = c
    BY <1>0, <1>1, <2>1, OwnClauses
  <2>2. CASE x # c
    <3>1. HolderAtPath(x)'
      BY <1>0, <1>1, <2>2, OthersSame, HolderFillsPathInPair DEF HolderAtPath
    <3>2. PutBackStays(x)'
      BY <1>0, <1>1, <2>2, OthersSame, OthersUntouched DEF PairInv, PutBackStays
    <3>3. QED
      BY <1>0, <2>2, <3>1, <3>2, OthersPaths, OthersMarkers
  <2>3. QED
    BY <2>1, <2>2
<1>5. QED
  BY <1>2, <1>3, <1>4 DEF PairInv

\* Linking the moved record back to a free path.
LEMMA PairRestore ==
  ASSUME TypeOK, MarkerInv, PairInv, AtMostTwoAlive', NEW c \in Callers, Restore(c)
  PROVE  PairInv'
<1>0. /\ pc[c] = "restore" /\ pc'[c] = "retry"
      /\ UNCHANGED <<quar, marker, sweep, call, left, again>>
      /\ Call(c) \/ Run(c)
  BY DEF Restore, Step, TypeOK, Run, Recover
<1>1. /\ ~Holds(c) /\ ~FirstSweep(c) /\ ~KeepsMarker(c) /\ Alive(c)
      /\ {pc[c], pc'[c]} \cap (Releasing \cup {"work"}) = {}
      /\ ~Holds(c)' /\ ~FirstSweep(c)' /\ ~Reclaiming(c)' /\ Tok(c)' = Tok(c) /\ Alive(c)'
  BY <1>0 DEF Alive, Reclaiming, Holds, FirstSweep, KeepsMarker, Tok, Releasing
<1>2. \A q \in quar : q.tok[1] # c
  BY <1>1 DEF PairInv, QuarantineIsSwept, IsSwept
<1>3. lock' = lock \/ (lock = NoTok /\ \E q \in Mine(c) : lock' = q.tok)
  BY DEF Restore
<1>4. OneQuarantineEach'
  BY <1>0, <1>1, QuarantineStays DEF Claiming
<1>5. QuarantineIsSwept'
  BY <1>0, <1>2, OthersSwept DEF QuarantineIsSwept
<1>6. ASSUME NEW x \in Callers PROVE HolderAtPath(x)'
  <2>1. SUFFICES ASSUME Holds(x)' PROVE lock' = Tok(x)'
    BY DEF HolderAtPath
  <2>2. x # c /\ Holds(x) /\ Tok(x)' = Tok(x)
    BY <1>0, <1>1, <2>1, OthersSame
  <2>3. CASE lock = Tok(x)
    BY <1>3, <2>2, <2>3, TokFields
  <2>4. CASE lock # Tok(x)
    <3>1. PICK q \in quar : /\ lock = NoTok /\ q.tok = Tok(x)
                            /\ \A d \in Callers \ {x} : Alive(d) => MayPutBack(d) /\ q \in Mine(d)
      BY <2>2, <2>4 DEF PairInv, HolderAtPath
    <3>2. q \in Mine(c)
      BY <1>1, <2>2, <3>1
    <3>3. \A r \in Mine(c) : r = q
      BY <3>2 DEF Mine, PairInv, OneQuarantineEach
    <3>4. (CHOOSE r \in Mine(c) : TRUE) = q
      BY <3>2, <3>3
    <3>5. QED
      BY <2>2, <3>1, <3>2, <3>4 DEF Restore
  <2>5. QED
    BY <2>3, <2>4
<1>7. ASSUME NEW x \in Callers PROVE PathIsCurrent(x)'
  <2>1. CASE lock' = lock
    <3>1. CASE x # c
      BY <1>0, <2>1, <3>1, OthersPaths
    <3>2. CASE x = c
      BY <1>0, <1>1, <2>1, <3>2 DEF PairInv, PathIsCurrent, Releasing
    <3>3. QED
      BY <3>1, <3>2
  <2>2. CASE lock' # lock
    <3>1. PICK q \in quar : lock = NoTok /\ lock' = q.tok
      BY <1>3, <2>2 DEF Mine
    <3>2. q.tok[1] # c /\ IsSwept(q)'
      BY <1>2, <1>5, <1>0 DEF QuarantineIsSwept
    <3>3. QED
      BY <3>1, <3>2 DEF IsSwept, PathIsCurrent
  <2>3. QED
    BY <2>1, <2>2
<1>8. ASSUME NEW x \in Callers PROVE PutBackStays(x)'
  <2>1. pc'[x] = "unlink" /\ again'[x] => lock' = Tok(x)'
    <3>1. SUFFICES ASSUME pc'[x] = "unlink", again'[x] PROVE lock' = Tok(x)'
      OBVIOUS
    <3>2. x # c /\ pc[x] = "unlink" /\ again[x] /\ Tok(x)' = Tok(x)
      BY <1>0, <3>1, OthersUntouched, OthersSame
    <3>3. lock = Tok(x)
      BY <3>2 DEF PairInv, PutBackStays
    <3>4. QED
      BY <1>3, <3>2, <3>3, TokFields
  <2>2. ASSUME Alive(x)', ~Holds(x)', lock' = Tok(x)', NEW d \in Callers \ {x}, Reclaiming(d)'
        PROVE  FALSE
    <3>1. Tok(x)' # NoTok /\ Tok(x)'[1] = x
      BY <1>0, TokFields DEF Tok
    <3>2. x # c
      BY <1>1, <1>7, <2>2, <3>1, <1>0 DEF PathIsCurrent, Releasing
    <3>3. d # c /\ Alive(d)'
      BY <1>1, <2>2 DEF Reclaiming, Alive
    <3>4. QED
      BY <1>1, <2>2, <3>2, <3>3 DEF AtMostTwoAlive
  <2>3. QED
    BY <2>1, <2>2 DEF PutBackStays
<1>9. ASSUME NEW x \in Callers PROVE MarkerIsCurrent(x)'
  <2>1. CASE x # c
    BY <1>0, <2>1, OthersMarkers
  <2>2. CASE x = c
    BY <1>0, <1>1, <2>2 DEF PairInv, MarkerIsCurrent, Releasing
  <2>3. QED
    BY <2>1, <2>2
<1>10. QED
  BY <1>4, <1>5, <1>6, <1>7, <1>8, <1>9 DEF PairInv

\* A step that leaves the path and the quarantine alone, of a caller that is not
\* the one to put a holder's record back.
LEMMA OthersClauses ==
  ASSUME TypeOK, PairInv, NEW c \in Callers, Call(c) \/ Run(c),
         UNCHANGED lock, \A m \in marker' : m \in marker \/ m[1] = c,
         ~MayPutBack(c), ~Reclaiming(c)', NEW x \in Callers, x # c
  PROVE  HolderAtPath(x)' /\ PathIsCurrent(x)' /\ PutBackStays(x)' /\ MarkerIsCurrent(x)'
<1>1. Alive(c)
  BY StepsAreOfTheLiving
<1>2. HolderAtPath(x)'
  BY <1>1, OthersSame, HolderFillsPathInPair DEF HolderAtPath
<1>3. PutBackStays(x)'
  BY OthersSame, OthersUntouched DEF PairInv, PutBackStays
<1>4. QED
  BY <1>2, <1>3, OthersPaths, OthersMarkers

\* From `work` into the release, and the release's look at the path.
LEMMA PairCheck ==
  ASSUME TypeOK, MarkerInv, PairInv, AtMostTwoAlive', NEW c \in Callers,
         FinishWork(c) \/ CheckLock(c)
  PROVE  PairInv'
<1>0. /\ \/ pc[c] = "work" /\ pc'[c] = "check" /\ again'[c] = FALSE
         \/ /\ pc[c] = "check" /\ again'[c] = again[c]
            /\ \/ lock = Tok(c) /\ pc'[c] = "unlink"
               \/ lock # Tok(c) /\ pc'[c] = IF again[c] THEN "list" ELSE "drop"
      /\ UNCHANGED <<lock, quar, marker, sweep, call, left>>
      /\ Call(c) \/ Run(c)
      /\ again[c] \in BOOLEAN
  BY DEF FinishWork, CheckLock, PastPath, Step, TypeOK, Run, Release, files
<1>1. /\ Alive(c) /\ ~MayPutBack(c) /\ ~Reclaiming(c)' /\ Tok(c)' = Tok(c)
      /\ Holds(c)' => Holds(c)
      /\ KeepsMarker(c) => KeepsMarker(c)'
      /\ ~FirstSweep(c)
      /\ Holds(c) => Holds(c)' \/ (FirstSweep(c)' /\ lock # Tok(c))
      /\ pc'[c] # "sweep"
  BY <1>0 DEF Alive, MayPutBack, Reclaiming, Tok, Holds, KeepsMarker, FirstSweep
<1>2. OneQuarantineEach'
  BY <1>0, <1>1, QuarantineStays DEF Claiming
<1>3. QuarantineIsSwept'
  <2>1. ASSUME NEW q \in quar, q.tok[1] = c PROVE IsSwept(q)'
    BY <1>1, <2>1 DEF PairInv, QuarantineIsSwept, IsSwept
  <2>2. QED
    BY <1>0, <2>1, OthersSwept DEF QuarantineIsSwept
<1>4. HolderAtPath(c)'
  BY <1>0, <1>1, OthersSame DEF PairInv, HolderAtPath
<1>5. PathIsCurrent(c)' /\ PutBackStays(c)'
  <2>1. lock # NoTok /\ lock[1] = c => lock = Tok(c)
    BY <1>1 DEF PairInv, PathIsCurrent
  <2>2. PathIsCurrent(c)'
    BY <1>0, <1>1, <2>1 DEF PathIsCurrent, Holds
  <2>3. \A d \in Callers \ {c} : Reclaiming(d)' <=> Reclaiming(d)
    BY <1>0, OthersSame
  <2>4. lock = Tok(c) /\ ~Holds(c)' => ~Holds(c)
    BY <1>1
  <2>5. PutBackStays(c)'
    BY <1>0, <1>1, <2>3, <2>4 DEF PairInv, PutBackStays
  <2>6. QED
    BY <2>2, <2>5
<1>6. MarkerIsCurrent(c)'
  <2>1. \A m \in marker' : m[1] = c => m = Tok(c)' /\ KeepsMarker(c)'
    BY <1>0, <1>1 DEF PairInv, MarkerIsCurrent
  <2>2. sweep'[c] = {}
    BY <1>0 DEF PairInv, MarkerIsCurrent
  <2>3. pc'[c] = "drop" => ~again'[c]
    BY <1>0
  <2>4. QED
    BY <2>1, <2>2, <2>3 DEF MarkerIsCurrent
<1>7. QED
  BY <1>0, <1>1, <1>2, <1>3, <1>4, <1>5, <1>6, OthersClauses DEF PairInv

\* Removing what is at the path: it is this caller's own record, put back or not,
\* or nothing.
LEMMA PairUnlink ==
  ASSUME TypeOK, MarkerInv, PairInv, AtMostTwoAlive', NEW c \in Callers, Unlink(c)
  PROVE  PairInv'
<1>0. /\ pc[c] = "unlink" /\ pc'[c] = (IF again[c] THEN "list" ELSE "drop")
      /\ lock' = NoTok
      /\ UNCHANGED <<quar, marker, sweep, call, left, again>>
      /\ Call(c) \/ Run(c)
      /\ again[c] \in BOOLEAN
  BY DEF Unlink, PastPath, Step, TypeOK, Run, Release
<1>1. /\ Alive(c) /\ ~MayPutBack(c) /\ ~Reclaiming(c)' /\ Tok(c)' = Tok(c)
      /\ ~Holds(c)' /\ ~FirstSweep(c)
      /\ Holds(c) <=> ~again[c]
      /\ Holds(c) => FirstSweep(c)'
      /\ KeepsMarker(c) => KeepsMarker(c)'
      /\ pc'[c] # "sweep"
  BY <1>0 DEF Alive, MayPutBack, Reclaiming, Tok, Holds, KeepsMarker, FirstSweep
\* Another holder's record would have to be the one at the path.
<1>2. ASSUME NEW x \in Callers, Holds(x) PROVE x = c
  <2>1. CASE again[c]
    <3>1. lock = Tok(c)
      BY <1>0, <2>1 DEF PairInv, PutBackStays
    <3>2. QED
      BY <1>1, <1>2, <3>1, HolderFillsPathInPair, TokInjective
  <2>2. CASE ~again[c]
    BY <1>1, <1>2, <2>2, AtMostOneHolds
  <2>3. QED
    BY <2>1, <2>2
<1>3. OneQuarantineEach'
  BY <1>0, <1>1, QuarantineStays DEF Claiming
<1>4. QuarantineIsSwept'
  <2>1. ASSUME NEW q \in quar, q.tok[1] = c PROVE IsSwept(q)'
    BY <1>1, <2>1 DEF PairInv, QuarantineIsSwept, IsSwept
  <2>2. QED
    BY <1>0, <2>1, OthersSwept DEF QuarantineIsSwept
<1>5. ASSUME NEW x \in Callers PROVE PutBackStays(x)'
  <2>1. ASSUME x # c, pc[x] = "unlink", again[x] PROVE FALSE
    <3>1. lock = Tok(x) /\ Alive(x) /\ ~MayPutBack(x)
      BY <2>1 DEF PairInv, PutBackStays, Alive, MayPutBack
    <3>2. lock = Tok(c)
      <4>1. CASE again[c]
        BY <1>0, <4>1 DEF PairInv, PutBackStays
      <4>2. CASE ~again[c]
        BY <1>1, <2>1, <3>1, <4>2, HolderFillsPathInPair
      <4>3. QED
        BY <4>1, <4>2
    <3>3. QED
      BY <2>1, <3>1, <3>2, TokInjective
  <2>2. ~(pc'[x] = "unlink" /\ again'[x])
    BY <1>0, <2>1, OthersUntouched
  <2>3. Tok(x)' # NoTok
    BY <1>0, TokFields DEF Tok
  <2>4. QED
    BY <1>0, <2>2, <2>3 DEF PutBackStays
<1>6. ASSUME NEW x \in Callers PROVE HolderAtPath(x)' /\ PathIsCurrent(x)'
  BY <1>0, <1>1, <1>2, OthersSame DEF HolderAtPath, PathIsCurrent
<1>7. MarkerIsCurrent(c)'
  <2>1. \A m \in marker' : m[1] = c => m = Tok(c)' /\ KeepsMarker(c)'
    BY <1>0, <1>1 DEF PairInv, MarkerIsCurrent
  <2>2. sweep'[c] = {}
    BY <1>0 DEF PairInv, MarkerIsCurrent
  <2>3. pc'[c] = "drop" => ~again'[c]
    BY <1>0
  <2>4. QED
    BY <2>1, <2>2, <2>3 DEF MarkerIsCurrent
<1>8. QED
  BY <1>0, <1>3, <1>4, <1>5, <1>6, <1>7, OthersMarkers DEF PairInv

\* Removing the marker and listing the quarantine files.
LEMMA PairList ==
  ASSUME TypeOK, MarkerInv, PairInv, AtMostTwoAlive', NEW c \in Callers,
         DropMarker(c) \/ ListQuarantines(c)
  PROVE  PairInv'
<1>0. /\ \/ pc[c] = "drop" /\ pc'[c] = "list" /\ sweep' = sweep /\ marker' = marker \ {Tok(c)}
         \/ /\ pc[c] = "list" /\ pc'[c] = "sweep" /\ marker' = marker
            /\ sweep'[c] = {q \in quar : q.tok = Tok(c)}
      /\ UNCHANGED <<lock, quar, call, left, again>>
      /\ Call(c) \/ Run(c)
  BY DEF DropMarker, ListQuarantines, Step, TypeOK, Run, Release, files
<1>1. /\ Alive(c) /\ ~MayPutBack(c) /\ ~Reclaiming(c)' /\ Tok(c)' = Tok(c)
      /\ ~Holds(c) /\ ~Holds(c)'
      /\ FirstSweep(c) => FirstSweep(c)'
      /\ KeepsMarker(c) <=> pc[c] = "drop"
  BY <1>0 DEF Alive, MayPutBack, Reclaiming, Tok, Holds, KeepsMarker, FirstSweep
<1>2. OneQuarantineEach'
  BY <1>0, <1>1, QuarantineStays DEF Claiming
<1>3. QuarantineIsSwept'
  <2>1. ASSUME NEW q \in quar, q.tok[1] = c PROVE IsSwept(q)'
    <3>1. q.tok = Tok(c) /\ FirstSweep(c)
      BY <1>1, <2>1 DEF PairInv, QuarantineIsSwept, IsSwept
    <3>2. pc'[c] = "sweep" => q \in sweep'[c]
      BY <1>0, <3>1
    <3>3. QED
      BY <1>1, <2>1, <3>1, <3>2 DEF IsSwept
  <2>2. QED
    BY <1>0, <2>1, OthersSwept DEF QuarantineIsSwept
<1>4. HolderAtPath(c)'
  BY <1>1 DEF HolderAtPath
<1>5. PathIsCurrent(c)' /\ PutBackStays(c)'
  <2>1. \A d \in Callers \ {c} : Reclaiming(d)' <=> Reclaiming(d)
    BY <1>0, OthersSame
  <2>2. lock # NoTok /\ lock[1] = c => lock = Tok(c) /\ FirstSweep(c)
    BY <1>0, <1>1 DEF PairInv, PathIsCurrent
  <2>3. QED
    BY <1>0, <1>1, <2>1, <2>2 DEF PairInv, PathIsCurrent, PutBackStays
<1>6. MarkerIsCurrent(c)'
  <2>1. \A m \in marker' : m[1] # c
    BY <1>0, <1>1 DEF PairInv, MarkerIsCurrent
  <2>2. \A q \in sweep'[c] : q.tok = Tok(c) /\ pc'[c] = "sweep"
    BY <1>0 DEF PairInv, MarkerIsCurrent
  <2>3. QED
    BY <1>0, <1>1, <2>1, <2>2 DEF MarkerIsCurrent
<1>7. QED
  BY <1>0, <1>1, <1>2, <1>3, <1>4, <1>5, <1>6, OthersClauses DEF PairInv

\* Removing one's own quarantine files, and starting the second pass.
LEMMA PairSweep ==
  ASSUME TypeOK, MarkerInv, PairInv, AtMostTwoAlive', NEW c \in Callers, Sweep(c)
  PROVE  PairInv'
<1>0. /\ pc[c] = "sweep" /\ pc'[c] = (IF again[c] THEN "idle" ELSE "check")
      /\ again'[c] = TRUE /\ sweep'[c] = {} /\ quar' = quar \ sweep[c]
      /\ UNCHANGED <<lock, marker, call, left>>
      /\ Call(c) \/ Run(c)
      /\ again[c] \in BOOLEAN
  BY DEF Sweep, Step, TypeOK, Run, Release
<1>1. /\ Alive(c) /\ ~MayPutBack(c) /\ ~Reclaiming(c)' /\ Tok(c)' = Tok(c)
      /\ ~Holds(c) /\ ~Holds(c)' /\ ~KeepsMarker(c)
      /\ FirstSweep(c) => pc'[c] = "check"
  BY <1>0 DEF Alive, MayPutBack, Reclaiming, Tok, Holds, KeepsMarker, FirstSweep
<1>2. OneQuarantineEach'
  <2>1. \A x \in Callers : Mine(x)' \subseteq Mine(x)
    BY <1>0 DEF Mine
  <2>2. \A x \in Callers : pc'[x] \in Claiming \cup {"inspect"} \/ Reclaiming(x)' => Mine(x)' = {}
    BY <1>0, <1>1, <2>1, OthersUntouched, OthersSame DEF PairInv, OneQuarantineEach, Claiming
  <2>3. QED
    BY <1>0, <2>2 DEF PairInv, OneQuarantineEach
<1>3. QuarantineIsSwept'
  <2>1. ASSUME NEW q \in quar, q.tok[1] = c PROVE q \notin quar'
    BY <1>0, <1>1, <2>1 DEF PairInv, QuarantineIsSwept, IsSwept
  <2>2. QED
    BY <1>0, <2>1, OthersSwept DEF QuarantineIsSwept
<1>4. HolderAtPath(c)'
  BY <1>1 DEF HolderAtPath
<1>5. PathIsCurrent(c)' /\ PutBackStays(c)'
  <2>1. \A d \in Callers \ {c} : Reclaiming(d)' <=> Reclaiming(d)
    BY <1>0, OthersSame
  <2>2. lock # NoTok /\ lock[1] = c => lock = Tok(c) /\ FirstSweep(c)
    BY <1>0, <1>1 DEF PairInv, PathIsCurrent
  <2>3. QED
    BY <1>0, <1>1, <2>1, <2>2 DEF PairInv, PathIsCurrent, PutBackStays
<1>6. MarkerIsCurrent(c)'
  BY <1>0, <1>1 DEF PairInv, MarkerIsCurrent
<1>7. QED
  BY <1>0, <1>1, <1>2, <1>3, <1>4, <1>5, <1>6, OthersClauses DEF PairInv

\* A death only takes callers away.
LEMMA PairCrash ==
  ASSUME TypeOK, MarkerInv, PairInv, AtMostTwoAlive', NEW p \in Procs, Crash(p)
  PROVE  PairInv'
<1>0. UNCHANGED <<lock, marker, quar, call, left, again>>
  BY DEF Crash, files
<1>1. \A x \in Callers : \/ pc'[x] = "dead" /\ sweep'[x] = {}
                         \/ pc'[x] = pc[x] /\ sweep'[x] = sweep[x]
  BY DEF Crash, TypeOK
<1>2. \A x \in Callers : /\ Tok(x)' = Tok(x) /\ Mine(x)' = Mine(x)
                         /\ Holds(x)' => Holds(x)
                         /\ Reclaiming(x)' => Reclaiming(x)
                         /\ Alive(x)' => /\ Alive(x) /\ pc'[x] = pc[x] /\ sweep'[x] = sweep[x]
                                         /\ Holds(x)' <=> Holds(x)
                                         /\ FirstSweep(x)' <=> FirstSweep(x)
                                         /\ KeepsMarker(x)' <=> KeepsMarker(x)
                                         /\ MayPutBack(x)' <=> MayPutBack(x)
  BY <1>0, <1>1 DEF Tok, Mine, Holds, FirstSweep, Reclaiming, KeepsMarker, MayPutBack, Alive
<1>3. OneQuarantineEach'
  BY <1>0, <1>1, <1>2 DEF PairInv, OneQuarantineEach, Claiming
<1>4. QuarantineIsSwept'
  BY <1>0, <1>2, QuarantineFields DEF PairInv, QuarantineIsSwept, IsSwept
<1>5. ASSUME NEW x \in Callers
      PROVE  HolderAtPath(x)' /\ PathIsCurrent(x)' /\ PutBackStays(x)' /\ MarkerIsCurrent(x)'
  <2>1. HolderAtPath(x)'
    BY <1>0, <1>2 DEF PairInv, HolderAtPath
  <2>2. PathIsCurrent(x)'
    BY <1>0, <1>2 DEF PairInv, PathIsCurrent
  <2>3. PutBackStays(x)'
    BY <1>0, <1>1, <1>2 DEF PairInv, PutBackStays
  <2>4. MarkerIsCurrent(x)'
    BY <1>0, <1>1, <1>2 DEF PairInv, MarkerIsCurrent
  <2>5. QED
    BY <2>1, <2>2, <2>3, <2>4
<1>6. QED
  BY <1>3, <1>4, <1>5 DEF PairInv

LEMMA PairStutter == PairInv /\ UNCHANGED vars => PairInv'
<1> SUFFICES ASSUME PairInv, UNCHANGED vars PROVE PairInv'
  OBVIOUS
<1>1. \A x \in Callers : /\ Tok(x)' = Tok(x) /\ Mine(x)' = Mine(x)
                         /\ Holds(x)' <=> Holds(x)
                         /\ FirstSweep(x)' <=> FirstSweep(x)
                         /\ KeepsMarker(x)' <=> KeepsMarker(x)
                         /\ Alive(x)' <=> Alive(x)
                         /\ Reclaiming(x)' <=> Reclaiming(x)
                         /\ MayPutBack(x)' <=> MayPutBack(x)
  BY DEF vars, Tok, Mine, Holds, FirstSweep, KeepsMarker, Alive, Reclaiming, MayPutBack
<1>2. AtMostTwoAlive' /\ OneQuarantineEach'
  BY <1>1 DEF vars, PairInv, AtMostTwoAlive, OneQuarantineEach
<1>3. QuarantineIsSwept'
  BY DEF vars, PairInv, QuarantineIsSwept, IsSwept, Tok, Alive, Holds, FirstSweep
<1>4. ASSUME NEW x \in Callers
      PROVE  HolderAtPath(x)' /\ PathIsCurrent(x)' /\ PutBackStays(x)' /\ MarkerIsCurrent(x)'
  BY <1>1 DEF vars, PairInv, HolderAtPath, PathIsCurrent, PutBackStays, MarkerIsCurrent
<1>5. QED
  BY <1>2, <1>3, <1>4 DEF PairInv

\* What holds of every reachable state while at most two callers run.
DeathsInv == TypeOK /\ MarkerInv /\ PairInv /\ Departed \subseteq dead

LEMMA DeathsInit == TwoLive /\ Init => DeathsInv
  BY TypeInit, MarkerInit, PairInit DEF DeathsInv, Init

LEMMA DeathsStep == TwoLive /\ DeathsInv /\ [Next]_vars => DeathsInv'
<1> SUFFICES ASSUME TwoLive, TypeOK, MarkerInv, PairInv, Departed \subseteq dead, [Next]_vars
             PROVE  DeathsInv'
  BY DEF DeathsInv
<1>1. TypeOK' /\ MarkerInv'
  BY TypeStep, MarkerStep
<1>2. (Departed \subseteq dead)'
  <2>1. ASSUME NEW c \in Callers, Call(c) \/ Run(c) PROVE dead' = dead
    BY <2>1, StepsAreOfTheLiving
  <2>2. QED
    BY <2>1 DEF Next, Crash, vars
<1>3. TwoLive'
  BY DEF TwoLive
<1>4. AtMostTwoAlive'
  BY <1>1, <1>2, <1>3 DEF TwoLive, MarkerInv, AtMostTwoAlive, Alive
<1>5. PairInv'
  BY <1>4, PairStutter, PairOutside, PairCall, PairCreate, PairQuarantine, PairJudge,
     PairDiscard, PairRestore, PairCheck, PairUnlink, PairList, PairSweep, PairCrash
     DEF Next, Run, Claim, Recover, Release
<1>6. QED
  BY <1>1, <1>2, <1>5 DEF DeathsInv

LEMMA DeathsInvariant == TwoLive /\ Spec => []DeathsInv
<1>1. TwoLive => []TwoLive
  <2>1. TwoLive => TwoLive'
    BY DEF TwoLive
  <2>2. QED
    BY <2>1, PTL
<1>2. QED
  BY <1>1, DeathsInit, DeathsStep, PTL DEF Spec

\* Two callers that run exclude one another, whatever dead owners left behind,
\* however often the callers retry and reclaim, and whoever dies where.
THEOREM PairExclusion == TwoLive /\ Spec => []MutualExclusion
<1>1. DeathsInv => MutualExclusion
  BY AtMostOneHolds DEF DeathsInv, MutualExclusion, InSection, Holds
<1>2. QED
  BY <1>1, DeathsInvariant, PTL

\* A caller that took the holder's record for a stale one never destroys it.
THEOREM PairRecordSurvives == TwoLive /\ Spec => []HeldRecordSurvives
<1>1. DeathsInv => HeldRecordSurvives
  BY DEF DeathsInv, PairInv, HolderAtPath, HeldRecordSurvives, InSection, Holds
<1>2. QED
  BY <1>1, DeathsInvariant, PTL

\* A call that has ended leaves nothing of its own, although the other caller may
\* have moved its record and linked it back at any point of the release.
THEOREM PairNoGhost == TwoLive /\ Spec => []NoGhostAfterCall
<1>1. DeathsInv => NoGhostAfterCall
  <2> SUFFICES ASSUME TypeOK, PairInv, NEW c \in Callers, pc[c] = "idle"
               PROVE  /\ lock # Tok(c) /\ Tok(c) \notin marker
                      /\ \A q \in quar : q.tok # Tok(c)
    BY DEF DeathsInv, NoGhostAfterCall
  <2>1. Alive(c) /\ ~Holds(c) /\ ~FirstSweep(c) /\ ~KeepsMarker(c)
    BY DEF Alive, Holds, FirstSweep, KeepsMarker
  <2>2. Tok(c)[1] = c /\ Tok(c) # NoTok
    BY TokFields
  <2>3. QED
    BY <2>1, <2>2 DEF PairInv, PathIsCurrent, MarkerIsCurrent, QuarantineIsSwept, IsSwept
<1>2. QED
  BY <1>1, DeathsInvariant, PTL

\* With deaths at any point the files implement the abstract lock.
THEOREM PairRefinement == TwoLive /\ Spec => ImplementsAtomicLock
<1> DEFINE holders == {c \in Callers : InSection(c)}
<1>1. Init => Atomic!Init
  BY DEF Init, Atomic!Init, InSection
<1>2. DeathsInv /\ [Next]_vars => [Atomic!Next]_holders
  <2> SUFFICES ASSUME DeathsInv, [Next]_vars
               PROVE  Atomic!Next \/ UNCHANGED holders
    OBVIOUS
  <2>1. TypeOK /\ PairInv
    BY DEF DeathsInv
  <2>2. MutualExclusion
    BY <2>1, AtMostOneHolds DEF MutualExclusion, InSection, Holds
  <2>3. ASSUME NEW c \in Callers, NEW x \in Callers, CreateLock(c), InSection(x) PROVE FALSE
    <3>1. x # c /\ Holds(x) /\ Alive(c) /\ ~MayPutBack(c) /\ lock = NoTok
      BY <2>3 DEF CreateLock, Step, Holds, Alive, MayPutBack, InSection
    <3>2. QED
      BY <2>1, <3>1, HolderFillsPathInPair, TokFields
  <2>4. QED
    BY <2>1, <2>2, <2>3, LockStep
<1>3. QED
  BY <1>1, <1>2, DeathsInvariant, PTL DEF Spec, ImplementsAtomicLock, Atomic!Spec
-------------------------------------------------------------------------------
(* Every call comes nearer to its end                                      *)
(*                                                                         *)
(* The part of EveryCallEnds that needs no fairness: how far a call is     *)
(* from its end is measured by six numbers, in the order of their weight,  *)
(* and whatever the other callers do, only its own steps change them.      *)

\* The attempts, the work, the release.
Stage(c) == IF pc[c] \in {"idle", "dead"} THEN 0
            ELSE IF pc[c] \in Releasing THEN 1
            ELSE IF pc[c] = "work" THEN 2 ELSE 3

\* The second claim of an attempt, the second pass of a release, are the last.
Passes(c) == IF again[c] THEN 0 ELSE 1

Renames(c) == RenameRetries - tries[c]

\* Places of one pass, the last one first.
PlaceNumber(p) ==
  CASE p = "claim" -> 13 [] p = "vet" -> 12 [] p = "create" -> 11 [] p = "unmark" -> 10
    [] p = "inspect" -> 9 [] p = "confirm" -> 8 [] p = "relist" -> 7 [] p = "revet" -> 6
    [] p = "rename" -> 5 [] p = "judge" -> 4 [] p = "discard" -> 3 [] p = "restore" -> 2
    [] p = "retry" -> 1
    [] p = "check" -> 5 [] p = "unlink" -> 4 [] p = "drop" -> 3 [] p = "list" -> 2
    [] p = "sweep" -> 1
    [] OTHER -> 0

\* Markers of a listing that are still to be read.
Unread(c) == IF pc[c] \in {"vet", "revet"} THEN Cardinality(scan[c]) ELSE 0

Distance(c) ==
  [i \in 1..6 |->
     IF i = 1 THEN Stage(c) ELSE IF i = 2 THEN left[c] ELSE IF i = 3 THEN Passes(c)
     ELSE IF i = 4 THEN Renames(c) ELSE IF i = 5 THEN PlaceNumber(pc[c]) ELSE Unread(c)]

LessThan == {p \in Nat \X Nat : p[1] < p[2]}

Nearer == LexProductOrdering(LessThan, Nat, 6)

\* No call can come nearer to its end for ever.
LEMMA NearerIsWellFounded == IsWellFoundedOn(Nearer, [1..6 -> Nat])
<1>1. LessThan = OpToRel(<, Nat)
  BY DEF LessThan, OpToRel
<1>2. QED
  BY <1>1, NatLessThanWellFounded, WFLexProductOrdering DEF Nearer

\* What the measure relies on: an attempt recovers once, and what a listing found is
\* a finite set.
EffortInv ==
  /\ IsFiniteSet(marker)
  /\ \A c \in Callers :
       /\ tries[c] <= RenameRetries
       /\ pc[c] \in Recovering \ {"retry"} => ~again[c]
       /\ IsFiniteSet(scan[c])

\* The first of the six numbers that changes has become less.
Closer(c) ==
  \/ Stage(c)' < Stage(c)
  \/ /\ Stage(c)' = Stage(c)
     /\ \/ left'[c] < left[c]
        \/ /\ left'[c] = left[c]
           /\ \/ Passes(c)' < Passes(c)
              \/ /\ Passes(c)' = Passes(c)
                 /\ \/ Renames(c)' < Renames(c)
                    \/ /\ Renames(c)' = Renames(c)
                       /\ \/ PlaceNumber(pc'[c]) < PlaceNumber(pc[c])
                          \/ pc'[c] = pc[c] /\ Unread(c)' < Unread(c)

LEMMA MeasureType ==
  ASSUME TypeOK, EffortInv, NEW c \in Callers
  PROVE  /\ Stage(c) \in 0..3 /\ left[c] \in Nat /\ Passes(c) \in {0, 1} /\ Renames(c) \in Nat
         /\ PlaceNumber(pc[c]) \in Nat /\ Unread(c) \in Nat
<1>1. RenameRetries \in Nat /\ tries[c] \in Nat /\ tries[c] <= RenameRetries
  BY FileLockAssumption DEF TypeOK, EffortInv
<1>2. PlaceNumber(pc[c]) \in Nat
  BY DEF PlaceNumber, TypeOK, Places
<1>3. Cardinality(scan[c]) \in Nat
  BY FS_CardinalityType DEF EffortInv
<1>4. QED
  BY <1>1, <1>2, <1>3 DEF Stage, Passes, Renames, Unread, TypeOK

DistanceOK == \A c \in Callers : Distance(c) \in [1..6 -> Nat]

LEMMA DistanceType == TypeOK /\ EffortInv => DistanceOK
  BY MeasureType DEF DistanceOK, Distance

LEMMA CloserIsNearer ==
  ASSUME TypeOK, TypeOK', EffortInv, EffortInv', NEW c \in Callers, Closer(c)
  PROVE  <<Distance(c)', Distance(c)>> \in Nearer
<1> DEFINE m == Distance(c)'
           n == Distance(c)
<1>1. /\ n[1] = Stage(c) /\ n[2] = left[c] /\ n[3] = Passes(c)
      /\ n[4] = Renames(c) /\ n[5] = PlaceNumber(pc[c]) /\ n[6] = Unread(c)
  BY DEF Distance
<1>2. /\ m[1] = Stage(c)' /\ m[2] = left'[c] /\ m[3] = Passes(c)'
      /\ m[4] = Renames(c)' /\ m[5] = PlaceNumber(pc'[c]) /\ m[6] = Unread(c)'
  BY DEF Distance
<1>3. m \in [1..6 -> Nat] /\ n \in [1..6 -> Nat]
  <2>1. DistanceOK /\ DistanceOK'
    BY DistanceType, PTL
  <2>2. QED
    BY <2>1 DEF DistanceOK
<1>4. \/ m[1] < n[1]
      \/ m[1] = n[1] /\ m[2] < n[2]
      \/ m[1] = n[1] /\ m[2] = n[2] /\ m[3] < n[3]
      \/ m[1] = n[1] /\ m[2] = n[2] /\ m[3] = n[3] /\ m[4] < n[4]
      \/ m[1] = n[1] /\ m[2] = n[2] /\ m[3] = n[3] /\ m[4] = n[4] /\ m[5] < n[5]
      \/ m[1] = n[1] /\ m[2] = n[2] /\ m[3] = n[3] /\ m[4] = n[4] /\ m[5] = n[5] /\ m[6] < n[6]
  BY <1>1, <1>2 DEF Closer
<1> HIDE DEF m, n
<1>5. PICK j \in 1..6 : m[j] < n[j] /\ \A i \in 1..(j - 1) : m[i] = n[i]
  <2>1. m[1] < n[1] => \A i \in 1..(1 - 1) : m[i] = n[i]
    OBVIOUS
  <2>2. QED
    BY <1>4, <2>1
<1>6. <<m[j], n[j]>> \in LessThan
  BY <1>3, <1>5 DEF LessThan
<1>7. <<m, n>> \in Nearer
  BY <1>3, <1>5, <1>6 DEF Nearer, LexProductOrdering
<1>8. QED
  BY <1>7 DEF m, n


LEMMA EffortInit == IsFiniteSet(Callers) /\ Init => EffortInv
<1> SUFFICES ASSUME IsFiniteSet(Callers), Init PROVE EffortInv
  OBVIOUS
<1>1. IsFiniteSet(Callers \X {0}) /\ Leftovers \subseteq Callers \X {0}
  <2>1. IsFiniteSet({0})
    BY FS_Singleton
  <2>2. IsFiniteSet(Callers \X {0})
    BY <2>1, FS_Product
  <2>3. QED
    BY <2>2 DEF Leftovers
<1>2. IsFiniteSet(marker)
  BY <1>1, FS_Subset DEF Init
<1>3. \A c \in Callers : scan[c] = {} /\ tries[c] = 0 /\ pc[c] \in {"dead", "idle"}
  BY DEF Init
<1>4. QED
  BY <1>2, <1>3, FS_EmptySet, FileLockAssumption DEF EffortInv, Recovering

\* What a listing can find grows by the marker of the caller that steps.
LEMMA ListingsGrow ==
  ASSUME TypeOK, NEW c \in Callers, Call(c) \/ Run(c)
  PROVE  /\ marker' \subseteq marker \cup {Tok(c)}
         /\ \A x \in Callers : scan'[x] \subseteq scan[x] \cup marker
<1>1. CASE Call(c)
  BY <1>1 DEF Call, files
<1>2. CASE Claim(c)
  BY <1>2 DEF Claim, ListOwners, PassOwner, MeetOwner, WriteMarker, CreateLock, LoseLock,
              UndoClaim, NextAttempt, files, TypeOK
<1>3. CASE Recover(c)
  BY <1>3 DEF Recover, InspectAbsent, InspectKeep, InspectStale, Confirm, Confirmed,
              Quarantine, RenameAbsent, RenameBlocked, Judge, Discard, Restore, files
<1>4. CASE FinishWork(c) \/ Release(c)
  BY <1>4 DEF FinishWork, Release, CheckLock, Unlink, DropMarker, ListQuarantines, Sweep, files
<1>5. QED
  BY <1>1, <1>2, <1>3, <1>4 DEF Run

LEMMA OthersTriesUntouched ==
  ASSUME TypeOK, NEW c \in Callers, Call(c) \/ Run(c), NEW x \in Callers, x # c
  PROVE  tries'[x] = tries[x] /\ scan'[x] = scan[x]
<1>1. CASE Call(c)
  BY <1>1 DEF Call, TypeOK
<1>2. CASE Claim(c)
  BY <1>2 DEF Claim, ListOwners, PassOwner, MeetOwner, WriteMarker, CreateLock, LoseLock,
              UndoClaim, NextAttempt, TypeOK
<1>3. CASE Recover(c)
  BY <1>3 DEF Recover, InspectAbsent, InspectKeep, InspectStale, Confirm, Confirmed,
              Quarantine, RenameAbsent, RenameBlocked, Judge, Discard, Restore, TypeOK
<1>4. CASE FinishWork(c) \/ Release(c)
  BY <1>4 DEF FinishWork, Release, CheckLock, Unlink, DropMarker, ListQuarantines, Sweep, TypeOK
<1>5. QED
  BY <1>1, <1>2, <1>3, <1>4 DEF Run

\* One recovery an attempt, and no more renames than allowed.
LEMMA OwnEffort ==
  ASSUME TypeOK, EffortInv, NEW c \in Callers, Call(c) \/ Run(c)
  PROVE  /\ tries'[c] <= RenameRetries
         /\ pc'[c] \in Recovering \ {"retry"} => ~again'[c]
<1> USE FileLockAssumption DEF TypeOK, EffortInv, Recovering
<1>1. CASE Call(c)
  BY <1>1 DEF Call, Step
<1>2. CASE ListOwners(c) \/ PassOwner(c) \/ MeetOwner(c)
  BY <1>2 DEF ListOwners, PassOwner, MeetOwner, Refused, Step
<1>3. CASE WriteMarker(c) \/ CreateLock(c) \/ LoseLock(c) \/ UndoClaim(c) \/ NextAttempt(c)
  BY <1>3 DEF WriteMarker, CreateLock, LoseLock, UndoClaim, NextAttempt, Refused, Step
<1>4. CASE InspectAbsent(c) \/ InspectKeep(c) \/ InspectStale(c) \/ Confirm(c) \/ Confirmed(c)
  BY <1>4 DEF InspectAbsent, InspectKeep, InspectStale, ClaimAgain, Confirm, Confirmed, Step
<1>5. CASE Quarantine(c) \/ RenameAbsent(c) \/ RenameBlocked(c)
  BY <1>5 DEF Quarantine, RenameAbsent, RenameBlocked, Step
<1>6. CASE Judge(c) \/ Discard(c) \/ Restore(c)
  BY <1>6 DEF Judge, Discard, Restore, ClaimAgain, Step
<1>7. CASE FinishWork(c) \/ Release(c)
  BY <1>7 DEF FinishWork, Release, CheckLock, Unlink, DropMarker, ListQuarantines, Sweep,
              PastPath, Step
<1>8. QED
  BY <1>1, <1>2, <1>3, <1>4, <1>5, <1>6, <1>7 DEF Run, Claim, Recover

LEMMA EffortStep == TypeOK /\ EffortInv /\ [Next]_vars => EffortInv'
<1> SUFFICES ASSUME TypeOK, EffortInv, [Next]_vars PROVE EffortInv'
  OBVIOUS
<1>1. ASSUME NEW c \in Callers, Call(c) \/ Run(c) PROVE EffortInv'
  <2>1. IsFiniteSet(marker')
    <3>1. IsFiniteSet(marker \cup {Tok(c)})
      BY FS_AddElement DEF EffortInv
    <3>2. QED
      BY <1>1, <3>1, ListingsGrow, FS_Subset
  <2>2. ASSUME NEW x \in Callers PROVE IsFiniteSet(scan'[x])
    <3>1. IsFiniteSet(scan[x] \cup marker)
      BY FS_Union DEF EffortInv
    <3>2. QED
      BY <1>1, <3>1, ListingsGrow, FS_Subset
  <2>3. ASSUME NEW x \in Callers
        PROVE  tries'[x] <= RenameRetries /\ (pc'[x] \in Recovering \ {"retry"} => ~again'[x])
    <3>1. CASE x = c
      BY <1>1, <3>1, OwnEffort
    <3>2. CASE x # c
      BY <1>1, <3>2, OthersUntouched, OthersTriesUntouched DEF EffortInv
    <3>3. QED
      BY <3>1, <3>2
  <2>4. QED
    BY <2>1, <2>2, <2>3 DEF EffortInv
<1>2. ASSUME NEW p \in Procs, Crash(p) PROVE EffortInv'
  BY <1>2, FS_EmptySet DEF Crash, files, EffortInv, Recovering, TypeOK
<1>3. CASE UNCHANGED vars
  BY <1>3 DEF vars, EffortInv
<1>4. QED
  BY <1>1, <1>2, <1>3 DEF Next

\* A marker that has been read is one less to read.
LEMMA PassIsCloser ==
  ASSUME TypeOK, EffortInv, NEW c \in Callers, PassOwner(c)
  PROVE  Closer(c)
<1>1. PICK m \in scan[c] : scan' = [scan EXCEPT ![c] = @ \ {m}]
  BY DEF PassOwner
<1>2. pc[c] \in {"vet", "revet"} /\ UNCHANGED <<pc, left, again, tries>>
  BY DEF PassOwner
<1>3. scan'[c] = scan[c] \ {m} /\ IsFiniteSet(scan[c])
  BY <1>1 DEF TypeOK, EffortInv
<1>4. Cardinality(scan'[c]) = Cardinality(scan[c]) - 1 /\ Cardinality(scan[c]) \in Nat
  BY <1>3, FS_RemoveElement, FS_CardinalityType
<1>5. Unread(c)' < Unread(c)
  BY <1>2, <1>4 DEF Unread
<1>6. QED
  BY <1>2, <1>5 DEF Closer, Stage, Passes, Renames

\* From one place of a pass to a later one, with the counters as they were.
LEMMA OnwardIsCloser ==
  ASSUME TypeOK, NEW c \in Callers, UNCHANGED <<left, again, tries>>,
         \/ /\ pc[c] \in Claiming \cup Recovering /\ pc'[c] \in Claiming \cup Recovering
            /\ PlaceNumber(pc'[c]) < PlaceNumber(pc[c])
         \/ /\ pc[c] \in Releasing /\ pc'[c] \in Releasing
            /\ PlaceNumber(pc'[c]) < PlaceNumber(pc[c])
         \/ pc[c] \in Claiming /\ pc'[c] = "work"
         \/ pc[c] \in Releasing /\ pc'[c] = "idle"
  PROVE  Closer(c)
<1>1. Passes(c)' = Passes(c) /\ Renames(c)' = Renames(c) /\ left'[c] = left[c]
  BY DEF Passes, Renames
<1>2. Stage(c)' < Stage(c) \/ (Stage(c)' = Stage(c) /\ PlaceNumber(pc'[c]) < PlaceNumber(pc[c]))
  BY DEF Stage, Claiming, Recovering, Releasing
<1>3. QED
  BY <1>1, <1>2 DEF Closer

LEMMA RunIsCloser ==
  ASSUME TypeOK, EffortInv, NEW c \in Callers, Run(c)
  PROVE  Closer(c)
<1>0. left[c] \in Nat /\ tries[c] \in Nat /\ tries[c] <= RenameRetries /\ RenameRetries \in Nat
  BY FileLockAssumption DEF TypeOK, EffortInv
<1>1. CASE ListOwners(c) \/ MeetOwner(c) \/ WriteMarker(c) \/ CreateLock(c) \/ LoseLock(c) \/ UndoClaim(c)
  BY <1>1, OnwardIsCloser
     DEF ListOwners, MeetOwner, WriteMarker, CreateLock, LoseLock, UndoClaim, Refused, Step,
         files, TypeOK, PlaceNumber, Claiming, Recovering
<1>2. CASE PassOwner(c)
  BY <1>2, PassIsCloser
\* The next attempt, or none.
<1>3. CASE NextAttempt(c)
  BY <1>0, <1>3 DEF NextAttempt, Step, TypeOK, Closer, Stage, Releasing
<1>4. CASE InspectKeep(c) \/ InspectStale(c) \/ Confirm(c) \/ Confirmed(c)
  BY <1>4, OnwardIsCloser
     DEF InspectKeep, InspectStale, Confirm, Confirmed, Step, files, TypeOK, PlaceNumber,
         Claiming, Recovering
<1>5. CASE Quarantine(c) \/ RenameAbsent(c) \/ Judge(c) \/ Restore(c)
  BY <1>5, OnwardIsCloser
     DEF Quarantine, RenameAbsent, Judge, Restore, Step, files, TypeOK, PlaceNumber,
         Claiming, Recovering
\* The second claim of the attempt.
<1>6. ASSUME ClaimAgain(c, "inspect") \/ ClaimAgain(c, "discard"), UNCHANGED left PROVE Closer(c)
  <2>1. ~again[c] /\ again'[c] /\ pc[c] \in {"inspect", "discard"} /\ pc'[c] = "claim"
    BY <1>6 DEF ClaimAgain, Step, EffortInv, Recovering, TypeOK
  <2>2. QED
    BY <1>6, <2>1 DEF Closer, Stage, Passes, Releasing
<1>7. CASE InspectAbsent(c)
  BY <1>6, <1>7 DEF InspectAbsent
<1>8. CASE Discard(c)
  <2>1. CASE ClaimAgain(c, "discard")
    BY <1>6, <1>8, <2>1 DEF Discard
  <2>2. CASE Step(c, "discard", "retry") /\ UNCHANGED again
    BY <1>8, <2>2, OnwardIsCloser
       DEF Discard, Step, TypeOK, PlaceNumber, Claiming, Recovering
  <2>3. QED
    BY <1>8, <2>1, <2>2 DEF Discard
\* One more rename, or the end of the call.
<1>9. CASE RenameBlocked(c)
  <2>1. CASE tries[c] < RenameRetries
    <3>1. /\ pc[c] = "rename" /\ pc'[c] = "confirm" /\ tries'[c] = tries[c] + 1
          /\ UNCHANGED <<left, again>>
      BY <1>9, <2>1 DEF RenameBlocked, Step, TypeOK
    <3>2. Renames(c)' < Renames(c)
      BY <1>0, <3>1 DEF Renames
    <3>3. QED
      BY <3>1, <3>2 DEF Closer, Stage, Passes, Releasing
  <2>2. CASE ~(tries[c] < RenameRetries)
    <3>1. pc[c] = "rename" /\ pc'[c] = "idle"
      BY <1>9, <2>2 DEF RenameBlocked, Step, TypeOK
    <3>2. QED
      BY <3>1 DEF Closer, Stage, Releasing
  <2>3. QED
    BY <2>1, <2>2
<1>10. CASE FinishWork(c)
  <2>1. pc[c] = "work" /\ pc'[c] = "check"
    BY <1>10 DEF FinishWork, Step, TypeOK
  <2>2. QED
    BY <2>1 DEF Closer, Stage, Releasing
<1>11. CASE CheckLock(c) \/ Unlink(c) \/ DropMarker(c) \/ ListQuarantines(c)
  BY <1>11, OnwardIsCloser
     DEF CheckLock, Unlink, DropMarker, ListQuarantines, PastPath, Step, files, TypeOK,
         PlaceNumber, Releasing
\* The second pass, or the end of the call.
<1>12. CASE Sweep(c)
  <2>1. /\ pc[c] = "sweep" /\ again'[c] /\ UNCHANGED left
        /\ pc'[c] = IF again[c] THEN "idle" ELSE "check"
    BY <1>12 DEF Sweep, Step, TypeOK
  <2>2. QED
    BY <2>1 DEF Closer, Stage, Passes, Releasing
<1>13. QED
  BY <1>1, <1>2, <1>3, <1>4, <1>5, <1>7, <1>8, <1>9, <1>10, <1>11, <1>12
     DEF Run, Claim, Recover, Release

\* Nobody else's step takes a call back, and a death ends it.
LEMMA OthersDoNotDelay ==
  ASSUME TypeOK, NEW c \in Callers,
         \/ \E d \in Callers \ {c} : Call(d) \/ Run(d)
         \/ \E p \in Procs : Crash(p)
         \/ UNCHANGED vars
  PROVE  Distance(c)' = Distance(c) \/ Closer(c)
<1>1. CASE UNCHANGED <<pc, left, again, tries, scan>>
  BY <1>1 DEF Distance, Stage, Passes, Renames, Unread
<1>2. ASSUME NEW d \in Callers \ {c}, Call(d) \/ Run(d) PROVE Distance(c)' = Distance(c)
  <2>1. /\ pc'[c] = pc[c] /\ left'[c] = left[c] /\ again'[c] = again[c]
        /\ tries'[c] = tries[c] /\ scan'[c] = scan[c]
    BY <1>2, OthersUntouched, OthersTriesUntouched
  <2>2. QED
    BY <2>1 DEF Distance, Stage, Passes, Renames, Unread
<1>3. ASSUME NEW p \in Procs, Crash(p) PROVE Distance(c)' = Distance(c) \/ Closer(c)
  <2>1. /\ UNCHANGED <<left, again, tries>>
        /\ \/ pc'[c] = pc[c] /\ scan'[c] = scan[c]
           \/ pc'[c] = "dead"
    BY <1>3 DEF Crash, TypeOK
  <2>2. CASE pc'[c] = pc[c] /\ scan'[c] = scan[c]
    BY <2>1, <2>2 DEF Distance, Stage, Passes, Renames, Unread
  <2>3. CASE pc'[c] = "dead" /\ pc[c] \in {"idle", "dead"}
    <3>1. PlaceNumber(pc[c]) = 0 /\ PlaceNumber(pc'[c]) = 0
      BY <2>3 DEF PlaceNumber
    <3>2. QED
      BY <2>1, <2>3, <3>1 DEF Distance, Stage, Passes, Renames, Unread
  <2>4. CASE pc'[c] = "dead" /\ pc[c] \notin {"idle", "dead"}
    BY <2>4 DEF Closer, Stage
  <2>5. QED
    BY <2>1, <2>2, <2>3, <2>4
<1>4. QED
  BY <1>1, <1>2, <1>3 DEF vars

\* Claiming, reclaiming and releasing go on to their end whatever other callers and
\* deaths do: each step of a call is one of the finitely many it still has, and only
\* a new call of the caller starts the count again.
THEOREM CallsComeToTheirEnd ==
  IsFiniteSet(Callers) /\ Spec =>
    [][\A c \in Callers :
         /\ Run(c) => <<Distance(c)', Distance(c)>> \in Nearer
         /\ Distance(c)' = Distance(c) \/ <<Distance(c)', Distance(c)>> \in Nearer \/ Call(c)]_vars
<1> DEFINE Goes(c) ==
             /\ Run(c) => <<Distance(c)', Distance(c)>> \in Nearer
             /\ Distance(c)' = Distance(c) \/ <<Distance(c)', Distance(c)>> \in Nearer \/ Call(c)
<1>1. IsFiniteSet(Callers) /\ Spec => [](TypeOK /\ EffortInv)
  BY TypeInit, TypeStep, EffortInit, EffortStep, PTL DEF Spec
<1>2. ASSUME TypeOK, TypeOK', EffortInv, EffortInv', [Next]_vars, NEW c \in Callers PROVE Goes(c)
  <2>1. Run(c) => Closer(c)
    BY <1>2, RunIsCloser
  <2>2. Distance(c)' = Distance(c) \/ Closer(c) \/ Call(c)
    BY <1>2, <2>1, OthersDoNotDelay DEF Next
  <2>3. Closer(c) => <<Distance(c)', Distance(c)>> \in Nearer
    BY <1>2, CloserIsNearer
  <2>4. QED
    BY <2>1, <2>2, <2>3
<1>3. (TypeOK /\ EffortInv) /\ (TypeOK /\ EffortInv)' /\ [Next]_vars => [\A c \in Callers : Goes(c)]_vars
  BY <1>2
<1>4. QED
  BY <1>1, <1>3, PTL DEF Spec
===============================================================================
