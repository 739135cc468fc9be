------------------------------- MODULE FileLock -------------------------------
(***************************************************************************)
(* The cross-process lock file of packages/core/src/io.ts:                 *)
(* withExclusiveFileLock, recoverStaleLock and releaseOwnedLock, one step  *)
(* per file-system operation, with the death of a process between any two. *)
(*                                                                         *)
(* A caller owns the section through two files: an owner marker            *)
(* (<lock>.owner-<token>), written first, and the lock record itself.  A   *)
(* caller that finds the record of a dead owner renames it to a quarantine *)
(* file, looks at what it really moved, and puts a live owner's record     *)
(* back with link().                                                       *)
(*                                                                         *)
(* Files are their token: every call writes one random token to both       *)
(* files, so equal contents, device, inode and mtime mean equal tokens.    *)
(* The age of a record is not tracked: the staleAfterMs test may come out  *)
(* either way, which only adds behaviours.                                 *)
(***************************************************************************)
EXTENDS Naturals, FiniteSets

CONSTANTS
  Callers,       \* calls to withExclusiveFileLock run by these, one at a time
  Procs,         \* operating-system processes
  ProcOf,        \* [Callers -> Procs]: the process a caller runs in
  Departed,      \* processes that had already exited when the run starts
  Masked,        \* processes that still look alive once dead: their pid was
                 \* reused and its start identity cannot be read
  Retries,       \* delays.length: attempts after the first one
  RenameRetries, \* RENAME_RETRY_MS.length
  MaxCalls,      \* bound: calls per caller
  MaxCrashes,    \* bound: processes that die during the run
  NoTok          \* the lock path does not exist

Tokens == Callers \X Nat

ASSUME FileLockAssumption ==
  /\ ProcOf \in [Callers -> Procs]
  /\ Departed \subseteq Procs /\ Masked \subseteq Procs
  /\ Retries \in Nat /\ RenameRetries \in Nat
  /\ MaxCalls \in Nat /\ MaxCrashes \in Nat
  /\ NoTok \notin Tokens

VARIABLES
  lock,    \* the token in the lock file, or NoTok
  marker,  \* the tokens whose owner marker file exists
  quar,    \* quarantine files: who moved which token in which attempt
  dead,    \* processes that no longer run
  pc,      \* where each caller is
  call,    \* number of the caller's current call: with its name, its token
  left,    \* attempts the call still has
  again,   \* the attempt's second claim / the release's second pass
  tries,   \* rename retries used by this attempt
  insp,    \* the record recoverStaleLock inspected first
  scan,    \* marker files of a directory listing not read yet
  sweep    \* quarantine files of a directory listing to be removed

files == <<lock, marker, quar>>
locals == <<pc, call, left, again, tries, insp, scan, sweep>>
vars == <<lock, marker, quar, dead, pc, call, left, again, tries, insp, scan, sweep>>

Quarantines == [by : Callers, call : Nat, try : Nat, tok : Tokens]

Claiming == {"claim", "vet", "create", "unmark"}
Recovering == {"inspect", "confirm", "relist", "revet", "rename", "judge",
               "discard", "restore", "retry"}
Releasing == {"check", "unlink", "drop", "list", "sweep"}
Places == {"idle", "work", "dead"} \cup Claiming \cup Recovering \cup Releasing

Tok(c) == <<c, call[c]>>
Owner(t) == ProcOf[t[1]]

\* processAlive and processIdentity: a dead owner whose pid was recycled and
\* whose identity is unavailable is taken for alive (fail-closed).
SeemsAlive(t) == Owner(t) \notin dead \/ Owner(t) \in Masked

\* The quarantine file of c's current attempt: `.stale-<pid>-<counter>`.
Mine(c) == {q \in quar : q.by = c /\ q.call = call[c] /\ q.try = left[c]}

-------------------------------------------------------------------------------
(* A departed process may have left its record, its marker, or both. *)
Leftovers == {<<c, 0>> : c \in {x \in Callers : ProcOf[x] \in Departed}}

Init ==
  /\ lock \in Leftovers \cup {NoTok}
  /\ marker \in SUBSET Leftovers
  /\ quar = {}
  /\ dead = Departed
  /\ pc = [c \in Callers |-> IF ProcOf[c] \in Departed THEN "dead" ELSE "idle"]
  /\ call = [c \in Callers |-> 0]
  /\ left = [c \in Callers |-> 0]
  /\ again = [c \in Callers |-> FALSE]
  /\ tries = [c \in Callers |-> 0]
  /\ insp = [c \in Callers |-> NoTok]
  /\ scan = [c \in Callers |-> {}]
  /\ sweep = [c \in Callers |-> {}]

Step(c, from, to) == /\ pc[c] = from
                     /\ pc' = [pc EXCEPT ![c] = to]

\* A refused claim goes to recoverStaleLock once per attempt.
Refused(c) == IF again[c] THEN "retry" ELSE "inspect"

-------------------------------------------------------------------------------
(* Mutants: one plausible bug each, named after the action it replaces. *)

\* The retry loop never notices its last attempt.
NextAttemptPastEnd(c) ==
  /\ Step(c, "retry", "claim")
  /\ left' = [left EXCEPT ![c] = @ - 1]
  /\ again' = [again EXCEPT ![c] = FALSE]
  /\ insp' = [insp EXCEPT ![c] = NoTok]
  /\ tries' = [tries EXCEPT ![c] = 0]
  /\ UNCHANGED <<files, dead, call, scan, sweep>>

\* The attempt is not counted.
NextAttemptUncounted(c) ==
  /\ Step(c, "retry", "claim")
  /\ again' = [again EXCEPT ![c] = FALSE]
  /\ insp' = [insp EXCEPT ![c] = NoTok]
  /\ tries' = [tries EXCEPT ![c] = 0]
  /\ UNCHANGED <<files, dead, call, left, scan, sweep>>

\* The lock is written with rename() instead of link(): an occupied path is
\* overwritten.
CreateLockOverwrites(c) ==
  /\ Step(c, "create", "work")
  /\ lock' = Tok(c)
  /\ UNCHANGED <<marker, quar, dead, call, left, again, tries, insp, scan, sweep>>

\* Age alone makes a record stale, whether or not its owner runs.
InspectStaleByAge(c) ==
  /\ lock # NoTok
  /\ Step(c, "inspect", "confirm")
  /\ insp' = [insp EXCEPT ![c] = lock]
  /\ marker' = marker \ {lock}
  /\ UNCHANGED <<lock, quar, dead, call, left, again, tries, scan, sweep>>

\* Whatever the rename moved is taken for the stale record and deleted.
JudgeBlindly(c) ==
  /\ Step(c, "judge", IF Mine(c) = {} THEN "retry" ELSE "discard")
  /\ UNCHANGED <<files, dead, call, left, again, tries, insp, scan, sweep>>

\* The release makes one pass over the files instead of two.
SweepOnce(c) ==
  /\ Step(c, "sweep", "idle")
  /\ quar' = quar \ sweep[c]
  /\ sweep' = [sweep EXCEPT ![c] = {}]
  /\ UNCHANGED <<lock, marker, dead, call, left, again, tries, insp, scan>>

-------------------------------------------------------------------------------
(* withExclusiveFileLock: the claim *)

Call(c) ==
  /\ call[c] < MaxCalls
  /\ Step(c, "idle", "claim")
  /\ call' = [call EXCEPT ![c] = @ + 1]
  /\ left' = [left EXCEPT ![c] = Retries]
  /\ again' = [again EXCEPT ![c] = FALSE]
  /\ UNCHANGED <<files, dead, tries, insp, scan, sweep>>

\* hasActiveOwnerMarker: readdir, then each marker in turn.
ListOwners(c) ==
  /\ \/ Step(c, "claim", "vet")
     \/ Step(c, "relist", "revet")
  /\ scan' = [scan EXCEPT ![c] = marker]
  /\ UNCHANGED <<files, dead, call, left, again, tries, insp, sweep>>

\* ownerMarkerActive on one listed marker: a dead owner's marker is removed.
PassOwner(c) ==
  /\ pc[c] \in {"vet", "revet"}
  /\ \E m \in scan[c] :
       /\ m \notin marker \/ ~SeemsAlive(m)
       /\ marker' = marker \ {m}
       /\ scan' = [scan EXCEPT ![c] = @ \ {m}]
  /\ UNCHANGED <<lock, quar, dead, pc, call, left, again, tries, insp, sweep>>

MeetOwner(c) ==
  /\ \/ Step(c, "vet", Refused(c))
     \/ Step(c, "revet", "retry")
  /\ \E m \in scan[c] : m \in marker /\ SeemsAlive(m)
  /\ scan' = [scan EXCEPT ![c] = {}]
  /\ UNCHANGED <<files, dead, call, left, again, tries, insp, sweep>>

WriteMarker(c) ==
  /\ scan[c] = {}
  /\ Step(c, "vet", "create")
  /\ marker' = marker \cup {Tok(c)}
  /\ UNCHANGED <<lock, quar, dead, call, left, again, tries, insp, scan, sweep>>

\* writeFileExclusive(lockFile): link() succeeds only on a free path.
CreateLock(c) ==
  /\ lock = NoTok
  /\ Step(c, "create", "work")
  /\ lock' = Tok(c)
  /\ UNCHANGED <<marker, quar, dead, call, left, again, tries, insp, scan, sweep>>

LoseLock(c) ==
  /\ lock # NoTok
  /\ Step(c, "create", "unmark")
  /\ UNCHANGED <<files, dead, call, left, again, tries, insp, scan, sweep>>

UndoClaim(c) ==
  /\ Step(c, "unmark", Refused(c))
  /\ marker' = marker \ {Tok(c)}
  /\ UNCHANGED <<lock, quar, dead, call, left, again, tries, insp, scan, sweep>>

\* The end of an attempt: sleep and try again, or throw the last error.
NextAttempt(c) ==
  /\ pc[c] = "retry"
  /\ IF left[c] = 0
       THEN /\ Step(c, "retry", "idle")
            /\ UNCHANGED <<left, again>>
       ELSE /\ Step(c, "retry", "claim")
            /\ left' = [left EXCEPT ![c] = @ - 1]
            /\ again' = [again EXCEPT ![c] = FALSE]
  /\ insp' = [insp EXCEPT ![c] = NoTok]
  /\ tries' = [tries EXCEPT ![c] = 0]
  /\ UNCHANGED <<files, dead, call, scan, sweep>>

-------------------------------------------------------------------------------
(* recoverStaleLock *)

\* It returned true: claim once more within the same attempt.
ClaimAgain(c, from) ==
  /\ Step(c, from, "claim")
  /\ again' = [again EXCEPT ![c] = TRUE]

InspectAbsent(c) ==
  /\ lock = NoTok
  /\ ClaimAgain(c, "inspect")
  /\ UNCHANGED <<files, dead, call, left, tries, insp, scan, sweep>>

\* The record is younger than staleAfterMs, or its owner is alive.
InspectKeep(c) ==
  /\ lock # NoTok
  /\ Step(c, "inspect", "retry")
  /\ UNCHANGED <<files, dead, call, left, again, tries, insp, scan, sweep>>

InspectStale(c) ==
  /\ lock # NoTok /\ ~SeemsAlive(lock)
  /\ Step(c, "inspect", "confirm")
  /\ insp' = [insp EXCEPT ![c] = lock]
  /\ marker' = marker \ {lock}
  /\ UNCHANGED <<lock, quar, dead, call, left, again, tries, scan, sweep>>

\* stillOwnsStaleLock: re-read the record, then list the markers.
Confirm(c) ==
  /\ Step(c, "confirm", IF lock = insp[c] THEN "relist" ELSE "retry")
  /\ marker' = IF lock = insp[c] THEN marker \ {lock} ELSE marker
  /\ UNCHANGED <<lock, quar, dead, call, left, again, tries, insp, scan, sweep>>

Confirmed(c) ==
  /\ scan[c] = {}
  /\ Step(c, "revet", "rename")
  /\ UNCHANGED <<files, dead, call, left, again, tries, insp, scan, sweep>>

\* renameWithRetry moves whatever is at the path now.
Quarantine(c) ==
  /\ lock # NoTok
  /\ Step(c, "rename", "judge")
  /\ quar' = quar \cup {[by |-> c, call |-> call[c], try |-> left[c], tok |-> lock]}
  /\ lock' = NoTok
  /\ UNCHANGED <<marker, dead, call, left, again, tries, insp, scan, sweep>>

RenameAbsent(c) ==
  /\ lock = NoTok
  /\ Step(c, "rename", "retry")
  /\ UNCHANGED <<files, dead, call, left, again, tries, insp, scan, sweep>>

\* EPERM, EBUSY or EACCES: sleep and revalidate, or throw out of the call.
RenameBlocked(c) ==
  /\ lock # NoTok
  /\ IF tries[c] < RenameRetries
       THEN /\ Step(c, "rename", "confirm")
            /\ tries' = [tries EXCEPT ![c] = @ + 1]
            /\ UNCHANGED insp
       ELSE /\ Step(c, "rename", "idle")
            /\ tries' = [tries EXCEPT ![c] = 0]
            /\ insp' = [insp EXCEPT ![c] = NoTok]
  /\ UNCHANGED <<files, dead, call, left, again, scan, sweep>>

\* Read back what was moved: the inspected record or a replacement.
Judge(c) ==
  /\ \/ /\ Mine(c) = {}
        /\ Step(c, "judge", "retry")
        /\ UNCHANGED marker
     \/ \E q \in Mine(c) :
          IF q.tok = insp[c] \/ q.tok \notin marker \/ ~SeemsAlive(q.tok)
            THEN /\ Step(c, "judge", "discard")
                 /\ marker' = IF q.tok = insp[c] \/ SeemsAlive(q.tok)
                                THEN marker ELSE marker \ {q.tok}
            ELSE /\ Step(c, "judge", "restore")
                 /\ UNCHANGED marker
  /\ UNCHANGED <<lock, quar, dead, call, left, again, tries, insp, scan, sweep>>

\* Remove the moved file; only the inspected record counts as recovered.
Discard(c) ==
  /\ pc[c] = "discard"
  /\ quar' = quar \ Mine(c)
  /\ IF \E q \in Mine(c) : q.tok = insp[c]
       THEN ClaimAgain(c, "discard")
       ELSE Step(c, "discard", "retry") /\ UNCHANGED again
  /\ UNCHANGED <<lock, marker, dead, call, left, tries, insp, scan, sweep>>

\* link() the live owner's record back unless the path was taken meanwhile.
Restore(c) ==
  /\ Step(c, "restore", "retry")
  /\ lock' = IF lock = NoTok /\ Mine(c) # {}
               THEN (CHOOSE q \in Mine(c) : TRUE).tok ELSE lock
  /\ UNCHANGED <<marker, quar, dead, call, left, again, tries, insp, scan, sweep>>

-------------------------------------------------------------------------------
(* work() returns or throws, then releaseOwnedLock *)

FinishWork(c) ==
  /\ Step(c, "work", "check")
  /\ again' = [again EXCEPT ![c] = FALSE]
  /\ insp' = [insp EXCEPT ![c] = NoTok]
  /\ tries' = [tries EXCEPT ![c] = 0]
  /\ UNCHANGED <<files, dead, call, left, scan, sweep>>

PastPath(c) == IF again[c] THEN "list" ELSE "drop"

\* Read the record, then remove the file at the path in a second operation.
CheckLock(c) ==
  /\ Step(c, "check", IF lock = Tok(c) THEN "unlink" ELSE PastPath(c))
  /\ UNCHANGED <<files, dead, call, left, again, tries, insp, scan, sweep>>

Unlink(c) ==
  /\ Step(c, "unlink", PastPath(c))
  /\ lock' = NoTok
  /\ UNCHANGED <<marker, quar, dead, call, left, again, tries, insp, scan, sweep>>

DropMarker(c) ==
  /\ Step(c, "drop", "list")
  /\ marker' = marker \ {Tok(c)}
  /\ UNCHANGED <<lock, quar, dead, call, left, again, tries, insp, scan, sweep>>

\* cleanupOwnerQuarantines: list the quarantine files, remove one's own.
ListQuarantines(c) ==
  /\ Step(c, "list", "sweep")
  /\ sweep' = [sweep EXCEPT ![c] = {q \in quar : q.tok = Tok(c)}]
  /\ UNCHANGED <<files, dead, call, left, again, tries, insp, scan>>

Sweep(c) ==
  /\ Step(c, "sweep", IF again[c] THEN "idle" ELSE "check")
  /\ quar' = quar \ sweep[c]
  /\ again' = [again EXCEPT ![c] = TRUE]
  /\ sweep' = [sweep EXCEPT ![c] = {}]
  /\ UNCHANGED <<lock, marker, dead, call, left, tries, insp, scan>>

-------------------------------------------------------------------------------
\* A process dies: its callers stop where they are, their files stay.
Crash(p) ==
  /\ p \notin dead
  /\ Cardinality(dead \ Departed) < MaxCrashes
  /\ dead' = dead \cup {p}
  /\ pc' = [c \in Callers |-> IF ProcOf[c] = p THEN "dead" ELSE pc[c]]
  /\ scan' = [c \in Callers |-> IF ProcOf[c] = p THEN {} ELSE scan[c]]
  /\ sweep' = [c \in Callers |-> IF ProcOf[c] = p THEN {} ELSE sweep[c]]
  /\ UNCHANGED <<files, call, left, again, tries, insp>>

Claim(c) == \/ ListOwners(c) \/ PassOwner(c) \/ MeetOwner(c) \/ WriteMarker(c)
            \/ CreateLock(c) \/ LoseLock(c) \/ UndoClaim(c) \/ NextAttempt(c)

Recover(c) == \/ InspectAbsent(c) \/ InspectKeep(c) \/ InspectStale(c)
              \/ Confirm(c) \/ Confirmed(c) \/ Quarantine(c) \/ RenameAbsent(c)
              \/ RenameBlocked(c) \/ Judge(c) \/ Discard(c) \/ Restore(c)

Release(c) == \/ CheckLock(c) \/ Unlink(c) \/ DropMarker(c)
              \/ ListQuarantines(c) \/ Sweep(c)

Run(c) == Claim(c) \/ Recover(c) \/ FinishWork(c) \/ Release(c)

Next == \/ \E c \in Callers : Call(c) \/ Run(c)
        \/ \E p \in Procs : Crash(p)

Spec == Init /\ [][Next]_vars

\* A live process keeps running its calls to the end, and `work` returns.
FairSpec == Spec /\ \A c \in Callers : WF_vars(Run(c))

-------------------------------------------------------------------------------
TypeOK ==
  /\ lock \in Tokens \cup {NoTok}
  /\ marker \subseteq Tokens
  /\ quar \subseteq Quarantines
  /\ dead \subseteq Procs
  /\ pc \in [Callers -> Places]
  /\ call \in [Callers -> Nat]
  /\ left \in [Callers -> Nat]
  /\ again \in [Callers -> BOOLEAN]
  /\ tries \in [Callers -> Nat]
  /\ insp \in [Callers -> Tokens \cup {NoTok}]
  /\ scan \in [Callers -> SUBSET Tokens]
  /\ sweep \in [Callers -> SUBSET Quarantines]

InSection(c) == pc[c] = "work"

\* At most one caller runs its `work` callback: the exclusion the board's write
\* verbs rely on (store.ts, withLeaseLock).
MutualExclusion == \A c, d \in Callers : InSection(c) /\ InSection(d) => c = d

\* A caller in its section keeps its owner marker on disk whatever the other
\* callers reclaim: the marker is what keeps a third claimant out while the lock
\* record itself is in quarantine.
HolderIsMarked == \A c \in Callers : InSection(c) => Tok(c) \in marker

\* The lock record of a caller in its section is never destroyed, only moved:
\* it is at the lock path or in a quarantine file, from which its owner's release
\* sweeps it.
HeldRecordSurvives ==
  \A c \in Callers :
    InSection(c) => lock = Tok(c) \/ \E q \in quar : q.tok = Tok(c)

\* A call that has ended leaves no lock record, no marker and no quarantine file
\* of its own behind, although reclaimers may have moved and relinked its record
\* while it released ("a completed owner can never leave a ghost lock").
NoGhostAfterCall ==
  \A c \in Callers :
    pc[c] = "idle" => /\ lock # Tok(c)
                      /\ Tok(c) \notin marker
                      /\ \A q \in quar : q.tok # Tok(c)

\* Every call ends: it gets the lock and releases it, or it throws after its last
\* attempt, or its process dies.  No cycle of reclaims keeps a caller busy.
EveryCallEnds ==
  \A c \in Callers : pc[c] = "claim" ~> pc[c] \in {"idle", "dead"}

Atomic == INSTANCE AtomicLock WITH holders <- {c \in Callers : InSection(c)}

\* Claiming, reclaiming and releasing the files implements the abstract lock.
ImplementsAtomicLock == Atomic!Spec

-------------------------------------------------------------------------------
(* Inductive strengthenings, for the proofs in FileLockProofs. *)

\* From writing its marker to removing it, c is in one of these places.
KeepsMarker(c) == \/ pc[c] \in {"create", "unmark", "work", "drop"}
                  \/ pc[c] \in {"check", "unlink"} /\ ~again[c]

\* A marker is only ever removed by its owner or after its owner's death.
MarkerInv ==
  /\ \A c \in Callers : pc[c] # "dead" <=> ProcOf[c] \notin dead
  /\ \A c \in Callers : insp[c] # NoTok => ~SeemsAlive(insp[c])
  /\ \A c \in Callers : KeepsMarker(c) => Tok(c) \in marker

\* c's record has been created and c has not started its second pass.
Holds(c) == \/ pc[c] = "work"
            \/ pc[c] \in {"check", "unlink"} /\ ~again[c]

\* While no process dies, no record is ever taken for stale and the lock path
\* alone decides who is inside.
CalmInv ==
  /\ dead = {} /\ quar = {}
  /\ \A c \in Callers : pc[c] \notin {"confirm", "relist", "revet", "rename",
                                        "judge", "discard", "restore", "dead"}
  /\ \A c \in Callers : Holds(c) => lock = Tok(c)
  /\ \A c \in Callers : pc[c] = "unlink" => ~again[c]
  /\ lock # NoTok => \E c \in Callers : Holds(c) /\ lock = Tok(c)

\* The clauses below hold with deaths at any point, for as long as at most two
\* callers run; with three, the file_lock_three run breaks MutualExclusion.
Alive(c) == pc[c] # "dead"

AtMostTwoAlive ==
  \A c, d, e \in Callers : Alive(c) /\ Alive(d) /\ Alive(e) => c = d \/ c = e \/ d = e

Reclaiming(c) == pc[c] \in {"confirm", "relist", "revet", "rename"}
MayPutBack(c) == pc[c] \in {"judge", "restore"}

\* c has gone past the lock path once and sweeps its files for the first time.
FirstSweep(c) == pc[c] \in {"drop", "list", "sweep"} /\ ~again[c]

\* A holder's record is at the lock path, or the other caller has just moved it
\* away and will judge it and put it back.
HolderAtPath(c) ==
  Holds(c) => \/ lock = Tok(c)
              \/ /\ lock = NoTok
                 /\ \E q \in quar :
                      /\ q.tok = Tok(c)
                      /\ \A d \in Callers \ {c} : Alive(d) => MayPutBack(d) /\ q \in Mine(d)

\* The record of a running caller is of its current call, and is at the lock path
\* only before that call's second unlink.
PathIsCurrent(c) ==
  Alive(c) /\ lock # NoTok /\ lock[1] = c =>
    /\ lock = Tok(c)
    /\ \/ Holds(c) \/ FirstSweep(c)
       \/ pc[c] \in {"check", "unlink"} /\ again[c]

\* While a record put back during its owner's release is at the lock path, nobody
\* is about to rename it away again, and the second unlink finds it there.
PutBackStays(c) ==
  /\ Alive(c) /\ ~Holds(c) /\ lock = Tok(c) => \A d \in Callers \ {c} : ~Reclaiming(d)
  /\ pc[c] = "unlink" /\ again[c] => lock = Tok(c)

\* A running caller's record in quarantine is of its current call, and the first
\* sweep finds it.
IsSwept(q) ==
  Alive(q.tok[1]) =>
    /\ q.tok = Tok(q.tok[1])
    /\ \/ Holds(q.tok[1])
       \/ FirstSweep(q.tok[1]) /\ (pc[q.tok[1]] = "sweep" => q \in sweep[q.tok[1]])

QuarantineIsSwept == \A q \in quar : IsSwept(q)

MarkerIsCurrent(c) ==
  /\ \A m \in marker : Alive(c) /\ m[1] = c => m = Tok(c) /\ KeepsMarker(c)
  /\ pc[c] = "drop" => ~again[c]
  /\ \A q \in sweep[c] : q.tok = Tok(c) /\ pc[c] = "sweep"

\* An attempt moves one file at most, and has none before its rename.
OneQuarantineEach ==
  /\ \A q, r \in quar : q.by = r.by /\ q.call = r.call /\ q.try = r.try => q = r
  /\ \A q \in quar : /\ q.call <= call[q.by]
                     /\ q.call = call[q.by] => q.try >= left[q.by]
  /\ \A c \in Callers :
       pc[c] \in Claiming \cup {"inspect"} \/ Reclaiming(c) => Mine(c) = {}

PairInv ==
  /\ AtMostTwoAlive
  /\ OneQuarantineEach
  /\ QuarantineIsSwept
  /\ \A c \in Callers : /\ HolderAtPath(c) /\ PathIsCurrent(c)
                        /\ PutBackStays(c) /\ MarkerIsCurrent(c)
===============================================================================
