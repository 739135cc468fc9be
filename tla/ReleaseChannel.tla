------------------------------ MODULE ReleaseChannel ------------------------------
(***************************************************************************)
(* Release channels: the records under .kanmer/releases and the redo log   *)
(* that makes one release verb atomic (packages/core/src/release.ts and    *)
(* the release verbs of store.ts).                                         *)
(*                                                                         *)
(* A verb runs under the board-wide write lock.  It finishes whatever an   *)
(* earlier holder of the lock left behind, checks the channel, writes the  *)
(* epoch "pending", writes a journal with the before and the after image   *)
(* of every file it touches, and then the files, one atomic write each.    *)
(* The holder may die between any two of these writes.                     *)
(*                                                                         *)
(* An attempt is named by its ordinal; a lease is minted with its attempt, *)
(* so the ordinal stands for the lease id too; a transaction id is minted  *)
(* with its epoch, so the revision stands for it.  Every field fixed when  *)
(* an attempt is minted (candidate, SHA, branch, policy) is represented by *)
(* owner; tickets stand for the roster; clocks only move forward.          *)
(***************************************************************************)
EXTENDS Naturals, Sequences

CONSTANTS
  Channels, Owners, Tickets,
  None,            \* no lease, no attempt, no journal, no epoch
  RetryMax,        \* RELEASE_RETRY_MAX_ATTEMPTS
  MaxOrdinal,      \* bound: attempts per channel
  MaxTx,           \* bound: transactions begun
  MaxCrashes       \* bound: deaths of a lock holder

Outcomes == {"active", "released", "failed", "superseded"}
Ordinals == 1..MaxOrdinal

\* retry counts the failed observations; 0 is no schedule, RetryMax an exhausted one.
Attempts ==
  [owner : Owners, outcome : Outcomes, supersedes : 0..MaxOrdinal,
   successor : 0..MaxOrdinal, retry : 0..RetryMax, included : SUBSET Tickets]

Leases == [ordinal : Ordinals, rev : Nat \ {0}, owner : Owners]

Epochs == [rev : 1..MaxTx, phase : {"pending", "stable"}, channel : Channels]

ASSUME BoundsAssumption ==
  /\ RetryMax \in Nat \ {0} /\ MaxOrdinal \in Nat \ {0}
  /\ MaxTx \in Nat \ {0} /\ MaxCrashes \in Nat
ASSUME NoneAssumption == None \notin Attempts /\ None \notin Leases /\ None \notin Epochs

VARIABLES
  attempt,   \* attempts/<channel>@<ordinal>.json
  head,      \* heads/<channel>.json: the latest ordinal, 0 when there is no file
  lease,     \* channels/<channel>.json
  epoch,     \* the state record, one for the board
  journal,   \* transactions/<channel>.json
  busy,      \* a call holds the board write lock
  intent,    \* that call has written the epoch but not yet its journal
  crashes

files == <<attempt, head, lease>>
vars == <<attempt, head, lease, epoch, journal, busy, intent, crashes>>

Init ==
  /\ attempt = [c \in Channels |-> [i \in Ordinals |-> None]]
  /\ head = [c \in Channels |-> 0]
  /\ lease = [c \in Channels |-> None]
  /\ epoch = None
  /\ journal = [c \in Channels |-> None]
  /\ busy = FALSE
  /\ intent = None
  /\ crashes = 0

-----------------------------------------------------------------------------------
(* Legality of a journal (isReleaseMutationSemanticallyValid)              *)

Terminal(x) == x.outcome # "active"

\* releaseEndpointConsistent: head, lease and the head's attempt agree.
Consistent(h, l, x) ==
  IF h = 0 THEN l = None /\ x = None
  ELSE /\ x # None
       /\ IF l = None THEN x.outcome = "released"
          ELSE /\ l.ordinal = h /\ l.owner = x.owner
               /\ x.outcome \notin {"released", "superseded"}

HeadAttempt(image) == IF image.head = 0 THEN None ELSE image.attempts[image.head]

\* Mutant: the schedule is never exhausted.
NextRetryUncapped(r) == r + 1

NextRetry(r) == IF r = RetryMax THEN r ELSE r + 1

Minted(o, T, pred) ==
  [owner |-> o, outcome |-> "active", supersedes |-> pred, successor |-> 0,
   retry |-> 0, included |-> T]

FreshLease(o, i) == [ordinal |-> i, rev |-> 1, owner |-> o]
Renewed(l) == [l EXCEPT !.rev = @ + 1]

\* The attempt transitions a renewed lease may carry.
ProgressLegal(x, y) ==
  /\ ~Terminal(x) /\ ~Terminal(y)
  /\ y = [x EXCEPT !.retry = y.retry, !.included = y.included]
  /\ y.retry \in {x.retry, 0, NextRetry(x.retry)}
FailedLegal(x, y) == ~Terminal(x) /\ y = [x EXCEPT !.outcome = "failed"]
CompletedLegal(x, y) == ~Terminal(x) /\ y = [x EXCEPT !.outcome = "released"]
SupersededLegal(x, y, i) ==
  ~Terminal(x) /\ y = [x EXCEPT !.outcome = "superseded", !.successor = i]

\* A verb that keeps the head: renew, record, fail or complete.
SameHeadLegal(b, a) ==
  LET x == HeadAttempt(b)
      y == a.attempts[b.head]
  IN  /\ DOMAIN a.attempts = {b.head}
      /\ b.lease # None
      /\ Consistent(a.head, a.lease, y)
      /\ \/ a.lease = None /\ CompletedLegal(x, y)
         \/ /\ a.lease = Renewed(b.lease)
            /\ x = y \/ ProgressLegal(x, y) \/ FailedLegal(x, y)

\* A verb that mints an attempt: acquire or supersede.
NewHeadLegal(b, a) ==
  LET n == b.head + 1
      y == a.attempts[n]
      x == HeadAttempt(b)
      pred == IF b.lease = None THEN 0 ELSE b.head
  IN  /\ a.head = n
      /\ DOMAIN a.attempts = {n} \cup ({b.head} \ {0})
      /\ y = Minted(y.owner, y.included, pred)
      /\ a.lease = FreshLease(y.owner, n)
      /\ CASE b.head = 0     -> b.lease = None
           [] b.head # 0 /\ b.lease = None ->
                 x.outcome = "released" /\ a.attempts[b.head] = x
           [] OTHER          ->
                 IF x.outcome = "failed" THEN a.attempts[b.head] = x
                 ELSE SupersededLegal(x, a.attempts[b.head], n)

Legal(J) ==
  LET b == J.before
      a == J.after
  IN  /\ a.head # 0
      /\ {i \in DOMAIN b.attempts : b.attempts[i] # None} = {b.head} \ {0}
      /\ Consistent(b.head, b.lease, HeadAttempt(b))
      /\ IF a.head = b.head THEN SameHeadLegal(b, a) ELSE NewHeadLegal(b, a)

-----------------------------------------------------------------------------------
(* The verbs: what each one requires of its channel, and the image it      *)
(* wants there.  Lease id, lease revision and policy version are compared  *)
(* with the caller's; a call that names others is refused and changes      *)
(* nothing.                                                                *)

Image(h, l, xs) == [head |-> h, lease |-> l, attempts |-> xs]

Current(c) == attempt[c][head[c]]

\* readHeldChannel: a lease that agrees with the durable head.
Held(c) ==
  /\ lease[c] # None
  /\ head[c] # 0 /\ Consistent(head[c], lease[c], Current(c))

Acquirable(c) ==
  /\ lease[c] = None
  /\ head[c] # 0 => Current(c) # None /\ Current(c).outcome = "released"

AcquireImage(c, o, T) ==
  LET n == head[c] + 1
  IN  Image(n, FreshLease(o, n),
            [i \in {n} \cup ({head[c]} \ {0}) |->
               IF i = n THEN Minted(o, T, 0) ELSE attempt[c][i]])

\* Renew, record and fail rewrite the head attempt as x under a renewed lease.
RenewedImage(c, x) == Image(head[c], Renewed(lease[c]), [i \in {head[c]} |-> x])

Progressed(c, T, r) == [Current(c) EXCEPT !.included = T, !.retry = r]

Retries(c) == {Current(c).retry, 0, NextRetry(Current(c).retry)}

FailedAttempt(c) == [Current(c) EXCEPT !.outcome = "failed"]

CompleteImage(c) ==
  Image(head[c], None, [i \in {head[c]} |-> [Current(c) EXCEPT !.outcome = "released"]])

\* Mutant: a failed predecessor is relabelled like an active one.
ArchivedAlways(c) == [Current(c) EXCEPT !.outcome = "superseded", !.successor = head[c] + 1]

\* A failed predecessor is frozen whole: only the child carries the link.
Archived(c) ==
  IF Current(c).outcome = "failed" THEN Current(c)
  ELSE [Current(c) EXCEPT !.outcome = "superseded", !.successor = head[c] + 1]

SupersedeImage(c, o, T) ==
  LET n == head[c] + 1
  IN  Image(n, FreshLease(o, n),
            [i \in {n, head[c]} |-> IF i = n THEN Minted(o, T, head[c]) ELSE Archived(c)])

-----------------------------------------------------------------------------------
(* Recovery and commit                                                     *)

Pending == epoch # None /\ epoch.phase = "pending"

\* Mutant: only a journal asks for recovery.
NeedsRecoveryOfJournal == epoch # None /\ journal[epoch.channel] # None

NeedsRecovery == Pending \/ (epoch # None /\ journal[epoch.channel] # None)

NextTx == IF epoch = None THEN 1 ELSE epoch.rev + 1

Intended(c, after) ==
  [channel |-> c, tx |-> NextTx, after |-> after,
   before |-> Image(head[c], lease[c], [i \in DOMAIN after.attempts |-> attempt[c][i]])]

\* Any call that ends in the board write lock: a release verb, or
\* recoverPendingReleaseForWrite of an explicit reconciliation.
StartCall ==
  /\ ~busy
  /\ busy' = TRUE
  /\ UNCHANGED <<files, epoch, journal, intent, crashes>>

\* A call returns, or is refused, only once recovery has nothing left to do.
EndCall ==
  /\ busy /\ intent = None /\ ~NeedsRecovery
  /\ busy' = FALSE
  /\ UNCHANGED <<files, epoch, journal, intent, crashes>>

\* commitReleaseMutation up to the epoch.
Begin(c, after) ==
  /\ busy /\ intent = None /\ ~NeedsRecovery
  /\ NextTx <= MaxTx /\ after.head <= MaxOrdinal
  /\ Legal(Intended(c, after))
  /\ epoch' = [rev |-> NextTx, phase |-> "pending", channel |-> c]
  /\ intent' = Intended(c, after)
  /\ UNCHANGED <<files, journal, busy, crashes>>

AcquireReleaseChannel(c, o, T) == Acquirable(c) /\ Begin(c, AcquireImage(c, o, T))

RenewReleaseChannel(c) == Held(c) /\ Begin(c, RenewedImage(c, Current(c)))

RecordReleaseProgress(c, T) ==
  /\ Held(c) /\ ~Terminal(Current(c))
  /\ \E r \in Retries(c) : Begin(c, RenewedImage(c, Progressed(c, T, r)))

FailReleaseAttempt(c) ==
  Held(c) /\ ~Terminal(Current(c)) /\ Begin(c, RenewedImage(c, FailedAttempt(c)))

CompleteReleaseAttempt(c) == Held(c) /\ ~Terminal(Current(c)) /\ Begin(c, CompleteImage(c))

\* Open to any owner: the lease has expired, or an operator said so.
SupersedeReleaseAttempt(c, o, T) ==
  /\ Held(c) /\ Current(c).outcome \in {"active", "failed"}
  /\ Begin(c, SupersedeImage(c, o, T))

WriteJournal ==
  /\ busy /\ intent # None
  /\ journal' = [journal EXCEPT ![intent.channel] = intent]
  /\ intent' = None
  /\ UNCHANGED <<files, epoch, busy, crashes>>

FilesAre(c, image) ==
  /\ \A i \in DOMAIN image.attempts : attempt[c][i] = image.attempts[i]
  /\ head[c] = image.head /\ lease[c] = image.lease

\* The preflight: every file is as the journal found it or as it wants it.
Applicable(c) ==
  LET J == journal[c]
  IN  /\ epoch.channel = J.channel /\ epoch.rev = J.tx
      /\ \A i \in DOMAIN J.after.attempts :
            attempt[c][i] \in {J.before.attempts[i], J.after.attempts[i]}
      /\ head[c] \in {J.before.head, J.after.head}
      /\ lease[c] \in {J.before.lease, J.after.lease}
      /\ epoch.phase = "stable" => FilesAre(c, J.after)

\* The journal a holder of the lock is applying.
Recovering(c) ==
  /\ busy /\ intent = None
  /\ epoch # None /\ epoch.channel = c /\ journal[c] # None /\ Applicable(c)

\* Mutant: what is found written is undone.
ApplyAttemptOrUndo(c) ==
  /\ Recovering(c)
  /\ \E i \in DOMAIN journal[c].after.attempts :
       attempt' = [attempt EXCEPT ![c][i] =
         IF @ = journal[c].before.attempts[i] THEN journal[c].after.attempts[i]
         ELSE journal[c].before.attempts[i]]
  /\ UNCHANGED <<head, lease, epoch, journal, busy, intent, crashes>>

\* Attempts are written in ordinal order, predecessor before successor.
ApplyAttempt(c) ==
  /\ Recovering(c)
  /\ \E i \in DOMAIN journal[c].after.attempts :
       /\ attempt[c][i] # journal[c].after.attempts[i]
       /\ \A k \in DOMAIN journal[c].after.attempts :
            k < i => attempt[c][k] = journal[c].after.attempts[k]
       /\ attempt' = [attempt EXCEPT ![c][i] = journal[c].after.attempts[i]]
  /\ UNCHANGED <<head, lease, epoch, journal, busy, intent, crashes>>

AttemptsApplied(c) ==
  \A i \in DOMAIN journal[c].after.attempts : attempt[c][i] = journal[c].after.attempts[i]

ApplyHead(c) ==
  /\ Recovering(c) /\ AttemptsApplied(c)
  /\ head[c] # journal[c].after.head
  /\ head' = [head EXCEPT ![c] = journal[c].after.head]
  /\ UNCHANGED <<attempt, lease, epoch, journal, busy, intent, crashes>>

\* An after image without a lease removes the file.
ApplyLease(c) ==
  /\ Recovering(c) /\ AttemptsApplied(c) /\ head[c] = journal[c].after.head
  /\ lease[c] # journal[c].after.lease
  /\ lease' = [lease EXCEPT ![c] = journal[c].after.lease]
  /\ UNCHANGED <<attempt, head, epoch, journal, busy, intent, crashes>>

\* Mutant: the epoch is settled before the lease is written.
StabiliseEarly(c) ==
  /\ Recovering(c) /\ AttemptsApplied(c) /\ head[c] = journal[c].after.head
  /\ epoch.phase = "pending"
  /\ epoch' = [epoch EXCEPT !.phase = "stable"]
  /\ UNCHANGED <<files, journal, busy, intent, crashes>>

Stabilise(c) ==
  /\ Recovering(c) /\ FilesAre(c, journal[c].after)
  /\ epoch.phase = "pending"
  /\ epoch' = [epoch EXCEPT !.phase = "stable"]
  /\ UNCHANGED <<files, journal, busy, intent, crashes>>

\* Mutant: the journal goes before the epoch is settled.
DropJournalEarly(c) ==
  /\ Recovering(c) /\ AttemptsApplied(c)
  /\ journal' = [journal EXCEPT ![c] = None]
  /\ UNCHANGED <<files, epoch, busy, intent, crashes>>

DropJournal(c) ==
  /\ Recovering(c) /\ epoch.phase = "stable"
  /\ journal' = [journal EXCEPT ![c] = None]
  /\ UNCHANGED <<files, epoch, busy, intent, crashes>>

\* Pending without a journal: the holder died in the one-write gap.
RollBackEpoch ==
  /\ busy /\ intent = None
  /\ Pending /\ journal[epoch.channel] = None
  /\ epoch' = [epoch EXCEPT !.phase = "stable"]
  /\ UNCHANGED <<files, journal, busy, intent, crashes>>

\* The holder dies; the lock is later reclaimed (module FileLock).
Crash ==
  /\ busy /\ crashes < MaxCrashes
  /\ busy' = FALSE /\ intent' = None
  /\ crashes' = crashes + 1
  /\ UNCHANGED <<files, epoch, journal>>

Verb(c) ==
  \/ \E o \in Owners, T \in SUBSET Tickets :
       AcquireReleaseChannel(c, o, T) \/ SupersedeReleaseAttempt(c, o, T)
  \/ RenewReleaseChannel(c)
  \/ \E T \in SUBSET Tickets : RecordReleaseProgress(c, T)
  \/ FailReleaseAttempt(c)
  \/ CompleteReleaseAttempt(c)

Recover ==
  \/ RollBackEpoch
  \/ \E c \in Channels :
       ApplyAttempt(c) \/ ApplyHead(c) \/ ApplyLease(c) \/ Stabilise(c) \/ DropJournal(c)

Next == StartCall \/ EndCall \/ WriteJournal \/ Recover \/ Crash \/ \E c \in Channels : Verb(c)

Spec == Init /\ [][Next]_vars

\* The holder of the lock keeps running unless it dies, and calls keep coming.
Fairness == WF_vars(StartCall) /\ WF_vars(WriteJournal) /\ WF_vars(Recover)
FairSpec == Spec /\ Fairness

-----------------------------------------------------------------------------------
(* Properties *)

IsImage(m) ==
  /\ m = Image(m.head, m.lease, m.attempts)
  /\ m.head \in 0..MaxOrdinal /\ m.lease \in Leases \cup {None}
  /\ DOMAIN m.attempts \subseteq Ordinals
  /\ m.attempts \in [DOMAIN m.attempts -> Attempts \cup {None}]

IsJournal(J) ==
  /\ J = [channel |-> J.channel, tx |-> J.tx, before |-> J.before, after |-> J.after]
  /\ J.channel \in Channels /\ J.tx \in 1..MaxTx
  /\ IsImage(J.before) /\ IsImage(J.after)
  /\ DOMAIN J.before.attempts = DOMAIN J.after.attempts
  /\ \A i \in DOMAIN J.after.attempts : J.after.attempts[i] # None

\* The records have the shapes release.ts gives them.
TypeOK ==
  /\ attempt \in [Channels -> [Ordinals -> Attempts \cup {None}]]
  /\ head \in [Channels -> 0..MaxOrdinal]
  /\ lease \in [Channels -> Leases \cup {None}]
  /\ epoch \in Epochs \cup {None}
  /\ journal = [c \in Channels |-> journal[c]]
  /\ \A c \in Channels : journal[c] = None \/ IsJournal(journal[c])
  /\ busy \in BOOLEAN
  /\ intent = None \/ IsJournal(intent)
  /\ crashes \in 0..MaxCrashes

\* Wherever a holder of the lock died, the next one can finish: there is at most
\* one journal, the epoch names it, and the preflight of recoverReleaseMutation
\* accepts every file, so no channel is ever stuck on RELEASE_TRANSACTION_CONFLICT.
RecoveryReady ==
  \A c \in Channels : journal[c] # None => epoch # None /\ epoch.channel = c /\ Applicable(c)

\* The verbs and the validator of journals, written apart, agree: whatever a verb
\* admits by its own checks at rest is a journal isReleaseMutationSemanticallyValid
\* accepts, so no legitimate call dies on RELEASE_TRANSACTION_INVALID.
EveryIntentLegal ==
  ~NeedsRecovery => \A c \in Channels :
    LET Accepted(after) == after.head <= MaxOrdinal => Legal(Intended(c, after))
    IN  /\ Acquirable(c) =>
             \A o \in Owners, T \in SUBSET Tickets : Accepted(AcquireImage(c, o, T))
        /\ Held(c) =>
             /\ Accepted(RenewedImage(c, Current(c)))
             /\ ~Terminal(Current(c)) =>
                  /\ \A T \in SUBSET Tickets, r \in Retries(c) :
                       Accepted(RenewedImage(c, Progressed(c, T, r)))
                  /\ Accepted(RenewedImage(c, FailedAttempt(c)))
                  /\ Accepted(CompleteImage(c))
             /\ \A o \in Owners, T \in SUBSET Tickets : Accepted(SupersedeImage(c, o, T))

\* The attempts of a channel whose file exists.
Existing(c) == {i \in Ordinals : attempt[c][i] # None}

\* Superseding links attempts into one chain, seen alike from both ends.
ChainSound(c) ==
  \A i \in Existing(c) :
    LET x == attempt[c][i]
    IN  /\ x.successor # 0 <=> x.outcome = "superseded"
        /\ x.successor # 0 =>
             x.successor \in Existing(c) /\ attempt[c][x.successor].supersedes = i
        /\ x.supersedes # 0 =>
             /\ x.supersedes \in Existing(c)
             /\ \/ attempt[c][x.supersedes].outcome = "failed"
                \/ attempt[c][x.supersedes].successor = i
        /\ \A k \in Existing(c) :
             x.supersedes # 0 /\ attempt[c][k].supersedes = x.supersedes => k = i

\* Between transactions the records of a channel pass validateReleaseSnapshot: the
\* head is the last of a gapless history, only it may be active, it agrees with
\* the lease, and the supersede links are sound. No crash leaves a board on which
\* every ticket's release evidence is "unavailable".
AtRestReadable ==
  ~NeedsRecovery => \A c \in Channels :
    /\ Existing(c) = 1..head[c]
    /\ Consistent(head[c], lease[c], IF head[c] = 0 THEN None ELSE Current(c))
    /\ \A i \in Existing(c) : i # head[c] => Terminal(attempt[c][i])
    /\ ChainSound(c)

\* No step, of a verb or of a recovery, removes an attempt, changes what was fixed
\* when it was minted, or touches one that has reached its outcome.
HistoryIsImmutable ==
  [][\A c \in Channels, i \in Ordinals :
       attempt[c][i] # None =>
         /\ attempt[c][i]' # None
         /\ attempt[c][i]'.owner = attempt[c][i].owner
         /\ attempt[c][i]'.supersedes = attempt[c][i].supersedes
         /\ Terminal(attempt[c][i]) => attempt[c][i]' = attempt[c][i]]_vars

\* A transaction that was announced is finished or rolled back, whoever dies.
PendingIsFinished == Pending ~> ~Pending

\* What a channel's records say: a journal speaks for the files it names.
Effective(c, i) ==
  IF journal[c] # None /\ i \in DOMAIN journal[c].after.attempts
  THEN journal[c].after.attempts[i] ELSE attempt[c][i]
EffectiveHead(c) == IF journal[c] # None THEN journal[c].after.head ELSE head[c]
EffectiveLease(c) == IF journal[c] # None THEN journal[c].after.lease ELSE lease[c]

history ==
  [c \in Channels |-> [i \in 1..EffectiveHead(c) |->
     [owner |-> Effective(c, i).owner, outcome |-> Effective(c, i).outcome]]]
held == {c \in Channels : EffectiveLease(c) # None}

\* The refinement mapping: history and held above stand for the variables there.
History == INSTANCE ReleaseHistory WITH history <- history, held <- held

\* However many files a verb writes and wherever it dies, a channel's history
\* changes in one step, when the journal is written, and as ReleaseHistory allows.
ImplementsReleaseHistory == History!Spec
===================================================================================
