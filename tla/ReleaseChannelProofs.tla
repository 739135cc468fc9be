--------------------------- MODULE ReleaseChannelProofs ---------------------------
(***************************************************************************)
(* Theorems about ReleaseChannel, for any channels, owners, tickets and    *)
(* bounds.                                                                 *)
(***************************************************************************)
EXTENDS ReleaseChannel, FiniteSetTheorems, SequenceTheorems, TLAPS

-----------------------------------------------------------------------------------
(* Images and journals have their shapes                                   *)

LEMMA ImageShape ==
  ASSUME NEW h \in 0..MaxOrdinal, NEW l \in Leases \cup {None},
         NEW D \in SUBSET Ordinals, NEW xs \in [D -> Attempts \cup {None}]
  PROVE  IsImage(Image(h, l, xs))
  BY DEF IsImage, Image

LEMMA JournalShape ==
  ASSUME NEW c \in Channels, NEW tx \in 1..MaxTx, NEW b, NEW a, IsImage(b), IsImage(a),
         DOMAIN b.attempts = DOMAIN a.attempts, \A i \in DOMAIN a.attempts : a.attempts[i] # None
  PROVE  IsJournal([channel |-> c, tx |-> tx, after |-> a, before |-> b])
  BY DEF IsJournal

LEMMA IntendedShape ==
  ASSUME TypeOK, NEW c \in Channels, NEW h \in 1..MaxOrdinal, NEW l \in Leases \cup {None},
         NEW D \in SUBSET Ordinals, NEW xs \in [D -> Attempts], NextTx <= MaxTx
  PROVE  IsJournal(Intended(c, Image(h, l, xs)))
<1> DEFINE after == Image(h, l, xs)
           before == Image(head[c], lease[c], [i \in D |-> attempt[c][i]])
<1>1. DOMAIN after.attempts = D /\ after.attempts = xs
  BY DEF Image
<1>2. Intended(c, after) = [channel |-> c, tx |-> NextTx, after |-> after, before |-> before]
  BY <1>1 DEF Intended
<1>3. IsImage(after)
  BY ImageShape
<1>4. IsImage(before)
  <2>1. [i \in D |-> attempt[c][i]] \in [D -> Attempts \cup {None}]
    BY DEF TypeOK
  <2>2. QED
    BY <2>1, ImageShape DEF TypeOK
<1>5. NextTx \in 1..MaxTx
  BY BoundsAssumption DEF NextTx, TypeOK, Epochs
<1>6. DOMAIN before.attempts = D
  BY DEF Image
<1>7. \A i \in DOMAIN after.attempts : after.attempts[i] # None
  BY <1>1, NoneAssumption
<1>8. DOMAIN before.attempts = DOMAIN after.attempts
  BY <1>1, <1>6
<1> HIDE DEF after, before
<1>9. IsJournal([channel |-> c, tx |-> NextTx, after |-> after, before |-> before])
  BY <1>3, <1>4, <1>5, <1>7, <1>8, JournalShape
<1>10. IsJournal(Intended(c, after))
  BY <1>2, <1>9
<1>11. QED
  BY <1>10 DEF after

LEMMA NextRetryType == \A r \in 0..RetryMax : NextRetry(r) \in 0..RetryMax
  BY BoundsAssumption DEF NextRetry

LEMMA RenewedType == \A l \in Leases : Renewed(l) \in Leases
  BY DEF Leases, Renewed

LEMMA HeldType ==
  ASSUME TypeOK, NEW c \in Channels, Held(c)
  PROVE  /\ head[c] \in Ordinals /\ lease[c] \in Leases /\ Current(c) \in Attempts
         /\ Renewed(lease[c]) \in Leases
<1>1. head[c] \in Ordinals /\ lease[c] \in Leases
  BY BoundsAssumption DEF TypeOK, Held, Ordinals
<1>2. Current(c) \in Attempts
  BY <1>1 DEF TypeOK, Held, Current, Consistent
<1>3. QED
  BY <1>1, <1>2, RenewedType

LEMMA MintedType ==
  ASSUME NEW o \in Owners, NEW T \in SUBSET Tickets, NEW p \in 0..MaxOrdinal
  PROVE  Minted(o, T, p) \in Attempts
  BY BoundsAssumption DEF Minted, Attempts, Outcomes

-----------------------------------------------------------------------------------
(* Every verb announces a well-shaped journal                              *)

\* What a verb of channel c leaves in the call's hands.
Announced(c) ==
  /\ epoch' = [rev |-> NextTx, phase |-> "pending", channel |-> c]
  /\ NextTx \in 1..MaxTx
  /\ IsJournal(intent') /\ Legal(intent')
  /\ intent'.channel = c /\ intent'.tx = NextTx
  /\ FilesAre(c, intent'.before)

LEMMA BeginAnnounces ==
  ASSUME TypeOK, NEW c \in Channels, NEW h \in Nat, NEW l \in Leases \cup {None},
         NEW D \in SUBSET Ordinals, NEW xs \in [D -> Attempts], h # 0,
         Begin(c, Image(h, l, xs))
  PROVE  Announced(c)
<1> DEFINE after == Image(h, l, xs)
<1>1. h \in 1..MaxOrdinal /\ NextTx <= MaxTx
  BY BoundsAssumption DEF Begin, Image
<1>2. IsJournal(Intended(c, after))
  BY <1>1, IntendedShape
<1>3. FilesAre(c, Intended(c, after).before)
  BY DEF FilesAre, Intended, Image
<1>4. NextTx \in 1..MaxTx
  BY <1>1, BoundsAssumption DEF NextTx, TypeOK, Epochs
<1>5. Intended(c, after).channel = c /\ Intended(c, after).tx = NextTx
  BY DEF Intended
<1>6. QED
  BY <1>2, <1>3, <1>4, <1>5 DEF Begin, Announced

LEMMA RenewalAnnounces ==
  ASSUME TypeOK, NEW c \in Channels, Held(c), NEW x \in Attempts, NEW l \in Leases \cup {None},
         Begin(c, Image(head[c], l, [i \in {head[c]} |-> x]))
  PROVE  Announced(c)
<1>1. head[c] \in Ordinals /\ {head[c]} \in SUBSET Ordinals
  BY HeldType
<1>2. head[c] \in Nat /\ head[c] # 0
  BY <1>1, BoundsAssumption DEF Ordinals
<1>3. [i \in {head[c]} |-> x] \in [{head[c]} -> Attempts]
  OBVIOUS
<1>4. QED
  BY <1>1, <1>2, <1>3, BeginAnnounces

LEMMA AcquireAnnounces ==
  ASSUME TypeOK, NEW c \in Channels, NEW o \in Owners, NEW T \in SUBSET Tickets,
         AcquireReleaseChannel(c, o, T)
  PROVE  Announced(c)
<1> DEFINE n == head[c] + 1
           D == {n} \cup ({head[c]} \ {0})
           xs == [i \in D |-> IF i = n THEN Minted(o, T, 0) ELSE attempt[c][i]]
<1>1. Acquirable(c) /\ Begin(c, Image(n, FreshLease(o, n), xs))
  BY DEF AcquireReleaseChannel, AcquireImage
<1>2. n \in Ordinals /\ head[c] \in 0..MaxOrdinal /\ n # 0 /\ n \in Nat
  BY <1>1, BoundsAssumption DEF Begin, Image, TypeOK, Ordinals
<1>3. D \in SUBSET Ordinals
  BY <1>2, BoundsAssumption DEF Ordinals
<1>4. FreshLease(o, n) \in Leases
  BY <1>2 DEF FreshLease, Leases
<1>5. \A i \in D : xs[i] \in Attempts
  <2>1. Minted(o, T, 0) \in Attempts
    BY MintedType, BoundsAssumption
  <2>2. head[c] # 0 => attempt[c][head[c]] \in Attempts
    BY <1>1, <1>2, BoundsAssumption DEF Acquirable, Current, TypeOK, Ordinals
  <2>3. QED
    BY <2>1, <2>2
<1>6. xs \in [D -> Attempts]
  BY <1>5
<1> HIDE DEF xs, D, n
<1>7. QED
  BY <1>1, <1>2, <1>3, <1>4, <1>6, BeginAnnounces

LEMMA ArchivedType ==
  ASSUME TypeOK, NEW c \in Channels, Held(c), head[c] + 1 \in Ordinals
  PROVE  Archived(c) \in Attempts
<1>1. Current(c) \in Attempts
  BY HeldType
<1>2. head[c] + 1 \in 0..MaxOrdinal
  BY BoundsAssumption DEF Ordinals
<1>3. QED
  BY <1>1, <1>2 DEF Archived, Attempts, Outcomes

LEMMA SupersedeAnnounces ==
  ASSUME TypeOK, NEW c \in Channels, NEW o \in Owners, NEW T \in SUBSET Tickets,
         SupersedeReleaseAttempt(c, o, T)
  PROVE  Announced(c)
<1> DEFINE n == head[c] + 1
           D == {n, head[c]}
           xs == [i \in D |-> IF i = n THEN Minted(o, T, head[c]) ELSE Archived(c)]
<1>1. Held(c) /\ Begin(c, Image(n, FreshLease(o, n), xs))
  BY DEF SupersedeReleaseAttempt, SupersedeImage
<1>2. n \in Ordinals /\ head[c] \in Ordinals /\ n # 0 /\ n \in Nat /\ head[c] \in 0..MaxOrdinal
  BY <1>1, HeldType, BoundsAssumption DEF Begin, Image, TypeOK, Ordinals
<1>3. FreshLease(o, n) \in Leases
  BY <1>2 DEF FreshLease, Leases
<1>4. Minted(o, T, head[c]) \in Attempts /\ Archived(c) \in Attempts
  BY <1>1, <1>2, MintedType, ArchivedType
<1>5. xs \in [D -> Attempts] /\ D \in SUBSET Ordinals
  BY <1>2, <1>4
<1> HIDE DEF xs, D, n
<1>6. QED
  BY <1>1, <1>2, <1>3, <1>5, BeginAnnounces

LEMMA ProgressType ==
  ASSUME TypeOK, NEW c \in Channels, Held(c), NEW T \in SUBSET Tickets, NEW r \in Retries(c)
  PROVE  Progressed(c, T, r) \in Attempts
<1>1. Current(c) \in Attempts
  BY HeldType
<1>2. Current(c).retry \in 0..RetryMax
  BY <1>1 DEF Attempts
<1>3. r \in 0..RetryMax
  BY <1>2, NextRetryType, BoundsAssumption DEF Retries
<1>4. QED
  BY <1>1, <1>3 DEF Progressed, Attempts

LEMMA VerbAnnounces ==
  ASSUME TypeOK, NEW c \in Channels, Verb(c)
  PROVE  /\ Announced(c)
         /\ busy /\ intent = None /\ ~NeedsRecovery
         /\ UNCHANGED <<files, journal, busy, crashes>>
<1>1. /\ busy /\ intent = None /\ ~NeedsRecovery
      /\ UNCHANGED <<files, journal, busy, crashes>>
  BY DEF Verb, Begin, AcquireReleaseChannel, RenewReleaseChannel, RecordReleaseProgress,
         FailReleaseAttempt, CompleteReleaseAttempt, SupersedeReleaseAttempt
<1>2. CASE \E o \in Owners, T \in SUBSET Tickets :
             AcquireReleaseChannel(c, o, T) \/ SupersedeReleaseAttempt(c, o, T)
  BY <1>1, <1>2, AcquireAnnounces, SupersedeAnnounces
<1>3. CASE RenewReleaseChannel(c)
  <2>1. Held(c) /\ Begin(c, Image(head[c], Renewed(lease[c]), [i \in {head[c]} |-> Current(c)]))
    BY <1>3 DEF RenewReleaseChannel, RenewedImage
  <2>2. QED
    BY <1>1, <2>1, HeldType, RenewalAnnounces
<1>4. ASSUME NEW T \in SUBSET Tickets, RecordReleaseProgress(c, T)
      PROVE  Announced(c)
  <2>1. Held(c) /\ \E r \in Retries(c) : Begin(c, RenewedImage(c, Progressed(c, T, r)))
    BY <1>4 DEF RecordReleaseProgress
  <2>2. PICK r \in Retries(c) :
           Begin(c, Image(head[c], Renewed(lease[c]), [i \in {head[c]} |-> Progressed(c, T, r)]))
    BY <2>1 DEF RenewedImage
  <2>3. Progressed(c, T, r) \in Attempts
    BY <2>1, ProgressType
  <2>4. QED
    BY <2>1, <2>2, <2>3, HeldType, RenewalAnnounces
<1>5. CASE FailReleaseAttempt(c)
  <2>1. Held(c) /\ Begin(c, Image(head[c], Renewed(lease[c]), [i \in {head[c]} |-> FailedAttempt(c)]))
    BY <1>5 DEF FailReleaseAttempt, RenewedImage
  <2>2. FailedAttempt(c) \in Attempts
    BY <2>1, HeldType DEF FailedAttempt, Attempts, Outcomes
  <2>3. QED
    BY <1>1, <2>1, <2>2, HeldType, RenewalAnnounces
<1>6. CASE CompleteReleaseAttempt(c)
  <2> DEFINE x == [Current(c) EXCEPT !.outcome = "released"]
  <2>1. Held(c) /\ Begin(c, Image(head[c], None, [i \in {head[c]} |-> x]))
    BY <1>6 DEF CompleteReleaseAttempt, CompleteImage
  <2>2. x \in Attempts
    BY <2>1, HeldType DEF Attempts, Outcomes
  <2>3. QED
    BY <1>1, <2>1, <2>2, HeldType, RenewalAnnounces
<1>7. QED
  BY <1>1, <1>2, <1>3, <1>4, <1>5, <1>6 DEF Verb

-----------------------------------------------------------------------------------
(* Type correctness                                                        *)

LEMMA TypeInit == Init => TypeOK
<1> SUFFICES ASSUME Init PROVE TypeOK
  OBVIOUS
<1>1. head \in [Channels -> 0..MaxOrdinal] /\ crashes \in 0..MaxCrashes
  BY BoundsAssumption DEF Init
<1>2. DOMAIN journal = Channels /\ \A c \in Channels : journal[c] = None
  BY DEF Init
<1>3. QED
  BY <1>1, <1>2 DEF Init, TypeOK

\* What a journal wants has the shape of what it finds.
LEMMA AfterShape ==
  ASSUME NEW J, IsJournal(J)
  PROVE  /\ J.after.head \in 0..MaxOrdinal /\ J.after.lease \in Leases \cup {None}
         /\ \A i \in DOMAIN J.after.attempts : i \in Ordinals /\ J.after.attempts[i] \in Attempts
  BY DEF IsJournal, IsImage

LEMMA JournalOfRecovering ==
  ASSUME TypeOK, NEW c \in Channels, Recovering(c)
  PROVE  IsJournal(journal[c]) /\ epoch \in Epochs
  BY DEF TypeOK, Recovering

LEMMA TypeStep == TypeOK /\ [Next]_vars => TypeOK'
<1> SUFFICES ASSUME TypeOK, [Next]_vars PROVE TypeOK'
  OBVIOUS
<1>1. CASE StartCall \/ EndCall
  BY <1>1 DEF StartCall, EndCall, TypeOK, files
<1>2. CASE WriteJournal
  <2>1. IsJournal(intent) /\ intent.channel \in Channels
    BY <1>2 DEF WriteJournal, TypeOK, IsJournal
  <2>2. QED
    BY <1>2, <2>1 DEF WriteJournal, TypeOK, files
<1>3. CASE Crash
  <2>1. crashes' \in 0..MaxCrashes
    BY <1>3, BoundsAssumption DEF Crash, TypeOK
  <2>2. QED
    BY <1>3, <2>1 DEF Crash, TypeOK, files
<1>4. CASE RollBackEpoch
  BY <1>4 DEF RollBackEpoch, TypeOK, files, Epochs, Pending
<1>5. ASSUME NEW c \in Channels, ApplyAttempt(c) PROVE TypeOK'
  <2>1. IsJournal(journal[c])
    BY <1>5, JournalOfRecovering DEF ApplyAttempt
  <2>2. PICK i \in DOMAIN journal[c].after.attempts :
          attempt' = [attempt EXCEPT ![c][i] = journal[c].after.attempts[i]]
    BY <1>5 DEF ApplyAttempt
  <2>3. i \in Ordinals /\ journal[c].after.attempts[i] \in Attempts
    BY <2>1, AfterShape
  <2>4. attempt' \in [Channels -> [Ordinals -> Attempts \cup {None}]]
    BY <2>2, <2>3 DEF TypeOK
  <2>5. UNCHANGED <<head, lease, epoch, journal, busy, intent, crashes>>
    BY <1>5 DEF ApplyAttempt
  <2>6. QED
    BY <2>4, <2>5 DEF TypeOK
<1>6. ASSUME NEW c \in Channels, ApplyHead(c) \/ ApplyLease(c) PROVE TypeOK'
  <2>1. /\ journal[c].after.head \in 0..MaxOrdinal
        /\ journal[c].after.lease \in Leases \cup {None}
    BY <1>6, JournalOfRecovering, AfterShape DEF ApplyHead, ApplyLease
  <2>2. QED
    BY <1>6, <2>1 DEF ApplyHead, ApplyLease, TypeOK
<1>7. ASSUME NEW c \in Channels, Stabilise(c) \/ DropJournal(c) PROVE TypeOK'
  <2>1. epoch \in Epochs
    BY <1>7, JournalOfRecovering DEF Stabilise, DropJournal
  <2>2. [epoch EXCEPT !.phase = "stable"] \in Epochs
    BY <2>1 DEF Epochs
  <2>3. QED
    BY <1>7, <2>2 DEF Stabilise, DropJournal, TypeOK, files
<1>8. ASSUME NEW c \in Channels, Verb(c) PROVE TypeOK'
  <2>1. /\ Announced(c)
        /\ UNCHANGED <<files, journal, busy, crashes>>
    BY <1>8, VerbAnnounces
  <2>2. epoch' \in Epochs
    BY <2>1 DEF Announced, Epochs
  <2>3. QED
    BY <2>1, <2>2 DEF Announced, TypeOK, files
<1>9. CASE UNCHANGED vars
  BY <1>9 DEF vars, TypeOK
<1>10. QED
  BY <1>1, <1>2, <1>3, <1>4, <1>5, <1>6, <1>7, <1>8, <1>9 DEF Next, Recover

\* Every record keeps the shape release.ts validates, in every state a death can leave.
THEOREM TypeCorrect == Spec => []TypeOK
  BY TypeInit, TypeStep, PTL DEF Spec

-----------------------------------------------------------------------------------
(* Recovery is always possible                                             *)
(*                                                                         *)
(* A call that has announced its intent is the only one with anything      *)
(* under way: no journal exists, and the files are as it found them.  A    *)
(* journal that exists is legal and applicable, and the epoch names it.    *)

IntentInv ==
  intent # None =>
    /\ epoch # None /\ epoch.phase = "pending"
    /\ epoch.channel = intent.channel /\ epoch.rev = intent.tx
    /\ \A c \in Channels : journal[c] = None
    /\ FilesAre(intent.channel, intent.before)
    /\ Legal(intent)

JournalsLegal == \A c \in Channels : journal[c] # None => journal[c].channel = c /\ Legal(journal[c])

RecoveryInv == RecoveryReady /\ IntentInv /\ JournalsLegal

LEMMA RecoveryInit == Init => RecoveryInv
  BY DEF Init, RecoveryInv, RecoveryReady, IntentInv, JournalsLegal

\* One journal at most.
LEMMA OneJournal ==
  ASSUME RecoveryReady, NEW c \in Channels, NEW d \in Channels, journal[c] # None, d # c
  PROVE  journal[d] = None
  BY DEF RecoveryReady

LEMMA NoJournalAtRest ==
  ASSUME RecoveryReady, ~NeedsRecovery
  PROVE  \A c \in Channels : journal[c] = None
  BY DEF RecoveryReady, NeedsRecovery

\* Nothing but a file of the journal that is being applied has changed.
LEMMA ApplyKeepsReady ==
  ASSUME RecoveryInv, TypeOK, NEW c \in Channels, Recovering(c), ~FilesAre(c, journal[c].after),
         UNCHANGED <<epoch, journal, intent>>,
         \A i \in DOMAIN journal[c].after.attempts :
           attempt'[c][i] \in {attempt[c][i], journal[c].after.attempts[i]},
         head'[c] \in {head[c], journal[c].after.head},
         lease'[c] \in {lease[c], journal[c].after.lease}
  PROVE  RecoveryInv'
<1>1. epoch.phase # "stable"
  BY DEF Recovering, Applicable
<1>2. Applicable(c)'
  BY <1>1 DEF Recovering, Applicable
<1>3. \A d \in Channels : d # c => journal'[d] = None
  BY OneJournal DEF RecoveryInv, Recovering
<1>4. RecoveryReady'
  BY <1>2, <1>3 DEF RecoveryReady, Recovering
<1>5. IntentInv' /\ JournalsLegal'
  BY DEF Recovering, RecoveryInv, IntentInv, JournalsLegal
<1>6. QED
  BY <1>4, <1>5 DEF RecoveryInv

\* The files and the journals stay: the epoch may only come to rest.
LEMMA SettlingKeepsReady ==
  ASSUME RecoveryInv, UNCHANGED <<files, journal>>, intent' = None,
         \A c \in Channels : journal[c] # None =>
           /\ epoch' # None /\ epoch'.channel = epoch.channel /\ epoch'.rev = epoch.rev
           /\ epoch'.phase = epoch.phase \/ FilesAre(c, journal[c].after)
  PROVE  RecoveryInv'
<1>1. ASSUME NEW c \in Channels, journal'[c] # None
      PROVE  epoch' # None /\ epoch'.channel = c /\ Applicable(c)'
  <2>1. journal[c] # None /\ epoch.channel = c /\ Applicable(c)
    BY <1>1 DEF RecoveryInv, RecoveryReady
  <2>2. FilesAre(c, journal[c].after)' <=> FilesAre(c, journal[c].after)
    BY DEF FilesAre, files
  <2>3. QED
    BY <1>1, <2>1, <2>2 DEF Applicable, files
<1>2. QED
  BY <1>1 DEF RecoveryInv, RecoveryReady, IntentInv, JournalsLegal

LEMMA RecoveryStep == TypeOK /\ RecoveryInv /\ [Next]_vars => RecoveryInv'
<1> SUFFICES ASSUME TypeOK, RecoveryInv, [Next]_vars PROVE RecoveryInv'
  OBVIOUS
<1>1. CASE EndCall \/ Crash
  BY <1>1, SettlingKeepsReady DEF EndCall, Crash, RecoveryInv, RecoveryReady
<1>2. CASE StartCall \/ UNCHANGED vars
  <2>1. UNCHANGED <<files, epoch, journal, intent>>
    BY <1>2 DEF StartCall, vars, files
  <2>2. IntentInv'
    BY <2>1 DEF RecoveryInv, IntentInv, FilesAre, files
  <2>3. RecoveryReady' /\ JournalsLegal'
    BY <2>1 DEF RecoveryInv, RecoveryReady, JournalsLegal, Applicable, FilesAre, files
  <2>4. QED
    BY <2>2, <2>3 DEF RecoveryInv
<1>3. CASE WriteJournal
  <2>0. PICK c \in Channels : c = intent.channel
    BY <1>3 DEF WriteJournal, TypeOK, IsJournal
  <2>1. /\ intent # None /\ IsJournal(intent)
        /\ epoch # None /\ epoch.phase = "pending" /\ epoch.channel = c /\ epoch.rev = intent.tx
        /\ \A d \in Channels : journal[d] = None
        /\ FilesAre(c, intent.before) /\ Legal(intent)
    BY <1>3, <2>0 DEF WriteJournal, TypeOK, RecoveryInv, IntentInv
  <2>2. /\ journal' = [journal EXCEPT ![c] = intent] /\ intent' = None
        /\ UNCHANGED <<files, epoch>>
    BY <1>3, <2>0 DEF WriteJournal
  <2>3. /\ journal'[c] = intent /\ \A d \in Channels : d # c => journal'[d] = None
        /\ \A d \in Channels : journal'[d] # None => d = c
    BY <2>1, <2>2 DEF TypeOK
  <2>4. DOMAIN intent.before.attempts = DOMAIN intent.after.attempts
    BY <2>1 DEF IsJournal
  <2>5. Applicable(c)'
    BY <2>0, <2>1, <2>2, <2>3, <2>4 DEF Applicable, FilesAre, files
  <2>6. RecoveryReady'
    BY <2>1, <2>2, <2>3, <2>5 DEF RecoveryReady
  <2>7. IntentInv' /\ JournalsLegal'
    BY <2>0, <2>1, <2>2, <2>3 DEF IntentInv, JournalsLegal
  <2>8. QED
    BY <2>6, <2>7 DEF RecoveryInv
<1>4. CASE RollBackEpoch
  <2>1. \A c \in Channels : journal[c] = None
    BY <1>4 DEF RollBackEpoch, RecoveryInv, RecoveryReady
  <2>2. QED
    BY <1>4, <2>1, SettlingKeepsReady DEF RollBackEpoch
<1>5. ASSUME NEW c \in Channels, ApplyAttempt(c) PROVE RecoveryInv'
  <2>1. PICK i \in DOMAIN journal[c].after.attempts :
          /\ attempt[c][i] # journal[c].after.attempts[i]
          /\ attempt' = [attempt EXCEPT ![c][i] = journal[c].after.attempts[i]]
    BY <1>5 DEF ApplyAttempt
  <2>2. ~FilesAre(c, journal[c].after)
    BY <2>1 DEF FilesAre
  <2>3. i \in Ordinals
    BY <1>5, JournalOfRecovering, AfterShape DEF ApplyAttempt
  <2>4. \A k \in DOMAIN journal[c].after.attempts :
          attempt'[c][k] \in {attempt[c][k], journal[c].after.attempts[k]}
    BY <2>1, <2>3 DEF TypeOK
  <2>5. QED
    BY <1>5, <2>2, <2>4, ApplyKeepsReady DEF ApplyAttempt
<1>6. ASSUME NEW c \in Channels, ApplyHead(c) PROVE RecoveryInv'
  BY <1>6, ApplyKeepsReady DEF ApplyHead, FilesAre, TypeOK
<1>7. ASSUME NEW c \in Channels, ApplyLease(c) PROVE RecoveryInv'
  BY <1>7, ApplyKeepsReady DEF ApplyLease, FilesAre, TypeOK
<1>8. ASSUME NEW c \in Channels, Stabilise(c) PROVE RecoveryInv'
  <2>1. /\ epoch \in Epochs /\ epoch' = [epoch EXCEPT !.phase = "stable"]
        /\ UNCHANGED <<files, journal>> /\ intent' = None
        /\ FilesAre(c, journal[c].after) /\ epoch.channel = c
    BY <1>8, JournalOfRecovering DEF Stabilise, Recovering
  <2>2. epoch' # None /\ epoch'.channel = epoch.channel /\ epoch'.rev = epoch.rev
    BY <2>1, NoneAssumption DEF Epochs
  <2>3. \A d \in Channels : journal[d] # None => d = c
    BY <2>1 DEF RecoveryInv, RecoveryReady
  <2>4. QED
    BY <2>1, <2>2, <2>3, SettlingKeepsReady
<1>9. ASSUME NEW c \in Channels, DropJournal(c) PROVE RecoveryInv'
  <2>1. \A d \in Channels : journal'[d] = None
    BY <1>9, OneJournal DEF DropJournal, Recovering, TypeOK, RecoveryInv
  <2>2. intent' = None
    BY <1>9 DEF DropJournal, Recovering
  <2>3. QED
    BY <2>1, <2>2 DEF RecoveryInv, RecoveryReady, IntentInv, JournalsLegal
<1>10. ASSUME NEW c \in Channels, Verb(c) PROVE RecoveryInv'
  <2>1. /\ Announced(c) /\ ~NeedsRecovery
        /\ UNCHANGED <<files, journal, busy, crashes>>
    BY <1>10, VerbAnnounces
  <2>2. \A d \in Channels : journal[d] = None
    BY <2>1, NoJournalAtRest DEF RecoveryInv
  <2>3. FilesAre(c, intent.before)'
    BY <2>1 DEF Announced, FilesAre, files
  <2>4. epoch' # None /\ epoch'.phase = "pending" /\ epoch'.channel = c /\ epoch'.rev = NextTx
    BY <2>1, NoneAssumption DEF Announced, Epochs
  <2>5. QED
    BY <2>1, <2>2, <2>3, <2>4
       DEF Announced, RecoveryInv, RecoveryReady, IntentInv, JournalsLegal
<1>11. QED
  BY <1>1, <1>2, <1>3, <1>4, <1>5, <1>6, <1>7, <1>8, <1>9, <1>10 DEF Next, Recover

LEMMA RecoveryHolds == Spec => [](TypeOK /\ RecoveryInv)
<1>1. TypeOK /\ RecoveryInv /\ [Next]_vars => RecoveryInv'
  BY RecoveryStep
<1>2. QED
  BY TypeCorrect, RecoveryInit, <1>1, PTL DEF Spec

\* Wherever holders of the lock died, the journal they left can be finished.
THEOREM AlwaysRecoverable == Spec => []RecoveryReady
<1>1. RecoveryInv => RecoveryReady
  BY DEF RecoveryInv
<1>2. QED
  BY RecoveryHolds, <1>1, PTL

-----------------------------------------------------------------------------------
(* Attempts are never rewritten                                            *)

\* What a journal may do to an attempt that exists.
Preserves(x, y) ==
  /\ y # None /\ y.owner = x.owner /\ y.supersedes = x.supersedes
  /\ Terminal(x) => y = x

\* A legal journal names the attempts it finds by their place.
LEMMA JournalTypes ==
  ASSUME NEW J, IsJournal(J), Legal(J)
  PROVE  /\ J.before.head \in 0..MaxOrdinal /\ J.after.head \in 1..MaxOrdinal
         /\ DOMAIN J.before.attempts = DOMAIN J.after.attempts
         /\ DOMAIN J.after.attempts \subseteq Ordinals
         /\ \A i \in DOMAIN J.after.attempts :
              /\ J.after.attempts[i] \in Attempts
              /\ J.before.attempts[i] \in Attempts \cup {None}
              /\ J.before.attempts[i] # None <=> i = J.before.head /\ i # 0
         /\ J.before.head # 0 =>
              /\ J.before.head \in DOMAIN J.after.attempts
              /\ HeadAttempt(J.before) = J.before.attempts[J.before.head]
<1>1. /\ IsImage(J.before) /\ IsImage(J.after)
      /\ DOMAIN J.before.attempts = DOMAIN J.after.attempts
      /\ \A i \in DOMAIN J.after.attempts : J.after.attempts[i] # None
  BY DEF IsJournal
<1>2. /\ J.after.head # 0
      /\ {i \in DOMAIN J.before.attempts : J.before.attempts[i] # None} = {J.before.head} \ {0}
  BY DEF Legal
<1>3. /\ J.before.head \in 0..MaxOrdinal /\ J.after.head \in 0..MaxOrdinal
      /\ DOMAIN J.after.attempts \subseteq Ordinals
      /\ \A i \in DOMAIN J.after.attempts :
           /\ J.after.attempts[i] \in Attempts \cup {None}
           /\ J.before.attempts[i] \in Attempts \cup {None}
  BY <1>1 DEF IsImage
<1>4. J.after.head \in 1..MaxOrdinal
  BY <1>2, <1>3, BoundsAssumption
<1>5. QED
  BY <1>1, <1>2, <1>3, <1>4 DEF HeadAttempt

LEMMA LegalPreserves ==
  ASSUME NEW J, IsJournal(J), Legal(J),
         NEW i \in DOMAIN J.after.attempts, J.before.attempts[i] # None
  PROVE  Preserves(J.before.attempts[i], J.after.attempts[i])
<1> DEFINE b == J.before
           a == J.after
           x == b.attempts[i]
           y == a.attempts[i]
<1>1. i = b.head /\ i # 0 /\ x \in Attempts /\ y \in Attempts /\ HeadAttempt(b) = x
  BY JournalTypes
<1>2. x.outcome \in Outcomes /\ y # None
  BY <1>1, NoneAssumption DEF Attempts
<1>3. CASE a.head = b.head
  <2>1. SameHeadLegal(b, a)
    BY <1>3 DEF Legal
  <2>2. x = y \/ ProgressLegal(x, y) \/ FailedLegal(x, y) \/ CompletedLegal(x, y)
    BY <1>1, <2>1 DEF SameHeadLegal
  <2>3. QED
    BY <1>1, <1>2, <2>2
       DEF Preserves, ProgressLegal, FailedLegal, CompletedLegal, Attempts
<1>4. CASE a.head # b.head
  <2>1. NewHeadLegal(b, a)
    BY <1>4 DEF Legal
  <2>2. x = y \/ SupersededLegal(x, y, b.head + 1)
    BY <1>1, <2>1 DEF NewHeadLegal
  <2>3. QED
    BY <1>1, <1>2, <2>2 DEF Preserves, SupersededLegal, Attempts
<1>5. QED
  BY <1>3, <1>4

LEMMA StepPreserves ==
  ASSUME TypeOK, RecoveryInv, [Next]_vars,
         NEW c \in Channels, NEW i \in Ordinals, attempt[c][i] # None
  PROVE  Preserves(attempt[c][i], attempt'[c][i])
<1>1. CASE attempt'[c][i] = attempt[c][i]
  BY <1>1 DEF Preserves
<1>2. ASSUME NEW d \in Channels, ApplyAttempt(d) PROVE Preserves(attempt[c][i], attempt'[c][i])
  <2> DEFINE J == journal[d]
  <2>1. PICK k \in DOMAIN J.after.attempts :
          attempt' = [attempt EXCEPT ![d][k] = J.after.attempts[k]]
    BY <1>2 DEF ApplyAttempt
  <2>2. Recovering(d) /\ IsJournal(J) /\ Legal(J) /\ k \in Ordinals
    BY <1>2, JournalOfRecovering, AfterShape
       DEF ApplyAttempt, RecoveryInv, JournalsLegal, Recovering
  <2>3. attempt[d][k] \in {J.before.attempts[k], J.after.attempts[k]}
    BY <2>2 DEF Recovering, Applicable
  <2>4. CASE c = d /\ i = k /\ attempt[c][i] # J.after.attempts[k]
    <3>1. attempt[c][i] = J.before.attempts[k] /\ attempt'[c][i] = J.after.attempts[k]
      BY <2>1, <2>2, <2>3, <2>4 DEF TypeOK
    <3>2. QED
      BY <2>2, <3>1, LegalPreserves
  <2>5. CASE ~(c = d /\ i = k /\ attempt[c][i] # J.after.attempts[k])
    BY <1>1, <2>1, <2>2, <2>5 DEF TypeOK
  <2>6. QED
    BY <2>4, <2>5
<1>3. ASSUME NEW d \in Channels, Verb(d) PROVE attempt' = attempt
  BY <1>3, VerbAnnounces DEF files
<1>4. CASE \E d \in Channels : ApplyAttempt(d)
  BY <1>2, <1>4
<1>5. CASE \A d \in Channels : ~ApplyAttempt(d)
  <2>1. attempt' = attempt
    BY <1>3, <1>5 DEF Next, Recover, StartCall, EndCall, WriteJournal, Crash, RollBackEpoch,
           ApplyHead, ApplyLease, Stabilise, DropJournal, vars, files
  <2>2. QED
    BY <1>1, <2>1
<1>6. QED
  BY <1>4, <1>5

\* No verb, and no recovery of one that died, rewrites what an attempt was minted
\* with, or an attempt that has reached its outcome.
THEOREM HistoryKept == Spec => HistoryIsImmutable
<1> DEFINE Kept == \A c \in Channels, i \in Ordinals :
             attempt[c][i] # None =>
               /\ attempt[c][i]' # None
               /\ attempt[c][i]'.owner = attempt[c][i].owner
               /\ attempt[c][i]'.supersedes = attempt[c][i].supersedes
               /\ Terminal(attempt[c][i]) => attempt[c][i]' = attempt[c][i]
<1>1. TypeOK /\ RecoveryInv /\ [Next]_vars => [Kept]_vars
  BY StepPreserves DEF Preserves
<1>2. QED
  BY RecoveryHolds, <1>1, PTL DEF Spec, HistoryIsImmutable

-----------------------------------------------------------------------------------
(* Recovery comes to an end                                                *)
(*                                                                         *)
(* The part of PendingIsFinished that needs no fairness: the holder of the *)
(* lock always finds a write to do, and each write leaves fewer to do.     *)

Unwritten(c) == {i \in DOMAIN journal[c].after.attempts : attempt[c][i] # journal[c].after.attempts[i]}

\* The guards of the recovery's writes.
WriteDue(c) ==
  /\ Recovering(c)
  /\ \/ \E i \in Unwritten(c) : \A k \in DOMAIN journal[c].after.attempts :
                                   k < i => k \notin Unwritten(c)
     \/ Unwritten(c) = {} /\ head[c] # journal[c].after.head
     \/ Unwritten(c) = {} /\ head[c] = journal[c].after.head /\ lease[c] # journal[c].after.lease
     \/ FilesAre(c, journal[c].after) /\ epoch.phase = "pending"
     \/ epoch.phase = "stable"

RecoveryProceeds ==
  busy /\ intent = None /\ NeedsRecovery =>
    \/ Pending /\ journal[epoch.channel] = None
    \/ WriteDue(epoch.channel)

LEMMA LegalDomain ==
  ASSUME NEW J, IsJournal(J), Legal(J)
  PROVE  /\ DOMAIN J.after.attempts \subseteq {J.before.head, J.after.head}
         /\ J.before.head \in Nat /\ J.after.head \in Nat
<1>1. J.before.head \in Nat /\ J.after.head \in Nat
  BY JournalTypes, BoundsAssumption
<1>2. QED
  BY <1>1 DEF Legal, SameHeadLegal, NewHeadLegal

LEMMA ReadyProceeds == TypeOK /\ RecoveryInv => RecoveryProceeds
<1> SUFFICES ASSUME TypeOK, RecoveryInv, busy, intent = None, NeedsRecovery,
                    journal[epoch.channel] # None
             PROVE  WriteDue(epoch.channel)
  BY DEF RecoveryProceeds, NeedsRecovery
<1> DEFINE c == epoch.channel
           J == journal[c]
<1>1. epoch # None /\ c \in Channels /\ epoch.phase \in {"pending", "stable"}
  BY DEF NeedsRecovery, Pending, TypeOK, Epochs
<1>2. IsJournal(J) /\ Legal(J) /\ Recovering(c)
  BY <1>1 DEF TypeOK, RecoveryInv, RecoveryReady, JournalsLegal, Recovering
<1>3. DOMAIN J.after.attempts \subseteq {J.before.head, J.after.head}
      /\ J.before.head \in Nat /\ J.after.head \in Nat
  BY <1>2, LegalDomain
<1>4. CASE Unwritten(c) # {}
  <2>1. PICK i \in Unwritten(c) : \A k \in Unwritten(c) : ~(k < i)
    <3>1. Unwritten(c) \subseteq {J.before.head, J.after.head}
      BY <1>3 DEF Unwritten
    <3>2. QED
      BY <1>3, <1>4, <3>1
  <2>2. QED
    BY <1>2, <2>1 DEF WriteDue
<1>5. CASE Unwritten(c) = {}
  BY <1>1, <1>2, <1>5 DEF WriteDue, Unwritten, FilesAre
<1>6. QED
  BY <1>4, <1>5

\* A holder that has to recover is never stuck, wherever the holders before it died.
THEOREM RecoveryIsNeverStuck == Spec => []RecoveryProceeds
  BY RecoveryHolds, ReadyProceeds, PTL

\* The files, the epoch and the journal that are still to be brought up to date.
FilesLeft(c) ==
  Cardinality(Unwritten(c))
    + (IF head[c] = journal[c].after.head THEN 0 ELSE 1)
    + (IF lease[c] = journal[c].after.lease THEN 0 ELSE 1)

WritesLeft ==
  (IF Pending THEN 1 ELSE 0)
    + (IF epoch = None THEN 0
       ELSE IF journal[epoch.channel] = None THEN 0 ELSE 1 + FilesLeft(epoch.channel))

LEMMA FilesLeftType ==
  ASSUME TypeOK, NEW c \in Channels, journal[c] # None
  PROVE  /\ IsFiniteSet(Unwritten(c)) /\ Cardinality(Unwritten(c)) \in Nat
         /\ FilesLeft(c) \in Nat
<1>1. Unwritten(c) \subseteq 1..MaxOrdinal
  BY DEF TypeOK, IsJournal, IsImage, Unwritten, Ordinals
<1>2. IsFiniteSet(Unwritten(c)) /\ Cardinality(Unwritten(c)) \in Nat
  <2>1. IsFiniteSet(1..MaxOrdinal)
    BY FS_Interval, BoundsAssumption
  <2>2. IsFiniteSet(Unwritten(c))
    BY <1>1, <2>1, FS_Subset
  <2>3. QED
    BY <2>2, FS_CardinalityType
<1>3. QED
  BY <1>2 DEF FilesLeft

\* Each file that is applied is one less.
LEMMA ApplyLeavesLess ==
  ASSUME TypeOK, RecoveryInv, NEW c \in Channels, ApplyAttempt(c) \/ ApplyHead(c) \/ ApplyLease(c)
  PROVE  FilesLeft(c)' = FilesLeft(c) - 1
<1> DEFINE J == journal[c]
<1>0. J # None /\ UNCHANGED <<journal, epoch>>
  BY DEF ApplyAttempt, ApplyHead, ApplyLease, Recovering
<1>1. /\ IsFiniteSet(Unwritten(c)) /\ Cardinality(Unwritten(c)) \in Nat
  BY <1>0, FilesLeftType
<1>2. CASE ApplyAttempt(c)
  <2>1. PICK i \in DOMAIN J.after.attempts :
          /\ attempt[c][i] # J.after.attempts[i]
          /\ attempt' = [attempt EXCEPT ![c][i] = J.after.attempts[i]]
    BY <1>2 DEF ApplyAttempt
  <2>2. DOMAIN J.after.attempts \subseteq Ordinals
    BY <1>0 DEF TypeOK, IsJournal, IsImage
  <2>3. \A k \in Ordinals : attempt'[c][k] = IF k = i THEN J.after.attempts[i] ELSE attempt[c][k]
    BY <2>1, <2>2 DEF TypeOK
  <2>4. Unwritten(c)' = Unwritten(c) \ {i} /\ i \in Unwritten(c)
    BY <1>0, <2>1, <2>2, <2>3 DEF Unwritten
  <2>5. Cardinality(Unwritten(c)') = Cardinality(Unwritten(c)) - 1
    BY <1>1, <2>4, FS_RemoveElement
  <2>6. UNCHANGED <<head, lease>>
    BY <1>2 DEF ApplyAttempt
  <2>7. QED
    BY <1>0, <1>1, <2>5, <2>6 DEF FilesLeft
<1>3. CASE ApplyHead(c)
  <2>1. /\ head[c] # J.after.head /\ head'[c] = J.after.head /\ UNCHANGED <<attempt, lease>>
    BY <1>3 DEF ApplyHead, TypeOK
  <2>2. Unwritten(c)' = Unwritten(c)
    BY <1>0, <2>1 DEF Unwritten
  <2>3. QED
    BY <1>0, <1>1, <2>1, <2>2 DEF FilesLeft
<1>4. CASE ApplyLease(c)
  <2>1. /\ lease[c] # J.after.lease /\ lease'[c] = J.after.lease /\ UNCHANGED <<attempt, head>>
    BY <1>4 DEF ApplyLease, TypeOK
  <2>2. Unwritten(c)' = Unwritten(c)
    BY <1>0, <2>1 DEF Unwritten
  <2>3. QED
    BY <1>0, <1>1, <2>1, <2>2 DEF FilesLeft
<1>5. QED
  BY <1>2, <1>3, <1>4

LEMMA RecoverLeavesLess ==
  ASSUME TypeOK, RecoveryInv, Recover
  PROVE  WritesLeft \in Nat /\ WritesLeft' = WritesLeft - 1
<1>1. CASE RollBackEpoch
  <2>1. /\ Pending /\ epoch # None /\ epoch' # None /\ ~Pending'
        /\ journal[epoch.channel] = None /\ journal'[epoch'.channel] = None
    BY <1>1, NoneAssumption DEF RollBackEpoch, Pending, TypeOK, Epochs
  <2>2. QED
    BY <2>1 DEF WritesLeft
<1>2. ASSUME NEW c \in Channels, ApplyAttempt(c) \/ ApplyHead(c) \/ ApplyLease(c)
      PROVE  WritesLeft \in Nat /\ WritesLeft' = WritesLeft - 1
  <2>1. epoch # None /\ epoch.channel = c /\ journal[c] # None /\ UNCHANGED <<epoch, journal>>
    BY <1>2 DEF ApplyAttempt, ApplyHead, ApplyLease, Recovering
  <2>2. FilesLeft(c) \in Nat /\ FilesLeft(c)' = FilesLeft(c) - 1
    BY <1>2, <2>1, FilesLeftType, ApplyLeavesLess
  <2>3. QED
    BY <2>1, <2>2 DEF WritesLeft, Pending
<1>3. ASSUME NEW c \in Channels, Stabilise(c)
      PROVE  WritesLeft \in Nat /\ WritesLeft' = WritesLeft - 1
  <2>1. /\ epoch # None /\ epoch.channel = c /\ journal[c] # None /\ UNCHANGED <<files, journal>>
        /\ epoch' # None /\ epoch'.channel = c /\ Pending /\ ~Pending'
    BY <1>3, NoneAssumption DEF Stabilise, Recovering, Pending, TypeOK, Epochs
  <2>2. FilesLeft(c) \in Nat /\ FilesLeft(c)' = FilesLeft(c)
    BY <2>1, FilesLeftType DEF FilesLeft, Unwritten, files
  <2>3. QED
    BY <2>1, <2>2 DEF WritesLeft
<1>4. ASSUME NEW c \in Channels, DropJournal(c)
      PROVE  WritesLeft \in Nat /\ WritesLeft' = WritesLeft - 1
  <2>1. /\ epoch # None /\ epoch.channel = c /\ journal[c] # None /\ epoch' = epoch
        /\ journal'[c] = None /\ ~Pending /\ ~Pending' /\ FilesAre(c, journal[c].after)
    BY <1>4 DEF DropJournal, Recovering, Applicable, Pending, TypeOK
  <2>2. Unwritten(c) = {}
    BY <2>1 DEF FilesAre, Unwritten
  <2>3. FilesLeft(c) = 0
    BY <2>1, <2>2, FS_EmptySet DEF FilesLeft, FilesAre
  <2>4. QED
    BY <2>1, <2>3 DEF WritesLeft
<1>5. QED
  BY <1>1, <1>2, <1>3, <1>4 DEF Recover

\* A recovery of a legal journal is at most six writes: two attempts, the head, the
\* lease, the epoch and the removal of the journal.
LEMMA AtMostSixWrites == TypeOK /\ RecoveryInv => WritesLeft <= 6
<1> SUFFICES ASSUME TypeOK, RecoveryInv, epoch # None, journal[epoch.channel] # None
             PROVE  FilesLeft(epoch.channel) <= 4
  BY FilesLeftType DEF WritesLeft, TypeOK, Epochs
<1> DEFINE c == epoch.channel
           J == journal[c]
<1>1. c \in Channels
  BY DEF TypeOK, Epochs
<1>2. IsJournal(J) /\ Legal(J)
  BY <1>1 DEF TypeOK, RecoveryInv, JournalsLegal
<1>3. Unwritten(c) \subseteq {J.before.head} \cup {J.after.head}
  BY <1>2, LegalDomain DEF Unwritten
<1>4. Cardinality(Unwritten(c)) <= 2
  <2>1. /\ IsFiniteSet({J.before.head}) /\ Cardinality({J.before.head}) = 1
        /\ IsFiniteSet({J.after.head}) /\ Cardinality({J.after.head}) = 1
    BY FS_Singleton
  <2>2. /\ IsFiniteSet({J.before.head} \cup {J.after.head})
        /\ Cardinality({J.before.head} \cup {J.after.head}) <= 2
    <3>1. {J.before.head} \cup {J.after.head} = {J.before.head, J.after.head}
      OBVIOUS
    <3>2. CASE J.before.head = J.after.head
      BY <2>1, <3>2
    <3>3. CASE J.before.head # J.after.head
      <4>1. {J.before.head} \cap {J.after.head} = {}
        BY <3>3
      <4>2. QED
        BY <2>1, <4>1, FS_EmptySet, FS_Union
    <3>4. QED
      BY <3>2, <3>3
  <2>3. Cardinality(Unwritten(c)) <= Cardinality({J.before.head} \cup {J.after.head})
    BY <1>3, <2>2, FS_Subset
  <2>4. QED
    BY <1>1, <2>2, <2>3, FilesLeftType, FS_CardinalityType
<1>5. QED
  BY <1>1, <1>4, FilesLeftType DEF FilesLeft

\* Every step of a recovery leaves one write less, of six at most, so a holder that
\* does not die brings the records to rest.
THEOREM RecoveryComesToRest ==
  Spec => /\ [](WritesLeft <= 6)
          /\ [][Recover => WritesLeft \in Nat /\ WritesLeft' = WritesLeft - 1]_vars
<1>1. TypeOK /\ RecoveryInv /\ [Next]_vars
        => [Recover => WritesLeft \in Nat /\ WritesLeft' = WritesLeft - 1]_vars
  BY RecoverLeavesLess
<1>2. QED
  BY <1>1, AtMostSixWrites, RecoveryHolds, PTL DEF Spec

-----------------------------------------------------------------------------------
(* What the records say is sound at every moment                           *)
(*                                                                         *)
(* The records of a channel, read through its journal, pass the snapshot's *)
(* validation after every write.  A predecessor is always older than its   *)
(* successor, which is what keeps the successor unique.                    *)

Linked(A, h) ==
  \A i \in 1..h :
    /\ A[i].successor # 0 <=> A[i].outcome = "superseded"
    /\ A[i].successor # 0 => A[i].successor \in 1..h /\ A[A[i].successor].supersedes = i
    /\ A[i].supersedes # 0 =>
         /\ A[i].supersedes \in 1..h /\ A[i].supersedes < i
         /\ A[A[i].supersedes].outcome = "failed" \/ A[A[i].supersedes].successor = i
    /\ \A k \in 1..h : A[i].supersedes # 0 /\ A[k].supersedes = A[i].supersedes => k = i

Sound(A, h, l) ==
  /\ \A i \in Ordinals : A[i] # None <=> i \in 1..h
  /\ Consistent(h, l, IF h = 0 THEN None ELSE A[h])
  /\ \A i \in 1..h : i # h => Terminal(A[i])
  /\ Linked(A, h)

Histories == [Ordinals -> Attempts \cup {None}]

\* What A becomes when the journal J is applied.
After(A, J) ==
  [i \in Ordinals |-> IF i \in DOMAIN J.after.attempts THEN J.after.attempts[i] ELSE A[i]]

Finds(J, A, h, l) ==
  /\ J.before.head = h /\ J.before.lease = l
  /\ \A i \in DOMAIN J.before.attempts : A[i] = J.before.attempts[i]

LEMMA SameHeadSound ==
  ASSUME NEW J, IsJournal(J), Legal(J), NEW A \in Histories, NEW h, NEW l,
         Finds(J, A, h, l), Sound(A, h, l), J.after.head = h
  PROVE  Sound(After(A, J), J.after.head, J.after.lease)
<1> DEFINE B == After(A, J)
           x == A[h]
           y == J.after.attempts[h]
<1>1. h \in 1..MaxOrdinal /\ h \in Ordinals /\ 1..h \subseteq Ordinals /\ h \in Nat
  BY JournalTypes, BoundsAssumption DEF Ordinals
<1>2. SameHeadLegal(J.before, J.after)
  BY DEF Legal, Finds
<1>3. DOMAIN J.after.attempts = {h}
  BY <1>2 DEF SameHeadLegal, Finds
<1>4. B \in Histories /\ B[h] = y /\ \A i \in Ordinals : i # h => B[i] = A[i]
  BY <1>1, <1>3, JournalTypes DEF After, Histories
<1>5. HeadAttempt(J.before) = x /\ x \in Attempts /\ y \in Attempts
  BY <1>1, <1>3, JournalTypes DEF Finds
<1>6. Consistent(h, J.after.lease, y)
  BY <1>2 DEF SameHeadLegal, Finds
<1>7. x = y \/ ProgressLegal(x, y) \/ FailedLegal(x, y) \/ CompletedLegal(x, y)
  BY <1>2, <1>5 DEF SameHeadLegal, Finds
<1>8. y.successor = x.successor /\ y.supersedes = x.supersedes
  BY <1>5, <1>7 DEF ProgressLegal, FailedLegal, CompletedLegal, Attempts
<1>9. y.outcome = "superseded" <=> x.outcome = "superseded"
  BY <1>5, <1>7 DEF ProgressLegal, FailedLegal, CompletedLegal, Attempts, Terminal
<1>10. x.outcome = "failed" => y.outcome = "failed"
  BY <1>5, <1>7 DEF ProgressLegal, FailedLegal, CompletedLegal, Attempts, Terminal
<1> HIDE DEF B
<1>11. \A i \in 1..h : /\ B[i].successor = A[i].successor /\ B[i].supersedes = A[i].supersedes
                       /\ B[i].outcome = "superseded" <=> A[i].outcome = "superseded"
                       /\ A[i].outcome = "failed" => B[i].outcome = "failed"
  BY <1>1, <1>4, <1>8, <1>9, <1>10
<1>12. Linked(B, h)
  BY <1>1, <1>11 DEF Linked, Sound
<1>13. \A i \in Ordinals : B[i] # None <=> i \in 1..h
  BY <1>1, <1>4, <1>5, NoneAssumption DEF Sound
<1>14. \A i \in 1..h : i # h => Terminal(B[i])
  BY <1>1, <1>4 DEF Sound
<1>15. Sound(B, h, J.after.lease)
  BY <1>1, <1>4, <1>6, <1>12, <1>13, <1>14 DEF Sound
<1>16. QED
  BY <1>15 DEF B

LEMMA NewHeadSound ==
  ASSUME NEW J, IsJournal(J), Legal(J), NEW A \in Histories, NEW h, NEW l,
         Finds(J, A, h, l), Sound(A, h, l), J.after.head # h
  PROVE  Sound(After(A, J), J.after.head, J.after.lease)
<1> DEFINE B == After(A, J)
           n == h + 1
           x == A[h]
           y == J.after.attempts[n]
           z == J.after.attempts[h]
           pred == IF l = None THEN 0 ELSE h
<1>1. h \in 0..MaxOrdinal /\ J.after.head \in 1..MaxOrdinal
  BY JournalTypes DEF Finds
<1>2. NewHeadLegal(J.before, J.after)
  BY DEF Legal, Finds
<1>3. /\ J.after.head = n
      /\ DOMAIN J.after.attempts = {n} \cup ({h} \ {0})
      /\ y = Minted(y.owner, y.included, pred)
      /\ J.after.lease = FreshLease(y.owner, n)
  BY <1>2 DEF NewHeadLegal, Finds
<1>4. n \in Ordinals /\ h \in Nat /\ n \in 1..MaxOrdinal /\ 1..n \subseteq Ordinals
      /\ 1..n = 1..h \cup {n} /\ n \notin 1..h
  BY <1>1, <1>3, BoundsAssumption DEF Ordinals
<1>5. /\ B \in Histories /\ B[n] = y
      /\ h # 0 => B[h] = z
      /\ \A i \in Ordinals : i # n /\ i # h => B[i] = A[i]
  BY <1>3, <1>4, <1>1, JournalTypes DEF After, Histories
<1>6. y \in Attempts /\ (h # 0 => x \in Attempts /\ z \in Attempts /\ HeadAttempt(J.before) = x)
  BY <1>3, <1>4, JournalTypes DEF Finds
<1>7. /\ y.outcome = "active" /\ y.successor = 0 /\ y.supersedes = pred
  BY <1>3 DEF Minted
<1>8. h # 0 =>
        \/ l = None /\ x.outcome = "released" /\ z = x
        \/ l # None /\ x.outcome = "failed" /\ z = x
        \/ l # None /\ ~Terminal(x) /\ z = [x EXCEPT !.outcome = "superseded", !.successor = n]
  BY <1>2, <1>6 DEF NewHeadLegal, Finds, SupersededLegal
<1>9. h = 0 => l = None
  BY <1>2 DEF NewHeadLegal, Finds
<1>10. Consistent(n, J.after.lease, y)
  BY <1>3, <1>4, <1>6, <1>7, NoneAssumption DEF Consistent, FreshLease, Leases, Attempts
<1>11. h # 0 => /\ Terminal(z) /\ z.supersedes = x.supersedes
                /\ z.successor # 0 <=> z.outcome = "superseded"
                /\ z.successor # 0 => z.successor = n /\ l # None
                /\ x.outcome = "failed" => z.outcome = "failed"
                /\ l # None => z.outcome = "failed" \/ z.successor = n
                /\ x.successor = 0
  <2> SUFFICES ASSUME h # 0 PROVE
                /\ Terminal(z) /\ z.supersedes = x.supersedes
                /\ z.successor # 0 <=> z.outcome = "superseded"
                /\ z.successor # 0 => z.successor = n /\ l # None
                /\ x.outcome = "failed" => z.outcome = "failed"
                /\ l # None => z.outcome = "failed" \/ z.successor = n
                /\ x.successor = 0
    OBVIOUS
  <2>1. h \in 1..h /\ (x.successor # 0 <=> x.outcome = "superseded")
    BY <1>4 DEF Sound, Linked
  <2>2. CASE z = x /\ x.outcome \in {"released", "failed"}
    BY <1>8, <2>1, <2>2 DEF Terminal
  <2>3. CASE l # None /\ ~Terminal(x) /\ z = [x EXCEPT !.outcome = "superseded", !.successor = n]
    BY <1>4, <1>6, <2>1, <2>3 DEF Terminal, Attempts
  <2>4. QED
    BY <1>8, <2>2, <2>3
<1> HIDE DEF B, n, x, y, z, pred
<1>12. \A i \in 1..h : /\ B[i].supersedes = A[i].supersedes
                       /\ A[i].outcome = "failed" => B[i].outcome = "failed"
                       /\ A[i].successor # 0 => B[i].successor = A[i].successor
                       /\ B[i].successor # 0 <=> B[i].outcome = "superseded"
                       /\ B[i].successor # 0 =>
                            B[i].successor = A[i].successor \/ (i = h /\ l # None /\ B[i].successor = n)
  <2> SUFFICES ASSUME NEW i \in 1..h PROVE
         /\ B[i].supersedes = A[i].supersedes
         /\ A[i].outcome = "failed" => B[i].outcome = "failed"
         /\ A[i].successor # 0 => B[i].successor = A[i].successor
         /\ B[i].successor # 0 <=> B[i].outcome = "superseded"
         /\ B[i].successor # 0 =>
              B[i].successor = A[i].successor \/ (i = h /\ l # None /\ B[i].successor = n)
    OBVIOUS
  <2>1. CASE i = h
    BY <1>4, <1>5, <1>11, <2>1 DEF x
  <2>2. CASE i # h
    <3>1. B[i] = A[i]
      BY <1>4, <1>5, <2>2
    <3>2. QED
      BY <3>1 DEF Sound, Linked
  <2>3. QED
    BY <2>1, <2>2
<1>13. \A i \in 1..h : A[i].supersedes # 0 => A[i].supersedes < h
  BY <1>4 DEF Sound, Linked
<1>14. Linked(B, n)
  <2> SUFFICES ASSUME NEW i \in 1..n
               PROVE  /\ B[i].successor # 0 <=> B[i].outcome = "superseded"
                      /\ B[i].successor # 0 =>
                           B[i].successor \in 1..n /\ B[B[i].successor].supersedes = i
                      /\ B[i].supersedes # 0 =>
                           /\ B[i].supersedes \in 1..n /\ B[i].supersedes < i
                           /\ \/ B[B[i].supersedes].outcome = "failed"
                              \/ B[B[i].supersedes].successor = i
                      /\ \A k \in 1..n :
                           B[i].supersedes # 0 /\ B[k].supersedes = B[i].supersedes => k = i
    BY DEF Linked
  <2>1. CASE i \in 1..h
    <3>1. B[i].successor # 0 => B[i].successor \in 1..n /\ B[B[i].successor].supersedes = i
      BY <1>4, <1>5, <1>7, <1>12, <2>1 DEF Sound, Linked, pred
    <3>2. B[i].supersedes # 0 =>
            /\ B[i].supersedes \in 1..h /\ B[i].supersedes < i
            /\ B[B[i].supersedes].outcome = "failed" \/ B[B[i].supersedes].successor = i
      BY <1>4, <1>12, <2>1 DEF Sound, Linked
    <3>3. \A k \in 1..n : B[i].supersedes # 0 /\ B[k].supersedes = B[i].supersedes => k = i
      <4>1. \A k \in 1..h : B[i].supersedes # 0 /\ B[k].supersedes = B[i].supersedes => k = i
        BY <1>12, <2>1 DEF Sound, Linked
      <4>2. B[i].supersedes # 0 => B[n].supersedes # B[i].supersedes
        BY <1>4, <1>5, <1>7, <1>12, <1>13, <2>1 DEF pred
      <4>3. QED
        BY <1>4, <4>1, <4>2
    <3>4. QED
      BY <1>4, <1>12, <2>1, <3>1, <3>2, <3>3
  <2>2. CASE i = n
    <3>1. B[i].successor = 0 /\ B[i].outcome = "active" /\ B[i].supersedes = pred
      BY <1>5, <1>7, <2>2
    <3>2. B[i].supersedes # 0 => pred = h /\ h # 0 /\ l # None
      BY <1>9, <3>1 DEF pred
    <3>3. B[i].supersedes # 0 => B[h].outcome = "failed" \/ B[h].successor = n
      BY <1>5, <1>11, <3>2
    <3>4. \A k \in 1..h : B[i].supersedes # 0 => B[k].supersedes # B[i].supersedes
      BY <1>4, <1>12, <1>13, <3>1, <3>2
    <3>5. B[i].supersedes # 0 => B[i].supersedes \in 1..n /\ B[i].supersedes < n
      BY <1>4, <3>1, <3>2 DEF n
    <3>6. QED
      BY <1>4, <2>2, <3>1, <3>2, <3>3, <3>4, <3>5
  <2>3. QED
    BY <1>4, <2>1, <2>2
<1>15. \A i \in Ordinals : B[i] # None <=> i \in 1..n
  <2> SUFFICES ASSUME NEW i \in Ordinals PROVE B[i] # None <=> i \in 1..n
    OBVIOUS
  <2>1. CASE i = n
    BY <1>4, <1>5, <1>6, <2>1, NoneAssumption
  <2>2. CASE i = h
    BY <1>4, <1>5, <1>6, <2>2, NoneAssumption DEF Ordinals, n
  <2>3. CASE i # n /\ i # h
    BY <1>4, <1>5, <2>3 DEF Sound
  <2>4. QED
    BY <2>1, <2>2, <2>3
<1>16. \A i \in 1..n : i # n => Terminal(B[i])
  BY <1>4, <1>5, <1>11 DEF Sound
<1>17. Sound(B, n, J.after.lease)
  BY <1>4, <1>5, <1>10, <1>14, <1>15, <1>16 DEF Sound
<1>18. QED
  BY <1>3, <1>17 DEF B, n

LEMMA LegalKeepsSound ==
  ASSUME NEW J, IsJournal(J), Legal(J), NEW A \in Histories, NEW h, NEW l,
         Finds(J, A, h, l), Sound(A, h, l)
  PROVE  Sound(After(A, J), J.after.head, J.after.lease)
  BY SameHeadSound, NewHeadSound

\* A channel's attempts, read through its journal.
Reads(c) == [i \in Ordinals |-> Effective(c, i)]

SoundInv == \A c \in Channels : Sound(Reads(c), EffectiveHead(c), EffectiveLease(c))

LEMMA ReadsFiles ==
  ASSUME TypeOK, NEW c \in Channels, journal[c] = None
  PROVE  Reads(c) = attempt[c] /\ EffectiveHead(c) = head[c] /\ EffectiveLease(c) = lease[c]
  BY DEF Reads, Effective, EffectiveHead, EffectiveLease, TypeOK

LEMMA ReadsJournal ==
  ASSUME NEW c \in Channels, journal[c] # None
  PROVE  /\ Reads(c) = After(attempt[c], journal[c])
         /\ EffectiveHead(c) = journal[c].after.head
         /\ EffectiveLease(c) = journal[c].after.lease
  BY DEF Reads, Effective, EffectiveHead, EffectiveLease, After

LEMMA SoundInit == Init => SoundInv
<1> SUFFICES ASSUME Init, NEW c \in Channels
             PROVE  Sound(Reads(c), EffectiveHead(c), EffectiveLease(c))
  BY DEF SoundInv
<1>1. EffectiveHead(c) = 0 /\ EffectiveLease(c) = None /\ \A i \in Ordinals : Reads(c)[i] = None
  BY DEF Init, Reads, Effective, EffectiveHead, EffectiveLease
<1>2. 1..0 = {}
  OBVIOUS
<1> QED
  BY <1>1, <1>2 DEF Sound, Linked, Consistent

\* Nothing a reader of channel d sees has changed.
SameView(d) ==
  /\ Reads(d)' = Reads(d)
  /\ EffectiveHead(d)' = EffectiveHead(d) /\ EffectiveLease(d)' = EffectiveLease(d)

\* Applying a file changes nothing for a reader of the journal.
LEMMA ApplyKeepsReads ==
  ASSUME TypeOK, NEW c \in Channels, Recovering(c), UNCHANGED journal,
         \A d \in Channels \ {c} : attempt'[d] = attempt[d] /\ head'[d] = head[d] /\ lease'[d] = lease[d],
         \A i \in Ordinals \ DOMAIN journal[c].after.attempts : attempt'[c][i] = attempt[c][i]
  PROVE  \A d \in Channels : SameView(d)
  BY DEF Recovering, SameView, Reads, Effective, EffectiveHead, EffectiveLease

\* A channel's view changes when a journal is written, and only then.
LEMMA OnlyJournalsChangeViews ==
  ASSUME TypeOK, RecoveryInv, [Next]_vars, ~WriteJournal
  PROVE  \A d \in Channels : SameView(d)
<1>1. ASSUME UNCHANGED <<files, journal>> PROVE \A d \in Channels : SameView(d)
  BY <1>1 DEF files, SameView, Reads, Effective, EffectiveHead, EffectiveLease
<1>2. ASSUME NEW c \in Channels, ApplyAttempt(c) PROVE \A d \in Channels : SameView(d)
  <2>1. PICK i \in DOMAIN journal[c].after.attempts :
          attempt' = [attempt EXCEPT ![c][i] = journal[c].after.attempts[i]]
    BY <1>2 DEF ApplyAttempt
  <2>2. Recovering(c) /\ UNCHANGED <<head, lease, journal>>
    BY <1>2 DEF ApplyAttempt
  <2>3. \A d \in Channels \ {c} : attempt'[d] = attempt[d]
    BY <2>1 DEF TypeOK
  <2>4. \A k \in Ordinals \ DOMAIN journal[c].after.attempts : attempt'[c][k] = attempt[c][k]
    BY <2>1 DEF TypeOK
  <2>5. QED
    BY <2>2, <2>3, <2>4, ApplyKeepsReads
<1>3. ASSUME NEW c \in Channels, ApplyHead(c) \/ ApplyLease(c)
      PROVE  \A d \in Channels : SameView(d)
  <2>1. /\ Recovering(c) /\ UNCHANGED <<attempt, journal>>
        /\ \A d \in Channels \ {c} : head'[d] = head[d] /\ lease'[d] = lease[d]
    BY <1>3 DEF ApplyHead, ApplyLease, TypeOK
  <2>2. QED
    BY <2>1, ApplyKeepsReads
<1>4. ASSUME NEW c \in Channels, DropJournal(c) PROVE \A d \in Channels : SameView(d)
  <2> DEFINE J == journal[c]
  <2>1. /\ Recovering(c) /\ J # None /\ FilesAre(c, J.after)
        /\ journal' = [journal EXCEPT ![c] = None] /\ UNCHANGED files
    BY <1>4 DEF DropJournal, Recovering, Applicable
  <2>2. After(attempt[c], J) = attempt[c]
    BY <2>1 DEF FilesAre, After, TypeOK
  <2>3. /\ Reads(c) = attempt[c] /\ EffectiveHead(c) = head[c] /\ EffectiveLease(c) = lease[c]
    BY <2>1, <2>2, ReadsJournal DEF FilesAre
  <2>4. /\ Reads(c)' = attempt[c] /\ EffectiveHead(c)' = head[c] /\ EffectiveLease(c)' = lease[c]
    BY <2>1 DEF files, TypeOK, Reads, Effective, EffectiveHead, EffectiveLease
  <2>5. \A d \in Channels \ {c} : SameView(d)
    BY <2>1 DEF TypeOK, files, SameView, Reads, Effective, EffectiveHead, EffectiveLease
  <2>6. QED
    BY <2>3, <2>4, <2>5 DEF SameView
<1>5. ASSUME NEW c \in Channels, Verb(c) PROVE \A d \in Channels : SameView(d)
  BY <1>1, <1>5, VerbAnnounces
<1>6. CASE StartCall \/ EndCall \/ Crash \/ RollBackEpoch \/ (\E c \in Channels : Stabilise(c))
           \/ UNCHANGED vars
  BY <1>1, <1>6 DEF StartCall, EndCall, Crash, RollBackEpoch, Stabilise, vars, files
<1>7. QED
  BY <1>2, <1>3, <1>4, <1>5, <1>6 DEF Next, Recover

\* Writing a journal replaces the view of its channel by what the journal wants.
LEMMA JournalChangesView ==
  ASSUME TypeOK, RecoveryInv, WriteJournal
  PROVE  \E c \in Channels : \E J :
           /\ IsJournal(J) /\ Legal(J)
           /\ Finds(J, Reads(c), EffectiveHead(c), EffectiveLease(c)) /\ Reads(c) \in Histories
           /\ Reads(c)' = After(Reads(c), J)
           /\ EffectiveHead(c)' = J.after.head /\ EffectiveLease(c)' = J.after.lease
           /\ \A d \in Channels \ {c} : SameView(d)
<1>1. PICK c \in Channels : c = intent.channel
  BY DEF WriteJournal, TypeOK, IsJournal
<1>2. PICK J : J = intent
  OBVIOUS
<1>3. /\ IsJournal(J) /\ Legal(J) /\ J # None /\ J.channel = c
      /\ \A d \in Channels : journal[d] = None
      /\ FilesAre(c, J.before)
  BY <1>1, <1>2 DEF WriteJournal, TypeOK, RecoveryInv, IntentInv
<1>4. journal' = [journal EXCEPT ![c] = J] /\ UNCHANGED files
  BY <1>1, <1>2 DEF WriteJournal
<1>5. /\ Reads(c) = attempt[c] /\ EffectiveHead(c) = head[c] /\ EffectiveLease(c) = lease[c]
  BY <1>3, ReadsFiles
<1>6. Finds(J, attempt[c], head[c], lease[c]) /\ attempt[c] \in Histories
  BY <1>3 DEF FilesAre, Finds, Histories, TypeOK
<1>7. /\ Reads(c)' = After(attempt[c], J)
      /\ EffectiveHead(c)' = J.after.head /\ EffectiveLease(c)' = J.after.lease
  BY <1>3, <1>4 DEF TypeOK, files, Reads, Effective, EffectiveHead, EffectiveLease, After
<1>8. \A d \in Channels \ {c} : SameView(d)
  BY <1>4 DEF TypeOK, files, SameView, Reads, Effective, EffectiveHead, EffectiveLease
<1>9. QED
  BY <1>3, <1>5, <1>6, <1>7, <1>8

LEMMA SoundStep == TypeOK /\ RecoveryInv /\ SoundInv /\ [Next]_vars => SoundInv'
<1> SUFFICES ASSUME TypeOK, RecoveryInv, SoundInv, [Next]_vars PROVE SoundInv'
  OBVIOUS
<1>1. CASE WriteJournal
  BY <1>1, JournalChangesView, LegalKeepsSound DEF SoundInv, SameView
<1>2. CASE ~WriteJournal
  BY <1>2, OnlyJournalsChangeViews DEF SoundInv, SameView
<1>3. QED
  BY <1>1, <1>2

LEMMA SoundHolds == Spec => [](TypeOK /\ RecoveryInv /\ SoundInv)
<1>1. TypeOK /\ RecoveryInv /\ SoundInv /\ [Next]_vars => SoundInv'
  BY SoundStep
<1>2. QED
  BY RecoveryHolds, SoundInit, <1>1, PTL DEF Spec

\* At rest, the files are what their reader sees.
LEMMA SoundFiles ==
  ASSUME TypeOK, RecoveryInv, SoundInv, ~NeedsRecovery, NEW c \in Channels
  PROVE  Sound(attempt[c], head[c], lease[c])
  BY NoJournalAtRest, ReadsFiles DEF RecoveryInv, SoundInv

LEMMA SoundIsReadable == TypeOK /\ RecoveryInv /\ SoundInv => AtRestReadable
<1> SUFFICES ASSUME TypeOK, RecoveryInv, SoundInv, ~NeedsRecovery, NEW c \in Channels
             PROVE  /\ Existing(c) = 1..head[c]
                    /\ Consistent(head[c], lease[c], IF head[c] = 0 THEN None ELSE Current(c))
                    /\ \A i \in Existing(c) : i # head[c] => Terminal(attempt[c][i])
                    /\ ChainSound(c)
  BY DEF AtRestReadable
<1>1. Sound(attempt[c], head[c], lease[c])
  BY SoundFiles
<1>2. 1..head[c] \subseteq Ordinals
  BY BoundsAssumption DEF TypeOK, Ordinals
<1>3. Existing(c) = 1..head[c]
  BY <1>1, <1>2 DEF Existing, Sound
<1>4. ChainSound(c)
  BY <1>1, <1>3 DEF ChainSound, Sound, Linked
<1>5. QED
  BY <1>1, <1>3, <1>4 DEF Sound, Current

\* Between transactions every channel's records pass the snapshot's validation,
\* wherever holders of the lock died before.
THEOREM ReadableAtRest == Spec => []AtRestReadable
  BY SoundHolds, SoundIsReadable, PTL

-----------------------------------------------------------------------------------
(* The verbs never announce what the validator refuses                     *)

\* The part of legality that every journal of a sound channel has in common.
Common(J, c, h, l, xs) ==
  /\ J.before.head = head[c] /\ J.before.lease = lease[c]
  /\ J.after.head = h /\ J.after.lease = l /\ J.after.attempts = xs
  /\ head[c] # 0 => HeadAttempt(J.before) = Current(c)
  /\ J.after.head # 0
  /\ {i \in DOMAIN J.before.attempts : J.before.attempts[i] # None} = {J.before.head} \ {0}
  /\ Consistent(J.before.head, J.before.lease, HeadAttempt(J.before))

LEMMA BeforeLegal ==
  ASSUME TypeOK, NEW c \in Channels, Sound(attempt[c], head[c], lease[c]),
         NEW h \in Ordinals, NEW l, NEW xs,
         DOMAIN xs \subseteq Ordinals, DOMAIN xs \cap (1..head[c]) = {head[c]} \ {0}
  PROVE  Common(Intended(c, Image(h, l, xs)), c, h, l, xs)
<1> DEFINE J == Intended(c, Image(h, l, xs))
           b == [i \in DOMAIN xs |-> attempt[c][i]]
<1>1. /\ J.after.head = h /\ J.after.lease = l /\ J.after.attempts = xs
      /\ J.before.head = head[c] /\ J.before.lease = lease[c] /\ J.before.attempts = b
  BY DEF Intended, Image
<1>2. {i \in DOMAIN b : b[i] # None} = {head[c]} \ {0}
  BY DEF Sound
<1>3. head[c] # 0 => HeadAttempt(J.before) = Current(c)
  <2>1. head[c] # 0 => head[c] \in DOMAIN xs
    OBVIOUS
  <2>2. QED
    BY <1>1, <2>1 DEF HeadAttempt, Current
<1>4. head[c] = 0 => HeadAttempt(J.before) = None
  BY <1>1 DEF HeadAttempt
<1>5. Consistent(head[c], lease[c], HeadAttempt(J.before))
  BY <1>3, <1>4 DEF Sound, Current
<1>6. h # 0
  BY BoundsAssumption DEF Ordinals
<1> HIDE DEF J, b
<1>7. Common(J, c, h, l, xs)
  BY <1>1, <1>2, <1>3, <1>5, <1>6 DEF Common
<1>8. QED
  BY <1>7 DEF J

LEMMA RenewalLegal ==
  ASSUME TypeOK, NEW c \in Channels, Sound(attempt[c], head[c], lease[c]), Held(c),
         NEW x \in Attempts, NEW l, Consistent(head[c], l, x),
         \/ l = None /\ CompletedLegal(Current(c), x)
         \/ /\ l = Renewed(lease[c])
            /\ Current(c) = x \/ ProgressLegal(Current(c), x) \/ FailedLegal(Current(c), x)
  PROVE  Legal(Intended(c, Image(head[c], l, [i \in {head[c]} |-> x])))
<1> DEFINE xs == [i \in {head[c]} |-> x]
           J == Intended(c, Image(head[c], l, xs))
<1>1. head[c] \in Ordinals /\ lease[c] # None
  BY HeldType DEF Held
<1>2. head[c] # 0 /\ {head[c]} \in SUBSET Ordinals /\ {head[c]} \cap (1..head[c]) = {head[c]} \ {0}
  BY <1>1, BoundsAssumption DEF Ordinals
<1>3. DOMAIN xs = {head[c]} /\ xs[head[c]] = x
  OBVIOUS
<1> HIDE DEF xs
<1>4. Common(J, c, head[c], l, xs)
  BY <1>1, <1>2, <1>3, BeforeLegal
<1> HIDE DEF J
<1>5. SameHeadLegal(J.before, J.after)
  BY <1>1, <1>2, <1>3, <1>4 DEF SameHeadLegal, Common
<1>6. Legal(J)
  BY <1>4, <1>5 DEF Legal, Common
<1>7. QED
  BY <1>6 DEF J, xs

LEMMA MintingLegal ==
  ASSUME TypeOK, NEW c \in Channels, Sound(attempt[c], head[c], lease[c]),
         NEW o \in Owners, NEW T \in SUBSET Tickets, NEW xs, head[c] + 1 \in Ordinals,
         DOMAIN xs = {head[c] + 1} \cup ({head[c]} \ {0}),
         xs[head[c] + 1] = Minted(o, T, IF lease[c] = None THEN 0 ELSE head[c]),
         head[c] = 0 => lease[c] = None,
         head[c] # 0 /\ lease[c] = None => xs[head[c]] = Current(c) /\ Current(c).outcome = "released",
         head[c] # 0 /\ lease[c] # None =>
           IF Current(c).outcome = "failed" THEN xs[head[c]] = Current(c)
           ELSE SupersededLegal(Current(c), xs[head[c]], head[c] + 1)
  PROVE  Legal(Intended(c, Image(head[c] + 1, FreshLease(o, head[c] + 1), xs)))
<1> DEFINE n == head[c] + 1
           J == Intended(c, Image(n, FreshLease(o, n), xs))
<1>1. head[c] \in 0..MaxOrdinal /\ n \in 1..MaxOrdinal /\ n # head[c] /\ n \notin 1..head[c]
  BY BoundsAssumption DEF TypeOK, Ordinals
<1>2. DOMAIN xs \in SUBSET Ordinals /\ DOMAIN xs \cap (1..head[c]) = {head[c]} \ {0}
  BY <1>1, BoundsAssumption DEF Ordinals
<1>3. Common(J, c, n, FreshLease(o, n), xs)
  BY <1>2, BeforeLegal
<1>4. xs[n].owner = o /\ xs[n].included = T
  BY DEF Minted
<1> HIDE DEF J
<1>5. NewHeadLegal(J.before, J.after)
  BY <1>3, <1>4 DEF NewHeadLegal, Common
<1>6. Legal(J)
  BY <1>1, <1>3, <1>5 DEF Legal, Common
<1>7. QED
  BY <1>6 DEF J

LEMMA HeldConsistent ==
  ASSUME TypeOK, NEW c \in Channels, Held(c)
  PROVE  /\ Current(c) \in Attempts /\ lease[c].ordinal = head[c]
         /\ lease[c].owner = Current(c).owner
         /\ Current(c).outcome \in {"active", "failed"}
         /\ \A x \in Attempts : x.owner = Current(c).owner /\ x.outcome \in {"active", "failed"} =>
              Consistent(head[c], Renewed(lease[c]), x)
<1>1. Current(c) \in Attempts /\ lease[c] \in Leases /\ Renewed(lease[c]) \in Leases
  BY HeldType
<1>2. /\ lease[c].ordinal = head[c] /\ lease[c].owner = Current(c).owner
      /\ Current(c).outcome \in {"active", "failed"}
  BY <1>1 DEF Held, Consistent, Attempts, Outcomes
<1>3. Renewed(lease[c]).ordinal = lease[c].ordinal /\ Renewed(lease[c]).owner = lease[c].owner
  BY <1>1 DEF Renewed, Leases
<1>4. Renewed(lease[c]) # None /\ head[c] # 0
  BY <1>1, NoneAssumption DEF Held
<1>5. QED
  BY <1>1, <1>2, <1>3, <1>4, NoneAssumption DEF Consistent

\* One lemma per verb: the image it wants is one the validator accepts.
LEMMA AcquireLegal ==
  ASSUME TypeOK, NEW c \in Channels, Sound(attempt[c], head[c], lease[c]), Acquirable(c),
         NEW o \in Owners, NEW T \in SUBSET Tickets, AcquireImage(c, o, T).head <= MaxOrdinal
  PROVE  Legal(Intended(c, AcquireImage(c, o, T)))
<1> DEFINE n == head[c] + 1
           xs == [i \in {n} \cup ({head[c]} \ {0}) |->
                    IF i = n THEN Minted(o, T, 0) ELSE attempt[c][i]]
<1>1. AcquireImage(c, o, T) = Image(n, FreshLease(o, n), xs)
  BY DEF AcquireImage
<1>2. n \in Ordinals /\ head[c] \in Nat
  BY <1>1, BoundsAssumption DEF Image, TypeOK, Ordinals
<1>3. /\ DOMAIN xs = {n} \cup ({head[c]} \ {0}) /\ xs[n] = Minted(o, T, 0)
      /\ head[c] # 0 => xs[head[c]] = Current(c)
  BY <1>2 DEF Current
<1>4. lease[c] = None /\ (head[c] # 0 => Current(c).outcome = "released")
  BY DEF Acquirable
<1> HIDE DEF xs
<1>5. QED
  BY <1>1, <1>2, <1>3, <1>4, MintingLegal

LEMMA SupersedeLegal ==
  ASSUME TypeOK, NEW c \in Channels, Sound(attempt[c], head[c], lease[c]), Held(c),
         NEW o \in Owners, NEW T \in SUBSET Tickets, SupersedeImage(c, o, T).head <= MaxOrdinal
  PROVE  Legal(Intended(c, SupersedeImage(c, o, T)))
<1> DEFINE n == head[c] + 1
           xs == [i \in {n, head[c]} |-> IF i = n THEN Minted(o, T, head[c]) ELSE Archived(c)]
<1>1. SupersedeImage(c, o, T) = Image(n, FreshLease(o, n), xs)
  BY DEF SupersedeImage
<1>2. n \in Ordinals /\ head[c] \in Nat /\ head[c] # 0 /\ lease[c] # None
  BY <1>1, BoundsAssumption DEF Image, TypeOK, Ordinals, Held
<1>3. /\ DOMAIN xs = {n} \cup ({head[c]} \ {0}) /\ xs[n] = Minted(o, T, head[c])
      /\ xs[head[c]] = Archived(c)
  BY <1>2
<1>4. IF Current(c).outcome = "failed" THEN Archived(c) = Current(c)
      ELSE SupersededLegal(Current(c), Archived(c), n)
  <2>1. Current(c).outcome \in {"active", "failed"}
    BY HeldConsistent
  <2>2. QED
    BY <2>1 DEF Archived, SupersededLegal, Terminal
<1> HIDE DEF xs
<1>5. QED
  BY <1>1, <1>2, <1>3, <1>4, MintingLegal

LEMMA RewriteLegal ==
  ASSUME TypeOK, NEW c \in Channels, Sound(attempt[c], head[c], lease[c]), Held(c),
         NEW x \in Attempts, x.owner = Current(c).owner, x.outcome \in {"active", "failed"},
         Current(c) = x \/ ProgressLegal(Current(c), x) \/ FailedLegal(Current(c), x)
  PROVE  Legal(Intended(c, RenewedImage(c, x)))
<1>1. Consistent(head[c], Renewed(lease[c]), x)
  BY HeldConsistent
<1>2. Legal(Intended(c, Image(head[c], Renewed(lease[c]), [i \in {head[c]} |-> x])))
  BY <1>1, RenewalLegal
<1>3. QED
  BY <1>2 DEF RenewedImage

LEMMA ProgressIsLegal ==
  ASSUME TypeOK, NEW c \in Channels, Sound(attempt[c], head[c], lease[c]), Held(c),
         ~Terminal(Current(c)), NEW T \in SUBSET Tickets, NEW r \in Retries(c)
  PROVE  Legal(Intended(c, RenewedImage(c, Progressed(c, T, r))))
<1> DEFINE x == Current(c)
           y == Progressed(c, T, r)
<1>1. x \in Attempts /\ y \in Attempts /\ x.outcome = "active"
  BY HeldType, ProgressType DEF Terminal
<1>2. /\ y.owner = x.owner /\ y.outcome = x.outcome /\ y.retry = r /\ y.included = T
      /\ y = [x EXCEPT !.included = T, !.retry = r]
  BY <1>1 DEF Progressed, Attempts
<1>3. y = [x EXCEPT !.retry = y.retry, !.included = y.included]
  BY <1>1, <1>2 DEF Attempts
<1>4. ProgressLegal(x, y)
  BY <1>1, <1>2, <1>3 DEF ProgressLegal, Retries, Terminal
<1>5. QED
  BY <1>1, <1>2, <1>4, RewriteLegal

LEMMA FailureIsLegal ==
  ASSUME TypeOK, NEW c \in Channels, Sound(attempt[c], head[c], lease[c]), Held(c),
         ~Terminal(Current(c))
  PROVE  Legal(Intended(c, RenewedImage(c, FailedAttempt(c))))
<1>1. Current(c) \in Attempts
  BY HeldType
<1>2. /\ FailedAttempt(c) \in Attempts /\ FailedAttempt(c).owner = Current(c).owner
      /\ FailedAttempt(c).outcome = "failed"
  BY <1>1 DEF FailedAttempt, Attempts, Outcomes
<1>3. FailedLegal(Current(c), FailedAttempt(c))
  BY DEF FailedLegal, FailedAttempt
<1>4. QED
  BY <1>2, <1>3, RewriteLegal

LEMMA CompletionIsLegal ==
  ASSUME TypeOK, NEW c \in Channels, Sound(attempt[c], head[c], lease[c]), Held(c),
         ~Terminal(Current(c))
  PROVE  Legal(Intended(c, CompleteImage(c)))
<1> DEFINE x == [Current(c) EXCEPT !.outcome = "released"]
<1>1. Current(c) \in Attempts
  BY HeldType
<1>2. x \in Attempts /\ x.outcome = "released"
  BY <1>1 DEF Attempts, Outcomes
<1>3. Consistent(head[c], None, x)
  BY <1>2, NoneAssumption DEF Held, Consistent
<1>4. CompletedLegal(Current(c), x)
  BY DEF CompletedLegal
<1> HIDE DEF x
<1>5. Legal(Intended(c, Image(head[c], None, [i \in {head[c]} |-> x])))
  BY <1>2, <1>3, <1>4, RenewalLegal
<1>6. QED
  BY <1>5 DEF CompleteImage, x

LEMMA SoundIsLegal == TypeOK /\ RecoveryInv /\ SoundInv => EveryIntentLegal
<1> SUFFICES ASSUME TypeOK, RecoveryInv, SoundInv, ~NeedsRecovery PROVE EveryIntentLegal
  BY DEF EveryIntentLegal
<1>1. \A c \in Channels : Sound(attempt[c], head[c], lease[c])
  BY SoundFiles
<1>2. \A c \in Channels : Held(c) => Current(c) \in Attempts
  BY HeldType
<1>3. ASSUME NEW c \in Channels, Held(c)
      PROVE  Legal(Intended(c, RenewedImage(c, Current(c))))
  BY <1>1, <1>2, <1>3, HeldConsistent, RewriteLegal
<1>4. QED
  BY <1>1, <1>3, AcquireLegal, SupersedeLegal, ProgressIsLegal, FailureIsLegal,
     CompletionIsLegal DEF EveryIntentLegal

\* The checks of the verbs and the journal's validator agree: no admitted call is
\* refused as an invalid transaction.
THEOREM IntentsAreLegal == Spec => []EveryIntentLegal
  BY SoundHolds, SoundIsLegal, PTL

-----------------------------------------------------------------------------------
(* ReleaseChannel implements ReleaseHistory: every step maps to one step   *)
(* of a history or to none.  First, histories as sequences.                *)

Entries == [owner : Owners, outcome : Outcomes]

Entry(x) == [owner |-> x.owner, outcome |-> x.outcome]

\* The first h attempts of A, as ReleaseHistory records them.
Told(A, h) == [i \in 1..h |-> Entry(A[i])]

LEMMA FunctionIsSeq ==
  ASSUME NEW n \in Nat, NEW S, NEW f \in [1..n -> S]
  PROVE  f \in Seq(S) /\ Len(f) = n
<1>1. f \in Seq(S)
  BY SeqDef
<1>2. 1..n = 1..Len(f) /\ Len(f) \in Nat
  BY <1>1, LenProperties
<1>3. Len(f) = n
  BY <1>2
<1>4. QED
  BY <1>1, <1>3

LEMMA ToldIsSeq ==
  ASSUME NEW A \in Histories, NEW h \in 0..MaxOrdinal, \A i \in 1..h : A[i] # None
  PROVE  Told(A, h) \in Seq(Entries) /\ Len(Told(A, h)) = h
<1>1. \A i \in 1..h : A[i] \in Attempts
  BY BoundsAssumption DEF Histories, Ordinals
<1>2. Told(A, h) \in [1..h -> Entries]
  BY <1>1 DEF Told, Entry, Entries, Attempts
<1>3. QED
  BY <1>2, FunctionIsSeq, BoundsAssumption

\* One more attempt is one more entry.
LEMMA ToldGrows ==
  ASSUME NEW s \in Seq(Entries), NEW e \in Entries, NEW B, NEW h \in Nat, Len(s) = h,
         \A i \in 1..h : Entry(B[i]) = s[i], Entry(B[h + 1]) = e
  PROVE  Told(B, h + 1) = Append(s, e)
<1>1. /\ Append(s, e) \in Seq(Entries) /\ Len(Append(s, e)) = h + 1
      /\ \A i \in 1..h : Append(s, e)[i] = s[i]
      /\ Append(s, e)[h + 1] = e
  BY AppendProperties
<1>2. DOMAIN Append(s, e) = 1..(h + 1) /\ Append(s, e) = [i \in 1..(h + 1) |-> Append(s, e)[i]]
  BY <1>1, LenProperties
<1>3. \A i \in 1..(h + 1) : Entry(B[i]) = Append(s, e)[i]
  BY <1>1
<1>4. QED
  BY <1>2, <1>3 DEF Told

-----------------------------------------------------------------------------------
(* What one journal does to a history                                      *)

\* One step of ReleaseHistory at one channel, or none.
Advances(s, t, was, is) ==
  \/ t = s /\ was = is
  \/ \E o \in Owners : ~was /\ t = Append(s, History!Fresh(o)) /\ is
  \/ \E o \in Owners : was /\ s # <<>> /\ t = Append(History!Archive(s), History!Fresh(o)) /\ is
  \/ \E outcome \in {"failed", "released"} :
       /\ was /\ Len(s) > 0 /\ s[Len(s)].outcome = "active"
       /\ t = [s EXCEPT ![Len(s)].outcome = outcome]
       /\ is = (outcome # "released")

LEMMA SameHeadAdvances ==
  ASSUME NEW J, IsJournal(J), Legal(J), NEW A \in Histories, NEW h, NEW l,
         Finds(J, A, h, l), Sound(A, h, l), J.after.head = h
  PROVE  Advances(Told(A, h), Told(After(A, J), h), l # None, J.after.lease # None)
<1> DEFINE B == After(A, J)
           x == A[h]
           y == J.after.attempts[h]
           s == Told(A, h)
           t == Told(B, h)
<1>1. h \in 1..MaxOrdinal /\ h \in Ordinals /\ 1..h \subseteq Ordinals /\ h \in Nat /\ h \in 0..MaxOrdinal
  BY JournalTypes, BoundsAssumption DEF Ordinals
<1>2. SameHeadLegal(J.before, J.after)
  BY DEF Legal, Finds
<1>3. DOMAIN J.after.attempts = {h} /\ l # None
  BY <1>2 DEF SameHeadLegal, Finds
<1>4. B[h] = y /\ \A i \in Ordinals : i # h => B[i] = A[i]
  BY <1>1, <1>3 DEF After
<1>5. HeadAttempt(J.before) = x /\ x \in Attempts /\ y \in Attempts
  BY <1>1, <1>3, JournalTypes DEF Finds
<1>6. Renewed(l) # None
  <2>1. l \in Leases
    BY <1>3 DEF Finds, IsJournal, IsImage
  <2>2. QED
    BY <2>1, RenewedType, NoneAssumption
<1>7. \/ J.after.lease = None /\ CompletedLegal(x, y)
      \/ J.after.lease # None /\ (x = y \/ ProgressLegal(x, y) \/ FailedLegal(x, y))
  BY <1>2, <1>5, <1>6 DEF SameHeadLegal, Finds
<1>8. s \in Seq(Entries) /\ Len(s) = h /\ s[h] = Entry(x) /\ s = [i \in 1..h |-> Entry(A[i])]
  BY <1>1, ToldIsSeq DEF Sound, Told
<1>9. t = [i \in 1..h |-> IF i = h THEN Entry(y) ELSE s[i]]
  BY <1>1, <1>4, <1>8 DEF Told
<1>10. CASE x = y \/ ProgressLegal(x, y)
  <2>1. Entry(y) = Entry(x)
    BY <1>5, <1>10 DEF ProgressLegal, Entry, Attempts
  <2>2. t = s
    BY <1>8, <1>9, <2>1
  <2>3. J.after.lease # None
    BY <1>5, <1>7, <1>10 DEF CompletedLegal, ProgressLegal, Terminal, Attempts
  <2>4. QED
    BY <1>3, <2>2, <2>3 DEF Advances
<1>11. ASSUME NEW outcome \in {"failed", "released"}, ~Terminal(x), y = [x EXCEPT !.outcome = outcome]
       PROVE  /\ s[Len(s)].outcome = "active" /\ Len(s) > 0
              /\ t = [s EXCEPT ![Len(s)].outcome = outcome]
  <2>1. x.outcome = "active" /\ s[h].outcome = "active"
    BY <1>5, <1>8, <1>11 DEF Terminal, Entry
  <2>2. Entry(y) = [Entry(x) EXCEPT !.outcome = outcome]
    BY <1>5, <1>11 DEF Entry, Attempts
  <2>3. t = [s EXCEPT ![h] = [s[h] EXCEPT !.outcome = outcome]]
    BY <1>1, <1>8, <1>9, <2>2
  <2>4. t = [s EXCEPT ![h].outcome = outcome]
    <3> HIDE DEF s, t
    <3>1. QED
      BY <2>3
  <2>5. Len(s) = h
    BY <1>8
  <2>6. s[Len(s)].outcome = "active" /\ Len(s) > 0
    BY <1>1, <2>1, <2>5
  <2>7. t = [s EXCEPT ![Len(s)].outcome = outcome]
    <3> HIDE DEF s, t
    <3>1. QED
      BY <2>4, <2>5, Zenon
  <2>8. QED
    BY <2>6, <2>7
<1>12. CASE FailedLegal(x, y) /\ J.after.lease # None
  BY <1>3, <1>11, <1>12 DEF FailedLegal, Advances
<1>13. CASE CompletedLegal(x, y) /\ J.after.lease = None
  BY <1>3, <1>11, <1>13 DEF CompletedLegal, Advances
<1>14. QED
  BY <1>7, <1>10, <1>12, <1>13

LEMMA NewHeadAdvances ==
  ASSUME NEW J, IsJournal(J), Legal(J), NEW A \in Histories, NEW h, NEW l,
         Finds(J, A, h, l), Sound(A, h, l), J.after.head # h
  PROVE  Advances(Told(A, h), Told(After(A, J), J.after.head), l # None, J.after.lease # None)
<1> DEFINE B == After(A, J)
           n == h + 1
           x == A[h]
           y == J.after.attempts[n]
           z == J.after.attempts[h]
           s == Told(A, h)
<1>1. h \in 0..MaxOrdinal /\ h \in Nat /\ J.after.head \in 1..MaxOrdinal
  BY JournalTypes DEF Finds
<1>2. NewHeadLegal(J.before, J.after)
  BY DEF Legal, Finds
<1>3. /\ J.after.head = n
      /\ DOMAIN J.after.attempts = {n} \cup ({h} \ {0})
      /\ y.outcome = "active"
      /\ J.after.lease = FreshLease(y.owner, n)
  BY <1>2 DEF NewHeadLegal, Finds, Minted
<1>4. n \in Ordinals /\ 1..n \subseteq Ordinals /\ 1..h \subseteq Ordinals /\ n \notin 1..h
  BY <1>1, <1>3, BoundsAssumption DEF Ordinals
<1>5. /\ B[n] = y /\ y \in Attempts
      /\ h # 0 => B[h] = z /\ x \in Attempts /\ z \in Attempts /\ HeadAttempt(J.before) = x
      /\ \A i \in 1..h : i # h => B[i] = A[i]
  BY <1>1, <1>3, <1>4, JournalTypes DEF After, Finds
<1>6. y.owner \in Owners /\ Entry(y) = History!Fresh(y.owner) /\ Entry(y) \in Entries
  BY <1>3, <1>5 DEF Entry, Entries, History!Fresh, Attempts, Outcomes
<1>7. J.after.lease # None
  BY <1>3, <1>4, <1>6, NoneAssumption DEF FreshLease, Leases
<1>8. s \in Seq(Entries) /\ Len(s) = h /\ \A i \in 1..h : s[i] = Entry(A[i])
  <2>1. \A i \in 1..h : A[i] # None
    BY <1>4 DEF Sound
  <2>2. \A i \in 1..h : s[i] = Entry(A[i])
    BY DEF Told
  <2>3. QED
    BY <1>1, <2>1, <2>2, ToldIsSeq
<1>9. CASE l = None
  <2>1. h # 0 => z = x
    BY <1>2, <1>5, <1>9 DEF NewHeadLegal, Finds
  <2>2. \A i \in 1..h : Entry(B[i]) = s[i]
    BY <1>1, <1>5, <1>8, <2>1
  <2>3. Told(B, n) = Append(s, Entry(y))
    BY <1>1, <1>5, <1>6, <1>8, <2>2, ToldGrows
  <2>4. QED
    BY <1>3, <1>6, <1>7, <1>9, <2>3 DEF Advances
<1>10. CASE l # None
  <2>1. h # 0 /\ h \in 1..h
    BY <1>1, <1>2, <1>10 DEF NewHeadLegal, Finds
  <2>2. \/ x.outcome = "failed" /\ z = x
        \/ x.outcome = "active" /\ z = [x EXCEPT !.outcome = "superseded", !.successor = n]
    BY <1>2, <1>5, <1>10, <2>1 DEF NewHeadLegal, Finds, SupersededLegal, Terminal
  <2>3. \/ Entry(x).outcome # "active" /\ Entry(z) = Entry(x)
        \/ /\ Entry(x).outcome = "active"
           /\ Entry(z) = [owner |-> Entry(x).owner, outcome |-> "superseded"]
    BY <1>5, <2>1, <2>2 DEF Entry, Attempts
  <2> DEFINE r == History!Archive(s)
  <2>4. r = [i \in 1..h |-> IF i = h /\ s[h].outcome = "active"
                            THEN [owner |-> s[h].owner, outcome |-> "superseded"] ELSE s[i]]
    BY <1>8 DEF History!Archive
  <2>5. \A i \in 1..h : r[i] = Entry(B[i]) /\ r[i] \in Entries
    <3>1. \A i \in 1..h : i # h => r[i] = Entry(B[i])
      BY <1>5, <1>8, <2>4
    <3>2. r[h] = Entry(B[h])
      <4> HIDE DEF r, s, x, z, B
      <4>1. s[h] = Entry(x) /\ B[h] = z
        BY <1>5, <1>8, <2>1 DEF x
      <4>2. r[h] = IF s[h].outcome = "active"
                   THEN [owner |-> s[h].owner, outcome |-> "superseded"] ELSE s[h]
        BY <2>1, <2>4
      <4>3. QED
        BY <2>3, <4>1, <4>2
    <3>3. \A i \in 1..h : B[i] \in Attempts
      <4>1. \A i \in 1..h : A[i] \in Attempts
        BY <1>4 DEF Sound, Histories
      <4>2. QED
        BY <1>5, <2>1, <4>1
    <3>4. \A i \in 1..h : Entry(B[i]) \in Entries
      BY <3>3 DEF Entry, Entries, Attempts
    <3>5. QED
      BY <3>1, <3>2, <3>4
  <2>6. r \in Seq(Entries) /\ Len(r) = h
    <3>1. r \in [1..h -> Entries]
      <4> HIDE DEF s
      <4>1. QED
        BY <2>4, <2>5
    <3>2. QED
      BY <1>1, <3>1, FunctionIsSeq
  <2>7. Told(B, n) = Append(r, Entry(y))
    <3> HIDE DEF r, s, B, y
    <3>1. QED
      BY <1>1, <1>5, <1>6, <2>5, <2>6, ToldGrows
  <2>8. s # <<>>
    BY <1>8, <2>1
  <2>9. QED
    BY <1>3, <1>6, <1>7, <1>10, <2>7, <2>8 DEF Advances
<1>11. QED
  BY <1>9, <1>10

-----------------------------------------------------------------------------------
(* From one channel to the specification                                   *)

\* The refinement mapping, in terms of what a reader of the channel finds.
LEMMA HistoryIsTold ==
  TypeOK => /\ history = [c \in Channels |-> Told(Reads(c), EffectiveHead(c))]
            /\ held = {c \in Channels : EffectiveLease(c) # None}
<1> SUFFICES ASSUME TypeOK
             PROVE  /\ history = [c \in Channels |-> Told(Reads(c), EffectiveHead(c))]
                    /\ held = {c \in Channels : EffectiveLease(c) # None}
  OBVIOUS
<1>1. ASSUME NEW c \in Channels
      PROVE  1..EffectiveHead(c) \subseteq Ordinals
  <2>1. EffectiveHead(c) \in 0..MaxOrdinal
    BY DEF TypeOK, EffectiveHead, IsJournal, IsImage
  <2>2. QED
    BY <2>1, BoundsAssumption DEF Ordinals
<1>2. ASSUME NEW c \in Channels
      PROVE  Told(Reads(c), EffectiveHead(c)) =
               [i \in 1..EffectiveHead(c) |->
                 [owner |-> Effective(c, i).owner, outcome |-> Effective(c, i).outcome]]
  <2>1. \A i \in 1..EffectiveHead(c) : Reads(c)[i] = Effective(c, i)
    BY <1>1 DEF Reads
  <2>2. QED
    BY <2>1 DEF Told, Entry
<1>3. QED
  BY <1>2, Zenon DEF history, held

LEMMA AdvanceIsStep ==
  ASSUME NEW c \in Channels, NEW t, NEW is \in BOOLEAN,
         history = [d \in Channels |-> history[d]],
         history' = [history EXCEPT ![c] = t],
         held' = IF is THEN held \cup {c} ELSE held \ {c},
         Advances(history[c], t, c \in held, is)
  PROVE  [History!Next]_(History!vars)
<1> DEFINE s == history[c]
<1>1. CASE t = s /\ (c \in held) = is
  <2>1. history' = history
    BY <1>1
  <2>2. held' = held
    BY <1>1
  <2>3. QED
    BY <2>1, <2>2 DEF History!vars
<1>2. ASSUME NEW o \in Owners, c \notin held, t = Append(s, History!Fresh(o)), is
      PROVE  History!Next
  BY <1>2 DEF History!Next, History!Acquire
<1>3. ASSUME NEW o \in Owners, c \in held, s # <<>>,
             t = Append(History!Archive(s), History!Fresh(o)), is
      PROVE  History!Next
  <2>1. held' = held
    BY <1>3
  <2>2. History!Supersede(c, o)
    BY <1>3, <2>1 DEF History!Supersede
  <2>3. QED
    BY <2>2 DEF History!Next
<1>4. ASSUME NEW outcome \in {"failed", "released"}, c \in held, Len(s) > 0,
             s[Len(s)].outcome = "active", t = [s EXCEPT ![Len(s)].outcome = outcome],
             is = (outcome # "released")
      PROVE  History!Next
  <2>1. held' = IF outcome = "released" THEN held \ {c} ELSE held
    BY <1>4
  <2>2. history' = [history EXCEPT ![c][Len(history[c])].outcome = outcome]
    BY <1>4
  <2>3. History!Settle(c, outcome)
    BY <1>4, <2>1, <2>2 DEF History!Settle
  <2>4. QED
    BY <2>3, <1>4 DEF History!Next
<1>5. QED
  BY <1>1, <1>2, <1>3, <1>4 DEF Advances

LEMMA HistoryInit == Init => History!Init
<1> SUFFICES ASSUME Init PROVE History!Init
  OBVIOUS
<1>1. \A c \in Channels : EffectiveHead(c) = 0 /\ EffectiveLease(c) = None
  BY DEF Init, EffectiveHead, EffectiveLease
<1>2. history = [c \in Channels |-> <<>>]
  BY <1>1 DEF history
<1>3. held = {}
  BY <1>1 DEF held
<1>4. QED
  BY <1>2, <1>3 DEF History!Init

LEMMA HistoryStep ==
  ASSUME TypeOK, TypeOK', RecoveryInv, SoundInv, [Next]_vars
  PROVE  [History!Next]_(History!vars)
<1>1. /\ history = [c \in Channels |-> Told(Reads(c), EffectiveHead(c))]
      /\ held = {c \in Channels : EffectiveLease(c) # None}
  BY HistoryIsTold
<1>2. /\ history' = [c \in Channels |-> Told(Reads(c)', EffectiveHead(c)')]
      /\ held' = {c \in Channels : EffectiveLease(c)' # None}
  <2>1. (/\ history = [c \in Channels |-> Told(Reads(c), EffectiveHead(c))]
         /\ held = {c \in Channels : EffectiveLease(c) # None})'
    BY HistoryIsTold, PTL
  <2>2. QED
    BY <2>1
<1>3. CASE ~WriteJournal
  <2>1. \A d \in Channels : SameView(d)
    BY <1>3, OnlyJournalsChangeViews
  <2>2. history' = history /\ held' = held
    BY <1>1, <1>2, <2>1 DEF SameView
  <2>3. QED
    BY <2>2 DEF History!vars
<1>4. CASE WriteJournal
  <2>1. PICK c \in Channels : \E J :
           /\ IsJournal(J) /\ Legal(J)
           /\ Finds(J, Reads(c), EffectiveHead(c), EffectiveLease(c)) /\ Reads(c) \in Histories
           /\ Reads(c)' = After(Reads(c), J)
           /\ EffectiveHead(c)' = J.after.head /\ EffectiveLease(c)' = J.after.lease
           /\ \A d \in Channels \ {c} : SameView(d)
    BY <1>4, JournalChangesView
  <2>2. PICK J :
           /\ IsJournal(J) /\ Legal(J)
           /\ Finds(J, Reads(c), EffectiveHead(c), EffectiveLease(c)) /\ Reads(c) \in Histories
           /\ Reads(c)' = After(Reads(c), J)
           /\ EffectiveHead(c)' = J.after.head /\ EffectiveLease(c)' = J.after.lease
           /\ \A d \in Channels \ {c} : SameView(d)
    BY <2>1
  <2> DEFINE t == Told(After(Reads(c), J), J.after.head)
             is == J.after.lease # None
  <2>3. Sound(Reads(c), EffectiveHead(c), EffectiveLease(c))
    BY DEF SoundInv
  <2>4. Advances(Told(Reads(c), EffectiveHead(c)), t, EffectiveLease(c) # None, is)
    BY <2>2, <2>3, SameHeadAdvances, NewHeadAdvances
  <2>5. history' = [history EXCEPT ![c] = t]
    BY <1>1, <1>2, <2>2 DEF SameView
  <2>6. held' = IF is THEN held \cup {c} ELSE held \ {c}
    BY <1>1, <1>2, <2>2 DEF SameView
  <2>7. history = [d \in Channels |-> history[d]]
    BY <1>1
  <2>8. history[c] = Told(Reads(c), EffectiveHead(c)) /\ (c \in held) = (EffectiveLease(c) # None)
    BY <1>1
  <2>9. Advances(history[c], t, c \in held, is)
    BY <2>4, <2>8
  <2>10. is \in BOOLEAN
    OBVIOUS
  <2>11. QED
    <3> HIDE DEF t, is
    <3>1. QED
      BY <2>5, <2>6, <2>7, <2>9, <2>10, AdvanceIsStep
<1>5. QED
  BY <1>3, <1>4

\* Every behaviour of the records, crashes and recoveries included, is a behaviour
\* of ReleaseHistory: a verb changes a channel's history in one step, when its
\* journal is written (commitReleaseMutation), and only as the abstract verbs do.
THEOREM RecordsImplementHistory == Spec => ImplementsReleaseHistory
<1>1. Init => History!Init
  BY HistoryInit
<1>2. Spec => [](TypeOK /\ RecoveryInv /\ SoundInv)
  BY SoundHolds
<1>3. TypeOK /\ TypeOK' /\ RecoveryInv /\ SoundInv /\ [Next]_vars => [History!Next]_(History!vars)
  BY HistoryStep
<1>4. QED
  BY <1>1, <1>2, <1>3, PTL DEF Spec, ImplementsReleaseHistory, History!Spec
===================================================================================
