----------------------- MODULE ReleaseReconciliationProofs ------------------------
(***************************************************************************)
(* Theorems about ReleaseReconciliation, for any channels, owners, tickets,*)
(* bounds of the records, tries and samples of the reader.                 *)
(***************************************************************************)
EXTENDS ReleaseReconciliation, ReleaseChannelProofs, FiniteSetTheorems

-----------------------------------------------------------------------------------
(* The records under the reader's eyes                                     *)

\* A reader's step is nothing to the records, except that a recovery it starts is a
\* call like any other.
LEMMA StepOfRecords == [ReconcileNext]_allVars => [Next]_vars
  BY DEF ReconcileNext, ReaderStep, ReadToken, TakeSample, ReadTokenAgain, RecoverFirst,
         Recovered, ApplyLocked, RecordsStep, Next, StartCall, allVars, vars, files

\* Beside a reader the records behave as ReleaseChannel says.
THEOREM ReaderKeepsRecords == ReconcileSpec => Spec
<1>1. ReconcileInit => Init
  BY DEF ReconcileInit
<1>2. [ReconcileNext]_allVars => [Next]_vars
  BY StepOfRecords
<1>3. QED
  BY <1>1, <1>2, PTL DEF ReconcileSpec, Spec

LEMMA MomentType ==
  /\ \A e \in Epochs : Moment(e) \in Nat \ {0}
  /\ Moment(None) = 0
  BY NoneAssumption DEF Moment, Epochs

LEMMA UnspentType == Unspent \in {0, 1}
  BY DEF Unspent

LEMMA BusyOwesNothing == busy \/ ~NeedsRecovery => Unspent = 0
  BY DEF Unspent

\* The clock of the epoch: a step that moves it moves it by one, under the lock, and
\* turns pending into settled or back.  Any other step leaves it, touches no file
\* unless the epoch is pending, and leaves a settled journal behind only by a death.
LEMMA EpochTicks ==
  ASSUME TypeOK, Next
  PROVE  \/ /\ epoch' = epoch
            /\ crashes' \in Nat /\ crashes' >= crashes
            /\ Unspent' <= Unspent + (crashes' - crashes)
            /\ ~Pending => UNCHANGED files
         \/ /\ Moment(epoch') = Moment(epoch) + 1
            /\ crashes' = crashes
            /\ Unspent = 0 /\ Unspent' = 0
            /\ Pending' <=> ~Pending
<1> USE BoundsAssumption
<1>0. crashes \in Nat /\ Unspent \in {0, 1} /\ Unspent' \in {0, 1}
  BY UnspentType DEF TypeOK, Unspent
<1>1. CASE StartCall \/ EndCall \/ WriteJournal
  <2>1. UNCHANGED <<epoch, crashes, files>>
    BY <1>1 DEF StartCall, EndCall, WriteJournal
  <2>2. busy' \/ ~NeedsRecovery'
    BY <1>1 DEF StartCall, EndCall, WriteJournal, NeedsRecovery, Pending
  <2>3. Unspent' = 0
    BY <2>2 DEF Unspent
  <2>4. QED
    BY <1>0, <2>1, <2>3
<1>2. CASE Crash
  BY <1>0, <1>2 DEF Crash
<1>3. ASSUME NEW c \in Channels, ApplyAttempt(c) \/ ApplyHead(c) \/ ApplyLease(c) \/ DropJournal(c)
      PROVE  /\ UNCHANGED <<epoch, crashes>> /\ busy'
             /\ ~Pending => UNCHANGED files
  <2>1. ~Pending => FilesAre(c, journal[c].after) /\ epoch.phase = "stable"
    BY <1>3 DEF ApplyAttempt, ApplyHead, ApplyLease, DropJournal, Recovering, Applicable,
                Pending, TypeOK, Epochs
  <2>2. QED
    BY <1>3, <2>1 DEF ApplyAttempt, ApplyHead, ApplyLease, DropJournal, Recovering, FilesAre, files
<1>4. ASSUME NEW c \in Channels, Stabilise(c) \/ RollBackEpoch
      PROVE  /\ Moment(epoch') = Moment(epoch) + 1 /\ crashes' = crashes
             /\ busy /\ busy' /\ Pending /\ ~Pending'
  <2>1. /\ epoch \in Epochs /\ epoch.phase = "pending" /\ epoch # None
        /\ epoch' = [epoch EXCEPT !.phase = "stable"]
        /\ UNCHANGED <<busy, crashes>> /\ busy
    BY <1>4 DEF Stabilise, RollBackEpoch, Recovering, Pending, TypeOK
  <2>2. epoch' \in Epochs /\ epoch' # None /\ epoch'.rev = epoch.rev /\ epoch'.phase = "stable"
    BY <2>1, NoneAssumption DEF Epochs
  <2>3. epoch.rev \in Nat
    BY <2>1 DEF Epochs
  <2>4. QED
    BY <2>1, <2>2, <2>3 DEF Moment, Pending
<1>5. ASSUME NEW c \in Channels, Verb(c)
      PROVE  /\ Moment(epoch') = Moment(epoch) + 1 /\ crashes' = crashes
             /\ busy /\ busy' /\ ~Pending /\ Pending'
  <2>1. /\ epoch' = [rev |-> NextTx, phase |-> "pending", channel |-> c]
        /\ NextTx \in 1..MaxTx /\ busy /\ ~NeedsRecovery /\ UNCHANGED <<busy, crashes>>
    BY <1>5, VerbAnnounces DEF Announced
  <2>2. epoch' \in Epochs /\ epoch' # None
    BY <2>1, NoneAssumption DEF Epochs
  <2>3. Moment(epoch') = 2 * NextTx - 1
    BY <2>1, <2>2 DEF Moment
  <2>4. ~Pending
    BY <2>1 DEF NeedsRecovery
  <2>5. CASE epoch = None
    BY <2>1, <2>2, <2>3, <2>4, <2>5 DEF NextTx, Moment, Pending
  <2>6. CASE epoch # None
    <3>1. epoch.rev \in Nat /\ Moment(epoch) = 2 * epoch.rev
      BY <2>4, <2>6 DEF TypeOK, Epochs, Moment, Pending
    <3>2. QED
      BY <2>1, <2>2, <2>3, <2>4, <2>6, <3>1 DEF NextTx, Pending
  <2>7. QED
    BY <2>5, <2>6
<1>6. CASE Recover
  <2>1. CASE RollBackEpoch
    <3>1. epoch.channel \in Channels
      BY <2>1 DEF RollBackEpoch, Pending, TypeOK, Epochs
    <3>2. QED
      BY <1>4, <2>1, <3>1 DEF Unspent
  <2>2. ASSUME NEW c \in Channels, Stabilise(c)
        PROVE  /\ Moment(epoch') = Moment(epoch) + 1 /\ crashes' = crashes
               /\ Unspent = 0 /\ Unspent' = 0 /\ (Pending' <=> ~Pending)
    BY <1>4, <2>2 DEF Unspent
  <2>3. ASSUME NEW c \in Channels, ApplyAttempt(c) \/ ApplyHead(c) \/ ApplyLease(c) \/ DropJournal(c)
        PROVE  /\ epoch' = epoch /\ crashes' = crashes /\ Unspent' = 0
               /\ ~Pending => UNCHANGED files
    BY <1>3, <2>3 DEF Unspent
  <2>4. QED
    BY <1>0, <1>6, <2>1, <2>2, <2>3 DEF Recover
<1>7. CASE \E c \in Channels : Verb(c)
  BY <1>5, <1>7 DEF Unspent
<1>8. QED
  BY <1>1, <1>2, <1>6, <1>7 DEF Next

-----------------------------------------------------------------------------------
(* Each lost try is paid for                                               *)

PaidInv == ReaderTypeOK /\ TriesArePaid

LEMMA PaidInit == ReconcileInit => PaidInv
  BY TriesAssumption, MomentType
     DEF ReconcileInit, Init, PaidInv, ReaderTypeOK, TriesArePaid, Unspent, Moves,
         NeedsRecovery, Pending

\* What a death adds to the debt, it also pays: the balance of a try survives.
LEMMA DebtCarried ==
  \A t, m, u, v, k, l, i \in Int :
    /\ v <= u + (l - k) /\ t + u <= m + k => t + v <= m + l
    /\ v <= u + (l - k) /\ t + u <= m + k + i => t + v <= m + l + i
    /\ k <= l /\ t <= m + k => t <= m + l
  OBVIOUS

LEMMA MovesType == TypeOK => Moves \in Nat /\ crashes \in Nat
  BY MomentType, BoundsAssumption DEF TypeOK, Moves

\* The try that ends here has been paid for; the next one starts, or none is left.
LEMMA NextTryPaid ==
  ASSUME TypeOK, ReaderTypeOK, NextTry, UNCHANGED <<vars, token, since>>, since + try + Unspent <= Moves + crashes
  PROVE  PaidInv'
<1>1. /\ Moves' = Moves /\ Unspent' = Unspent /\ crashes' = crashes
      /\ Moves \in Nat /\ crashes \in Nat /\ Unspent \in {0, 1}
  BY MovesType, UnspentType DEF vars, Moves, Unspent, NeedsRecovery, Pending
<1>2. CASE try < Tries
  BY <1>1, <1>2, TriesAssumption DEF NextTry, PaidInv, ReaderTypeOK, TriesArePaid
<1>3. CASE ~(try < Tries)
  <2>1. try = Tries
    BY <1>3, TriesAssumption DEF ReaderTypeOK
  <2>2. QED
    BY <1>1, <1>3, <2>1, TriesAssumption DEF NextTry, PaidInv, ReaderTypeOK, TriesArePaid
<1>4. QED
  BY <1>2, <1>3

LEMMA PaidByReader == TypeOK /\ PaidInv /\ ReaderStep => PaidInv'
<1> SUFFICES ASSUME TypeOK, ReaderTypeOK, TriesArePaid, ReaderStep PROVE PaidInv'
  BY DEF PaidInv
<1>0. Moves \in Nat /\ crashes \in Nat /\ Unspent \in {0, 1} /\ try \in Nat /\ since \in Nat
  BY MovesType, UnspentType, TriesAssumption DEF ReaderTypeOK
<1>1. Moment(token) \in Nat
  BY MomentType DEF ReaderTypeOK
<1>2. UNCHANGED vars => Moves' = Moves /\ crashes' = crashes /\ Unspent' = Unspent
  BY DEF vars, Moves, Unspent, NeedsRecovery, Pending
<1>3. CASE ReadToken
  <2>1. Moment(token') = Moves /\ token' \in Epochs \cup {None} /\ token' = epoch'
    BY <1>3 DEF ReadToken, Moves, TypeOK, vars
  <2>2. /\ at' = "sampling" /\ try' = try /\ UNCHANGED vars
        /\ since + (try - 1) + Unspent <= Moves + crashes
        /\ since' = IF try = 1 THEN Moves + crashes - Unspent ELSE since
    BY <1>3 DEF ReadToken, TriesArePaid, Paid
  <2>3. since' \in Nat /\ since' + (try - 1) + Unspent <= Moves + crashes
    <3>1. Moves + crashes - Unspent >= 0
      BY <1>0, <2>2, TriesAssumption DEF ReaderTypeOK
    <3>2. QED
      BY <1>0, <2>2, <3>1
  <2>4. ReaderTypeOK'
    BY <2>1, <2>2, <2>3 DEF ReaderTypeOK
  <2>5. TriesArePaid'
    BY <1>0, <1>2, <2>1, <2>2, <2>3 DEF TriesArePaid
  <2>6. QED
    BY <2>4, <2>5 DEF PaidInv
<1>4. CASE TakeSample
  <2>1. /\ at = "sampling" /\ at' \in {"sampling", "token"}
        /\ UNCHANGED vars /\ UNCHANGED <<try, token, since>>
    BY <1>4 DEF TakeSample, Sampled
  <2>2. epoch' = epoch
    BY <2>1 DEF vars
  <2>3. QED
    BY <1>2, <2>1, <2>2 DEF PaidInv, ReaderTypeOK, TriesArePaid
\* The epoch has left the token behind: that move pays.
<1>5. ASSUME at \in {"token", "lock"}, epoch # token PROVE since + try + Unspent <= Moves + crashes
  <2>1. Moment(token) < Moves /\ since + (try - 1) + Unspent <= Moment(token) + crashes
    BY <1>5 DEF TriesArePaid
  <2>2. QED
    BY <1>0, <1>1, <2>1
<1>6. CASE ReadTokenAgain
  <2>1. at = "token" /\ UNCHANGED vars /\ UNCHANGED <<token, since>>
    BY <1>6 DEF ReadTokenAgain
  <2>2. CASE epoch = token
    <3>1. at' = "lock" /\ try' = try /\ epoch' = epoch
      BY <1>6, <2>1, <2>2 DEF ReadTokenAgain, vars
    <3>2. QED
      BY <1>2, <2>1, <3>1 DEF PaidInv, ReaderTypeOK, TriesArePaid
  <2>3. CASE epoch # token
    BY <1>5, <1>6, <2>1, <2>3, NextTryPaid DEF ReadTokenAgain
  <2>4. QED
    BY <2>2, <2>3
\* A pending transaction will move the epoch; a settled journal was left by a death.
<1>7. CASE RecoverFirst
  <2>1. /\ at = "lock" /\ at' = "recovering" /\ ~busy /\ busy' /\ NeedsRecovery
        /\ UNCHANGED <<epoch, crashes, try, token, since>>
    BY <1>7 DEF RecoverFirst
  <2>2. since + (try - 1) + Unspent <= Moves + crashes
    <3>1. Moment(token) <= Moves
      BY <1>0, <1>1, <2>1 DEF TriesArePaid, Moves
    <3>2. QED
      BY <1>0, <1>1, <2>1, <3>1 DEF TriesArePaid
  <2>3. Unspent' = 0 /\ Moves' = Moves /\ (Pending' <=> Pending)
    BY <2>1, BusyOwesNothing DEF Unspent, Moves, Pending
  <2>4. ~Pending => Unspent = 1
    BY <2>1 DEF Unspent
  <2>5. since + try <= Moves + crashes + (IF Pending THEN 1 ELSE 0)
    BY <1>0, <2>2, <2>4
  <2>6. ReaderTypeOK'
    BY <2>1 DEF ReaderTypeOK
  <2>7. TriesArePaid'
    BY <1>0, <2>1, <2>3, <2>5 DEF TriesArePaid
  <2>8. QED
    BY <2>6, <2>7 DEF PaidInv
<1>8. CASE Recovered
  <2>1. at = "recovering" /\ ~Pending /\ NextTry /\ UNCHANGED vars /\ UNCHANGED <<token, since>>
    BY <1>8 DEF Recovered, NeedsRecovery
  <2>2. since + try + Unspent <= Moves + crashes
    BY <1>0, <2>1 DEF TriesArePaid
  <2>3. QED
    BY <2>1, <2>2, NextTryPaid
<1>9. CASE ApplyLocked
  <2>1. at = "lock" /\ UNCHANGED vars /\ UNCHANGED <<token, since>>
    BY <1>9 DEF ApplyLocked
  <2>2. CASE epoch = token
    BY <1>9, <2>2 DEF ApplyLocked, PaidInv, ReaderTypeOK, TriesArePaid
  <2>3. CASE epoch # token
    BY <1>5, <1>9, <2>1, <2>3, NextTryPaid DEF ApplyLocked
  <2>4. QED
    BY <2>2, <2>3
<1>10. QED
  BY <1>3, <1>4, <1>6, <1>7, <1>8, <1>9 DEF ReaderStep

LEMMA PaidByRecords == TypeOK /\ PaidInv /\ RecordsStep => PaidInv'
<1> SUFFICES ASSUME TypeOK, ReaderTypeOK, TriesArePaid, RecordsStep PROVE PaidInv'
  BY DEF PaidInv
<1>0. /\ Moves \in Nat /\ crashes \in Nat /\ Unspent \in Nat /\ Unspent' \in Nat
      /\ try \in Nat /\ since \in Nat
  BY MovesType, UnspentType, TriesAssumption DEF ReaderTypeOK, Unspent
<1>1. Moment(token) \in Nat
  BY MomentType DEF ReaderTypeOK
<1>2. /\ Next /\ UNCHANGED <<try, token, since>>
      /\ at' = at \/ at' = "died"
      /\ at = "recovering" /\ at' = at => crashes' = crashes
  BY DEF RecordsStep
<1>3. ReaderTypeOK'
  BY <1>2 DEF ReaderTypeOK
<1>4. CASE at' = "died"
  BY <1>3, <1>4 DEF PaidInv, TriesArePaid
<1>5. CASE at' = at
  <2>1. CASE /\ epoch' = epoch
             /\ crashes' \in Nat /\ crashes' >= crashes
             /\ Unspent' <= Unspent + (crashes' - crashes)
    <3>1. Moves' = Moves /\ (Pending' <=> Pending)
      BY <2>1 DEF Moves, Pending
    <3>2. TriesArePaid'
      <4>0. /\ Moves \in Int /\ Moment(token) \in Int /\ Unspent \in Int /\ Unspent' \in Int
            /\ crashes \in Int /\ crashes' \in Int /\ try \in Int /\ since + (try - 1) \in Int /\ since + try \in Int
            /\ (IF Pending THEN 1 ELSE 0) \in Int
        BY <1>0, <1>1, <2>1
      <4>1. CASE at = "start"
        <5>1. since + (try - 1) + Unspent <= Moves + crashes
          BY <4>1 DEF TriesArePaid
        <5>2. since + (try - 1) + Unspent' <= Moves + crashes'
          BY <2>1, <4>0, <5>1, DebtCarried
        <5>3. QED
          BY <1>2, <1>5, <3>1, <4>1, <5>2 DEF TriesArePaid
      <4>2. CASE at \in {"sampling", "token", "lock"}
        <5>1. /\ token = epoch \/ Moment(token) < Moves
              /\ since + (try - 1) + Unspent <= Moment(token) + crashes
          BY <4>2 DEF TriesArePaid
        <5>2. since + (try - 1) + Unspent' <= Moment(token) + crashes'
          BY <2>1, <4>0, <5>1, DebtCarried
        <5>3. QED
          BY <1>2, <1>5, <2>1, <3>1, <4>2, <5>1, <5>2 DEF TriesArePaid
      <4>3. CASE at = "recovering"
        <5>1. since + try + Unspent <= Moves + crashes + (IF Pending THEN 1 ELSE 0) /\ crashes' = crashes
          BY <1>2, <1>5, <4>3 DEF TriesArePaid
        <5>2. since + try + Unspent' <= Moves + crashes' + (IF Pending THEN 1 ELSE 0)
          BY <2>1, <4>0, <5>1, DebtCarried
        <5>3. QED
          BY <1>2, <1>5, <3>1, <4>3, <5>2 DEF TriesArePaid
      <4>4. CASE at \in {"drift", "done", "died"}
        <5>1. at = "drift" => since + Tries <= Moves + crashes'
          <6>1. SUFFICES ASSUME at = "drift" PROVE since + Tries <= Moves + crashes'
            OBVIOUS
          <6>2. since + Tries <= Moves + crashes /\ since + Tries \in Int /\ crashes <= crashes'
            BY <1>0, <2>1, <6>1, TriesAssumption DEF TriesArePaid
          <6>3. QED
            BY <4>0, <6>2, DebtCarried
        <5>2. QED
          BY <1>2, <1>5, <3>1, <4>4, <5>1 DEF TriesArePaid
      <4>5. QED
        BY <4>1, <4>2, <4>3, <4>4 DEF ReaderTypeOK
    <3>3. QED
      BY <1>3, <3>2 DEF PaidInv
  <2>2. CASE /\ Moment(epoch') = Moment(epoch) + 1
             /\ crashes' = crashes
             /\ Unspent = 0 /\ Unspent' = 0
             /\ Pending' <=> ~Pending
    <3>1. Moves' = Moves + 1
      BY <2>2 DEF Moves
    <3>2. at \in {"sampling", "token", "lock"} => Moment(token) < Moves'
      BY <1>0, <1>1, <3>1 DEF TriesArePaid, Moves
    <3>3. TriesArePaid'
      <4>1. CASE at = "start"
        BY <1>0, <1>2, <1>5, <2>2, <3>1, <4>1 DEF TriesArePaid
      <4>2. CASE at \in {"sampling", "token", "lock"}
        <5>1. since' + (try' - 1) + Unspent' <= Moment(token') + crashes'
          BY <1>0, <1>1, <1>2, <2>2, <4>2 DEF TriesArePaid
        <5>2. QED
          BY <1>2, <1>5, <3>2, <4>2, <5>1 DEF TriesArePaid
      <4>3. CASE at = "recovering"
        BY <1>0, <1>2, <1>5, <2>2, <3>1, <4>3 DEF TriesArePaid
      <4>4. CASE at \in {"drift", "done", "died"}
        BY <1>0, <1>2, <1>5, <2>2, <3>1, <4>4, TriesAssumption DEF TriesArePaid
      <4>5. QED
        BY <4>1, <4>2, <4>3, <4>4 DEF ReaderTypeOK
    <3>4. QED
      BY <1>3, <3>3 DEF PaidInv
  <2>3. QED
    BY <1>2, <2>1, <2>2, EpochTicks
<1>6. QED
  BY <1>2, <1>4, <1>5

LEMMA PaidStep == TypeOK /\ PaidInv /\ [ReconcileNext]_allVars => PaidInv'
<1>1. ASSUME PaidInv, UNCHANGED allVars PROVE PaidInv'
  BY <1>1 DEF allVars, vars, reader, PaidInv, ReaderTypeOK, TriesArePaid, Moves, Unspent,
              NeedsRecovery, Pending
<1>2. QED
  BY <1>1, PaidByReader, PaidByRecords DEF ReconcileNext

\* However many verbs commit and holders of the lock die while the reader reads, it
\* gives up only after one move or death for each of its own tries, counted from the
\* apply's start whatever the board went through before it.
THEOREM DriftIsPaid == ReconcileSpec => []DriftNeedsChurn
<1>1. PaidInv => DriftNeedsChurn
  BY DEF PaidInv, ReaderTypeOK, TriesArePaid, DriftNeedsChurn
<1>2. ReconcileSpec => []TypeOK
  BY ReaderKeepsRecords, TypeCorrect, PTL
<1>3. QED
  BY <1>1, <1>2, PaidInit, PaidStep, PTL DEF ReconcileSpec

-----------------------------------------------------------------------------------
(* The ticket is judged on the truth                                       *)

\* Two samples with the same files under the same names.
SameFiles(S, T) ==
  \A c \in Channels :
    /\ S.lease[c] = T.lease[c]
    /\ S.head[c] = T.head[c] /\ S.head[c] \in 0..MaxOrdinal
    /\ \A i \in Ordinals : S.attempt[c][i] = T.attempt[c][i]

LEMMA SameListed ==
  ASSUME NEW S, NEW T, SameFiles(S, T), NEW c \in Channels
  PROVE  Listed(S, c) = Listed(T, c)
  BY DEF SameFiles, Listed

LEMMA SameChannel ==
  ASSUME NEW S, NEW T, SameFiles(S, T), NEW c \in Channels, ChannelReadable(S, c)
  PROVE  ChannelReadable(T, c)
<1> DEFINE h == S.head[c]
           l == S.lease[c]
           x == IF h = 0 THEN None ELSE S.attempt[c][h]
<1> USE BoundsAssumption
<1>1. /\ h = T.head[c] /\ l = T.lease[c] /\ h \in 0..MaxOrdinal
      /\ \A i \in Ordinals : S.attempt[c][i] = T.attempt[c][i]
  BY DEF SameFiles
<1>2. x = IF T.head[c] = 0 THEN None ELSE T.attempt[c][T.head[c]]
  BY <1>1 DEF Ordinals
<1>3. Listed(S, c) = Listed(T, c) /\ Listed(S, c) \subseteq Ordinals
  BY SameListed DEF Listed
<1>4. /\ Listed(T, c) = 1..h
      /\ l # None => h # 0 /\ Consistent(h, l, x)
      /\ h # 0 /\ l = None => x.outcome \in {"active", "released"}
  BY <1>3 DEF ChannelReadable
<1>5. ASSUME NEW i \in Listed(T, c)
      PROVE  LET y == T.attempt[c][i]
             IN  /\ i # h => Terminal(y)
                 /\ y.successor # 0 =>
                      /\ y.outcome = "superseded" /\ y.successor \in Listed(T, c)
                      /\ T.attempt[c][y.successor].supersedes = i
                 /\ y.supersedes # 0 =>
                      /\ y.supersedes \in Listed(T, c)
                      /\ LET p == T.attempt[c][y.supersedes]
                         IN  \/ p.outcome = "superseded" /\ p.successor = i
                             \/ p.outcome = "failed" /\ p.successor = 0
                      /\ \A k \in Listed(T, c) :
                           T.attempt[c][k].supersedes = y.supersedes => k = i
  <2>1. i \in Listed(S, c) /\ T.attempt[c][i] = S.attempt[c][i]
    BY <1>1, <1>3, <1>5
  <2>2. \A k \in Listed(T, c) : k \in Listed(S, c) /\ T.attempt[c][k] = S.attempt[c][k]
    BY <1>1, <1>3
  <2> DEFINE y == S.attempt[c][i]
             p == S.attempt[c][y.supersedes]
  <2>3. /\ i # h => Terminal(y)
        /\ y.successor # 0 =>
             /\ y.outcome = "superseded" /\ y.successor \in Listed(S, c)
             /\ S.attempt[c][y.successor].supersedes = i
        /\ y.supersedes # 0 =>
             /\ y.supersedes \in Listed(S, c)
             /\ \/ p.outcome = "superseded" /\ p.successor = i
                \/ p.outcome = "failed" /\ p.successor = 0
             /\ \A k \in Listed(S, c) : S.attempt[c][k].supersedes = y.supersedes => k = i
    BY <2>1 DEF ChannelReadable
  <2>4. y.successor # 0 => T.attempt[c][y.successor] = S.attempt[c][y.successor]
    BY <1>3, <2>2, <2>3
  <2>5. y.supersedes # 0 =>
          /\ T.attempt[c][y.supersedes] = p
          /\ \A k \in Listed(T, c) : T.attempt[c][k].supersedes = y.supersedes => k = i
    BY <1>3, <2>2, <2>3
  <2>6. y = T.attempt[c][i]
    BY <2>1
  <2> HIDE DEF y, p
  <2>7. QED
    BY <1>3, <2>3, <2>4, <2>5, <2>6
<1>6. QED
  BY <1>1, <1>2, <1>4, <1>5 DEF ChannelReadable

\* The verdict looks at the files of a readable sample and at nothing else.
LEMMA SameVerdict ==
  ASSUME NEW S, NEW T, SameFiles(S, T), Readable(S), ~StateInvalid(T),
         \A c \in Journals(S) : ~Mentions(S.journal[c]),
         \A c \in Journals(T) : ~Mentions(T.journal[c])
  PROVE  Classify(S) = Classify(T)
<1> DEFINE matching(R) == {m \in Channels \X Ordinals : Lists(R.attempt[m[1]][m[2]])}
           active(R) == {m \in matching(R) : ~Terminal(R.attempt[m[1]][m[2]])}
           retrying(R) == {m \in active(R) : R.attempt[m[1]][m[2]].retry \in 1..(RetryMax - 1)}
           foreign(R) == {m \in active(R) : \/ R.lease[m[1]] = None
                                            \/ R.lease[m[1]].ordinal # m[2]}
           verdictOf(R) == IF Cardinality(active(R)) > 1 \/ foreign(R) # {}
                             THEN "contended" ELSE "not-applicable"
<1>1. Readable(T)
  BY SameChannel DEF Readable
<1>2. \A m \in Channels \X Ordinals :
        /\ m[1] \in Channels /\ m[2] \in Ordinals
        /\ S.attempt[m[1]][m[2]] = T.attempt[m[1]][m[2]] /\ S.lease[m[1]] = T.lease[m[1]]
  BY DEF SameFiles
<1>3. matching(S) = matching(T)
  BY <1>2
<1>4. active(S) = active(T)
  BY <1>2, <1>3
<1>5. retrying(S) = retrying(T) /\ foreign(S) = foreign(T)
  BY <1>2, <1>4
<1>6. Classify(S) = IF retrying(S) # {} THEN "unavailable" ELSE verdictOf(S)
  BY DEF Classify
<1>7. Classify(T) = IF retrying(T) # {} THEN "unavailable" ELSE verdictOf(T)
  BY <1>1 DEF Classify
<1> HIDE DEF matching, active, retrying, foreign
<1>8. QED
  BY <1>4, <1>5, <1>6, <1>7

\* Every file is read as it was at some instant of the sample.
LEMMA ViewIsSeen ==
  ASSUME NEW S \in Views
  PROVE  /\ S.state \in seen.state
         /\ \A c \in Channels :
              /\ S.lease[c] \in seen.lease[c] /\ S.head[c] \in seen.head[c]
              /\ \A i \in Ordinals : S.attempt[c][i] \in seen.attempt[c][i]
<1>1. /\ S.lease \in Choices(seen.lease, Channels)
      /\ S.head \in Choices(seen.head, Channels)
      /\ S.attempt \in Choices([c \in Channels |-> Choices(seen.attempt[c], Ordinals)], Channels)
      /\ S.state \in seen.state
  BY DEF Views
<1>2. \A c \in Channels : S.attempt[c] \in Choices(seen.attempt[c], Ordinals)
  BY <1>1 DEF Choices
<1>3. QED
  BY <1>1, <1>2 DEF Choices

\* A journal that does not mention the ticket, and one that is gone, tell the verdict
\* the same thing: while the epoch is settled, a sample that is right about all else
\* is classified as the records will be once no journal is left, or not at all.
LEMMA SettledVerdict ==
  ASSUME TypeOK, ~Pending, NEW S, S.state = epoch,
         \A c \in Channels :
           /\ S.lease[c] = lease[c] /\ S.head[c] = head[c]
           /\ \A i \in Ordinals : S.attempt[c][i] = attempt[c][i]
  PROVE  Classify(S) \in {"unavailable", Classify(Settled)}
<1> SUFFICES ASSUME Classify(S) # "unavailable" PROVE Classify(S) = Classify(Settled)
  OBVIOUS
<1>1. Readable(S) /\ \A c \in Journals(S) : ~Mentions(S.journal[c])
  BY DEF Classify
<1>2. /\ Settled.lease = lease /\ Settled.head = head /\ Settled.attempt = attempt
      /\ Settled.state = epoch /\ Settled.journal = [c \in Channels |-> None]
  BY DEF Settled, Records
<1>3. Journals(Settled) = {}
  BY <1>2 DEF Journals
<1>4. ~StateInvalid(Settled)
  <2>1. ASSUME NEW c \in Channels
        PROVE  /\ Vanished \notin {Settled.lease[c], Settled.journal[c]}
               /\ \A i \in Ordinals : Settled.attempt[c][i] # Vanished
    <3>1. S.lease[c] # Vanished /\ \A i \in Ordinals : S.attempt[c][i] # Vanished
      BY <1>1, <2>1 DEF Readable, StateInvalid
    <3>2. /\ Settled.lease[c] = S.lease[c] /\ Settled.journal[c] = None
          /\ \A i \in Ordinals : Settled.attempt[c][i] = S.attempt[c][i]
      BY <1>2, <2>1
    <3>3. QED
      BY <3>1, <3>2, VanishedAssumption
  <2>2. ~(Cardinality(Journals(Settled)) > 1)
    BY <1>3, FS_EmptySet
  <2>3. QED
    BY <1>2, <1>3, <2>1, <2>2 DEF StateInvalid, Pending
<1>5. SameFiles(S, Settled)
  BY <1>2 DEF SameFiles, TypeOK
<1>6. QED
  BY <1>1, <1>3, <1>4, <1>5, SameVerdict

LEMMA EvidenceByReader ==
  ASSUME TypeOK, EvidenceInv, ReaderStep
  PROVE  EvidenceInv'
<1>1. UNCHANGED <<files, epoch, journal>>
  BY DEF ReaderStep, ReadToken, TakeSample, ReadTokenAgain, RecoverFirst, Recovered,
         ApplyLocked, vars, files
<1>2. (Pending' <=> Pending) /\ Settled' = Settled
  BY <1>1 DEF Pending, Settled, Records, files
<1>3. seen' = Watch => OnlyJournalsMoved'
  BY <1>1 DEF Watch, OnlyJournalsMoved, files
<1> SUFFICES ASSUME token' = epoch', ~Pending
             PROVE  /\ at' = "sampling" => OnlyJournalsMoved'
                    /\ at' \in {"token", "lock"} => release' \in {"unavailable", Classify(Settled)}
  BY <1>2 DEF EvidenceInv
<1>4. CASE ReadToken
  BY <1>3, <1>4 DEF ReadToken
<1>5. CASE TakeSample
  <2>1. at = "sampling" /\ token = epoch /\ OnlyJournalsMoved
    BY <1>1, <1>5 DEF TakeSample, EvidenceInv
  <2>2. PICK S \in Views : /\ at' = Sampled(S).at /\ release' = Sampled(S).release
                           /\ seen' = IF at' = "sampling" THEN Watch ELSE NothingSeen
    BY <1>5 DEF TakeSample
  <2>3. Classify(S) \in {"unavailable", Classify(Settled)}
    BY <2>1, ViewIsSeen, SettledVerdict DEF OnlyJournalsMoved
  <2>4. \/ at' = "sampling"
        \/ at' = "token" /\ release' \in {"unavailable", Classify(S)}
    BY <2>2 DEF Sampled
  <2>5. QED
    BY <1>3, <2>2, <2>3, <2>4
<1>6. CASE ReadTokenAgain
  BY <1>1, <1>6 DEF ReadTokenAgain, NextTry, EvidenceInv
<1>7. CASE RecoverFirst \/ Recovered \/ ApplyLocked
  BY <1>7 DEF RecoverFirst, Recovered, ApplyLocked, NextTry
<1>8. QED
  BY <1>4, <1>5, <1>6, <1>7 DEF ReaderStep

\* An epoch that has moved has left every token behind: the evidence of a try is only
\* asked for again if no file has changed since its token was read.
LEMMA EvidenceByRecords ==
  ASSUME TypeOK, PaidInv, EvidenceInv, RecordsStep
  PROVE  EvidenceInv'
<1>1. /\ Next /\ UNCHANGED <<token, release>>
      /\ at' = at \/ at' = "died"
      /\ seen' = IF at = "sampling" THEN StillWatch ELSE seen
  BY DEF RecordsStep
<1>2. CASE /\ Moment(epoch') = Moment(epoch) + 1
  <2>1. at \in {"sampling", "token", "lock"} => token # epoch'
    <3>1. SUFFICES ASSUME at \in {"sampling", "token", "lock"} PROVE Moment(token) # Moment(epoch')
      OBVIOUS
    <3>2. Moment(token) = Moment(epoch) \/ Moment(token) < Moment(epoch)
      BY <3>1 DEF PaidInv, TriesArePaid, Moves
    <3>3. Moment(token) \in Nat /\ Moment(epoch) \in Nat
      BY MomentType DEF PaidInv, ReaderTypeOK, TypeOK
    <3>4. QED
      BY <1>2, <3>2, <3>3
  <2>2. QED
    BY <1>1, <2>1 DEF EvidenceInv
<1>3. CASE epoch' = epoch /\ (~Pending => UNCHANGED files)
  <2>1. SUFFICES ASSUME token = epoch, ~Pending, at' = at
                 PROVE  EvidenceInv'
    BY <1>1, <1>3 DEF EvidenceInv, Pending
  <2>2. UNCHANGED <<attempt, head, lease, epoch>>
    BY <1>3, <2>1 DEF files
  <2>3. Settled' = Settled /\ (Pending' <=> Pending)
    BY <2>2 DEF Settled, Records, Pending
  <2>4. at = "sampling" => OnlyJournalsMoved'
    <3>1. SUFFICES ASSUME at = "sampling" PROVE OnlyJournalsMoved'
      OBVIOUS
    <3>2. OnlyJournalsMoved /\ seen' = StillWatch
      BY <1>1, <2>1, <3>1 DEF EvidenceInv
    <3>3. /\ \A c \in Channels : /\ Passing(lease[c], lease'[c]) = {lease[c]}
                                 /\ \A i \in Ordinals :
                                      Passing(attempt[c][i], attempt'[c][i]) = {attempt[c][i]}
      BY <2>2 DEF Passing
    <3>4. QED
      BY <2>2, <3>2, <3>3 DEF OnlyJournalsMoved, StillWatch
  <2>5. QED
    BY <1>1, <2>1, <2>3, <2>4 DEF EvidenceInv
<1>4. QED
  BY <1>1, <1>2, <1>3, EpochTicks

LEMMA EvidenceStep ==
  TypeOK /\ PaidInv /\ EvidenceInv /\ [ReconcileNext]_allVars => EvidenceInv'
<1>1. ASSUME EvidenceInv, UNCHANGED allVars PROVE EvidenceInv'
  <2>1. Settled' = Settled /\ (Pending' <=> Pending)
    BY <1>1 DEF allVars, vars, Settled, Records, Pending
  <2>2. QED
    BY <1>1, <2>1 DEF EvidenceInv, OnlyJournalsMoved, allVars, vars, reader
<1>2. QED
  BY <1>1, EvidenceByReader, EvidenceByRecords DEF ReconcileNext

\* The verdict is passed in the lock, where no journal is left.
LEMMA VerdictIsTrue ==
  ASSUME TypeOK, RecoveryInv, EvidenceInv, [ReconcileNext]_allVars, verdict' # verdict
  PROVE  verdict' \in {Classify(Records), "unavailable"}
<1>1. ApplyLocked
  BY DEF ReconcileNext, ReaderStep, ReadToken, TakeSample, ReadTokenAgain, RecoverFirst,
         Recovered, RecordsStep, allVars, reader
<1>2. at = "lock" /\ ~NeedsRecovery /\ epoch = token /\ verdict' = release
  BY <1>1 DEF ApplyLocked
<1>3. release \in {"unavailable", Classify(Settled)}
  BY <1>2 DEF EvidenceInv, NeedsRecovery
<1>4. \A c \in Channels : journal[c] = None
  BY <1>2, NoJournalAtRest DEF RecoveryInv
<1>5. Records = Settled
  <2>1. journal = [c \in Channels |-> None]
    BY <1>4 DEF TypeOK
  <2>2. QED
    BY <2>1 DEF Records, Settled
<1>6. QED
  BY <1>2, <1>3, <1>5

\* Whatever verbs commit, apply, crash and are recovered between the unlocked reads,
\* in any number, the verdict that reaches the ticket is the one the records give.
THEOREM VerdictsAreTrue == ReconcileSpec => JudgedOnTruth
<1>1. ReconcileInit => EvidenceInv
  BY DEF ReconcileInit, EvidenceInv
<1>2. ReconcileSpec => [](TypeOK /\ RecoveryInv)
  BY ReaderKeepsRecords, RecoveryHolds, PTL
<1>3. TypeOK /\ RecoveryInv /\ EvidenceInv /\ [ReconcileNext]_allVars
        => [verdict' # verdict => verdict' \in {Classify(Records), "unavailable"}]_allVars
  BY VerdictIsTrue
<1>4. QED
  BY <1>1, <1>2, <1>3, PaidInit, PaidStep, EvidenceStep, PTL DEF ReconcileSpec, JudgedOnTruth

-----------------------------------------------------------------------------------
(* A board at rest is readable                                             *)

\* What the records hold at rest, the reader's validator accepts: it is written apart
\* from AtRestReadable, over a sample.
LEMMA RecordsReadable ==
  ASSUME TypeOK, RecoveryInv, AtRestReadable, ~NeedsRecovery
  PROVE  Readable(Records)
<1> DEFINE R == Records
<1>1. /\ R.lease = lease /\ R.head = head /\ R.attempt = attempt /\ R.state = epoch
      /\ \A c \in Channels : R.journal[c] = None
  BY NoJournalAtRest DEF RecoveryInv, Records
<1>2. ~StateInvalid(R)
  <2>1. Journals(R) = {}
    BY <1>1 DEF Journals
  <2>2. ~(Cardinality(Journals(R)) > 1)
    BY <2>1, FS_EmptySet
  <2>3. ASSUME NEW c \in Channels
        PROVE  /\ Vanished \notin {R.lease[c], R.journal[c]}
               /\ \A i \in Ordinals : R.attempt[c][i] # Vanished
    <3>1. lease[c] \in Leases \cup {None} /\ R.journal[c] = None
      BY <1>1, <2>3 DEF TypeOK
    <3>2. \A i \in Ordinals : attempt[c][i] \in Attempts \cup {None}
      BY <2>3 DEF TypeOK
    <3>3. QED
      BY <1>1, <3>1, <3>2, VanishedAssumption
  <2>4. QED
    BY <1>1, <2>1, <2>2, <2>3 DEF StateInvalid, NeedsRecovery, Pending
<1>3. ASSUME NEW c \in Channels PROVE ChannelReadable(R, c)
  <2> DEFINE h == head[c]
             x == IF h = 0 THEN None ELSE attempt[c][h]
  <2>1. /\ Existing(c) = 1..h /\ Consistent(h, lease[c], x) /\ ChainSound(c)
        /\ \A i \in Existing(c) : i # h => Terminal(attempt[c][i])
    BY <1>3 DEF AtRestReadable, Current
  <2>2. h \in 0..MaxOrdinal
    BY <1>3 DEF TypeOK
  <2>3. /\ R.head[c] = h /\ R.lease[c] = lease[c]
        /\ \A i \in Ordinals : R.attempt[c][i] = attempt[c][i]
    BY <1>1, <1>3
  <2>4. Listed(R, c) = Existing(c) /\ Existing(c) \subseteq Ordinals
    BY <2>3 DEF Listed, Existing
  <2>5. x = IF h = 0 THEN None ELSE R.attempt[c][h]
    BY <2>2, <2>3, BoundsAssumption DEF Ordinals
  <2>6. /\ lease[c] # None => h # 0 /\ Consistent(h, lease[c], x)
        /\ h # 0 /\ lease[c] = None => x.outcome \in {"active", "released"}
    BY <2>1 DEF Consistent
  <2>7. ASSUME NEW i \in Existing(c)
        PROVE  LET y == R.attempt[c][i]
               IN  /\ i # h => Terminal(y)
                   /\ y.successor # 0 =>
                        /\ y.outcome = "superseded" /\ y.successor \in Existing(c)
                        /\ R.attempt[c][y.successor].supersedes = i
                   /\ y.supersedes # 0 =>
                        /\ y.supersedes \in Existing(c)
                        /\ LET p == R.attempt[c][y.supersedes]
                           IN  \/ p.outcome = "superseded" /\ p.successor = i
                               \/ p.outcome = "failed" /\ p.successor = 0
                        /\ \A k \in Existing(c) :
                             R.attempt[c][k].supersedes = y.supersedes => k = i
    <3> DEFINE y == attempt[c][i]
               p == attempt[c][y.supersedes]
    <3>1. /\ i # h => Terminal(y)
          /\ y.successor # 0 => /\ y.outcome = "superseded" /\ y.successor \in Existing(c)
                                /\ attempt[c][y.successor].supersedes = i
          /\ y.supersedes # 0 =>
               /\ y.supersedes \in Existing(c)
               /\ p.outcome = "failed" \/ p.successor = i
               /\ \A k \in Existing(c) : attempt[c][k].supersedes = y.supersedes => k = i
      BY <2>1, <2>7 DEF ChainSound
    <3>2. y.supersedes # 0 => (p.successor # 0 <=> p.outcome = "superseded")
      BY <2>1, <3>1 DEF ChainSound
    <3>3. i # 0
      BY <2>1, <2>2, <2>7, BoundsAssumption
    <3>4. /\ R.attempt[c][i] = y
          /\ y.successor # 0 => R.attempt[c][y.successor] = attempt[c][y.successor]
          /\ y.supersedes # 0 => R.attempt[c][y.supersedes] = p
          /\ \A k \in Existing(c) : R.attempt[c][k] = attempt[c][k]
      BY <2>3, <2>4, <2>7, <3>1
    <3> HIDE DEF y, p, h
    <3>5. y.supersedes # 0 => \/ p.outcome = "superseded" /\ p.successor = i
                              \/ p.outcome = "failed" /\ p.successor = 0
      BY <3>1, <3>2, <3>3
    <3>6. QED
      BY <3>1, <3>4, <3>5
  <2> HIDE DEF x, h
  <2>8. QED
    BY <2>1, <2>3, <2>4, <2>5, <2>6, <2>7 DEF ChannelReadable
<1>4. QED
  BY <1>2, <1>3 DEF Readable

\* A reader that nobody disturbs is never refused for what it finds: between
\* transactions, whatever died before, the validator of samples accepts the records.
THEOREM RestIsReadable == ReconcileSpec => [](~NeedsRecovery => Readable(Records))
<1>1. ReconcileSpec => [](TypeOK /\ RecoveryInv /\ SoundInv)
  BY ReaderKeepsRecords, SoundHolds, PTL
<1>2. TypeOK /\ RecoveryInv /\ SoundInv => (~NeedsRecovery => Readable(Records))
  BY SoundIsReadable, RecordsReadable
<1>3. QED
  BY <1>1, <1>2, PTL
===================================================================================
