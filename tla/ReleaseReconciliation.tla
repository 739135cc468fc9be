--------------------------- MODULE ReleaseReconciliation ---------------------------
(***************************************************************************)
(* applyReconciliation (packages/core/src/store.ts): a ticket is moved on  *)
(* release evidence that was read without the board write lock, file by    *)
(* file, while release verbs commit and crash (module ReleaseChannel).     *)
(* The reader takes the epoch, samples the records until two samples       *)
(* agree, takes the epoch again, and compares it once more in the lock.    *)
(***************************************************************************)
EXTENDS ReleaseChannel, FiniteSets

CONSTANTS
  Ticket,     \* the ticket being reconciled
  Vanished,   \* a file that was listed and gone when it was opened
  Tries,      \* attempts of applyReconciliation: 3
  Samples     \* samples of readReleaseSnapshot: 3

ASSUME TicketAssumption == Ticket \in Tickets
ASSUME TriesAssumption == Tries \in Nat \ {0} /\ Samples \in Nat \ {0}
ASSUME VanishedAssumption ==
  /\ Vanished # None /\ Vanished \notin 0..MaxOrdinal
  /\ Vanished \notin Attempts /\ Vanished \notin Leases /\ Vanished \notin Epochs

VARIABLES
  at,         \* where the reader stands
  try,        \* the current try
  token,      \* the epoch read before the samples
  seen,       \* per file, what it has been since the current sample began
  previous,   \* the signature of the sample before it
  taken,      \* samples completed in this try
  release,    \* the evidence this try brings to the lock
  verdict,    \* the evidence the locked body judged the ticket on
  since       \* what had been paid when the apply began; a history variable

reader == <<at, try, token, seen, previous, taken, release, verdict, since>>
allVars == <<vars, reader>>

\* The files of the five directories, as a reader finds them.
Records ==
  [lease |-> lease, head |-> head, journal |-> journal, attempt |-> attempt, state |-> epoch]

NothingSeen ==
  [lease |-> [c \in Channels |-> {}], head |-> [c \in Channels |-> {}],
   journal |-> [c \in Channels |-> {}],
   attempt |-> [c \in Channels |-> [i \in Ordinals |-> {}]], state |-> {}]

-----------------------------------------------------------------------------------
(* Classifying a sample                                                    *)

Journals(S) == {c \in Channels : S.journal[c] \notin {None, Vanished}}
Listed(S, c) == {i \in Ordinals : S.attempt[c][i] # None}

\* collectReleaseSnapshot: a listed file could not be opened, or the epoch and the
\* journals do not belong together.
StateInvalid(S) ==
  LET e == S.state
      named == e # None /\ e.channel \in Journals(S) /\ S.journal[e.channel].tx = e.rev
  IN  \/ \E c \in Channels : \/ Vanished \in {S.lease[c], S.journal[c]}
                            \/ \E i \in Ordinals : S.attempt[c][i] = Vanished
      \/ Cardinality(Journals(S)) > 1
      \/ e # None /\ e.phase = "pending" /\ ~named
      \/ e # None /\ Journals(S) # {} /\ ~named

\* A file that was not read is left out.
Read(x) == IF x = Vanished THEN None ELSE x

\* releaseSnapshotSignature: the records that were read, without the epoch, and
\* whether something was wrong with them.
Signature(S) ==
  [files |-> [c \in Channels |->
     <<Read(S.lease[c]), S.head[c], Read(S.journal[c]),
       [i \in Ordinals |-> Read(S.attempt[c][i])]>>],
   invalid |-> StateInvalid(S)]

\* validateReleaseSnapshot, for one channel.
ChannelReadable(S, c) ==
  LET h == S.head[c]
      l == S.lease[c]
      x == IF h = 0 THEN None ELSE S.attempt[c][h]
  IN  /\ Listed(S, c) = 1..h
      /\ l # None => h # 0 /\ Consistent(h, l, x)
      /\ h # 0 /\ l = None => x.outcome \in {"active", "released"}
      /\ \A i \in Listed(S, c) :
           LET y == S.attempt[c][i]
           IN  /\ i # h => Terminal(y)
               /\ y.successor # 0 =>
                    /\ y.outcome = "superseded" /\ y.successor \in Listed(S, c)
                    /\ S.attempt[c][y.successor].supersedes = i
               /\ y.supersedes # 0 =>
                    /\ y.supersedes \in Listed(S, c)
                    /\ LET p == S.attempt[c][y.supersedes]
                       IN  \/ p.outcome = "superseded" /\ p.successor = i
                           \/ p.outcome = "failed" /\ p.successor = 0
                    /\ \A k \in Listed(S, c) : S.attempt[c][k].supersedes = y.supersedes => k = i

Readable(S) == ~StateInvalid(S) /\ \A c \in Channels : ChannelReadable(S, c)

Lists(x) == x # None /\ Ticket \in x.included

Mentions(J) ==
  \E i \in DOMAIN J.after.attempts : Lists(J.before.attempts[i]) \/ Lists(J.after.attempts[i])

\* classifyReleaseEvidence. In a readable sample a chain of successors ends in an
\* attempt that is not superseded, so what is left when no listed attempt is active
\* never freezes the ticket.
Classify(S) ==
  LET matching == {m \in Channels \X Ordinals : Lists(S.attempt[m[1]][m[2]])}
      active == {m \in matching : ~Terminal(S.attempt[m[1]][m[2]])}
      retrying == {m \in active : S.attempt[m[1]][m[2]].retry \in 1..(RetryMax - 1)}
      foreign == {m \in active : \/ S.lease[m[1]] = None
                                 \/ S.lease[m[1]].ordinal # m[2]}
  IN  IF \/ ~Readable(S) \/ retrying # {}
         \/ \E c \in Journals(S) : Mentions(S.journal[c])
      THEN "unavailable"
      ELSE IF Cardinality(active) > 1 \/ foreign # {} THEN "contended"
      ELSE "not-applicable"

-----------------------------------------------------------------------------------
(* The reader                                                              *)

ReconcileInit ==
  /\ Init
  /\ at = "start" /\ try = 1
  /\ token = None
  /\ seen = NothingSeen /\ previous = None /\ taken = 0
  /\ release = None /\ verdict = None /\ since = 0

Watch ==
  [lease |-> [c \in Channels |-> {lease[c]}], head |-> [c \in Channels |-> {head[c]}],
   journal |-> [c \in Channels |-> {journal[c]}],
   attempt |-> [c \in Channels |-> [i \in Ordinals |-> {attempt[c][i]}]], state |-> {epoch}]

\* A try is lost when the epoch moves, by half a transaction at a time, or when a
\* holder of the lock dies.
Moment(e) == IF e = None THEN 0 ELSE 2 * e.rev - (IF e.phase = "pending" THEN 1 ELSE 0)
Moves == Moment(epoch)

\* A holder died after settling the epoch and before removing its journal, and nobody
\* has recovered yet: this death has yet to cost a try.
Unspent == IF ~busy /\ NeedsRecovery /\ ~Pending THEN 1 ELSE 0

Paid == Moves + crashes - Unspent

\* Mutant: the token is read once for all the tries.
ReadTokenOnce ==
  /\ at = "start"
  /\ token' = IF try = 1 THEN epoch ELSE token
  /\ since' = IF try = 1 THEN Paid ELSE since
  /\ at' = "sampling" /\ taken' = 0 /\ previous' = None /\ seen' = Watch /\ release' = None
  /\ UNCHANGED <<vars, try, verdict>>

\* The apply begins with the token of its first try.
ReadToken ==
  /\ at = "start"
  /\ token' = epoch
  /\ since' = IF try = 1 THEN Paid ELSE since
  /\ at' = "sampling" /\ taken' = 0 /\ previous' = None /\ seen' = Watch /\ release' = None
  /\ UNCHANGED <<vars, try, verdict>>

\* Every choice, for each member of I, of one thing that its file has been.
Choices(had, I) ==
  {f \in [I -> UNION {had[i] : i \in I}] : \A i \in I : f[i] \in had[i]}

\* Every combination of what the files have been.
Views ==
  [lease : Choices(seen.lease, Channels), head : Choices(seen.head, Channels),
   journal : Choices(seen.journal, Channels),
   attempt : Choices([c \in Channels |-> Choices(seen.attempt[c], Ordinals)], Channels),
   state : seen.state]

\* What sample S leads to. Two equal samples in a row are the snapshot; churn through
\* the last one makes it unreadable.
Sampled(S) ==
  LET signature == Signature(S)
  IN  IF previous # None /\ signature = previous
      THEN [at |-> "token", previous |-> None, release |-> Classify(S)]
      ELSE IF taken + 1 = Samples
      THEN [at |-> "token", previous |-> None, release |-> "unavailable"]
      ELSE [at |-> "sampling", previous |-> signature, release |-> release]

\* Each file was read at some instant since the sample began.
TakeSample ==
  /\ at = "sampling"
  /\ taken' = taken + 1
  /\ \E r \in {Sampled(S) : S \in Views} :
       /\ at' = r.at /\ previous' = r.previous /\ release' = r.release
       /\ seen' = IF r.at = "sampling" THEN Watch ELSE NothingSeen
  /\ UNCHANGED <<vars, try, token, verdict, since>>

NextTry ==
  IF try < Tries THEN at' = "start" /\ try' = try + 1 ELSE at' = "drift" /\ UNCHANGED try

ReadTokenAgain ==
  /\ at = "token"
  /\ IF epoch = token THEN at' = "lock" /\ UNCHANGED try ELSE NextTry
  /\ UNCHANGED <<vars, token, seen, previous, taken, release, verdict, since>>

\* In the lock: a pending transaction is recovered first and costs a try.
RecoverFirst ==
  /\ at = "lock" /\ ~busy /\ NeedsRecovery
  /\ busy' = TRUE /\ at' = "recovering"
  /\ UNCHANGED <<files, epoch, journal, intent, crashes>>
  /\ UNCHANGED <<try, token, seen, previous, taken, release, verdict, since>>

Recovered ==
  /\ at = "recovering" /\ ~NeedsRecovery
  /\ NextTry
  /\ UNCHANGED <<vars, token, seen, previous, taken, release, verdict, since>>

\* Mutant: two equal samples are taken for the truth, without the token.
ApplyUntested ==
  /\ at = "lock" /\ ~busy /\ ~NeedsRecovery
  /\ at' = "done" /\ verdict' = release
  /\ UNCHANGED <<vars, try, token, seen, previous, taken, release, since>>

ApplyLocked ==
  /\ at = "lock" /\ ~busy /\ ~NeedsRecovery
  /\ IF epoch = token THEN at' = "done" /\ verdict' = release /\ UNCHANGED try
                      ELSE NextTry /\ UNCHANGED verdict
  /\ UNCHANGED <<vars, token, seen, previous, taken, release, since>>

ReaderStep == ReadToken \/ TakeSample \/ ReadTokenAgain
              \/ RecoverFirst \/ Recovered \/ ApplyLocked

\* What a reader of the source can meet during a step: a file that is removed may be
\* gone between the listing of its directory and its opening.
Passing(x, y) == {y} \cup (IF x # None /\ y = None THEN {Vanished} ELSE {})

StillWatch ==
  [lease |-> [c \in Channels |-> seen.lease[c] \cup Passing(lease[c], lease'[c])],
   head |-> [c \in Channels |-> seen.head[c] \cup {head'[c]}],
   journal |-> [c \in Channels |-> seen.journal[c] \cup Passing(journal[c], journal'[c])],
   attempt |-> [c \in Channels |-> [i \in Ordinals |->
                  seen.attempt[c][i] \cup Passing(attempt[c][i], attempt'[c][i])]],
   state |-> seen.state \cup {epoch'}]

\* A step of a release verb, or of a recovery, while the reader looks on; a reader
\* that recovers is itself the holder of the lock that may die.
RecordsStep ==
  /\ Next
  /\ seen' = IF at = "sampling" THEN StillWatch ELSE seen
  /\ at' = IF at = "recovering" /\ crashes' # crashes THEN "died" ELSE at
  /\ UNCHANGED <<try, token, previous, taken, release, verdict, since>>

ReconcileNext == ReaderStep \/ RecordsStep

ReconcileSpec == ReconcileInit /\ [][ReconcileNext]_allVars

-----------------------------------------------------------------------------------
(* Properties *)

\* The ticket is judged on the release evidence as it stands in the lock, or not
\* judged at all: the locked body lets a move pass only on "not-applicable", and
\* however the verbs and their crashes were interleaved with the unlocked reads,
\* that verdict is then the truth.
JudgedOnTruth ==
  [][verdict' # verdict => verdict' \in {Classify(Records), "unavailable"}]_allVars

\* Each lost try is paid for: an apply gives up as drifted only if, since it began, the
\* epoch has moved or a holder of the lock has died once for each of its tries. One
\* earlier death may pay too, if the journal it left was still waiting for a recovery
\* when the apply began. On a board that is quiet since then no apply runs out of tries,
\* whatever its history.
DriftNeedsChurn == at = "drift" => Moves + crashes >= since + Tries

-----------------------------------------------------------------------------------
(* Inductive strengthenings, for the proofs in ReleaseReconciliationProofs. *)

\* The records as they stand once no journal is left to apply.
Settled == [Records EXCEPT !.journal = [c \in Channels |-> None]]

\* While the epoch is the token and settled, only journals come and go: a sample
\* can differ from the records in them alone.
OnlyJournalsMoved ==
  /\ seen.state \subseteq {epoch}
  /\ \A c \in Channels :
       /\ seen.lease[c] \subseteq {lease[c]} /\ seen.head[c] \subseteq {head[c]}
       /\ \A i \in Ordinals : seen.attempt[c][i] \subseteq {attempt[c][i]}

EvidenceInv ==
  token = epoch /\ ~Pending =>
    /\ at = "sampling" => OnlyJournalsMoved
    /\ at \in {"token", "lock"} => release \in {"unavailable", Classify(Settled)}

\* What each try of this apply has cost so far.
TriesArePaid ==
  /\ at = "start" => since + (try - 1) + Unspent <= Moves + crashes
  /\ at \in {"sampling", "token", "lock"} =>
       /\ token = epoch \/ Moment(token) < Moves
       /\ since + (try - 1) + Unspent <= Moment(token) + crashes
  /\ at = "recovering" =>
       since + try + Unspent <= Moves + crashes + (IF Pending THEN 1 ELSE 0)
  /\ at = "drift" => since + Tries <= Moves + crashes

ReaderTypeOK ==
  /\ at \in {"start", "sampling", "token", "lock", "recovering", "died", "drift", "done"}
  /\ try \in 1..Tries /\ since \in Nat
  /\ token \in Epochs \cup {None}
===================================================================================
