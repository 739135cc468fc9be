----------------------------- MODULE BoardSyncProofs -----------------------------
(***************************************************************************)
(* Theorems about BoardSync, for any writes, any number of openings and    *)
(* any length of a chain.                                                  *)
(*                                                                         *)
(* Why no write is lost that landed while no rebase was stopped: a rebase  *)
(* that stops has put the tree aside and left the branch where it was, and *)
(* its abort or its end brings both back.                                  *)
(* Why markers stay local: as long as no sync ran on a closed context, the *)
(* only sync at work is the open context's; when it leaves unmerged paths  *)
(* behind, it is at its check or before its abort, which end it and pause  *)
(* the context, unless no probe of the check could tell; and nothing but a *)
(* retry starts a paused one.                                              *)
(***************************************************************************)
EXTENDS BoardSync, SequenceTheorems, TLAPS

Syncing == {"stage", "fetch", "rebase", "check", "conflict", "transient", "restage", "push"}

\* The steps in which a sync may meet the unmerged paths it has made itself.
Meeting == {"check", "conflict"}

TypeInv ==
  /\ chain \in [Contexts -> Seq(Kinds)]
  /\ at \in [Contexts -> Steps]
  /\ paused \in [Contexts -> BOOLEAN]
  /\ current \in 0..MaxContexts /\ opened \in 0..MaxContexts
  /\ unmerged \in BOOLEAN /\ rebasing \in BOOLEAN
  /\ lapse \in {"none", "resumed", "behind"}

\* A close waits only in the open context's chain, and once.
CloseInv ==
  /\ \A c \in Contexts : \A i \in 1..Len(chain[c]) :
       chain[c][i] = "close" =>
         c = current /\ \A j \in 1..Len(chain[c]) : chain[c][j] = "close" => j = i
  /\ \A c \in Contexts : at[c] # "idle" => chain[c] # <<>>
  /\ \A c \in Contexts : at[c] = "closing" => Head(chain[c]) = "close"

\* Unless one was late, the only sync at work is the open context's.
LiveInv == lapse = "behind" \/ \A c \in Contexts : at[c] \in Syncing => c = current

\* What an agent wrote is somewhere; while a rebase is stopped, out of the abort's way.
KeptInv ==
  /\ written \subseteq Mine
  /\ IF rebasing THEN written \ exposed \subseteq stash \cup branch \cup autostash
                 ELSE written \ exposed \subseteq tree \cup head \cup stash

\* Where markers may be, and who may meet them.
MarkerInv ==
  /\ Markers \notin stash \/ lapse # "none"
  /\ Markers \in tree => unmerged \/ lapse # "none"
  /\ Markers \in head \cup fetched \cup remote \cup branch \cup autostash => lapse # "none"
  /\ unmerged /\ lapse = "none" /\ current # 0 =>
       /\ at[current] \in {"idle", "closing"} \cup Meeting
       /\ at[current] \notin Meeting => paused[current]

IInv == TypeInv /\ CloseInv /\ LiveInv /\ KeptInv /\ MarkerInv

-----------------------------------------------------------------------------------
(* Chains *)

LEMMA ContextsNat == Contexts \subseteq Nat \ {0} /\ 0 \notin Contexts
  BY BoundAssumption DEF Contexts

LEMMA OverChain ==
  ASSUME TypeInv, CloseInv, NEW c \in Contexts, at[c] # "idle", Over(c)
  PROVE  /\ chain' \in [Contexts -> Seq(Kinds)]
         /\ at' \in [Contexts -> Steps]
         /\ at' = [at EXCEPT ![c] = "idle"]
         /\ \A d \in Contexts : d # c => chain'[d] = chain[d]
         /\ Len(chain'[c]) = Len(chain[c]) - 1 /\ Len(chain[c]) \in Nat \ {0}
         /\ \A i \in 1..Len(chain'[c]) : chain'[c][i] = chain[c][i + 1]
<1>1. chain[c] \in Seq(Kinds) /\ chain[c] # <<>>
  BY DEF TypeInv, CloseInv
<1>2. /\ Tail(chain[c]) \in Seq(Kinds) /\ Len(Tail(chain[c])) = Len(chain[c]) - 1
      /\ \A i \in 1..Len(Tail(chain[c])) : Tail(chain[c])[i] = chain[c][i + 1]
  BY <1>1, HeadTailProperties
<1>3. chain'[c] = Tail(chain[c]) /\ chain' \in [Contexts -> Seq(Kinds)]
  BY <1>2 DEF TypeInv, Over
<1>4. at' \in [Contexts -> Steps]
  BY DEF TypeInv, Over, Steps
<1>5. Len(chain[c]) \in Nat \ {0}
  BY <1>1
<1> QED
  BY <1>2, <1>3, <1>4, <1>5 DEF TypeInv, Over

\* An operation of the open context that ends leaves the others' chains as they are.
LEMMA OverClose ==
  ASSUME TypeInv, CloseInv, NEW c \in Contexts, at[c] # "idle", Over(c), current' = current
  PROVE  CloseInv'
<1>1. \A i \in 1..Len(chain'[c]) : chain'[c][i] = chain[c][i + 1] /\ i + 1 \in 1..Len(chain[c])
  BY OverChain
<1>2. \A d \in Contexts : \A i \in 1..Len(chain'[d]) :
        chain'[d][i] = "close" =>
          d = current /\ \A j \in 1..Len(chain'[d]) : chain'[d][j] = "close" => j = i
  <2> SUFFICES ASSUME NEW d \in Contexts, NEW i \in 1..Len(chain'[d]), chain'[d][i] = "close"
               PROVE  d = current /\ \A j \in 1..Len(chain'[d]) : chain'[d][j] = "close" => j = i
    OBVIOUS
  <2>1. CASE d # c
    BY <2>1, OverChain DEF CloseInv
  <2>2. CASE d = c
    <3>1. chain[c][i + 1] = "close" /\ i + 1 \in 1..Len(chain[c])
      BY <1>1, <2>2
    <3>2. d = current /\ \A j \in 1..Len(chain[c]) : chain[c][j] = "close" => j = i + 1
      BY <3>1, <2>2 DEF CloseInv
    <3>3. ASSUME NEW j \in 1..Len(chain'[d]), chain'[d][j] = "close" PROVE j = i
      <4>1. chain[c][j + 1] = "close" /\ j + 1 \in 1..Len(chain[c])
        BY <3>3, <1>1, <2>2
      <4> QED
        BY <4>1, <3>2, <2>2
    <3> QED
      BY <3>2, <3>3
  <2> QED
    BY <2>1, <2>2
<1>3. \A d \in Contexts : at'[d] # "idle" => d # c /\ at'[d] = at[d] /\ chain'[d] = chain[d]
  BY OverChain DEF TypeInv
<1> QED
  BY <1>2, <1>3 DEF CloseInv

-----------------------------------------------------------------------------------
(* The end of a sync *)

LEMMA FinishKeeps ==
  ASSUME TypeInv, CloseInv, LiveInv, NEW c \in Contexts, at[c] \in Syncing,
         NEW result \in {"conflict", "transient", "pushed"}, Finish(c, result),
         unmerged' \in BOOLEAN, rebasing' \in BOOLEAN, lapse' = lapse
  PROVE  TypeInv' /\ CloseInv' /\ LiveInv'
<1>1. at[c] # "idle" /\ Over(c) /\ current' = current /\ opened' = opened
  BY DEF Finish, Syncing
<1>2. TypeInv'
  BY <1>1, OverChain DEF TypeInv, Finish
<1>3. CloseInv'
  BY <1>1, OverClose
<1>4. LiveInv'
  BY <1>1, OverChain DEF LiveInv, TypeInv, Syncing
<1> QED
  BY <1>2, <1>3, <1>4

\* A sync at work on unmerged paths is at its check or before its abort, unless somebody
\* resumed.
LEMMA MeetsMarkers ==
  ASSUME LiveInv, MarkerInv, NEW c \in Contexts, at[c] \in Syncing \ Meeting, unmerged
  PROVE  lapse # "none"
  BY ContextsNat DEF LiveInv, MarkerInv, Syncing, Meeting

-----------------------------------------------------------------------------------
(* The steps *)

LEMMA InvInit == Init => IInv
<1> SUFFICES ASSUME Init PROVE IInv
  OBVIOUS
<1>1. TypeInv
  <2>1. <<>> \in Seq(Kinds)
    OBVIOUS
  <2>2. chain \in [Contexts -> Seq(Kinds)]
    BY <2>1, Zenon DEF Init
  <2>3. at \in [Contexts -> Steps] /\ paused \in [Contexts -> BOOLEAN]
    BY DEF Init, Steps
  <2>4. /\ current \in 0..MaxContexts /\ opened \in 0..MaxContexts
        /\ unmerged = FALSE /\ rebasing = FALSE /\ lapse = "none"
    BY BoundAssumption DEF Init
  <2> QED
    BY <2>2, <2>3, <2>4 DEF TypeInv
<1>2. CloseInv /\ LiveInv
  BY DEF Init, CloseInv, LiveInv, Syncing
<1>3. KeptInv /\ MarkerInv
  BY DEF Init, KeptInv, MarkerInv
<1> QED
  BY <1>1, <1>2, <1>3 DEF IInv

\* Agents, other machines and the operator only touch git.
LEMMA OutsideStep ==
  ASSUME IInv,
         \/ (\E w \in Mine : Write(w)) \/ (\E w \in Theirs : TheyPush(w))
         \/ Calm \/ Resolve \/ FinishRebase
  PROVE  IInv'
<1>1. UNCHANGED <<app, lapse, fetched, stash>> /\ unmerged' \in BOOLEAN /\ rebasing' \in BOOLEAN
  BY DEF IInv, TypeInv, Write, TheyPush, Calm, Resolve, FinishRebase, RebaseOver, ghosts, git,
         work, app
<1>2. TypeInv' /\ CloseInv' /\ LiveInv'
  BY <1>1 DEF IInv, TypeInv, CloseInv, LiveInv, app
<1>3. KeptInv' /\ MarkerInv'
  <2>1. CASE \E w \in Mine : Write(w)
    BY <1>1, <2>1, ContentAssumption DEF IInv, KeptInv, MarkerInv, Write, app
  <2>2. CASE \E w \in Theirs : TheyPush(w)
    BY <1>1, <2>2, ContentAssumption DEF IInv, KeptInv, MarkerInv, TheyPush, app, ghosts, work
  <2>3. CASE Calm
    BY <1>1, <2>3 DEF IInv, KeptInv, MarkerInv, Calm, app, git, work
  <2>4. CASE Resolve
    <3>1. KeptInv'
      BY <2>4, ContentAssumption DEF IInv, KeptInv, Resolve, ghosts
    <3>2. MarkerInv'
      BY <1>1, <2>4 DEF IInv, MarkerInv, Resolve, app
    <3> QED
      BY <3>1, <3>2
  <2>5. CASE FinishRebase
    <3>1. KeptInv'
      BY <2>5, <1>1, ContentAssumption DEF IInv, KeptInv, FinishRebase, RebaseOver
    <3>2. MarkerInv'
      BY <1>1, <2>5 DEF IInv, MarkerInv, FinishRebase, RebaseOver, app
    <3> QED
      BY <3>1, <3>2
  <2> QED
    BY <2>1, <2>2, <2>3, <2>4, <2>5
<1> QED
  BY <1>2, <1>3 DEF IInv

\* A new context finds no close waiting, and an unresolved tree counts as resumed.
LEMMA OpenStep ==
  ASSUME IInv, OpenProject
  PROVE  IInv'
<1>1. /\ UNCHANGED <<git, written, exposed, chain, at, paused>>
      /\ current = 0 /\ current' = opened + 1 /\ opened' = opened + 1 /\ opened < MaxContexts
      /\ lapse' = IF unmerged /\ lapse = "none" THEN "resumed" ELSE lapse
  BY DEF OpenProject, Resumes
<1>2. TypeInv'
  BY <1>1, BoundAssumption DEF IInv, TypeInv, git, work
<1>3. CloseInv' /\ LiveInv'
  BY <1>1, ContextsNat DEF IInv, CloseInv, LiveInv
<1>4. KeptInv' /\ MarkerInv'
  BY <1>1 DEF IInv, TypeInv, KeptInv, MarkerInv, git, work
<1> QED
  BY <1>2, <1>3, <1>4 DEF IInv

LEMMA AskStep ==
  ASSUME IInv, NEW kind \in Kinds, Ask(kind)
  PROVE  IInv'
<1>1. /\ UNCHANGED <<git, current, opened, at, paused, written, exposed, lapse>>
      /\ current \in Contexts
      /\ chain' = [chain EXCEPT ![current] = Append(@, kind)]
      /\ kind = "close" => \A i \in 1..Len(chain[current]) : chain[current][i] # "close"
  BY DEF IInv, TypeInv, Ask, ghosts, Contexts
<1>2. chain[current] \in Seq(Kinds)
  BY <1>1 DEF IInv, TypeInv
<1>3. /\ chain'[current] = Append(chain[current], kind) /\ chain'[current] \in Seq(Kinds)
      /\ chain'[current] # <<>>
      /\ Len(chain'[current]) = Len(chain[current]) + 1 /\ Len(chain[current]) \in Nat
      /\ \A i \in 1..Len(chain[current]) : chain'[current][i] = chain[current][i]
      /\ chain'[current][Len(chain[current]) + 1] = kind
      /\ \A d \in Contexts : d # current => chain'[d] = chain[d]
  BY <1>1, <1>2, AppendProperties DEF IInv, TypeInv
<1>4. TypeInv'
  BY <1>1, <1>3 DEF IInv, TypeInv, git, work
<1>5. CloseInv'
  <2>1. ASSUME NEW d \in Contexts, NEW i \in 1..Len(chain'[d]), chain'[d][i] = "close"
        PROVE  d = current /\ \A j \in 1..Len(chain'[d]) : chain'[d][j] = "close" => j = i
    <3>1. CASE d # current
      BY <3>1, <2>1, <1>3 DEF IInv, CloseInv
    <3>2. CASE d = current
      BY <3>2, <2>1, <1>1, <1>3 DEF IInv, CloseInv
    <3> QED
      BY <3>1, <3>2
  <2>2. \A d \in Contexts : at'[d] # "idle" =>
          chain'[d] # <<>> /\ Head(chain'[d]) = Head(chain[d])
    <3> SUFFICES ASSUME NEW d \in Contexts, at[d] # "idle"
                 PROVE  chain'[d] # <<>> /\ Head(chain'[d]) = Head(chain[d])
      BY <1>1
    <3>1. chain[d] # <<>>
      BY DEF IInv, CloseInv
    <3> QED
      BY <3>1, <1>2, <1>3, HeadTailAppend
  <2> QED
    BY <2>1, <2>2, <1>1 DEF IInv, CloseInv
<1>6. LiveInv' /\ KeptInv' /\ MarkerInv'
  BY <1>1 DEF IInv, LiveInv, KeptInv, MarkerInv, git, work
<1> QED
  BY <1>4, <1>5, <1>6 DEF IInv

LEMMA BeginStep ==
  ASSUME IInv, NEW c \in Contexts, Begin(c)
  PROVE  IInv'
<1>1. /\ UNCHANGED <<git, current, opened, paused, written, exposed>>
      /\ chain[c] # <<>> /\ at[c] = "idle"
  BY DEF Begin
<1>2. chain[c] \in Seq(Kinds) /\ Head(chain[c]) \in Kinds
  BY <1>1, HeadTailProperties DEF IInv, TypeInv
<1>3. CASE /\ Head(chain[c]) = "close" /\ at' = [at EXCEPT ![c] = "closing"]
           /\ UNCHANGED <<chain, lapse>>
  <2>1. TypeInv'
    BY <1>1, <1>3 DEF IInv, TypeInv, Steps, git, work
  <2>2. CloseInv' /\ LiveInv' /\ KeptInv' /\ MarkerInv'
    BY <1>1, <1>3
    DEF IInv, TypeInv, CloseInv, LiveInv, KeptInv, MarkerInv, Syncing, Meeting, git, work
  <2> QED
    BY <2>1, <2>2 DEF IInv
<1>4. CASE /\ Head(chain[c]) # "close" /\ Runs(Head(chain[c]), c)
           /\ at' = [at EXCEPT ![c] = "stage"]
           /\ lapse' = IF c # current THEN "behind"
                       ELSE IF Head(chain[c]) = "manual" THEN Resumes ELSE lapse
           /\ UNCHANGED chain
  <2>1. /\ c # current => lapse' = "behind"
        /\ c = current /\ ~(Head(chain[c]) = "manual" /\ unmerged /\ lapse = "none") =>
             lapse' = lapse
        /\ Head(chain[c]) = "manual" /\ unmerged => lapse' # "none"
        /\ lapse' \in {"none", "resumed", "behind"} /\ (lapse' = "none" => lapse = "none")
        /\ lapse = "behind" => lapse' = "behind"
    BY <1>4 DEF IInv, TypeInv, Resumes
  <2>2. TypeInv'
    BY <1>1, <1>4, <2>1 DEF IInv, TypeInv, Steps, git, work
  <2>3. CloseInv' /\ LiveInv' /\ KeptInv'
    BY <1>1, <1>4, <2>1 DEF IInv, TypeInv, CloseInv, LiveInv, KeptInv, Syncing, git, work
  <2>4. MarkerInv'
    <3>1. UNCHANGED <<tree, stash, head, fetched, remote, unmerged, branch, autostash>>
      BY <1>1 DEF git, work
    <3>2. ~(unmerged /\ lapse' = "none")
      <4> SUFFICES ASSUME unmerged, lapse' = "none" PROVE FALSE
        OBVIOUS
      <4>1. c = current /\ Head(chain[c]) # "manual" /\ lapse = "none"
        BY <2>1
      <4>2. paused[c]
        BY <4>1, <1>1, ContextsNat DEF IInv, MarkerInv, Meeting
      <4> QED
        BY <4>1, <4>2, <1>4 DEF Runs
    <3> QED
      BY <3>1, <3>2, <2>1 DEF IInv, MarkerInv
  <2> QED
    BY <2>2, <2>3, <2>4 DEF IInv
<1>5. CASE Over(c) /\ UNCHANGED lapse
  <2>1. /\ chain' = [chain EXCEPT ![c] = Tail(@)] /\ at' = at
    BY <1>1, <1>5 DEF IInv, TypeInv, Over
  <2>2. Tail(chain[c]) \in Seq(Kinds) /\ Len(Tail(chain[c])) = Len(chain[c]) - 1
        /\ \A i \in 1..Len(Tail(chain[c])) : Tail(chain[c])[i] = chain[c][i + 1]
    BY <1>1, <1>2, HeadTailProperties
  <2>3. /\ chain'[c] = Tail(chain[c]) /\ \A d \in Contexts : d # c => chain'[d] = chain[d]
        /\ Len(chain[c]) \in Nat
    BY <2>1, <1>2 DEF IInv, TypeInv
  <2>4. TypeInv'
    BY <1>1, <1>5, <2>1, <2>2 DEF IInv, TypeInv, git, work
  <2>5. CloseInv'
    <3>1. ASSUME NEW d \in Contexts, NEW i \in 1..Len(chain'[d]), chain'[d][i] = "close"
          PROVE  d = current /\ \A j \in 1..Len(chain'[d]) : chain'[d][j] = "close" => j = i
      <4>1. CASE d # c
        BY <3>1, <4>1, <2>3 DEF IInv, CloseInv
      <4>2. CASE d = c
        <5>1. chain[c][i + 1] = "close" /\ i + 1 \in 1..Len(chain[c])
          BY <3>1, <4>2, <2>2, <2>3
        <5>2. c = current /\ \A j \in 1..Len(chain[c]) : chain[c][j] = "close" => j = i + 1
          BY <5>1 DEF IInv, CloseInv
        <5>3. ASSUME NEW j \in 1..Len(chain'[d]), chain'[d][j] = "close" PROVE j = i
          <6>1. chain[c][j + 1] = "close" /\ j + 1 \in 1..Len(chain[c])
            BY <5>3, <4>2, <2>2, <2>3
          <6> QED
            BY <6>1, <5>2
        <5> QED
          BY <5>2, <5>3, <4>2
      <4> QED
        BY <4>1, <4>2
    <3>2. \A d \in Contexts : at'[d] # "idle" => d # c /\ chain'[d] = chain[d]
      BY <1>1, <2>1, <2>3
    <3> QED
      BY <3>1, <3>2, <2>1, <1>1 DEF IInv, CloseInv
  <2>6. LiveInv' /\ KeptInv' /\ MarkerInv'
    BY <1>1, <1>5, <2>1 DEF IInv, LiveInv, KeptInv, MarkerInv, git, work
  <2> QED
    BY <2>4, <2>5, <2>6 DEF IInv
<1> QED
  BY <1>3, <1>4, <1>5 DEF Begin

\* Only the open context has a close to run, and no sync is at work then.
LEMMA CloseStep ==
  ASSUME IInv, NEW c \in Contexts, CloseProject(c)
  PROVE  IInv'
<1>1. /\ at[c] = "closing" /\ Over(c) /\ current' = 0 /\ opened' = opened
      /\ UNCHANGED <<git, paused, written, exposed, lapse>>
  BY DEF CloseProject
<1>2. /\ TypeInv /\ CloseInv /\ at[c] # "idle"
  BY <1>1 DEF IInv
<1>3. chain[c] \in Seq(Kinds) /\ chain[c] # <<>> /\ chain[c][1] = "close" /\ 1 \in 1..Len(chain[c])
  BY <1>1, <1>2 DEF CloseInv, TypeInv
<1>4. c = current /\ \A j \in 1..Len(chain[c]) : chain[c][j] = "close" => j = 1
  BY <1>3, <1>2 DEF CloseInv
<1>5. TypeInv'
  BY <1>1, <1>2, OverChain, BoundAssumption DEF TypeInv, git, work
<1>6. \A d \in Contexts : \A i \in 1..Len(chain'[d]) : chain'[d][i] # "close"
  <2> SUFFICES ASSUME NEW d \in Contexts, NEW i \in 1..Len(chain'[d]), chain'[d][i] = "close"
               PROVE  FALSE
    OBVIOUS
  <2>1. CASE d # c
    BY <2>1, <1>1, <1>2, <1>4, OverChain DEF CloseInv
  <2>2. CASE d = c
    <3>1. chain[c][i + 1] = "close" /\ i + 1 \in 1..Len(chain[c])
      BY <2>2, <1>1, <1>2, OverChain
    <3> QED
      BY <3>1, <1>4
  <2> QED
    BY <2>1, <2>2
<1>7. \A d \in Contexts : at'[d] # "idle" => d # c /\ at'[d] = at[d] /\ chain'[d] = chain[d]
  BY <1>1, <1>2, OverChain DEF TypeInv
<1>8. CloseInv'
  BY <1>2, <1>6, <1>7 DEF CloseInv
<1>9. LiveInv'
  BY <1>1, <1>4, <1>7 DEF IInv, LiveInv, Syncing
<1>10. KeptInv' /\ MarkerInv'
  BY <1>1 DEF IInv, KeptInv, MarkerInv, git, work
<1> QED
  BY <1>5, <1>8, <1>9, <1>10 DEF IInv

\* A step inside a sync that goes on.
LEMMA GotoKeeps ==
  ASSUME TypeInv, CloseInv, LiveInv, NEW c \in Contexts, at[c] \in Syncing,
         NEW step \in Syncing, Goto(c, step), unmerged' \in BOOLEAN,
         rebasing' \in BOOLEAN, lapse' \in {lapse, "behind"}
  PROVE  TypeInv' /\ CloseInv' /\ LiveInv'
  BY DEF TypeInv, CloseInv, LiveInv, Goto, Syncing, Steps

\* A step that makes no unmerged paths and brings no markers, taken by a sync that is
\* neither at its check nor before its abort: such a sync meets them only after a lapse.
Anywhere == tree \cup head \cup fetched \cup remote \cup branch \cup autostash \cup stash

LEMMA AwayKeeps ==
  ASSUME MarkerInv, LiveInv, NEW c \in Contexts, at[c] \in Syncing \ Meeting,
         unmerged' => unmerged, lapse' = lapse, current' = current,
         Markers \in Anywhere' => Markers \in Anywhere
  PROVE  MarkerInv'
<1>1. lapse = "none" => ~unmerged
  BY MeetsMarkers
<1> QED
  BY <1>1 DEF MarkerInv, Anywhere

LEMMA SyncStepKeeps ==
  ASSUME IInv, NEW c \in Contexts, SyncStep(c)
  PROVE  IInv'
<1> USE DEF IInv
<1>0. c # 0
  BY ContextsNat
<1>1. CASE Stage(c)
  <2>1. /\ at[c] \in Syncing \ Meeting /\ at[c] \in Syncing
        /\ \E s \in Syncing : Goto(c, s)
        /\ current' = current /\ lapse' = lapse
        /\ unmerged' \in BOOLEAN /\ rebasing' \in BOOLEAN /\ (unmerged' => unmerged)
    BY <1>1 DEF TypeInv, Stage, Goto, Finish, Syncing, Meeting, ghosts, git, work
  <2>2. TypeInv' /\ CloseInv' /\ LiveInv'
    BY <2>1, GotoKeeps
  <2>3. KeptInv'
    BY <1>1 DEF KeptInv, Stage, ghosts, git, work
  <2>4. MarkerInv'
    BY <1>1, <2>1, AwayKeeps DEF Stage, Anywhere, git, work
  <2> QED
    BY <2>2, <2>3, <2>4
<1>2. CASE StageFails(c)
  <2>1. /\ at[c] \in Syncing \ Meeting /\ at[c] \in Syncing
        /\ \E r \in {"conflict", "transient", "pushed"} : Finish(c, r)
        /\ current' = current /\ lapse' = lapse
        /\ unmerged' \in BOOLEAN /\ rebasing' \in BOOLEAN /\ (unmerged' => unmerged)
    <3>1. /\ at[c] \in {"stage", "restage"} /\ Finish(c, "transient")
          /\ UNCHANGED <<lapse, rebasing>> /\ (unmerged' = unmerged \/ unmerged' = FALSE)
      BY <1>2 DEF StageFails
    <3>2. current' = current
      BY <3>1 DEF Finish
    <3>3. unmerged' \in BOOLEAN /\ rebasing' \in BOOLEAN /\ (unmerged' => unmerged)
      <4>1. unmerged \in BOOLEAN /\ rebasing \in BOOLEAN
        BY DEF TypeInv
      <4>2. CASE unmerged' = unmerged
        BY <3>1, <4>1, <4>2, Zenon
      <4>3. CASE unmerged' = FALSE
        BY <3>1, <4>1, <4>3, Zenon
      <4> QED
        BY <3>1, <4>2, <4>3
    <3>4. at[c] \in Syncing \ Meeting /\ at[c] \in Syncing
      BY <3>1 DEF Syncing, Meeting
    <3> QED
      BY <3>1, <3>2, <3>3, <3>4
  <2>2. TypeInv' /\ CloseInv' /\ LiveInv'
    BY <2>1, FinishKeeps
  <2>3. KeptInv'
    BY <1>2 DEF KeptInv, StageFails, ghosts, git, work
  <2>4. MarkerInv'
    BY <1>2, <2>1, AwayKeeps DEF StageFails, Anywhere, git, work
  <2> QED
    BY <2>2, <2>3, <2>4
<1>3. CASE Fetch(c)
  <2>1. /\ at[c] \in Syncing \ Meeting /\ at[c] \in Syncing
        /\ \E s \in Syncing : Goto(c, s)
        /\ current' = current /\ lapse' = lapse
        /\ unmerged' \in BOOLEAN /\ rebasing' \in BOOLEAN /\ (unmerged' => unmerged)
    BY <1>3 DEF TypeInv, Fetch, Goto, Finish, Syncing, Meeting, ghosts, git, work
  <2>2. TypeInv' /\ CloseInv' /\ LiveInv'
    BY <2>1, GotoKeeps
  <2>3. KeptInv'
    BY <1>3 DEF KeptInv, Fetch, ghosts, git, work
  <2>4. MarkerInv'
    BY <1>3, <2>1, AwayKeeps DEF Fetch, Anywhere, git, work
  <2> QED
    BY <2>2, <2>3, <2>4
<1>4. CASE FetchSkipped(c)
  <2>1. /\ at[c] \in Syncing \ Meeting /\ at[c] \in Syncing
        /\ \E s \in Syncing : Goto(c, s)
        /\ current' = current /\ lapse' = lapse
        /\ unmerged' \in BOOLEAN /\ rebasing' \in BOOLEAN /\ (unmerged' => unmerged)
    BY <1>4 DEF TypeInv, FetchSkipped, Goto, Finish, Syncing, Meeting, ghosts, git, work
  <2>2. TypeInv' /\ CloseInv' /\ LiveInv'
    BY <2>1, GotoKeeps
  <2>3. KeptInv'
    BY <1>4 DEF KeptInv, FetchSkipped, ghosts, git, work
  <2>4. MarkerInv'
    BY <1>4, <2>1, AwayKeeps DEF FetchSkipped, Anywhere, git, work
  <2> QED
    BY <2>2, <2>3, <2>4
<1>5. CASE FetchFails(c)
  <2>1. /\ at[c] \in Syncing \ Meeting /\ at[c] \in Syncing
        /\ \E r \in {"conflict", "transient", "pushed"} : Finish(c, r)
        /\ current' = current /\ lapse' = lapse
        /\ unmerged' \in BOOLEAN /\ rebasing' \in BOOLEAN /\ (unmerged' => unmerged)
    BY <1>5 DEF TypeInv, FetchFails, Goto, Finish, Syncing, Meeting, ghosts, git, work
  <2>2. TypeInv' /\ CloseInv' /\ LiveInv'
    BY <2>1, FinishKeeps
  <2>3. KeptInv'
    BY <1>5 DEF KeptInv, FetchFails, ghosts, git, work
  <2>4. MarkerInv'
    BY <1>5, <2>1, AwayKeeps DEF FetchFails, Anywhere, git, work
  <2> QED
    BY <2>2, <2>3, <2>4
<1>6. CASE RebaseClean(c)
  <2>1. /\ at[c] \in Syncing \ Meeting /\ at[c] \in Syncing
        /\ \E s \in Syncing : Goto(c, s)
        /\ current' = current /\ lapse' = lapse
        /\ unmerged' \in BOOLEAN /\ rebasing' \in BOOLEAN /\ (unmerged' => unmerged)
    BY <1>6 DEF TypeInv, RebaseClean, Goto, Finish, Syncing, Meeting, ghosts, git, work
  <2>2. TypeInv' /\ CloseInv' /\ LiveInv'
    BY <2>1, GotoKeeps
  <2>3. KeptInv'
    BY <1>6 DEF KeptInv, RebaseClean, ghosts, git, work
  <2>4. MarkerInv'
    BY <1>6, <2>1, AwayKeeps DEF RebaseClean, Anywhere, git, work
  <2> QED
    BY <2>2, <2>3, <2>4
<1>7. CASE RebaseRefused(c)
  <2>1. /\ at[c] \in Syncing \ Meeting /\ at[c] \in Syncing
        /\ \E s \in Syncing : Goto(c, s)
        /\ current' = current /\ lapse' = lapse
        /\ unmerged' \in BOOLEAN /\ rebasing' \in BOOLEAN /\ (unmerged' => unmerged)
    BY <1>7 DEF TypeInv, RebaseRefused, Goto, Finish, Syncing, Meeting, ghosts, git, work
  <2>2. TypeInv' /\ CloseInv' /\ LiveInv'
    BY <2>1, GotoKeeps
  <2>3. KeptInv'
    BY <1>7 DEF KeptInv, RebaseRefused, ghosts, git, work
  <2>4. MarkerInv'
    BY <1>7, <2>1, AwayKeeps DEF RebaseRefused, Anywhere, git, work
  <2> QED
    BY <2>2, <2>3, <2>4
<1>8. CASE Push(c)
  <2>1. /\ at[c] \in Syncing \ Meeting /\ at[c] \in Syncing
        /\ \E r \in {"conflict", "transient", "pushed"} : Finish(c, r)
        /\ current' = current /\ lapse' = lapse
        /\ unmerged' \in BOOLEAN /\ rebasing' \in BOOLEAN /\ (unmerged' => unmerged)
    BY <1>8 DEF TypeInv, Push, Goto, Finish, Syncing, Meeting, ghosts, git, work
  <2>2. TypeInv' /\ CloseInv' /\ LiveInv'
    BY <2>1, FinishKeeps
  <2>3. KeptInv'
    BY <1>8 DEF KeptInv, Push, ghosts, git, work
  <2>4. MarkerInv'
    BY <1>8, <2>1, AwayKeeps DEF Push, Anywhere, git, work
  <2> QED
    BY <2>2, <2>3, <2>4
<1>9. CASE PushFails(c)
  <2>1. /\ at[c] \in Syncing \ Meeting /\ at[c] \in Syncing
        /\ \E r \in {"conflict", "transient", "pushed"} : Finish(c, r)
        /\ current' = current /\ lapse' = lapse
        /\ unmerged' \in BOOLEAN /\ rebasing' \in BOOLEAN /\ (unmerged' => unmerged)
    BY <1>9 DEF TypeInv, PushFails, Goto, Finish, Syncing, Meeting, ghosts, git, work
  <2>2. TypeInv' /\ CloseInv' /\ LiveInv'
    BY <2>1, FinishKeeps
  <2>3. KeptInv'
    BY <1>9 DEF KeptInv, PushFails, ghosts, git, work
  <2>4. MarkerInv'
    BY <1>9, <2>1, AwayKeeps DEF PushFails, Anywhere, git, work
  <2> QED
    BY <2>2, <2>3, <2>4
<1>10. CASE AutostashConflicts(c)
  <2>1. /\ at[c] \in Syncing /\ Goto(c, "check") /\ ~unmerged
        /\ lapse' = lapse /\ unmerged' = TRUE /\ rebasing' = rebasing /\ current' = current
    BY <1>10 DEF AutostashConflicts, ghosts, Syncing, Goto
  <2>2. TypeInv' /\ CloseInv' /\ LiveInv'
    BY <2>1, GotoKeeps DEF TypeInv, Syncing
  <2>3. KeptInv'
    BY <1>10 DEF KeptInv, AutostashConflicts, ghosts
  <2>4. lapse = "none" => c = current /\ at'[current] = "check"
    BY <2>1 DEF LiveInv, TypeInv, Goto
  <2>5. MarkerInv'
    BY <1>10, <2>1, <2>4 DEF MarkerInv, AutostashConflicts, Meeting
  <2> QED
    BY <2>2, <2>3, <2>5
<1>11. CASE RebaseStops(c)
  <2>1. /\ at[c] \in Syncing /\ ~unmerged /\ ~rebasing
        /\ lapse' = lapse /\ rebasing' = TRUE /\ current' = current
        /\ unmerged' \in BOOLEAN /\ \E s \in Syncing : Goto(c, s)
        /\ branch' = head /\ autostash' = tree
        /\ UNCHANGED <<fetched, remote, stash, written, exposed>>
    BY <1>11 DEF RebaseStops, ghosts, Syncing, Goto
  <2>2. TypeInv' /\ CloseInv' /\ LiveInv'
    BY <2>1, GotoKeeps
  <2>3. KeptInv'
    BY <2>1 DEF KeptInv
  <2>4. unmerged' => at'[c] = "conflict"
    BY <1>11 DEF RebaseStops, Goto, TypeInv
  <2>5. lapse = "none" => c = current
    BY <2>1 DEF LiveInv
  <2>6. Markers \in head' => Markers \in head \cup fetched
    BY <1>11 DEF RebaseStops
  <2>7. Markers \in tree' => unmerged'
    BY <1>11 DEF RebaseStops
  <2>8. MarkerInv'
    BY <2>1, <2>4, <2>5, <2>6, <2>7 DEF MarkerInv, Meeting
  <2> QED
    BY <2>2, <2>3, <2>8
<1>12. CASE Abort(c)
  <2>1. /\ at[c] \in Syncing /\ rebasing /\ lapse' = lapse /\ current' = current
        /\ \E r \in {"conflict", "transient", "pushed"} : Finish(c, r)
        /\ UNCHANGED <<fetched, remote, stash, written>>
    BY <1>12 DEF Abort, Finish, Syncing
  <2>2. PICK survivors \in SUBSET (tree \ {Markers}) : RebaseOver(autostash \cup survivors, branch)
    BY <1>12 DEF Abort
  <2>3. TypeInv' /\ CloseInv' /\ LiveInv'
    BY <2>1, <2>2, FinishKeeps DEF RebaseOver
  <2>4. KeptInv'
    BY <2>1, <2>2 DEF KeptInv, RebaseOver
  <2>5. MarkerInv'
    BY <2>1, <2>2 DEF MarkerInv, RebaseOver
  <2> QED
    BY <2>3, <2>4, <2>5
<1>13. CASE NothingAborted(c)
  <2>1. /\ at[c] \in {"conflict", "transient"} /\ at[c] \in Syncing /\ Finish(c, at[c])
        /\ UNCHANGED <<git, written, exposed, lapse, current>>
    BY <1>13 DEF NothingAborted, Finish, Syncing
  <2>2. TypeInv' /\ CloseInv' /\ LiveInv'
    BY <2>1, FinishKeeps DEF TypeInv, git, work
  <2>3. KeptInv'
    BY <2>1 DEF KeptInv, git, work
  <2>4. /\ at' = [at EXCEPT ![c] = "idle"]
        /\ paused' = [paused EXCEPT ![c] = at[c] = "conflict"]
    BY <2>1 DEF Finish, Over
  <2>5. lapse = "none" => c = current
    BY <2>1 DEF LiveInv
  <2>6. unmerged /\ lapse = "none" => at[c] = "conflict"
    BY <2>1, <2>5, <1>0 DEF MarkerInv, Meeting
  <2>7. MarkerInv'
    BY <2>1, <2>4, <2>5, <2>6 DEF MarkerInv, TypeInv, git, work
  <2> QED
    BY <2>2, <2>3, <2>7
<1>14. CASE Check(c)
  <2>1. at[c] = "check" /\ at[c] \in Syncing /\ UNCHANGED <<git, written, exposed>>
    BY <1>14 DEF Check, Syncing
  <2>2. KeptInv'
    BY <2>1 DEF KeptInv, git, work
  <2>3. lapse = "none" => c = current
    BY <2>1 DEF LiveInv
  <2>4. CASE Goto(c, "conflict") /\ lapse' = lapse
    <3>1. TypeInv' /\ CloseInv' /\ LiveInv'
      BY <2>1, <2>4, GotoKeeps DEF TypeInv, Syncing, git, work
    <3>2. MarkerInv'
      BY <2>1, <2>3, <2>4 DEF MarkerInv, TypeInv, Goto, Meeting, git, work
    <3> QED
      BY <2>2, <3>1, <3>2
  <2>5. CASE Goto(c, "restage") /\ lapse' = IF unmerged THEN "behind" ELSE lapse
    <3>1. TypeInv' /\ CloseInv' /\ LiveInv'
      BY <2>1, <2>5, GotoKeeps DEF TypeInv, Syncing, git, work
    <3>2. MarkerInv'
      BY <2>1, <2>5 DEF MarkerInv, git, work
    <3> QED
      BY <2>2, <3>1, <3>2
  <2> QED
    BY <1>14, <2>4, <2>5 DEF Check
<1> QED
  BY <1>1, <1>2, <1>3, <1>4, <1>5, <1>6, <1>7, <1>8, <1>9, <1>10, <1>11, <1>12, <1>13, <1>14
  DEF SyncStep

LEMMA InvStep == IInv /\ [Next]_vars => IInv'
<1> SUFFICES ASSUME IInv, [Next]_vars PROVE IInv'
  OBVIOUS
<1>1. CASE UNCHANGED vars
  BY <1>1 DEF IInv, TypeInv, CloseInv, LiveInv, KeptInv, MarkerInv, vars, git, work, app, ghosts
<1>2. CASE \/ (\E w \in Mine : Write(w)) \/ (\E w \in Theirs : TheyPush(w))
           \/ Calm \/ Resolve \/ FinishRebase
  BY <1>2, OutsideStep
<1>3. CASE OpenProject
  BY <1>3, OpenStep
<1>4. CASE \E kind \in Kinds : Ask(kind)
  BY <1>4, AskStep
<1>5. CASE \E c \in Contexts : Begin(c) \/ CloseProject(c) \/ SyncStep(c)
  BY <1>5, BeginStep, CloseStep, SyncStepKeeps
<1> QED
  BY <1>1, <1>2, <1>3, <1>4, <1>5 DEF Next

-----------------------------------------------------------------------------------

\* For any number of writes, machines' pushes, openings and queued operations: a write of
\* an agent is lost by no sync, except one that landed while a rebase was stopped, which
\* the abort may sweep away; and the markers of a conflict are committed or pushed only
\* after a retry, an opening or a late sync, or past a check whose probes both failed.
THEOREM MarkersStayLocal == Spec => []ConflictsStayLocal
<1>1. IInv => ConflictsStayLocal
  BY DEF IInv, KeptInv, MarkerInv, ConflictsStayLocal
<1> QED
  BY <1>1, InvInit, InvStep, PTL DEF Spec
===================================================================================
