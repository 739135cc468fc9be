---------------------------- MODULE TicketWorkflow ----------------------------
(***************************************************************************)
(* The stages of one ticket (packages/core/src/store.ts, gates.ts,         *)
(* stages.ts): moves through the document gates, moves back with their     *)
(* reason, the review returns and their remediation budget, takes, and     *)
(* quick captures with their promotion decision.                           *)
(*                                                                         *)
(* Every verb reads the ticket and writes it inside one turn of the board's*)
(* write lock (module FileLock), so it is one step; a verb that is refused *)
(* writes nothing and is not a step.  updateItem is modelled with every    *)
(* combination of the fields that touch the stage in one patch.  Workspaces*)
(* and batches are in module WorkspaceLeases.                              *)
(***************************************************************************)
EXTENDS Naturals, FiniteSets

CONSTANTS
  Profiles,     \* the profiles of the board, "capture" among them
  Documents,    \* what a gate can ask for
  Retractable,  \* documents that can be undone: a question raised again, a ref unlinked
  Requires,     \* the board's profile table: [Profiles -> [Boundaries -> SUBSET Documents]]
  MaxRounds     \* bound: review rounds

\* STAGE_IDS by their index.
backlog == 0
preparing == 1
implementing == 2
review == 3
verifying == 4
done == 5
Stages == backlog .. done

\* What a move can cross: out of a stage, or into one.
Boundaries == {<<"leave", backlog>>, <<"leave", preparing>>, <<"enter", review>>,
               <<"enter", verifying>>, <<"enter", done>>}

capture == "capture"

ASSUME WorkflowAssumption ==
  /\ capture \in Profiles
  /\ IsFiniteSet(Documents) /\ Retractable \subseteq Documents
  /\ Requires \in [Profiles -> [Boundaries -> SUBSET Documents]]
  /\ MaxRounds \in Nat

VARIABLES
  stage, profile,
  documents,    \* what has been written
  attestation,  \* scratch/review.md: "none" when absent, invalid or for another PR
  round,        \* review_round
  budget,       \* remediation_budget
  taken,        \* taken_at is set
  disposition,  \* capture_disposition
  automatic,    \* history: returns on the strength of an attestation
  vouched       \* history: boundaries behind the ticket whose documents were complete
                \* when it crossed them, or which it was never asked to cross

vars == <<stage, profile, documents, attestation, round, budget, taken, disposition,
          automatic, vouched>>

\* The stage index a move must reach to cross the boundary: one past a stage that
\* is left, the stage itself when it is entered.
boundaryThreshold(b) == IF b[1] = "leave" THEN b[2] + 1 ELSE b[2]

\* Mutant: a jump answers only to the gate of the stage it lands on.
crossedOnLanding(from, to) == {b \in Boundaries : from < to /\ boundaryThreshold(b) = to}

\* Backward moves cross nothing.
boundariesCrossed(from, to) ==
  {b \in Boundaries : from < boundaryThreshold(b) /\ boundaryThreshold(b) <= to}

\* assertDocGate: a capture stays in the backlog, a move crosses one gated boundary
\* at most, and its documents are all there.  updateItem asks it of tickets in the v2
\* layout only; this is one.
DocGate(p, docs, from, to) ==
  LET crossed == boundariesCrossed(from, to)
  IN  /\ to # backlog => p # capture
      /\ Cardinality({b \in crossed : Requires[p][b] # {}}) <= 1
      /\ \A b \in crossed : Requires[p][b] \subseteq docs

\* Creation is ungated: a ticket may be born in any stage.  It has raised no question.
Init ==
  /\ stage \in Stages /\ profile \in Profiles
  /\ documents = Documents \cap {"questions-resolved"}
  /\ attestation = "none"
  /\ round = 0 /\ budget = 1
  /\ taken = FALSE
  /\ disposition = "none"
  /\ automatic = 0
  /\ vouched = {b \in Boundaries : boundaryThreshold(b) <= stage}

\* History: a new profile asks nothing for the boundaries already behind the ticket.
Vouch(p, to) ==
  vouched' = {b \in Boundaries :
                /\ boundaryThreshold(b) <= to
                /\ \/ b \in vouched
                   \/ p # profile /\ boundaryThreshold(b) <= stage
                   \/ Requires[p][b] \subseteq documents}

-------------------------------------------------------------------------------
(* updateItem *)

Returns(to) == stage = review /\ to = implementing

\* Mutants of BackwardMove: the budget is compared too late; a return refunds a round.
BackwardMoveLate(to, reason) ==
  /\ to < stage => reason # "none"
  /\ Returns(to) /\ reason # "operator" => attestation = "needs-changes" /\ round <= budget
  /\ IF Returns(to)
       THEN /\ round' = round + 1
            /\ budget' = IF reason = "operator" /\ round >= budget THEN round + 1 ELSE budget
            /\ automatic' = IF reason = "operator" THEN automatic ELSE automatic + 1
       ELSE UNCHANGED <<round, budget, automatic>>

BackwardMoveRefunds(to, reason) ==
  /\ to < stage => reason # "none"
  /\ Returns(to) /\ reason # "operator" => attestation = "needs-changes" /\ round < budget
  /\ IF Returns(to)
       THEN /\ round' = round - 1
            /\ budget' = IF reason = "operator" /\ round >= budget THEN round + 1 ELSE budget
            /\ automatic' = IF reason = "operator" THEN automatic ELSE automatic + 1
       ELSE UNCHANGED <<round, budget, automatic>>

\* backwardMoveEffects.  The board's own window always has an operator's reason.
BackwardMove(to, reason) ==
  /\ to < stage => reason # "none"
  /\ Returns(to) /\ reason # "operator" => attestation = "needs-changes" /\ round < budget
  /\ IF Returns(to)
       THEN /\ round' = round + 1
            /\ budget' = IF reason = "operator" /\ round >= budget THEN round + 1 ELSE budget
            /\ automatic' = IF reason = "operator" THEN automatic ELSE automatic + 1
       ELSE UNCHANGED <<round, budget, automatic>>

\* captureDecisionEffects: "closed" stands for the dispositions that archive,
\* "promoted" for the two that make deliverable work of the capture.
Decide(decision, p) ==
  IF decision = "none"
    THEN UNCHANGED disposition
    ELSE /\ profile = capture
         /\ disposition \in {"none", "retained"}
         /\ decision = "promoted" => p # capture
         /\ decision = "retained" => p = capture
         /\ disposition' = decision

UpdateItem(to, p, decision, reason) ==
  /\ <<to, p, decision>> # <<stage, profile, "none">>
  /\ Returns(to) => round < MaxRounds
  /\ BackwardMove(to, reason)
  /\ Decide(decision, p)
  /\ to # stage => DocGate(p, documents, stage, to)
  /\ stage' = to /\ profile' = p
  /\ Vouch(p, to)
  /\ UNCHANGED <<documents, attestation, taken>>

-------------------------------------------------------------------------------
(* takeTicket, releaseTicket and the documents *)

\* Mutant: only the gate keeps a capture from being taken.
TakeTicketOfCapture(to, force) ==
  /\ taken => force
  /\ to # stage => DocGate(profile, documents, stage, to)
  /\ stage' = to /\ taken' = TRUE
  /\ Vouch(profile, to)
  /\ UNCHANGED <<profile, documents, attestation, round, budget, disposition, automatic>>

\* The isolated take moves the ticket to the stage it names, ahead or back.
TakeTicket(to, force) ==
  /\ profile # capture
  /\ taken => force
  /\ to # stage => DocGate(profile, documents, stage, to)
  /\ stage' = to /\ taken' = TRUE
  /\ Vouch(profile, to)
  /\ UNCHANGED <<profile, documents, attestation, round, budget, disposition, automatic>>

ReleaseTicket ==
  /\ taken
  /\ taken' = FALSE
  /\ UNCHANGED <<stage, profile, documents, attestation, round, budget, disposition,
                 automatic, vouched>>

WriteDocument(d) ==
  /\ documents' = documents \cup {d}
  /\ UNCHANGED <<stage, profile, attestation, round, budget, taken, disposition,
                 automatic, vouched>>

\* setDoc raises a question again, updateItem unlinks the refs.
Retract(d) ==
  /\ d \in Retractable
  /\ documents' = documents \ {d}
  /\ UNCHANGED <<stage, profile, attestation, round, budget, taken, disposition,
                 automatic, vouched>>

\* A reviewer replaces scratch/review.md, at any stage.
WriteReview(verdict) ==
  /\ attestation' = verdict
  /\ UNCHANGED <<stage, profile, documents, round, budget, taken, disposition,
                 automatic, vouched>>

Next ==
  \/ \E to \in Stages, p \in Profiles, decision \in {"none", "closed", "promoted", "retained"},
        reason \in {"none", "given", "operator"} : UpdateItem(to, p, decision, reason)
  \/ \E to \in Stages, force \in BOOLEAN : TakeTicket(to, force)
  \/ ReleaseTicket
  \/ \E d \in Documents : WriteDocument(d) \/ Retract(d)
  \/ \E verdict \in {"none", "pass", "needs-changes"} : WriteReview(verdict)

Spec == Init /\ [][Next]_vars

-------------------------------------------------------------------------------
TypeOK ==
  /\ stage \in Stages /\ profile \in Profiles
  /\ documents \subseteq Documents
  /\ attestation \in {"none", "pass", "needs-changes"}
  /\ round \in Nat /\ budget \in Nat \ {0}
  /\ taken \in BOOLEAN
  /\ disposition \in {"none", "closed", "promoted", "retained"}
  /\ automatic \in Nat
  /\ vouched \subseteq Boundaries

\* An attestation buys at most one return from review in the life of a ticket: no
\* sequence of moves, retakes, fresh reviews and operator returns buys an agent a
\* second one, and an operator's return uses up the one there was (remediation_budget,
\* "how many Review -> Implementing returns are allowed before an operator must
\* intervene (default 1)").
OneAutomaticReturn == automatic <= 1 /\ round <= budget

\* Every gated boundary behind a ticket was crossed in a step that found its documents
\* complete: jumps, takes, returns and a second way forward included.  Only creation
\* and a change of profile put a ticket past a boundary unasked.
EveryGateAnswered ==
  \A b \in Boundaries :
    Requires[profile][b] # {} /\ boundaryThreshold(b) <= stage => b \in vouched

\* While it stays a capture, a ticket goes nowhere but to the backlog and nobody
\* takes it.
CaptureStaysPut ==
  [][profile = capture /\ profile' = capture
       => stage' \in {stage, backlog} /\ (taken' => taken)]_vars

\* review_round is "how many times Review has returned this ticket to Implementing"
\* (types.ts).  The code counts the returns of updateItem but not those of takeTicket.
ReturnsAreCounted == [][stage = review /\ stage' = implementing => round' = round + 1]_vars

\* "Promotion is an explicit recorded decision" (FRD-032): a capture that stops being
\* one has a disposition.  The code lets updateItem replace the profile with none.
PromotionIsRecorded ==
  [][profile = capture /\ profile' # capture => disposition' \in {"promoted", "closed"}]_vars
===============================================================================
