-------------------------- MODULE TicketWorkflowProofs --------------------------
(***************************************************************************)
(* Proofs about TicketWorkflow, for every set of profiles and documents    *)
(* and every profile table.                                                *)
(***************************************************************************)
EXTENDS TicketWorkflow, TLAPS

\* Between two operator returns the budget is either untouched or used up.
Spent == \/ round = 0 /\ budget = 1 /\ automatic = 0
         \/ round = budget /\ automatic \in {0, 1}

IInv == TypeOK /\ Spent /\ EveryGateAnswered

\* The stage index of a boundary is one of the stages after the backlog.
LEMMA ThresholdType == \A b \in Boundaries : boundaryThreshold(b) \in 1 .. 5
  BY DEF Boundaries, boundaryThreshold, backlog, preparing, review, verifying, done

LEMMA InitIInv == Init => IInv
<1> SUFFICES ASSUME Init PROVE IInv
  OBVIOUS
<1>1. TypeOK
  <2>1. round \in Nat /\ budget \in Nat \ {0} /\ automatic \in Nat
    BY DEF Init
  <2>2. documents \subseteq Documents /\ vouched \subseteq Boundaries
    BY DEF Init
  <2>3. taken \in BOOLEAN
    BY DEF Init
  <2> QED
    BY <2>1, <2>2, <2>3 DEF Init, TypeOK
<1>2. Spent
  BY DEF Init, Spent
<1>3. EveryGateAnswered
  BY DEF Init, EveryGateAnswered
<1> QED
  BY <1>1, <1>2, <1>3 DEF IInv

\* A step that passes the gate of its target leaves every boundary behind vouched for.
LEMMA Vouching ==
  ASSUME TypeOK, EveryGateAnswered,
         NEW to \in Stages, NEW p \in Profiles,
         to # stage => DocGate(p, documents, stage, to),
         Vouch(p, to), stage' = to, profile' = p
  PROVE  EveryGateAnswered'
<1> SUFFICES ASSUME NEW b \in Boundaries, Requires[p][b] # {}, boundaryThreshold(b) <= to
             PROVE  b \in vouched'
  BY DEF EveryGateAnswered
<1>1. boundaryThreshold(b) \in Nat /\ stage \in Nat /\ to \in Nat
  BY ThresholdType DEF TypeOK, Stages, backlog, done
<1>2. CASE boundaryThreshold(b) <= stage
  <2>1. b \in vouched \/ p # profile
    BY <1>2 DEF EveryGateAnswered
  <2> QED
    BY <1>2, <2>1 DEF Vouch
<1>3. CASE ~(boundaryThreshold(b) <= stage)
  <2>1. b \in boundariesCrossed(stage, to) /\ to # stage
    BY <1>1, <1>3 DEF boundariesCrossed
  <2>2. Requires[p][b] \subseteq documents
    BY <2>1 DEF DocGate
  <2> QED
    BY <2>2 DEF Vouch
<1> QED
  BY <1>2, <1>3

LEMMA NextIInv == IInv /\ [Next]_vars => IInv'
<1> SUFFICES ASSUME IInv, [Next]_vars PROVE IInv'
  OBVIOUS
<1> USE DEF IInv
<1>1. ASSUME NEW to \in Stages, NEW p \in Profiles,
             NEW decision \in {"none", "closed", "promoted", "retained"},
             NEW reason \in {"none", "given", "operator"},
             UpdateItem(to, p, decision, reason)
      PROVE  IInv'
  <2>1. BackwardMove(to, reason) /\ Decide(decision, p) /\ Vouch(p, to)
    BY <1>1 DEF UpdateItem
  <2>2. Spent' /\ round' \in Nat /\ budget' \in Nat \ {0} /\ automatic' \in Nat
    BY <2>1 DEF BackwardMove, Spent, TypeOK
  <2>3. disposition' \in {"none", "closed", "promoted", "retained"}
    BY <2>1 DEF Decide, TypeOK
  <2>4. vouched' \subseteq Boundaries
    BY <2>1 DEF Vouch
  <2>5. TypeOK'
    BY <1>1, <2>2, <2>3, <2>4 DEF UpdateItem, TypeOK
  <2>6. EveryGateAnswered'
    BY <1>1, Vouching DEF UpdateItem
  <2> QED
    BY <2>2, <2>5, <2>6
<1>2. ASSUME NEW to \in Stages, NEW force \in BOOLEAN, TakeTicket(to, force)
      PROVE  IInv'
  <2>1. profile \in Profiles /\ profile' = profile
    BY <1>2 DEF TakeTicket, TypeOK
  <2>2. EveryGateAnswered'
    BY <1>2, <2>1, Vouching DEF TakeTicket
  <2>3. vouched' \subseteq Boundaries
    BY <1>2 DEF TakeTicket, Vouch
  <2>4. TypeOK' /\ Spent'
    BY <1>2, <2>3 DEF TakeTicket, TypeOK, Spent
  <2> QED
    BY <2>2, <2>4
<1>3. CASE ReleaseTicket
  BY <1>3 DEF ReleaseTicket, TypeOK, Spent, EveryGateAnswered
<1>4. ASSUME NEW d \in Documents, WriteDocument(d) \/ Retract(d) PROVE IInv'
  BY <1>4 DEF WriteDocument, Retract, TypeOK, Spent, EveryGateAnswered
<1>5. ASSUME NEW verdict \in {"none", "pass", "needs-changes"}, WriteReview(verdict) PROVE IInv'
  BY <1>5 DEF WriteReview, TypeOK, Spent, EveryGateAnswered
<1>6. CASE UNCHANGED vars
  BY <1>6 DEF vars, TypeOK, Spent, EveryGateAnswered
<1> QED
  BY <1>1, <1>2, <1>3, <1>4, <1>5, <1>6 DEF Next

\* Spec => []TypeOK: every variable keeps its type.
THEOREM TypeCorrect == Spec => []TypeOK
<1>1. IInv => TypeOK
  BY DEF IInv
<1> QED
  BY InitIInv, NextIInv, <1>1, PTL DEF Spec

\* An attestation buys at most one return from review, whatever else is done.
THEOREM AutomaticReturn == Spec => []OneAutomaticReturn
<1>1. IInv => OneAutomaticReturn
  BY DEF IInv, TypeOK, Spent, OneAutomaticReturn
<1> QED
  BY InitIInv, NextIInv, <1>1, PTL DEF Spec

\* No way forward passes a gated boundary whose documents were not complete, under any
\* profile table.
THEOREM GatesAnswered == Spec => []EveryGateAnswered
<1>1. IInv => EveryGateAnswered
  BY DEF IInv
<1> QED
  BY InitIInv, NextIInv, <1>1, PTL DEF Spec

\* A capture is neither moved out of the backlog nor taken while it is one.
THEOREM CapturesWait == Spec => CaptureStaysPut
<1>1. IInv /\ [Next]_vars
        => [profile = capture /\ profile' = capture
              => stage' \in {stage, backlog} /\ (taken' => taken)]_vars
  <2> SUFFICES ASSUME IInv, Next, profile = capture, profile' = capture
               PROVE  stage' \in {stage, backlog} /\ (taken' => taken)
    OBVIOUS
  <2>1. CASE \E to \in Stages, p \in Profiles,
                decision \in {"none", "closed", "promoted", "retained"},
                reason \in {"none", "given", "operator"} : UpdateItem(to, p, decision, reason)
    BY <2>1 DEF UpdateItem, DocGate
  <2>2. CASE \E to \in Stages, force \in BOOLEAN : TakeTicket(to, force)
    BY <2>2 DEF TakeTicket
  <2>3. CASE ReleaseTicket
    BY <2>3 DEF ReleaseTicket
  <2>4. CASE \E d \in Documents : WriteDocument(d) \/ Retract(d)
    BY <2>4 DEF WriteDocument, Retract
  <2>5. CASE \E verdict \in {"none", "pass", "needs-changes"} : WriteReview(verdict)
    BY <2>5 DEF WriteReview
  <2> QED
    BY <2>1, <2>2, <2>3, <2>4, <2>5 DEF Next
<1> QED
  BY InitIInv, NextIInv, <1>1, PTL DEF Spec, CaptureStaysPut
===============================================================================
