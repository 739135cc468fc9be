--------------------------- MODULE MCTicketWorkflow ---------------------------
(***************************************************************************)
(* An instance of TicketWorkflow with three of the profiles the board      *)
(* ships (profiles.ts, DEFAULT_PROFILES): the documents of a boundary that *)
(* are asked for nowhere else are one document.                            *)
(***************************************************************************)
EXTENDS TicketWorkflow

None == [b \in Boundaries |-> {}]

ShippedProfiles == {"fix", "chore", capture}

ShippedRequires ==
  [p \in ShippedProfiles |->
     CASE p = "fix"   -> [None EXCEPT ![<<"leave", preparing>>] = {"plan", "questions-resolved"},
                                      ![<<"enter", review>>] = {"report", "questions-resolved"},
                                      ![<<"enter", done>>] = {"proof", "questions-resolved"}]
       [] p = "chore" -> [None EXCEPT ![<<"leave", preparing>>] = {"plan", "questions-resolved"},
                                      ![<<"enter", done>>] = {"proof", "questions-resolved"}]
       [] p = capture -> None]
===============================================================================
