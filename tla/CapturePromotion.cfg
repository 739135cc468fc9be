SPECIFICATION Spec
CONSTANTS
  Profiles <- ShippedProfiles
  Documents = {"plan", "report", "proof", "questions-resolved"}
  Retractable = {"questions-resolved"}
  Requires <- ShippedRequires
  MaxRounds = 3
PROPERTIES
  PromotionIsRecorded
