SPECIFICATION MCSpec
CONSTANTS
  s0 = s0
  s1 = s1
  s2 = s2
  s3 = s3
  s4 = s4
  Server <- MCServer
  FirstLeaders <- MCBoth
  MaxBatch = 2
  MaxTerm = 2
  MaxInFlight = 2
  MaxCrashes = 1
SYMMETRY MCSymmetry
CHECK_DEADLOCK FALSE
INVARIANTS
  OneVoteUnlessTorn
  TicketsBacked
  OneYesPerTerm
  CampaignLeadersUnique
ACTION_CONSTRAINT MCTerms
