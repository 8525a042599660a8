SPECIFICATION Spec
CONSTANTS
  open = open
  secret = secret
  planner = planner
  reviewer = reviewer
  NoPerson = NoPerson
  Package = {open, secret}
  Restricted = {secret}
  Person = {planner, reviewer}
  Elevated = {reviewer}
  MaxTurns = 3
  MaxUpdate = 4
  SenderOf <- MCSenderOf
  Unmentioned = {2}
  MaxCrashes = 2
  StartBurst = 2
INVARIANTS
  AtMostOnce
  ForgottenIsAccounted
  AnswersCiteVisible
PROPERTIES
  EveryUpdateMet
