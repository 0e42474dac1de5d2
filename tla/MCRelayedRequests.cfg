CONSTANTS
  Home = "home"
  Nets = {"home", "cafe"}
  ReenrollAttempts = 2
  MaxIncidents = 2
SPECIFICATION FairSpec
INVARIANTS TypeOK BadProfileGone WorkingSurvivesRestart
PROPERTIES AppliedOnce SecretOnDisk BackOnNetwork RequestAnswered TokenTraded FirstEnrollmentEnds
CHECK_DEADLOCK FALSE
