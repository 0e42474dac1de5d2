CONSTANTS
  Home = "home"
  Nets = {"home", "cafe"}
  ReenrollAttempts = 2
  MaxIncidents = 1
SPECIFICATION FairSpec
PROPERTY AcceptedIsAdopted
CHECK_DEADLOCK FALSE
