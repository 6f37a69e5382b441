SPECIFICATION FairSpec
CHECK_DEADLOCK FALSE
PROPERTIES
  Settles
  NoStarvation
