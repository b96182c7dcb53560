SPECIFICATION FairSpec
CONSTANTS
  Capacity = 1
  WireLines = 1
  MaxConn = 2
  Motions = {"DRIVE"}
  Latchers = {"watchdog"}
PROPERTY EventuallyBraked
PROPERTY EventuallyReleased
