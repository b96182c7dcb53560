SPECIFICATION Spec
CONSTANTS
  Capacity = 2
  WireLines = 2
  MaxConn = 2
  Motions = {"DRIVE"}
  Latchers = {"watchdog", "telemetry"}
\* TLC stops at the first one it refutes: check them one at a time.
INVARIANT BrakedUntilCleared
INVARIANT BrakedUntilHeard
INVARIANT NotMovingUntilTold
