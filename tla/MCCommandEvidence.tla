------------------------- MODULE MCCommandEvidence -------------------------
(* Instances of CommandEvidence: an E-STOP, a command and a decision.      *)
EXTENDS CommandEvidence

CONSTANTS stop, cmd, dec, h1, h2

Dispatched == {stop, cmd}
Stops == {stop}
NoDecisions == {}
Decisions == {dec}
NoStops == {}
TwoHandlers == {h1, h2}
=============================================================================
