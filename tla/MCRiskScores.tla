---------------------------- MODULE MCRiskScores ----------------------------
(* Instances of RiskScores for TLC: an asset in an old snapshot and one in   *)
(* a snapshot that a reset has not listed.                                   *)
EXTENDS RiskScores

CONSTANTS old, new, role, exposure, high, low, even, sharp   \* model values

OldAndNew == <<old, new>>
JustNew   == <<new>>
=============================================================================
