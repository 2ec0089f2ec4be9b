------------------------------ MODULE MCClock -------------------------------
(***************************************************************************)
(* Instances of the clock for TLC.                                         *)
(***************************************************************************)
EXTENDS Clock

\* Drifting backwards, not at all, and forwards, fast enough to reach the bound
\* between two resynchronisations.
ThreeRates == {-2, 0, 2}
=============================================================================
