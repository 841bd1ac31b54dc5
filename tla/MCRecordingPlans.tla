--------------------------- MODULE MCRecordingPlans ---------------------------
(* A small instance of RecordingPlans for TLC.                             *)
EXTENDS RecordingPlans

CONSTANTS t1, t2
TwoTellers == {t1, t2}
===============================================================================
