---------------------------- MODULE MCEventFanOut ----------------------------
(* A small instance of EventFanOut for TLC.                                *)
EXTENDS EventFanOut

CONSTANTS r1, r2, p1

=============================================================================
