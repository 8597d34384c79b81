------------------------------- MODULE MCRewind -------------------------------
(* Instance for TLC: a 96-byte savestate (6 cells), a ring of about three   *)
(* blocks, and three savestates whose differences are long, short and broken *)
(* into runs.                                                               *)
EXTENDS RewindTrail

MCCoreStates == { {}, 0 .. 5, {0, 2} }
=============================================================================
