------------------------------ MODULE MCBoardRun ------------------------------
(* Two variants, two sweeps, three versions of the source: the second is too  *)
(* large for its slot.                                                        *)
EXTENDS BoardRun
=============================================================================
