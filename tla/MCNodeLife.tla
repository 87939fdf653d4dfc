------------------------------- MODULE MCNodeLife -------------------------------
(* A small instance of NodeLife: slots of 4 ticks, a timeout of 5, polls every 2.  *)
EXTENDS NodeLife, TLC

MCOffsets == -2 .. 3
=================================================================================
