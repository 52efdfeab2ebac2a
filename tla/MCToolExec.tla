----------------------------- MODULE MCToolExec -----------------------------
(* Three calls of every kind in every order, a semaphore of two: batches   *)
(* of one, two and three calls, a full semaphore, every denial pattern.    *)
EXTENDS ToolExec

MCN == 3
MCMaxParallel == 2
=============================================================================
