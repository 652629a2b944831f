------------------------------ MODULE PipelineMC -----------------------------
(* Samples for TLC: transfer 0 is at full scale, the others move over the  *)
(* range and wrap; the trash bits take all their values.                   *)
EXTENDS Pipeline

SomeAdc(t, j)   == (4095 * (t + 1) + 371 * t * j) % 4096
SomeTrash(t, j) == (5 * t + j) % 16
=============================================================================
