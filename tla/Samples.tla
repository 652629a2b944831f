------------------------------- MODULE Samples -------------------------------
(***************************************************************************)
(* What a buffer of samples can hold.  Transfers of the uDMA controller    *)
(* are numbered 0, 1, 2, ... and the samples of a transfer are abstracted  *)
(* to its number.                                                          *)
(***************************************************************************)
EXTENDS Integers

Zeros == -1   \* dma_buffer is a global: zero until the first transfer into it
Torn  == -2   \* part of one transfer and part of another

Contents == Nat \cup {Zeros, Torn}

(* The samples the k-th processing step delivers.  isr_dma_done increments *)
(* before it uses the counter, so buffer 2 is passed over the first time:  *)
(* the third step finds zeros and every later one the transfer before.     *)
Delivered(k) == IF k < 2 THEN k ELSE IF k = 2 THEN Zeros ELSE k - 1
=============================================================================
