---------------------------- MODULE SampleStream ----------------------------
(***************************************************************************)
(* What the acquisition ring promises to the thread that packs messages:   *)
(* a stream of captured transfers, delivered in order, each exactly at its *)
(* position, as long as the consumer is at most Margin transfers behind.   *)
(* A consumer that falls further behind gets anything: older, newer or     *)
(* mixed samples.  No transfer makes the stream wait.                      *)
(***************************************************************************)
EXTENDS Samples

CONSTANTS
    Margin,        \* how far behind the consumer may be
    InStepFor,     \* transfers for which the order is promised
    MaxTransfers   \* bound of the model

VARIABLES captured, delivered, last
vars == <<captured, delivered, last>>

Init ==
    /\ captured = 0
    /\ delivered = 0
    /\ last = Zeros

Capture ==
    /\ captured < MaxTransfers
    /\ captured' = captured + 1
    /\ UNCHANGED <<delivered, last>>

OnTime == captured - delivered - 1 <= Margin /\ captured < InStepFor

Deliver ==
    /\ delivered < captured
    /\ delivered' = delivered + 1
    /\ IF OnTime
          THEN last' = Delivered(delivered)
          ELSE last' \in 0 .. captured \cup {Zeros, Torn}
    /\ UNCHANGED captured

Next == Capture \/ Deliver

Spec == Init /\ [][Next]_vars /\ WF_vars(Deliver)
=============================================================================
