--------------------------- MODULE MCDeliveryHub ---------------------------
(* Runs of two tasks.                                                      *)
EXTENDS DeliveryHub

\* Two runs of one task and one of another; one run of each.
MCTwoAndOne == <<"A", "A", "B">>
MCOneEach   == <<"A", "B">>
=============================================================================
