--------------------------- MODULE MCConsumerLoop ---------------------------
(* Instances of ConsumerLoop for TLC: up to two replicas, two messages.    *)
EXTENDS ConsumerLoop

CONSTANTS p1, p2, good, bad

OneProc == {p1}
TwoProcs == {p1, p2}
AllMsgs == {good, bad}
OnlyBad == {bad}
None == {}
=============================================================================
