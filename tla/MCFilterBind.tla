---------------------------- MODULE MCFilterBind ----------------------------
EXTENDS FilterBind

\* The driver is opened with the speakers there and the headset away.
MCInitial ==
    {[d \in Devices |-> IF d = "speakers" THEN [node |-> 1, port |-> 2] ELSE Absent]}
=============================================================================
