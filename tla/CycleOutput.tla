---------------------------- MODULE CycleOutput ----------------------------
(***************************************************************************)
(* What the WoW64 bridge promises the PipeWire graph, whatever the host    *)
(* process does: every cycle ends, and its output ports carry either the   *)
(* block the host computed for this very cycle, taken from the half this   *)
(* cycle gathered into, or silence.  Halves alternate from cycle to cycle. *)
(***************************************************************************)
EXTENDS Integers

VARIABLES
    open,      \* a graph cycle is being processed
    answered,  \* the host has finished its block for the open cycle
    half,      \* half of the double buffer the cycle uses
    out        \* what the last cycle left on the output ports

vars == <<open, answered, half, out>>

Init ==
    /\ open = FALSE /\ answered = FALSE /\ half = 0
    /\ out = [kind |-> "silence", half |-> 0]

Begin ==
    /\ ~open /\ open' = TRUE
    /\ UNCHANGED <<answered, half, out>>

Answer ==
    /\ open /\ answered' = TRUE
    /\ UNCHANGED <<open, half, out>>

Finish ==
    /\ open /\ open' = FALSE
    /\ answered' = FALSE
    /\ \E kind \in IF answered THEN {"block", "silence"} ELSE {"silence"} :
         out' = [kind |-> kind, half |-> half]
    /\ half' = 1 - half

\* A new set of buffers starts over with half 0.
Rebind ==
    /\ ~open /\ half' = 0
    /\ UNCHANGED <<open, answered, out>>

Next == Begin \/ Answer \/ Finish \/ Rebind

Spec == Init /\ [][Next]_vars
=============================================================================
