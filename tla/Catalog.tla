------------------------------ MODULE Catalog ------------------------------
(***************************************************************************)
(* What the extraction of a source (icarus/parsers) promises whoever reads *)
(* its output: the inputs are recorded in their order, none is left out or *)
(* taken back, and the extraction is over only when all are recorded.      *)
(***************************************************************************)
EXTENDS Naturals

CONSTANT Inputs     \* the inputs that leave a record, numbered in their order

VARIABLES recorded, finished

UpTo(n) == {i \in Inputs : i <= n}

Init == recorded = {} /\ finished = FALSE

Advance ==
    /\ ~finished /\ finished' = finished
    /\ recorded \subseteq recorded'
    /\ \E n \in Inputs \cup {0} : recorded' = UpTo(n)

Finish ==
    /\ recorded = Inputs /\ recorded' = recorded
    /\ finished' = TRUE

Spec == Init /\ [][Advance \/ Finish]_<<recorded, finished>>

=============================================================================
