--------------------------- MODULE MCOutputLease ---------------------------
(* An instance of OutputLease for TLC. *)
EXTENDS OutputLease, TLC

CONSTANTS p, q, t1, t2, u1

\* One process of two threads and one of a single thread.
TwoAndOne == (t1 :> p) @@ (t2 :> p) @@ (u1 :> q)

=============================================================================
