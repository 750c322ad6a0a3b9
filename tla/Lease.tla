------------------------------- MODULE Lease -------------------------------
(***************************************************************************)
(* What output_lease (icarus/core/build_lock.py) promises its callers:     *)
(* code of at most one thread at a time is inside the lease of an output.  *)
(***************************************************************************)
CONSTANTS Threads, None

VARIABLE owner    \* the thread inside the lease

Acquire == owner = None /\ owner' \in Threads

\* The outermost `with` block ends, or the process dies.
Release == owner # None /\ owner' = None

Spec == owner = None /\ [][Acquire \/ Release]_owner

=============================================================================
