----------------------------- MODULE Partition -----------------------------
(***************************************************************************)
(* What the resolver (icarus/core/resolver.py) promises whoever reads its  *)
(* database: the resolved entities are disjoint groups of observations of  *)
(* one type, and an observation, once resolved, stays resolved.            *)
(***************************************************************************)
CONSTANTS Atoms, TypeOfAtom

VARIABLES
    observed,   \* atoms in the database
    entities    \* groups of atoms held to be the same thing

Partitions(A) ==
    {P \in SUBSET SUBSET A :
        /\ {} \notin P
        /\ \A e, f \in P : e # f => e \cap f = {}
        /\ \A e \in P : \A a, b \in e : TypeOfAtom[a] = TypeOfAtom[b]}

Init == observed = {} /\ entities = {}

\* Atoms arrive, and entities are formed, merged and split, all at once.
Change ==
    /\ observed' \in SUBSET Atoms
    /\ observed \subseteq observed'
    /\ entities' \in Partitions(observed')
    /\ UNION entities \subseteq UNION entities'

Spec == Init /\ [][Change]_<<observed, entities>>

=============================================================================
