----------------------------- MODULE MCResolver -----------------------------
(* An instance of Resolver for TLC: three binaries that match in a chain and a      *)
(* daemon, with scores in tenths.                                                   *)
EXTENDS Resolver, TLC

\* told: the words of the properties.
Observed(type, key, block, words, told, props) ==
    [type |-> type, key |-> key, block |-> block, words |-> words,
     indexed |-> {type} \cup words \cup told, props |-> props]

\* 3 has the name in common with 1 and 2, which differ in their digests; 2 is found
\* by the word of 1 in its properties and finds 3 by a word of its own.
FourAtoms ==
    <<Observed("binaries", "k1", "sh", {"bin"}, {"sh"},
               [name |-> "sh", sha |-> "x", size |-> 4]),
      Observed("binaries", "k2", Blank, {"opt"}, {"sh", "bin"},
               [name |-> "sh", sha |-> "y", size |-> 6]),
      Observed("binaries", "k3", "sh", {"opt"}, {"sh"}, [name |-> "sh"]),
      Observed("daemons", "k4", Unset, {"bin"}, {"sh"}, [name |-> "sh"])>>

ConnSymmetry == Permutations(Conns)

RuleWeight == [name |-> 2, sha |-> 3, size |-> 1]

=============================================================================
