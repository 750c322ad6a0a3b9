------------------------------ MODULE MCDiffer ------------------------------
(* An instance of Differ for TLC: two paths, and five subjects that pairs of databases *)
(* are compared in apart.                                                              *)
EXTENDS Differ

Plain == [path : {"p1", "p2"}, sha256 : {None}, size : {1}]

Row(p, t) ==
    CASE t = "files" /\ p = "contents" ->
            [path : {"p1", "p2"}, sha256 : {"h1", "h2", None}, size : {1, 2}]
      [] t = "files" /\ p = "multisets" -> {f \in Plain : f.path = "p1"}
      [] t = "files" /\ p # "bags" -> Plain
      [] t = "binaries" /\ p = "structure" ->
            {r \in [file : {1, 2}, name : {"n1", None}, bundle : {"b1", None}] :
                r.bundle # None => r.name # None}
      [] t = "entitlements" /\ p = "structure" ->
            [binary : {1, 2}, key : {"k1"}]
      [] t = "binaries" /\ p = "subjects" ->
            [file : {1, 2}, name : {None}, bundle : {None}]
      [] t = "observations" /\ p = "subjects" ->
            [table : {"files", "binaries"}, id : {1, 2}, event : {"seen"}, properties : {"x"}]
                \cup [table : {"network"}, id : {1}, event : {"seen"}, properties : {"x"}]
      [] t = "observations" /\ p = "multisets" ->
            [table : {"files"}, id : {1}, event : {"seen"}, properties : DOMAIN Canonical]
                \cup [table : {"files"}, id : {1}, event : {None}, properties : {"x"}]
      [] t = "bags" /\ p = "bags" ->
            [key : {"c1", "c2"}, count : {0, 1, 2}, score : {None, 9}]
                \cup [key : {None}, count : {1}, score : {None}]
      [] OTHER -> {}

MCTopics == {"contents", "structure", "subjects", "multisets", "bags"}

MCRows == [p \in MCTopics |-> [t \in Tables |-> Row(p, t)]]

MCMaxRows ==
    [p \in MCTopics |-> [t \in Tables |->
        IF p = "multisets" THEN IF t = "files" THEN 1 ELSE 3 ELSE 2]]

\* x and z are one content in canonical form.
MCCanonical == [p \in {"v", "x", "y", "z"} |-> IF p = "v" THEN 1 ELSE IF p = "y" THEN 3 ELSE 2]

=============================================================================
