------------------------------ MODULE MCIngest ------------------------------
(* An instance of Ingest for TLC: a source of four directories, of which the last   *)
(* is found in the second but comes after the third, and six files.                 *)
EXTENDS Ingest

ParentOf == [d \in 2..NDirs |-> IF d = 4 THEN 2 ELSE 1]

DirOf == <<1, 1, 2, 3, 3, 4>>

KindOf == <<"plain", "binary", "special", "plain", "binary", "plain">>

=============================================================================
