----------------------------- MODULE MCPipeline -----------------------------
(* Instances of Pipeline for TLC. *)
EXTENDS Pipeline, TLC

\* create_default_pipeline; and one without `init`, which writes nothing to a built output.
SanitizedBuild == <<"init", "parser", "verify", "sanitize">>
ShortBuild     == <<"parser", "verify", "sanitize">>

Interchangeable == Permutations(Tokens) \cup Permutations(Inputs)

=============================================================================
