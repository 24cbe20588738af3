----------------------------- MODULE MCImportPaths -----------------------------
(* Small instances of ImportPaths for TLC. *)
EXTENDS ImportPaths

MCKeys == {"k", "espejote.libsonnet"}

\* With and without a dot: a key, a key of a library, one of a shared library,
\* one of a library called lib, the library that is built in.
MCStatements ==
  {<<"k">>, <<".", "k">>, <<"n", "k">>, <<".", "n", "k">>, <<"lib", "n", "k">>,
   <<"x", "n", "k">>, <<"lib", "k">>, <<"espejote.libsonnet">>,
   <<".", "espejote.libsonnet">>}

MCSegments == {"", ".", "lib", "espejote.libsonnet", "n", "k", "x"}

=============================================================================
