-------------------------------- MODULE MCSweep --------------------------------
(****************************************************************************)
(* Three modules in two kinds of corpora: two share a base name and all     *)
(* have separate directories ("a/c", "b/c" and "a/_c"), or all three have   *)
(* one directory ("a_/b", "a/_b" and "a___b"); two workers; up to two       *)
(* litmus files per module; fewer herd7 runs than litmus files; a file an   *)
(* earlier sweep left that a module writes again, or not.                   *)
(****************************************************************************)
EXTENDS Sweep

Paths ==
  {<< <<"a", "slash", "c">>, <<"b", "slash", "c">>, <<"a", "slash", "underscore", "c">> >>,
   << <<"a", "underscore", "slash", "b">>, <<"a", "slash", "underscore", "b">>,
      <<"a", "underscore", "underscore", "underscore", "b">> >>}

MCCorpora ==
  [path : Paths, litmus : {<<{1, 2}, {2, 3}, {}>>, <<{1}, {1, 2}, {3}>>}, stale : {{}, {3}}, limit : {0, 3}]

============================================================================
