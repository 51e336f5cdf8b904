------------------------------ MODULE MC_Paths ------------------------------
(***************************************************************************)
(* Documents one level deeper than the helper keeps track of, with a key   *)
(* for each kind of place, the empty key, and keys that contain brackets.  *)
(***************************************************************************)
EXTENDS Paths

MCKeys == {<<"items">>, <<"title">>, <<"enclosure">>, <<"url">>, <<>>,
           <<"items", "lbracket">>, <<"items", "lbracket", "lbrace", "enclosure">>}
=============================================================================
