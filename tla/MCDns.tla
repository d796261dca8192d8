-------------------------------- MODULE MCDns -------------------------------
(***************************************************************************)
(* Module Dns for TLC: a name that is the beginning of two others, which   *)
(* differ in a separator only, an address in octet notation, and nothing.  *)
(***************************************************************************)
EXTENDS Dns

MCNames == {<<>>, <<"a">>, <<"a", ".", "b">>, <<"a", "-", "b">>, <<"10.0.0.1">>}
MCDotted == {<<"10.0.0.1">>}
=============================================================================
