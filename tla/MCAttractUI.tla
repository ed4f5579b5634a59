---------------------------- MODULE MCAttractUI ----------------------------
(* A wheel of three characters, a reel of three screens, and at most two keys *)
(* in a frame.                                                                *)
EXTENDS AttractUI

MCCharset == <<"A", "B", "C">>
=============================================================================
