------------------------------ MODULE MCLocalVideo ------------------------------
(***************************************************************************)
(* Instances of LocalVideo for TLC.  The sizes are those of a screen, of   *)
(* the same screen turned by 90 degrees, and of a smaller one, in units.   *)
(***************************************************************************)
EXTENDS LocalVideo

ScreenSizes == {<<4, 2>>, <<2, 4>>, <<2, 2>>}
=============================================================================
