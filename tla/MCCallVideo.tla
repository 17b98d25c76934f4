------------------------------ MODULE MCCallVideo ------------------------------
(***************************************************************************)
(* An instance of CallVideo for TLC: two renderers, which are the local    *)
(* and a remote one, or a remote one and the one that replaces it; a       *)
(* camera and a track of the other side, or two of its tracks.  An empty   *)
(* renderer has the smaller of the two sizes.                              *)
(***************************************************************************)
EXTENDS CallVideo

CONSTANTS r1, r2, t1, t2

MCRenderers == {r1, r2}
MCTracks == {t1, t2}
MCSizes == {OneByOne, "large"}
=============================================================================
