------------------------ MODULE MCPeerConnectionClient ------------------------
(***************************************************************************)
(* Instances of PeerConnectionClient for TLC.  The ids are model values    *)
(* and the specification never tells two of them apart, so safety runs use *)
(* their symmetry.                                                         *)
(***************************************************************************)
EXTENDS PeerConnectionClient, TLC

IdSymmetry == Permutations(Ids)

\* Every misbehaviour the model knows.
HostileFaults == AllFaults

\* A lossy network and a failing server, but answers that arrive whole, sockets
\* that can be dialled and names that resolve.
NetworkFaults == {"refuse", "losepoll", "error", "keepopen"}
=============================================================================
