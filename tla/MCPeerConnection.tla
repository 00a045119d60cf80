-------------------------- MODULE MCPeerConnection --------------------------
(***************************************************************************)
(* A pair of a room: polls of the receiver may overlap, those of the       *)
(* dialer do not.                                                          *)
(***************************************************************************)
EXTENDS PeerConnection

MCPolls == <<{1, 2}, {1}>>

Spec == RoomInit /\ [][RoomNext]_roomVars /\ RoomFairness
=============================================================================
