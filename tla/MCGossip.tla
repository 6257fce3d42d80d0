------------------------------- MODULE MCGossip -------------------------------
(***************************************************************************)
(* Gossip for TLC: three nodes that are all connected.                     *)
(***************************************************************************)
EXTENDS Gossip

CONSTANTS ann, bob, cyd

PeersMC == {ann, bob, cyd}
Triangle == {{ann, bob}, {bob, cyd}, {ann, cyd}}
=============================================================================
