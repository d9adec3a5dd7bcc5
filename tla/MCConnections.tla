---------------------------- MODULE MCConnections ---------------------------
(***************************************************************************)
(* Every connection that can be made within the bounds has a number: one   *)
(* for each peer and one more for each session that breaks or is accepted. *)
(***************************************************************************)
EXTENDS Connections

MCConn == 1 .. Cardinality(Peer) + MaxEvents
=============================================================================
