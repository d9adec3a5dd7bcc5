---------------------------- MODULE MCSyncEngine ----------------------------
(***************************************************************************)
(* Instances of SyncEngine.  A block holds one byte (KByte = 1), so a file *)
(* of n bytes has n blocks.                                                *)
(***************************************************************************)
EXTENDS SyncEngine

CONSTANTS p1, p2, h1, h2

Content(s, h) == [size |-> s, hash |-> h]

\* One content of three blocks, served by every peer.
OneVersion == {Content(3, h1)}
AllServeOne == [p \in Peer |-> [u \in Uri |-> Content(3, h1)]]

\* p1 serves a file that p2 has in a bigger version.
TwoVersions == {Content(2, h1), Content(3, h2)}
BiggerAtP2 == [p \in Peer |-> [u \in Uri |-> IF p = p1 THEN Content(2, h1) ELSE Content(3, h2)]]
=============================================================================
