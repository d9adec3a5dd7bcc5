----------------------------- MODULE MCFraming ------------------------------
(***************************************************************************)
(* Two types, two keys, values without a piece, with one and with two, and *)
(* data of no and of two bytes.  A packet of exactly 8 bytes stands for one*)
(* of a multiple of 16 MiB, whose length reads as too short.               *)
(***************************************************************************)
EXTENDS Framing

MCValue == {<<>>, <<"a">>, <<"a", "b">>}
MCData == {<<>>, <<"x", "y">>}

\* The condition under which the proofs exclude that a length wraps.
ASSUME RoomyInstance == Roomy(8, 2)
=============================================================================
