-------------------------- MODULE MCRsLocalManager --------------------------
(***************************************************************************)
(* Three uris, two of which have the same file name, and three digests,    *)
(* two of which begin with the same character.                             *)
(***************************************************************************)
EXTENDS RsLocalManager

MCUri == {<<"d1", "n1">>, <<"d2", "n1">>, <<"d1", "n2">>}
MCDigest == {<<"a", "x">>, <<"a", "y">>, <<"b", "x">>}
=============================================================================
