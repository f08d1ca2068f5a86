------------------------------- MODULE MCNvram -------------------------------
(***************************************************************************)
(* Nvram for TLC: contents that look like a header, like free space and    *)
(* like nothing at all.                                                    *)
(***************************************************************************)
EXTENDS Nvram

MCContents == {<<<<1, 1>>>>, <<FF, <<7, 7>>>>, <<<<0, 3>>, <<2, 1>>, FF>>}
=============================================================================
