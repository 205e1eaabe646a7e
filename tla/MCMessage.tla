------------------------------ MODULE MCMessage ------------------------------
(***************************************************************************)
(* Small segments, so that every other pointer is far.                     *)
(***************************************************************************)
EXTENDS Canonical, TLC

MCStructs == {<<0, 0>>, <<0, 2>>, <<1, 1>>}
MCLists == {<<"byte", 9>>, <<"void", 2>>}
MCStructLists == {<<0, 1, 0>>, <<2, 1, 1>>}
MCTexts == {<<>>, <<3, 16>>}
=============================================================================
