------------------------------ MODULE MCEdges ------------------------------
(***************************************************************************)
(* A small instance of Edges.                                              *)
(***************************************************************************)
EXTENDS Edges

MCBodies == {<<>>, <<"a", "nl", "b">>, <<"a", "nl", "b", "nl", "a">>}
MCCommands ==
  {<<"in", "out", "in", "err">>, <<"out", "err", "out", "err">>,
   <<"err", "err", "err", "out">>, <<"out", "out", "out">>, <<"in", "in", "in">>}
MCPlans ==
  {<<"user">>, <<"nobody">>, <<"c">>, <<"user", "x", "user">>, <<"">>, <<"m", "">>}
=============================================================================
