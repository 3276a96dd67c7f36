-------------------------------- MODULE MCTcp --------------------------------
(***************************************************************************)
(* Instances of Tcp: packets of one and two bytes, all bytes different from *)
(* their neighbours.                                                        *)
(***************************************************************************)
EXTENDS Tcp

MCPayloads == {<<1>>, <<2, 3>>}
=============================================================================
