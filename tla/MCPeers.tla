------------------------------ MODULE MCPeers ------------------------------
(* Instances of Peers for TLC.                                             *)
EXTENDS Peers

OneEach == {<<1, 2, 1>>, <<2, 1, 1>>}
Redial1 == {<<1, 2, 1>>, <<1, 2, 2>>, <<2, 1, 1>>}
Redial2 == {<<1, 2, 1>>, <<2, 1, 1>>, <<2, 1, 2>>}
=============================================================================
