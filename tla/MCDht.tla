------------------------------ MODULE MCDht ------------------------------
(***************************************************************************)
(* Dht on a small instance: identifiers of three bits, three other nodes,  *)
(* all of them in bucket 0, which has room for two; one router, which also *)
(* sends queries and names the other two nodes.                            *)
(***************************************************************************)
EXTENDS Dht

Own == <<0, 0, 0>>
Others == {<<1, 0, 0>>, <<1, 0, 1>>, <<1, 1, 0>>}
FirstRouter == << <<1, 0, 0>> >>
RouterOnly == {<<1, 0, 0>>}
NotRouter == {<<1, 0, 1>>, <<1, 1, 0>>}
============================================================================
