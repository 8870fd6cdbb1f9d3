------------------------------ MODULE MCDevices ------------------------------
(* A finite instance of Devices for TLC: 1 to 3 are chosen freely, 4 is a    *)
(* letter past 'p'.  v1 names the letter that an automatic choice would also *)
(* take, v2 was added twice, v4 is only used by containers: it gets the last *)
(* free letter.                                                              *)
EXTENDS Devices, TLC

CONSTANTS v1, v2, v3, v4

VolSet == {v1, v2, v3, v4}
Flex == <<[vol |-> v3, device |-> None, mount |-> TRUE],
          [vol |-> v1, device |-> 2, mount |-> TRUE],
          [vol |-> v2, device |-> 4, mount |-> TRUE],
          [vol |-> v2, device |-> 4, mount |-> TRUE]>>
Letters == 1..4
Handlers == Permutations(Handler)
==============================================================================
