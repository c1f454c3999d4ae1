------------------------------ MODULE MCWsHeap ------------------------------
(* WsHeap with the payload larger than the rest together, as in the code.  *)
EXTENDS WsHeap

BlockSize == [b \in Block |-> CASE b = "payload" -> 8
                                [] b = "list"    -> 2
                                [] OTHER         -> 1]

=============================================================================
