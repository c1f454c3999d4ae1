----------------------------- MODULE MCGateway -----------------------------
(* Gateway with the key names of the code; the cfg files choose the bounds. *)
EXTENDS Gateway

=============================================================================
