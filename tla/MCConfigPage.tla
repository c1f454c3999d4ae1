---------------------------- MODULE MCConfigPage ----------------------------
(* ConfigPage with two browsers, one network and one password.             *)
EXTENDS ConfigPage

=============================================================================
