---------------------------- MODULE MCConfigStore ----------------------------
(* ConfigStore with two browsers and two configurations.                   *)
EXTENDS ConfigStore

=============================================================================
