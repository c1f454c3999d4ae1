---------------------------- MODULE MCSetupWifi ----------------------------
(* SetupWifi with two access points to test.                               *)
EXTENDS SetupWifi

=============================================================================
