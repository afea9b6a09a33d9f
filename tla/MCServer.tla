------------------------------ MODULE MCServer ------------------------------
(* PrivateProfileServer for TLC: the constants are in the .cfg files.      *)
EXTENDS PrivateProfileServer
=============================================================================
