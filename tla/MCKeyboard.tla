----------------------------- MODULE MCKeyboard -----------------------------
(* Keyboard for TLC: the constants are in the .cfg files.                  *)
EXTENDS Keyboard
=============================================================================
