----------------------------- MODULE MCRegistry -----------------------------
(* Small instances of RegistryParity for TLC: a fraction of two binary digits,  *)
(* so that four instants make a second.                                         *)
EXTENDS RegistryParity

CONSTANTS h1
MCOne == {h1}
=============================================================================
