---------------------------- MODULE MCSerialLink ----------------------------
(* SerialLink with the sizes TLC explores.                                 *)
EXTENDS SerialLinkInv
=============================================================================
