-------------------------- MODULE MCReceiveFraming --------------------------
(* Small instances of ReceiveFraming for TLC. *)
EXTENDS ReceiveFraming

MCLetters == {"a", "b"}
=============================================================================
