---------------------------- MODULE MCClientWire ----------------------------
(* ClientWire on a small instance. *)
EXTENDS ClientWire
=============================================================================
