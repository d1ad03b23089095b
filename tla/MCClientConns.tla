---------------------------- MODULE MCClientConns ----------------------------
(* ClientConns on a small instance: one client may CONNECT, the other not. *)
EXTENDS ClientConns
=============================================================================
