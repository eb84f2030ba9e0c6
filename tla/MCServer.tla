------------------------------- MODULE MCServer -------------------------------
(***************************************************************************)
(* The server with two connections per channel and a client that makes few *)
(* connections.                                                            *)
(***************************************************************************)
EXTENDS ServerSession
==============================================================================
