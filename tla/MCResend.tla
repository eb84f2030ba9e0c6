------------------------------- MODULE MCResend -------------------------------
(* Bounded instance of ResendProtocol. *)
EXTENDS ResendProtocol
==============================================================================
