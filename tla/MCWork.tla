-------------------------------- MODULE MCWork --------------------------------
(***************************************************************************)
(* The queues of the send thread with a few calls of each thread.          *)
(***************************************************************************)
EXTENDS WorkQueue
==============================================================================
