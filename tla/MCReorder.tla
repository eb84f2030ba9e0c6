------------------------------ MODULE MCReorder ------------------------------
(* Bounded instances of ReorderThread. *)
EXTENDS ReorderThread

\* Ids 0..MaxId occur on the wire.
CONSTANT MaxId
MCMsgIds == 0..MaxId
==============================================================================
