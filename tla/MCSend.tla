-------------------------------- MODULE MCSend --------------------------------
(***************************************************************************)
(* The send thread with few connections, packets and faults.  The slots of *)
(* one kind are interchangeable.                                           *)
(***************************************************************************)
EXTENDS SendThread, TLC

SlotSymmetry == Permutations(DataSlots)
==============================================================================
