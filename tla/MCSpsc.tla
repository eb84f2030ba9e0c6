-------------------------------- MODULE MCSpsc --------------------------------
(***************************************************************************)
(* The ring with four slots: seven items wrap both positions and fill it.   *)
(***************************************************************************)
EXTENDS SpscQueue
==============================================================================
