----------------------------- MODULE MCLifecycle -----------------------------
(* Bounded instance of VcLifecycle.  The first connection starts a packet that *)
(* it may not finish, the second only lives and dies, and the third, which     *)
(* replaces either, sends a packet and a half.                                 *)
EXTENDS VcLifecycle

MCBudget == <<1, 0, 3>>
==============================================================================
