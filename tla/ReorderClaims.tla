---------------------------- MODULE ReorderClaims ----------------------------
(***************************************************************************)
(* What the repository's tests, comments and docs say of the receive path  *)
(* and the code does not always do, refuted by a run.                      *)
(***************************************************************************)
EXTENDS MCReorder

\* close() "joins all VC threads" (Client.cpp).  Its notification is sent
\* without reorderMutex and is lost between the reorder thread's last test of
\* reorderRunning and its wait.
CloseReturns == (closePc = "joining") ~> (closePc = "closed")
==============================================================================
