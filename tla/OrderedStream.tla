---------------------------- MODULE OrderedStream ----------------------------
(***************************************************************************)
(* What the receiving side of a virtual channel promises its user (the     *)
(* receive callback): every message handed to the callback has arrived     *)
(* from the network, no message is handed over twice, and messages are     *)
(* handed over in the order of their message ids.  Ids may be missing: the *)
(* channel gives up on a message that does not arrive within the reorder   *)
(* timeout.                                                                *)
(***************************************************************************)
EXTENDS Naturals, Sequences

CONSTANT MsgIds                 \* the message ids a sender may assign

VARIABLES arrived,              \* ids that reached the receiver
          out                   \* ids handed to the callback, oldest first

vars == <<arrived, out>>

Init == arrived = {} /\ out = <<>>

\* A message arrives, possibly again.
Arrive(id) == /\ arrived' = arrived \cup {id}
              /\ UNCHANGED out

\* An arrived message newer than everything handed over is handed over.
Emit(id) == /\ id \in arrived
            /\ \A i \in DOMAIN out : out[i] < id
            /\ out' = Append(out, id)
            /\ UNCHANGED arrived

Next == \E id \in MsgIds : Arrive(id) \/ Emit(id)

Spec == Init /\ [][Next]_vars
==============================================================================
