----------------------------- MODULE BoundedFifo -----------------------------
(***************************************************************************)
(* What a bounded queue between two threads promises: items come out once, *)
(* in the order they went in, and at most Bound of them are inside.        *)
(***************************************************************************)
EXTENDS Naturals, Sequences

CONSTANTS Items, Bound

VARIABLES sent,      \* every item that went in, oldest first
          received   \* every item that came out, oldest first

Init == sent = <<>> /\ received = <<>>

Put(v) ==
    /\ Len(sent) < Len(received) + Bound
    /\ sent' = Append(sent, v)
    /\ UNCHANGED received

Get ==
    /\ Len(received) < Len(sent)
    /\ received' = Append(received, sent[Len(received) + 1])
    /\ UNCHANGED sent

Next == (\E v \in Items : Put(v)) \/ Get

Spec == Init /\ [][Next]_<<sent, received>>
==============================================================================
