------------------------------- MODULE MCClient -------------------------------
(***************************************************************************)
(* The client with two connections per channel and two channels.           *)
(***************************************************************************)
EXTENDS ClientSession

Dialling == wpc \in {"dial", "dialled", "bind", "splice", "replace"}

\* The threads, without what is out of scope: return addresses already taken and
\* the retry count of a thread that retries no more.
ThreadView ==
    <<pc, count, running,
      [t \in Threads |-> IF pc[t] \in {"stopWd", "joinWd"} THEN ret[t].join ELSE "-"],
      [t \in Threads |-> IF \/ pc[t] \in {"tdClose", "tdForget", "tdRaw"}
                            \/ pc[t] \in {"stopWd", "joinWd"} /\ ret[t].join = "tdClose"
                         THEN ret[t].down ELSE "-"],
      [t \in Threads |-> IF \/ pc[t] \in {"none", "done", "stop", "stopClose"}
                            \/ pc[t] \in {"stopWd", "joinWd"} /\ ret[t].join = "stopClose"
                         THEN 0 ELSE retry[t]],
      [t \in Threads |-> IF pc[t] = "opening" THEN target[t] ELSE 0]>>

\* Which socket is where matters to properties of histories that are Apart; in the
\* others only how many there are decides what can happen.
SocketView ==
    IF Apart
    THEN <<socks, wsock, closes, IF Dialling \/ wpc = "slots" THEN wseen ELSE 0,
           [g \in Chans |-> IF st[g] = "down" /\ live[g] = {} /\ vc # g
                            THEN <<>> ELSE conn[g]]>>
    ELSE <<Len(socks), wsock # {},
           [g \in Chans |-> IF st[g] = "down" /\ live[g] = {} /\ vc # g
                            THEN 0 ELSE Len(conn[g])]>>

\* Two states with the same view have the same future as far as the invariants and
\* WindsDown tell.
View == <<ThreadView, SocketView, vc, st, live, made, wdRunning, wdThread, wpc, wdead,
          IF Dialling THEN <<wslot, epoch - wepoch>> ELSE <<>>, udpStale, Apart>>
==============================================================================
