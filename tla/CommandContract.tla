--------------------------- MODULE CommandContract ---------------------------
(***************************************************************************)
(* What a context owes whoever issues commands on it, whatever the server, *)
(* the network and the clock do: every command issued completes once, and  *)
(* all have completed when the context is gone.                            *)
(***************************************************************************)
CONSTANT Command

VARIABLES context,   \* "open", "closing" or "closed"
          status     \* "unused", "pending" or "complete"

Init ==
    /\ context = "open"
    /\ status = [c \in Command |-> "unused"]

Issue(c) ==
    /\ context = "open" /\ status[c] = "unused"
    /\ status' = [status EXCEPT ![c] = "pending"]
    /\ UNCHANGED context

Complete(c) ==
    /\ context # "closed" /\ status[c] = "pending"
    /\ status' = [status EXCEPT ![c] = "complete"]
    /\ UNCHANGED context

Close ==
    /\ context = "open"
    /\ context' = "closing"
    /\ UNCHANGED status

Closed ==
    /\ context = "closing"
    /\ \A c \in Command : status[c] # "pending"
    /\ context' = "closed"
    /\ UNCHANGED status

Next == Close \/ Closed \/ \E c \in Command : Issue(c) \/ Complete(c)

Spec == Init /\ [][Next]_<<context, status>>
=============================================================================
