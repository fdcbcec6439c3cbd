--------------------------- MODULE Smb2PduContract ---------------------------
(***************************************************************************)
(* The request engine implements the contract of a command, as long as no  *)
(* command is a compound (Smb2Pdu!AllAborted says what compounds lose).    *)
(***************************************************************************)
EXTENDS Smb2Pdu

Context == IF phase \in {"drainOut", "drainWait"} THEN "closing"
           ELSE IF phase = "gone" THEN "closed" ELSE "open"

\* A second completion is no state of the contract.
Status == [p \in Pdu |-> IF p > alloc THEN "unused"
                         ELSE IF calls[p] = 0 THEN "pending"
                         ELSE IF calls[p] = 1 THEN "complete" ELSE "again"]

Contract == INSTANCE CommandContract WITH
    Command <- Pdu, context <- Context, status <- Status

\* Every command completes exactly once: by its reply, its timeout or the
\* destruction of the context, and destruction leaves none behind.
Implements == Contract!Spec
=============================================================================
