--------------------------- MODULE Smb2PduProofs ---------------------------
(* Proofs about the request engine, for every number of PDUs, chain length, *)
(* credit charge and grant, and every timeout; and, without compounds, that *)
(* it implements the contract of a command.                                 *)
EXTENDS Smb2PduContract, TLAPS

USE DEF None

-----------------------------------------------------------------------------
(* Type correctness *)

\* The variables keep their types; in particular no run of the engine drives
\* the credit balance below zero, whatever compounds are sent.
THEOREM TypeCorrect == Spec => []TypeOK
<1> USE PduConstants DEF PduConstants
<1>1. Init => TypeOK
  BY DEF Init, TypeOK, Pdu
<1>2. TypeOK /\ [Next]_vars => TypeOK'
  <2> SUFFICES ASSUME TypeOK, [Next]_vars
               PROVE  TypeOK'
    OBVIOUS
  <2>1. ASSUME NEW n \in 1 .. MaxChain, NEW ch \in [1 .. n -> Charges], NEW own \in SUBSET {alloc + 1},
               Build(n, ch, own)
        PROVE  /\ alloc' \in 0 .. MaxPdu /\ alloc + 1 \in Pdu
               /\ New(n) \subseteq Pdu /\ live' \subseteq Pdu
               /\ prev' \in [Pdu -> Pdu \cup {None}] /\ charge' \in [Pdu -> Nat]
               /\ left' \in [Pdu -> 0 .. Timeout + 1] /\ owned' \subseteq Pdu
    <3>. /\ n \in Nat \ {0} /\ alloc \in Nat /\ alloc + n <= MaxPdu /\ alloc' = alloc + n
      BY <2>1 DEF Build, TypeOK
    <3>1. alloc + 1 \in Pdu /\ alloc' \in 0 .. MaxPdu /\ New(n) \subseteq Pdu
      BY DEF New, Pdu
    <3>2. live' \subseteq Pdu /\ owned' \subseteq Pdu
      BY <2>1, <3>1 DEF Build, TypeOK
    <3>3. prev' \in [Pdu -> Pdu \cup {None}]
      <4>1. \A p \in New(n) \ {alloc + 1} : p - 1 \in Pdu
        BY DEF New, Pdu
      <4> QED
        BY <2>1, <4>1 DEF Build, TypeOK
    <3>4. charge' \in [Pdu -> Nat]
      <4>1. \A p \in New(n) : p - alloc \in 1 .. n
        BY DEF New
      <4>2. \A p \in New(n) : ch[p - alloc] \in Nat
        BY <4>1
      <4> QED
        BY <2>1, <4>2 DEF Build, TypeOK
    <3>5. left' \in [Pdu -> 0 .. Timeout + 1]
      BY <2>1 DEF Build, TypeOK
    <3> QED
      BY <3>1, <3>2, <3>3, <3>4, <3>5 DEF TypeOK, Pdu
  <2>2. CASE Queue
    <3> SUFFICES ASSUME NEW n \in 1 .. MaxChain, NEW ch \in [1 .. n -> Charges],
                        NEW own \in SUBSET {alloc + 1},
                        QueueBehind(n, ch, own) \/ QueuePart(n, ch, own) \/ QueueSent(n, ch, own)
                 PROVE  TypeOK'
      BY <2>2 DEF Queue
    <3>1. CASE QueueBehind(n, ch, own)
      BY <2>1, <3>1 DEF QueueBehind, TypeOK
    <3>2. CASE QueuePart(n, ch, own)
      BY <2>1, <3>2 DEF QueuePart, TypeOK
    <3>3. CASE QueueSent(n, ch, own)
      <4>1. credits' \in Nat
        BY <3>3 DEF QueueSent, Affordable, TypeOK
      <4> QED
        BY <2>1, <3>3, <4>1 DEF QueueSent, TypeOK
    <3> QED
      BY <3>1, <3>2, <3>3
  <2>3. ASSUME NEW p \in Pdu, FreeOwned(p)
        PROVE  TypeOK'
    <3>1. /\ live' \subseteq Pdu /\ outqueue' \subseteq Pdu /\ waitqueue' \subseteq Pdu
          /\ begun' \subseteq Pdu /\ head' \in [Pdu -> Pdu]
      BY <2>3 DEF FreeOwned, Free, TypeOK
    <3> QED
      BY <2>3, <3>1 DEF FreeOwned, TypeOK, fixed
  <2>4. CASE Tick \/ Service
    BY <2>4 DEF Tick, Service, TypeOK, fixed, reading
  <2>5. CASE Reading
    <3>1. \A g \in Grants : Granted(g) => credits' \in Nat
      BY DEF Granted, TypeOK
    <3>2. CASE ReadPending \/ \E m \in Pdu : ReadUnknown(m) \/ ReadReply(m) \/ ReadOutOfOrder(m)
      <4>1. credits' \in Nat
        BY <3>1, <3>2 DEF ReadPending, ReadUnknown, ReadReply, ReadOutOfOrder
      <4> QED
        BY <3>2, <4>1 DEF ReadPending, ReadUnknown, ReadReply, ReadOutOfOrder, TypeOK, fixed
    <3>6. CASE ReadNotification
      <4>1. alloc' \in 0 .. MaxPdu /\ alloc + 1 \in Pdu
        BY <3>6 DEF ReadNotification, TypeOK, Pdu
      <4>2. credits' \in Nat
        BY <3>1, <3>6 DEF ReadNotification
      <4> QED
        BY <3>6, <4>1, <4>2 DEF ReadNotification, TypeOK, fixed
    <3>3. CASE Deliver
      <4>1. calls' \in [Pdu -> Nat]
        BY <3>3 DEF Deliver, Called, TypeOK
      <4> QED
        BY <3>3, <4>1 DEF Deliver, TypeOK, fixed, reading
    <3>4. CASE Delivered
      <4>1. /\ live' \subseteq Pdu /\ outqueue' \subseteq Pdu /\ waitqueue' \subseteq Pdu
            /\ begun' \subseteq Pdu /\ head' \in [Pdu -> Pdu]
        BY <3>4 DEF Delivered, Free, TypeOK
      <4> QED
        BY <3>4, <4>1 DEF Delivered, TypeOK, fixed
    <3>5. CASE ReadBlocked \/ ReadFailed
      BY <3>5 DEF ReadBlocked, ReadFailed, TypeOK, fixed, reading
    <3> QED
      BY <2>5, <3>2, <3>3, <3>4, <3>5, <3>6 DEF Reading
  <2>6. CASE Writing
    BY <2>6 DEF Writing, WriteStops, WritePart, WriteRest, Writable, Chain, TypeOK, fixed, reading
  <2>7. CASE Sweeping
    <3>1. CASE SweepDone \/ \E p \in Pdu : SweepOut(p) \/ SweepWait(p)
      BY <3>1 DEF SweepDone, SweepOut, SweepWait, Called, TypeOK, fixed, reading
    <3>2. CASE Swept
      <4>1. /\ live' \subseteq Pdu /\ outqueue' \subseteq Pdu /\ waitqueue' \subseteq Pdu
            /\ begun' \subseteq Pdu /\ head' \in [Pdu -> Pdu]
        BY <3>2 DEF Swept, Free, TypeOK
      <4> QED
        BY <3>2, <4>1 DEF Swept, TypeOK, fixed, reading
    <3> QED
      BY <2>7, <3>1, <3>2 DEF Sweeping
  <2>8. CASE Destroy \/ Draining
    <3>1. CASE Destroy \/ Drained
      BY <3>1 DEF Destroy, Drained, TypeOK, fixed, rest
    <3>2. CASE DrainCurrent
      <4>1. /\ live' \subseteq Pdu /\ outqueue' \subseteq Pdu /\ waitqueue' \subseteq Pdu
            /\ begun' \subseteq Pdu /\ head' \in [Pdu -> Pdu] /\ calls' \in [Pdu -> Nat]
        BY <3>2 DEF DrainCurrent, Called, Free, TypeOK
      <4> QED
        BY <3>2, <4>1 DEF DrainCurrent, TypeOK, fixed, rest
    <3>3. ASSUME NEW p \in Pdu, DrainOut(p) \/ DrainWait(p)
          PROVE  TypeOK'
      <4>1. /\ live' \subseteq Pdu /\ outqueue' \subseteq Pdu /\ waitqueue' \subseteq Pdu
            /\ begun' \subseteq Pdu /\ head' \in [Pdu -> Pdu]
        BY <3>3 DEF DrainOut, DrainWait, Free, TypeOK
      <4> QED
        BY <3>3, <4>1 DEF DrainOut, DrainWait, Called, TypeOK, fixed, rest
    <3> QED
      BY <2>8, <3>1, <3>2, <3>3 DEF Draining
  <2>9. CASE Done \/ UNCHANGED vars
    BY <2>9 DEF Done, vars, TypeOK
  <2> QED
    BY <2>2, <2>3, <2>4, <2>5, <2>6, <2>7, <2>8, <2>9 DEF Next
<1>3. QED
  BY <1>1, <1>2, PTL DEF Spec

-----------------------------------------------------------------------------
(* The inductive invariant, for the safe uses *)

\* A PDU at the head of its own chain and not on the out queue has nothing
\* chained behind it: smb2_free_pdu() frees that PDU only.
LEMMA LoneChain ==
    ASSUME TypeOK, Chains, NEW p \in Pdu, p \notin outqueue, head[p] = p
    PROVE  Chain(p) = {p} /\ \A q \in Pdu : head[q] = p <=> q = p
  BY DEF Chains, Chain, TypeOK

\* What smb2_free_pdu() then takes away is that PDU, from both queues.
LEMMA FreeLone ==
    ASSUME TypeOK, Chains, NEW p \in Pdu, p \notin outqueue, head[p] = p,
           NEW out, NEW wait, Free(p, out, wait)
    PROVE  /\ live' = live \ {p} /\ outqueue' = out \ {p} /\ waitqueue' = wait \ {p}
           /\ head' = head
<1>1. Chain(p) = {p} /\ \A q \in Pdu : head[q] = p <=> q = p
  BY LoneChain
<1>2. head' = head
  <2>1. \A q \in Pdu : head'[q] = head[q]
    BY <1>1 DEF Free
  <2>2. head \in [Pdu -> Pdu] /\ head' = [q \in Pdu |-> head'[q]]
    BY DEF Free, TypeOK
  <2> QED
    BY <2>1, <2>2
<1> QED
  BY <1>1, <1>2 DEF Free

\* Queueing a command, from the application or from a running callback.
LEMMA QueueInv == ASSUME TypeOK, SafeUse, IInv, Queue PROVE IInv'
<1> USE PduConstants DEF PduConstants
<1> SUFFICES ASSUME NEW n \in 1 .. MaxChain, NEW ch \in [1 .. n -> Charges],
                    NEW own \in SUBSET {alloc + 1},
                    QueueBehind(n, ch, own) \/ QueuePart(n, ch, own) \/ QueueSent(n, ch, own)
             PROVE  IInv'
  BY DEF Queue
<1>1. /\ n \in Nat \ {0} /\ alloc \in Nat /\ alloc + n <= MaxPdu
      /\ alloc' = alloc + n /\ live' = live \cup New(n)
      /\ prev' = [p \in Pdu |-> IF p \in New(n) \ {alloc + 1} THEN p - 1 ELSE prev[p]]
      /\ UNCHANGED <<phase, ret, recv, running, rpdu, calls>>
  BY DEF QueueBehind, QueuePart, QueueSent, Build, TypeOK
<1>2. /\ alloc + 1 \in New(n) /\ New(n) \subseteq Pdu
      /\ \A p \in New(n) : p > alloc /\ p <= alloc + n /\ p # None
      /\ \A p \in Pdu : p > alloc' => p \notin New(n) /\ p > alloc
      /\ MaxChain = 1 => New(n) = {alloc + 1}
  BY <1>1 DEF New, Pdu
<1>3. \A p \in New(n) : p \notin live /\ p \notin outqueue \cup waitqueue /\ p # rpdu
                        /\ p # running /\ calls[p] = 0 /\ head[p] = p
  BY <1>2 DEF IInv, Chains, Places
<1>4. CASE QueueBehind(n, ch, own) \/ QueuePart(n, ch, own)
  <2>1. /\ head' = [p \in Pdu |-> IF p \in New(n) THEN alloc + 1 ELSE head[p]]
        /\ outqueue' = outqueue \cup {alloc + 1} /\ waitqueue' = waitqueue
    BY <1>4 DEF QueueBehind, QueuePart, Affordable
  <2>2. Places'
    BY <1>1, <1>2, <1>3, <2>1 DEF IInv, Places
  <2>3. Chains'
    BY <1>1, <1>2, <1>3, <2>1 DEF IInv, Chains, Places, TypeOK
  <2>4. Callbacks'
    BY <1>1, <1>2, <1>3, <2>1 DEF IInv, Callbacks
  <2> QED
    BY <2>2, <2>3, <2>4 DEF IInv
<1>5. CASE QueueSent(n, ch, own)
  <2>1. head' = head /\ outqueue' = outqueue /\ waitqueue' = waitqueue \cup New(n)
    BY <1>5 DEF QueueSent
  <2>2. Places'
    BY <1>1, <1>2, <1>3, <2>1 DEF IInv, Places
  <2>3. Chains'
    BY <1>1, <1>2, <1>3, <2>1 DEF IInv, Chains, Places, TypeOK
  <2>4. Callbacks'
    BY <1>1, <1>2, <1>3, <2>1 DEF IInv, Callbacks
  <2> QED
    BY <2>2, <2>3, <2>4 DEF IInv
<1> QED
  BY <1>4, <1>5

\* Receiving: a PDU moves from the wait queue to smb2->pdu, is called back, is freed.
LEMMA ReadingInv == ASSUME TypeOK, SafeUse, IInv, Reading PROVE IInv'
<1> USE PduConstants DEF PduConstants
<1>1. CASE ReadPending
  BY <1>1 DEF ReadPending, IInv, Places, Chains, Callbacks, fixed
<1>2. CASE ReadNotification
  <2>1. alloc + 1 \in Pdu /\ alloc \in Nat /\ alloc + 1 \notin live
        /\ alloc + 1 \notin outqueue \cup waitqueue /\ calls[alloc + 1] = 0
        /\ head[alloc + 1] = alloc + 1 /\ rpdu = None
    BY <1>2 DEF ReadNotification, HeaderDue, IInv, Places, Chains, TypeOK, Pdu
  <2>2. Places'
    BY <1>2, <2>1 DEF ReadNotification, HeaderDue, IInv, Places, Pdu
  <2>3. Chains'
    <3>1. /\ alloc' = alloc + 1 /\ live' = live \cup {alloc + 1} /\ rpdu' = alloc + 1
          /\ head' = head /\ prev' = prev /\ calls' = calls
          /\ outqueue' = outqueue /\ waitqueue' = waitqueue
      BY <1>2 DEF ReadNotification, fixed
    <3>2. \A q \in Pdu : q > alloc' => q > alloc /\ q # alloc + 1
      BY <2>1, <3>1 DEF Pdu
    <3> QED
      BY <2>1, <3>1, <3>2 DEF IInv, Chains
  <2>4. Callbacks'
    BY <1>2, <2>1 DEF ReadNotification, IInv, Callbacks
  <2> QED
    BY <2>2, <2>3, <2>4 DEF IInv
<1>3. ASSUME NEW m \in Pdu, ReadUnknown(m)
      PROVE  IInv'
  BY <1>3 DEF ReadUnknown, HeaderDue, IInv, Places, Chains, Callbacks, fixed
<1>4. ASSUME NEW m \in Pdu, ReadReply(m)
      PROVE  IInv'
  <2>1. Places'
    BY <1>4 DEF ReadReply, HeaderDue, IInv, Places, Pdu
  <2>2. Chains'
    BY <1>4 DEF ReadReply, HeaderDue, IInv, Places, Chains, fixed
  <2>3. Callbacks'
    BY <1>4 DEF ReadReply, HeaderDue, IInv, Callbacks
  <2> QED
    BY <2>1, <2>2, <2>3 DEF IInv
<1>5. ASSUME NEW m \in Pdu, ReadOutOfOrder(m)
      PROVE  IInv'
  <2>1. Timeout = 0
    BY <1>5 DEF ReadOutOfOrder, SafeUse, IInv, Chains, Places, TypeOK, Pdu
  <2>2. Places'
    <3>1. /\ rpdu' = m /\ m \in waitqueue /\ m # None /\ phase' = "sweepOut" /\ ret' = -1
          /\ running = None /\ UNCHANGED <<running, live, outqueue, waitqueue>>
      BY <1>5 DEF ReadOutOfOrder, HeaderDue, Pdu
    <3> QED
      BY <2>1, <3>1 DEF IInv, Places
  <2>3. Chains'
    BY <1>5 DEF ReadOutOfOrder, HeaderDue, IInv, Places, Chains, fixed
  <2>4. Callbacks'
    BY <1>5 DEF ReadOutOfOrder, HeaderDue, IInv, Callbacks
  <2> QED
    BY <2>2, <2>3, <2>4 DEF IInv
<1>6. CASE Deliver
  <2>1. rpdu \in Pdu /\ calls[rpdu] = 0 /\ rpdu \notin outqueue \cup waitqueue /\ head[rpdu] = rpdu
    BY <1>6 DEF Deliver, IInv, Places, Chains, Callbacks, TypeOK, Pdu
  <2>2. Places'
    BY <1>6, <2>1 DEF Deliver, IInv, Places, reading
  <2>3. Chains'
    BY <1>6, <2>1 DEF Deliver, Called, IInv, Places, Chains, reading, fixed, TypeOK
  <2>4. Callbacks'
    BY <1>6, <2>1 DEF Deliver, Called, IInv, Callbacks, reading, TypeOK
  <2> QED
    BY <2>2, <2>3, <2>4 DEF IInv
<1>7. CASE Delivered
  <2>1. running \in Pdu /\ running = rpdu /\ rpdu \notin outqueue \cup waitqueue /\ head[rpdu] = rpdu
    BY <1>7 DEF Delivered, IInv, Places, Chains, TypeOK, Pdu
  <2>2. /\ phase = "read" /\ phase' = phase /\ running' = None /\ rpdu' = None /\ recv' = "header"
        /\ UNCHANGED <<alloc, prev, calls>>
    BY <1>7 DEF Delivered, fixed
  <2>3. /\ live \ {running} \subseteq live' /\ live' \subseteq live
        /\ outqueue' = outqueue /\ waitqueue' = waitqueue /\ head' = head
    <3>1. CASE running \in owned
      BY <1>7, <3>1 DEF Delivered
    <3>2. CASE running \notin owned
      <4>1. Free(running, outqueue, waitqueue)
        BY <1>7, <3>2 DEF Delivered
      <4>2. /\ live' = live \ {running} /\ outqueue' = outqueue \ {running}
            /\ waitqueue' = waitqueue \ {running} /\ head' = head
        BY <4>1, <2>1, FreeLone DEF IInv
      <4> QED
        BY <4>2, <2>1
    <3> QED
      BY <3>1, <3>2
  <2>4. Places'
    <3>1. None \notin outqueue \cup waitqueue
      BY DEF TypeOK, Pdu
    <3> QED
      BY <3>1, <2>1, <2>2, <2>3 DEF IInv, Places
  <2>5. Chains'
    BY <2>1, <2>2, <2>3 DEF IInv, Chains, Pdu
  <2>6. Callbacks'
    BY <2>1, <2>2, <2>3 DEF IInv, Callbacks, Pdu
  <2> QED
    BY <2>4, <2>5, <2>6 DEF IInv
<1>8. CASE ReadBlocked \/ ReadFailed
  <2>1. /\ phase = "read" /\ running = None
        /\ phase' \in {"write", "sweepOut"} /\ (ret' = ret \/ (ret' = -1 /\ phase' = "sweepOut"))
        /\ UNCHANGED <<recv, rpdu, running, alloc, live, head, prev, outqueue, waitqueue, calls>>
    BY <1>8 DEF ReadBlocked, ReadFailed, reading, fixed
  <2>2. Places'
    <3>1. recv \in {"header", "body"}
      BY DEF TypeOK
    <3> QED
      BY <3>1, <2>1 DEF IInv, Places
  <2>3. Chains'
    BY <2>1 DEF IInv, Chains
  <2>4. Callbacks'
    BY <2>1 DEF IInv, Callbacks
  <2> QED
    BY <2>2, <2>3, <2>4 DEF IInv
<1> QED
  BY <1>1, <1>2, <1>3, <1>4, <1>5, <1>6, <1>7, <1>8 DEF Reading

\* Releasing a PDU the application was handed: its callback has run, so it is
\* on no queue, in no chain, and not being received.
LEMMA FreeOwnedInv == ASSUME TypeOK, SafeUse, IInv, NEW p \in Pdu, FreeOwned(p) PROVE IInv'
<1> USE PduConstants DEF PduConstants
<1>1. /\ phase = "app" /\ calls[p] > 0 /\ Free(p, outqueue, waitqueue)
      /\ UNCHANGED <<phase, ret, recv, running, alloc, prev, rpdu, calls>>
  BY DEF FreeOwned, SafeUse, fixed
<1>2. running = None
  BY <1>1 DEF IInv, Places
<1>3. p \notin outqueue \cup waitqueue /\ p # rpdu /\ p # None /\ head[p] = p
  <2>1. p # None /\ calls[p] # 0
    BY <1>1 DEF Pdu
  <2>2. p \notin outqueue \cup waitqueue /\ p # rpdu
    BY <1>2, <2>1 DEF IInv, Callbacks
  <2>3. head[p] = p
    BY <2>1 DEF IInv, Chains
  <2> QED
    BY <2>1, <2>2, <2>3
<1>4. /\ live' = live \ {p} /\ outqueue' = outqueue \ {p}
      /\ waitqueue' = waitqueue \ {p} /\ head' = head
  BY <1>1, <1>3, FreeLone DEF IInv
<1>5. outqueue' = outqueue /\ waitqueue' = waitqueue
  BY <1>3, <1>4
<1>6. Places'
  BY <1>1, <1>2, <1>3, <1>4, <1>5 DEF IInv, Places
<1>7. Chains'
  BY <1>1, <1>3, <1>4, <1>5 DEF IInv, Chains
<1>8. Callbacks'
  BY <1>1, <1>5 DEF IInv, Callbacks
<1> QED
  BY <1>6, <1>7, <1>8 DEF IInv

\* Steps that move no PDU: the clock, the start of a service call, destruction's
\* first and last step, stuttering.
LEMMA QuietInv ==
    ASSUME TypeOK, IInv, Tick \/ Service \/ Destroy \/ Drained \/ Done \/ UNCHANGED vars
    PROVE  IInv'
<1>1. UNCHANGED <<recv, running, alloc, live, head, prev, outqueue, waitqueue, rpdu, calls>>
  BY DEF Tick, Service, Destroy, Drained, Done, vars, reading, rest, fixed
<1>2. \/ phase' = phase /\ ret' = ret
      \/ phase = "app" /\ phase' \in {"read", "write", "sweepOut", "drainOut"}
      \/ phase = "failed" /\ phase' = "drainOut" /\ ret' = ret
      \/ phase = "drainWait" /\ phase' = "gone"
  BY DEF Tick, Service, Destroy, Drained, Done, vars, rest
<1>3. Places'
  <2>1. recv \in {"header", "body"}
    BY DEF TypeOK
  <2>2. CASE phase' = phase /\ ret' = ret
    BY <1>1, <2>2 DEF IInv, Places
  <2>3. CASE phase = "app" /\ phase' \in {"read", "write", "sweepOut", "drainOut"}
    BY <1>1, <2>1, <2>3 DEF IInv, Places
  <2>4. CASE phase = "failed" /\ phase' = "drainOut" /\ ret' = ret
    BY <1>1, <2>4 DEF IInv, Places
  <2>5. CASE phase = "drainWait" /\ phase' = "gone"
    BY <1>1, <2>5 DEF IInv, Places
  <2> QED
    BY <1>2, <2>2, <2>3, <2>4, <2>5
<1>4. Chains'
  BY <1>1 DEF IInv, Chains
<1>5. Callbacks'
  BY <1>1 DEF IInv, Callbacks
<1> QED
  BY <1>3, <1>4, <1>5 DEF IInv

\* Writing: a whole chain moves from the out queue to the wait queue.
LEMMA WritingInv == ASSUME TypeOK, IInv, Writing PROVE IInv'
<1>1. phase = "write" /\ running = None /\ rpdu \notin waitqueue
  BY DEF Writing, WriteStops, WritePart, WriteRest, Writable, IInv, Places
<1>2. UNCHANGED <<recv, rpdu, running, alloc, live, prev, calls>>
  BY DEF Writing, WriteStops, WritePart, WriteRest, reading, fixed
<1>3. CASE WriteStops
  <2>1. phase' = "sweepOut" /\ UNCHANGED <<head, outqueue, waitqueue>>
    BY <1>3 DEF WriteStops
  <2>2. Places'
    <3>1. recv \in {"header", "body"}
      BY DEF TypeOK
    <3> QED
      BY <1>1, <1>2, <2>1, <3>1 DEF IInv, Places
  <2>3. Chains' /\ Callbacks'
    BY <1>2, <2>1 DEF IInv, Chains, Callbacks
  <2> QED
    BY <2>2, <2>3 DEF IInv
<1>4. ASSUME NEW p \in Pdu, WritePart(p)
      PROVE  IInv'
  <2>1. UNCHANGED <<phase, ret, head, outqueue, waitqueue>>
    BY <1>4 DEF WritePart
  <2>2. Places'
    BY <1>2, <2>1 DEF IInv, Places
  <2>3. Chains' /\ Callbacks'
    BY <1>2, <2>1 DEF IInv, Chains, Callbacks
  <2> QED
    BY <2>2, <2>3 DEF IInv
<1>5. ASSUME NEW p \in Pdu, WriteRest(p)
      PROVE  IInv'
  <2>1. /\ p \in outqueue /\ phase' = phase /\ ret' = ret
        /\ outqueue' = outqueue \ {p} /\ waitqueue' = waitqueue \cup Chain(p)
        /\ head' = [q \in Pdu |-> IF head[q] = p THEN q ELSE head[q]]
    BY <1>5 DEF WriteRest, Writable, First
  <2>2. /\ \A q \in Chain(p) : /\ q \in Pdu /\ head[q] = p /\ q \in live /\ q # rpdu /\ calls[q] = 0
                              /\ q \notin outqueue'
        /\ \A q \in Pdu : head[q] = p => q \in Chain(p)
    BY <2>1 DEF IInv, Places, Chains, Callbacks, Chain
  <2>3. None \notin waitqueue' /\ None \notin outqueue'
    BY <2>1, <2>2 DEF TypeOK, Pdu
  <2>4. Places'
    BY <1>1, <1>2, <2>1, <2>2, <2>3 DEF IInv, Places
  <2>5. Chains'
    BY <1>2, <2>1, <2>2 DEF IInv, Chains
  <2>6. Callbacks'
    BY <1>2, <2>1, <2>2 DEF IInv, Callbacks
  <2> QED
    BY <2>4, <2>5, <2>6 DEF IInv
<1> QED
  BY <1>3, <1>4, <1>5 DEF Writing

\* The timeout sweep. It runs only with a timeout, hence without compounds.
LEMMA SweepingInv == ASSUME TypeOK, SafeUse, IInv, Sweeping PROVE IInv'
<1> USE PduConstants DEF PduConstants
<1>0. UNCHANGED <<ret, recv, rpdu, alloc, prev>>
  BY DEF Sweeping, SweepOut, SweepWait, Swept, SweepDone, reading, fixed
<1>1. ASSUME NEW p \in Pdu, SweepOut(p) \/ SweepWait(p)
      PROVE  IInv'
  <2>1. /\ Timeout > 0 /\ running = None /\ running' = p /\ p \in outqueue \cup waitqueue
        /\ phase \in {"sweepOut", "sweepWait"} /\ calls' = Called(p)
        /\ outqueue' \subseteq outqueue /\ waitqueue' \subseteq waitqueue
        /\ p \notin outqueue' \cup waitqueue'
        /\ UNCHANGED <<phase, live, head>>
    BY <1>1 DEF SweepOut, SweepWait, First, Expired, IInv, Places
  <2>2. \A q \in Pdu : head[q] = q
    BY <2>1 DEF SafeUse, IInv, Chains
  <2>3. p # rpdu /\ p \in live /\ p # None /\ calls[p] = 0 /\ ~ (p > alloc)
    BY <2>1 DEF IInv, Places, Chains, Callbacks, Pdu
  <2>4. Places'
    BY <1>0, <2>1, <2>3 DEF IInv, Places
  <2>5. Chains'
    BY <1>0, <2>1, <2>2, <2>3 DEF IInv, Chains, Called
  <2>6. Callbacks'
    <3>1. \A q \in Pdu : q # None
      BY DEF Pdu
    <3> QED
      BY <1>0, <2>1, <2>3, <3>1 DEF IInv, Callbacks, Called, TypeOK
  <2> QED
    BY <2>4, <2>5, <2>6 DEF IInv
<1>2. CASE Swept
  <2>1. /\ phase \in {"sweepOut", "sweepWait"} /\ running # None /\ running' = None
        /\ Free(running, outqueue, waitqueue) /\ UNCHANGED <<phase, calls>>
    BY <1>2 DEF Swept
  <2>2. running \in Pdu /\ running # rpdu /\ running \notin outqueue \cup waitqueue
        /\ head[running] = running
    BY <2>1 DEF IInv, Places, Chains, SafeUse, TypeOK
  <2>3. /\ live' = live \ {running} /\ outqueue' = outqueue \ {running}
        /\ waitqueue' = waitqueue \ {running} /\ head' = head
    BY <2>1, <2>2, FreeLone DEF IInv
  <2>4. outqueue' = outqueue /\ waitqueue' = waitqueue
    BY <2>2, <2>3
  <2>5. Places'
    <3>1. None \notin outqueue \cup waitqueue
      BY DEF TypeOK, Pdu
    <3> QED
      BY <1>0, <2>1, <2>2, <2>3, <2>4, <3>1 DEF IInv, Places
  <2>6. Chains'
    <3>1. \A q \in Pdu : head[q] = q
      BY <2>1 DEF IInv, Places, Chains, SafeUse
    <3> QED
      BY <1>0, <2>1, <2>3, <2>4, <3>1 DEF IInv, Chains
  <2>7. Callbacks'
    BY <1>0, <2>1, <2>2, <2>4 DEF IInv, Callbacks
  <2> QED
    BY <2>5, <2>6, <2>7 DEF IInv
<1>3. CASE SweepDone
  <2>1. /\ running = None /\ UNCHANGED <<running, live, head, outqueue, waitqueue, calls>>
        /\ \/ phase = "sweepOut" /\ phase' = "sweepWait"
           \/ phase = "sweepWait" /\ ret = -1 /\ phase' = "failed"
           \/ phase = "sweepWait" /\ ret = 0 /\ phase' = "app"
    BY <1>3 DEF SweepDone, TypeOK
  <2>2. Places'
    BY <1>0, <2>1 DEF IInv, Places
  <2>3. Chains' /\ Callbacks'
    BY <1>0, <2>1 DEF IInv, Chains, Callbacks
  <2> QED
    BY <2>2, <2>3 DEF IInv
<1> QED
  BY <1>1, <1>2, <1>3 DEF Sweeping

\* Destruction: out queue, then smb2->pdu, then wait queue, each called back and freed.
LEMMA DrainingInv == ASSUME TypeOK, IInv, Draining PROVE IInv'
<1>0. running = None /\ UNCHANGED <<running, ret, recv, alloc, prev>>
  BY DEF Draining, DrainOut, DrainWait, DrainCurrent, Drained, rest, fixed, IInv, Places
<1>1. ASSUME NEW p \in Pdu, DrainOut(p)
      PROVE  IInv'
  <2>1. /\ phase = "drainOut" /\ p \in outqueue /\ calls' = Called(p) /\ UNCHANGED <<phase, rpdu>>
        /\ Free(p, outqueue \ {p}, waitqueue)
    BY <1>1 DEF DrainOut, First
  <2>2. /\ live' = live \ Chain(p) /\ outqueue' = (outqueue \ {p}) \ Chain(p)
        /\ waitqueue' = waitqueue \ Chain(p)
        /\ head' = [q \in Pdu |-> IF head[q] = p THEN q ELSE head[q]]
    BY <2>1 DEF Free
  <2>3. /\ \A q \in Pdu : q \in Chain(p) <=> head[q] = p
        /\ head[p] = p /\ calls[p] = 0 /\ p # rpdu /\ p # running /\ ~ (p > alloc)
    BY <1>0, <2>1 DEF IInv, Places, Chains, Callbacks, Chain, Pdu
  <2>4. rpdu \notin Chain(p) /\ None \notin Chain(p)
    BY <2>1, <2>3 DEF IInv, Places, Chains, Chain, Pdu
  <2>5. Places'
    BY <1>0, <2>1, <2>2, <2>4 DEF IInv, Places
  <2>6. Chains'
    BY <1>0, <2>1, <2>2, <2>3 DEF IInv, Places, Chains, Called, TypeOK
  <2>7. Callbacks'
    BY <1>0, <2>1, <2>2, <2>3 DEF IInv, Callbacks, Called, TypeOK
  <2> QED
    BY <2>5, <2>6, <2>7 DEF IInv
<1>2. CASE DrainCurrent
  <2>1. /\ phase = "drainOut" /\ phase' = "drainWait" /\ outqueue = {} /\ rpdu' = None
    BY <1>2 DEF DrainCurrent
  <2>2. CASE rpdu = None
    <3>1. UNCHANGED <<live, head, outqueue, waitqueue, calls>>
      BY <1>2, <2>2 DEF DrainCurrent
    <3>2. Places'
      BY <1>0, <2>1, <2>2, <3>1 DEF IInv, Places
    <3>3. Chains' /\ Callbacks'
      BY <1>0, <2>1, <2>2, <3>1 DEF IInv, Chains, Callbacks
    <3> QED
      BY <3>2, <3>3 DEF IInv
  <2>3. CASE rpdu # None
    <3>1. calls' = Called(rpdu) /\ Free(rpdu, outqueue, waitqueue)
      BY <1>2, <2>3 DEF DrainCurrent
    <3>2. rpdu \in Pdu /\ rpdu \notin outqueue /\ head[rpdu] = rpdu /\ calls[rpdu] = 0
          /\ ~ (rpdu > alloc) /\ \A q \in Pdu : head[q] = q
      BY <1>0, <2>1, <2>3 DEF IInv, Places, Chains, Callbacks, TypeOK
    <3>3. /\ live' = live \ {rpdu} /\ outqueue' = {} /\ waitqueue' = waitqueue \ {rpdu}
          /\ head' = head
      BY <2>1, <3>1, <3>2, FreeLone DEF IInv
    <3>4. None \notin waitqueue
      BY DEF TypeOK, Pdu
    <3>5. Places'
      BY <1>0, <2>1, <3>3, <3>4 DEF IInv, Places
    <3>6. Chains'
      BY <1>0, <2>1, <3>1, <3>2, <3>3 DEF IInv, Chains, Called
    <3>7. Callbacks'
      BY <1>0, <2>1, <3>1, <3>2, <3>3 DEF IInv, Callbacks, Called, TypeOK, Pdu
    <3> QED
      BY <3>5, <3>6, <3>7 DEF IInv
  <2> QED
    BY <2>2, <2>3
<1>3. ASSUME NEW p \in Pdu, DrainWait(p)
      PROVE  IInv'
  <2>1. /\ phase = "drainWait" /\ p \in waitqueue /\ calls' = Called(p) /\ UNCHANGED <<phase, rpdu>>
        /\ Free(p, outqueue, waitqueue \ {p})
    BY <1>3 DEF DrainWait, First
  <2>2. /\ rpdu = None /\ p \notin outqueue /\ head[p] = p /\ calls[p] = 0 /\ ~ (p > alloc)
    BY <2>1 DEF IInv, Places, Chains, Callbacks
  <2>3. /\ live' = live \ {p} /\ outqueue' = outqueue \ {p}
        /\ waitqueue' = (waitqueue \ {p}) \ {p} /\ head' = head
    BY <2>1, <2>2, FreeLone DEF IInv
  <2>4. None \notin outqueue \cup waitqueue /\ p # None
    BY DEF TypeOK, Pdu
  <2>5. Places'
    BY <1>0, <2>1, <2>2, <2>3, <2>4 DEF IInv, Places
  <2>6. Chains'
    BY <1>0, <2>1, <2>2, <2>3 DEF IInv, Chains, Called
  <2>7. Callbacks'
    BY <1>0, <2>1, <2>2, <2>3, <2>4 DEF IInv, Callbacks, Called, TypeOK
  <2> QED
    BY <2>5, <2>6, <2>7 DEF IInv
<1> QED
  BY <1>1, <1>2, <1>3, QuietInv DEF Draining

\* In every safe use, each PDU is where the engine expects it and whatever can
\* still be called back has not been: the invariant the next three rest on.
THEOREM EngineInvariant == ASSUME SafeUse PROVE Spec => []IInv
<1>1. Init => IInv
  <2> SUFFICES ASSUME Init PROVE IInv
    OBVIOUS
  <2>1. Places
    BY DEF Init, Places
  <2>2. Chains /\ Callbacks
    BY DEF Init, Chains, Callbacks
  <2> QED
    BY <2>1, <2>2 DEF IInv
<1>2. TypeOK /\ IInv /\ [Next]_vars => IInv'
  <2> SUFFICES ASSUME TypeOK, IInv, [Next]_vars
               PROVE  IInv'
    OBVIOUS
  <2>1. CASE Queue
    BY <2>1, QueueInv
  <2>2. CASE \E p \in Pdu : FreeOwned(p)
    BY <2>2, FreeOwnedInv
  <2>3. CASE Reading
    BY <2>3, ReadingInv
  <2>4. CASE Writing
    BY <2>4, WritingInv
  <2>5. CASE Sweeping
    BY <2>5, SweepingInv
  <2>6. CASE Draining
    BY <2>6, DrainingInv
  <2>7. CASE Tick \/ Service \/ Destroy \/ Done \/ UNCHANGED vars
    BY <2>7, QuietInv
  <2> QED
    BY <2>1, <2>2, <2>3, <2>4, <2>5, <2>6, <2>7 DEF Next
<1> QED
  BY <1>1, <1>2, TypeCorrect, PTL DEF Spec

\* No interleaving of replies, timeouts, queueing from callbacks, release by
\* the caller and destruction leaves a freed PDU on a queue, in a queued chain,
\* in smb2->pdu or under a running callback.
THEOREM NothingDangles == ASSUME SafeUse PROVE Spec => []NoDangling
<1>1. TypeOK /\ IInv => NoDangling
  <2> SUFFICES ASSUME TypeOK, IInv PROVE NoDangling
    OBVIOUS
  <2>1. ASSUME NEW p \in Pdu, head[p] \in outqueue
        PROVE  p \in live
    BY <2>1 DEF IInv, Places, Chains
  <2> QED
    BY <2>1 DEF IInv, Places, NoDangling
<1> QED
  BY <1>1, TypeCorrect, EngineInvariant, PTL

\* A callback runs at most once for each PDU: a duplicated or late reply, a
\* timeout and the destruction of the context never complete a command twice.
THEOREM CalledOnce == ASSUME SafeUse PROVE Spec => []AtMostOnce
<1>1. IInv => AtMostOnce
  BY DEF IInv, Callbacks, AtMostOnce
<1> QED
  BY <1>1, EngineInvariant, PTL

\* When the next header is due no PDU is left in smb2->pdu: the smb2_free_pdu()
\* of a leftover in smb2_read_data() is never reached in a safe use.
THEOREM NoneLeftOver == ASSUME SafeUse PROVE Spec => []NoLeftover
<1>1. IInv => NoLeftover
  BY DEF IInv, Places, NoLeftover, HeaderDue
<1> QED
  BY <1>1, EngineInvariant, PTL

-----------------------------------------------------------------------------
(* Compounds, when the context has no timeout *)

\* Each PDU of a compound but the first follows another: it is queued behind the same head, it
\* waits no longer than that other, and it is received and called back after it.
Following ==
    /\ running # None => calls[running] > 0
    /\ \A p \in Pdu :
        /\ p > alloc => prev[p] = None
        /\ prev[p] # None => prev[p] <= alloc
        /\ prev[p] # None /\ ~ Gone =>
             /\ calls[p] > 0 => calls[prev[p]] > 0
             /\ p \in waitqueue => prev[p] \in waitqueue \cup {rpdu} \/ calls[prev[p]] > 0
             /\ p = rpdu /\ p \notin waitqueue => calls[prev[p]] > 0
             /\ head[p] \in outqueue => head[prev[p]] = head[p]

\* Only the caller frees what it has to free.
OwnedKept == ~ Gone => owned \subseteq live

\* The chain with bytes on the wire is the first one to be written.
BegunFirst == ~ Gone => \A p \in begun : First(p, outqueue)

Untimed == Following /\ OwnedKept /\ BegunFirst

\* Steps that move no PDU and call nobody back.
LEMMA QuietUntimed ==
    ASSUME Untimed, Gone => Gone',
           UNCHANGED <<running, alloc, live, head, prev, owned, outqueue, waitqueue, rpdu, begun, calls>>
    PROVE  Untimed'
<1>1. Following'
  BY DEF Untimed, Following
<1>2. OwnedKept' /\ BegunFirst'
  BY DEF Untimed, OwnedKept, BegunFirst, First
<1> QED
  BY <1>1, <1>2 DEF Untimed

\* In destruction nothing is promised any more.
LEMMA GoneUntimed ==
    ASSUME Untimed, Gone', running = None, UNCHANGED <<running, alloc, prev>>
    PROVE  Untimed'
BY DEF Untimed, Following, OwnedKept, BegunFirst

LEMMA QueueUntimed == ASSUME TypeOK, SafeUse, IInv, Untimed, Queue PROVE Untimed'
<1> USE PduConstants DEF PduConstants
<1> SUFFICES ASSUME NEW n \in 1 .. MaxChain, NEW ch \in [1 .. n -> Charges],
                    NEW own \in SUBSET {alloc + 1},
                    QueueBehind(n, ch, own) \/ QueuePart(n, ch, own) \/ QueueSent(n, ch, own)
             PROVE  Untimed'
  BY DEF Queue
<1>1. /\ n \in Nat \ {0} /\ alloc \in Nat /\ alloc + n <= MaxPdu /\ MayQueue
      /\ alloc' = alloc + n /\ live' = live \cup New(n) /\ owned' = owned \cup own
      /\ prev' = [p \in Pdu |-> IF p \in New(n) \ {alloc + 1} THEN p - 1 ELSE prev[p]]
      /\ UNCHANGED <<phase, running, rpdu, calls>>
  BY DEF QueueBehind, QueuePart, QueueSent, Build, TypeOK
<1>2. /\ alloc + 1 \in New(n) /\ New(n) \subseteq Pdu
      /\ \A p \in New(n) : p > alloc /\ p <= alloc + n /\ p # None
      /\ \A p \in Pdu : p > alloc' => p \notin New(n) /\ p > alloc
      /\ \A p \in Pdu : p <= alloc => p <= alloc' /\ p \notin New(n) /\ ~ p > alloc
      /\ \A p \in New(n) \ {alloc + 1} : p - 1 \in New(n) /\ p - 1 <= alloc'
      /\ \A p \in Pdu : p > alloc \/ p <= alloc
  BY <1>1 DEF New, Pdu
<1>3. \A p \in New(n) : /\ p \notin live /\ p \notin outqueue \cup waitqueue /\ p # rpdu
                        /\ p # running /\ calls[p] = 0 /\ head[p] = p /\ prev[p] = None
  BY <1>2 DEF IInv, Chains, Places, Untimed, Following
<1>4. ~ Gone /\ ~ Gone'
  BY <1>1 DEF MayQueue, Gone, IInv, Places
<1>5. \A p \in Pdu : /\ p \in New(n) \ {alloc + 1} => prev'[p] = p - 1
                     /\ p \notin New(n) \ {alloc + 1} => prev'[p] = prev[p]
  BY <1>1
<1>6. \A p \in Pdu : prev'[p] # None /\ p \notin New(n) =>
                       prev'[p] = prev[p] /\ prev[p] \in Pdu /\ prev[p] \notin New(n)
  BY <1>2, <1>5 DEF Untimed, Following, TypeOK
<1>7. \A p \in Pdu : p \in New(n) /\ prev'[p] # None => prev'[p] \in New(n) /\ prev'[p] <= alloc'
  BY <1>2, <1>3, <1>5
<1>8. OwnedKept'
  BY <1>1, <1>2, <1>4 DEF Untimed, OwnedKept
<1>9. /\ running' # None => calls'[running'] > 0
      /\ \A p \in Pdu : /\ p > alloc' => prev'[p] = None
                        /\ prev'[p] # None => prev'[p] <= alloc'
  BY <1>1, <1>2, <1>5, <1>6, <1>7 DEF Untimed, Following
<1>10. CASE QueueBehind(n, ch, own) \/ QueuePart(n, ch, own)
  <2>1. /\ head' = [p \in Pdu |-> IF p \in New(n) THEN alloc + 1 ELSE head[p]]
        /\ outqueue' = outqueue \cup {alloc + 1} /\ waitqueue' = waitqueue
    BY <1>10 DEF QueueBehind, QueuePart, Affordable
  <2>2. ASSUME NEW p \in Pdu, prev'[p] # None
        PROVE  /\ calls'[p] > 0 => calls'[prev'[p]] > 0
               /\ p \in waitqueue' => prev'[p] \in waitqueue' \cup {rpdu'} \/ calls'[prev'[p]] > 0
               /\ p = rpdu' /\ p \notin waitqueue' => calls'[prev'[p]] > 0
               /\ head'[p] \in outqueue' => head'[prev'[p]] = head'[p]
    <3>1. CASE p \in New(n)
      BY <1>1, <1>2, <1>3, <1>7, <2>1, <2>2, <3>1
    <3>2. CASE p \notin New(n)
      <4>1. /\ prev'[p] = prev[p] /\ prev[p] \in Pdu /\ prev[p] \notin New(n) /\ prev[p] # None
        BY <1>6, <2>2, <3>2
      <4>2. head'[p] = head[p] /\ head'[prev[p]] = head[prev[p]] /\ head[p] # alloc + 1
        <5>1. head'[p] = head[p] /\ head'[prev[p]] = head[prev[p]]
          BY <2>1, <3>2, <4>1
        <5>2. head[p] = p \/ head[p] \in outqueue
          BY DEF IInv, Chains
        <5> QED
          BY <1>2, <1>3, <3>2, <5>1, <5>2
      <4> QED
        BY <1>1, <1>4, <2>1, <4>1, <4>2 DEF Untimed, Following
    <3> QED
      BY <3>1, <3>2
  <2>3. Following'
    BY <1>9, <2>2 DEF Following
  <2>4. BegunFirst'
    <3>1. CASE QueueBehind(n, ch, own)
      <4>1. begun' = begun
        BY <3>1 DEF QueueBehind
      <4>2. \A p \in outqueue : p <= alloc
        BY <1>2 DEF IInv, Places, Chains, TypeOK
      <4>3. \A p \in outqueue : p <= alloc + 1
        BY <1>1, <4>2 DEF TypeOK, Pdu
      <4> QED
        BY <1>4, <2>1, <4>1, <4>3 DEF Untimed, BegunFirst, First
    <3>2. CASE QueuePart(n, ch, own)
      <4>1. outqueue = {} /\ begun' = begun \cup {alloc + 1}
        BY <3>2 DEF QueuePart, Affordable
      <4>2. begun = {}
        BY <1>4, <4>1 DEF Untimed, BegunFirst, First
      <4> QED
        BY <1>1, <2>1, <4>1, <4>2 DEF BegunFirst, First
    <3> QED
      BY <1>10, <3>1, <3>2
  <2> QED
    BY <1>8, <2>3, <2>4 DEF Untimed
<1>11. CASE QueueSent(n, ch, own)
  <2>1. /\ head' = head /\ outqueue' = outqueue /\ waitqueue' = waitqueue \cup New(n)
        /\ begun' = begun
    BY <1>11 DEF QueueSent
  <2>2. ASSUME NEW p \in Pdu, prev'[p] # None
        PROVE  /\ calls'[p] > 0 => calls'[prev'[p]] > 0
               /\ p \in waitqueue' => prev'[p] \in waitqueue' \cup {rpdu'} \/ calls'[prev'[p]] > 0
               /\ p = rpdu' /\ p \notin waitqueue' => calls'[prev'[p]] > 0
               /\ head'[p] \in outqueue' => head'[prev'[p]] = head'[p]
    <3>1. CASE p \in New(n)
      BY <1>1, <1>2, <1>3, <1>7, <2>1, <2>2, <3>1
    <3>2. CASE p \notin New(n)
      <4>1. /\ prev'[p] = prev[p] /\ prev[p] # None
        BY <1>6, <2>2, <3>2
      <4> QED
        BY <1>1, <1>4, <2>1, <3>2, <4>1 DEF Untimed, Following
    <3> QED
      BY <3>1, <3>2
  <2>3. Following'
    BY <1>9, <2>2 DEF Following
  <2>4. BegunFirst'
    BY <1>4, <2>1 DEF Untimed, BegunFirst, First
  <2> QED
    BY <1>8, <2>3, <2>4 DEF Untimed
<1> QED
  BY <1>10, <1>11

\* Freeing a PDU that was called back and is on no queue leaves all others where they are.
LEMMA FreeUntimed ==
    ASSUME TypeOK, IInv, Untimed, NEW p \in Pdu, p \notin outqueue \cup waitqueue, head[p] = p,
           p \notin owned', owned' \subseteq owned, Free(p, outqueue, waitqueue),
           running' \in {running, None}, rpdu' = rpdu \/ (rpdu' = None /\ calls[rpdu] > 0),
           ~ Gone, UNCHANGED <<alloc, prev, calls>>
    PROVE  Untimed'
<1>1. /\ live' = live \ {p} /\ outqueue' = outqueue /\ waitqueue' = waitqueue /\ head' = head
  BY FreeLone DEF IInv
<1>2. begun' \subseteq begun
  BY DEF Free
<1>3. \A q \in Pdu : q # None
  BY DEF Pdu
<1>4. Following'
  BY <1>1, <1>3 DEF Untimed, Following
<1>5. OwnedKept'
  BY <1>1 DEF Untimed, OwnedKept
<1>6. BegunFirst'
  BY <1>1, <1>2 DEF Untimed, BegunFirst, First
<1> QED
  BY <1>4, <1>5, <1>6 DEF Untimed

LEMMA FreeOwnedUntimed ==
    ASSUME TypeOK, SafeUse, IInv, Untimed, NEW p \in Pdu, FreeOwned(p)
    PROVE  Untimed'
<1>1. /\ phase = "app" /\ calls[p] > 0 /\ Free(p, outqueue, waitqueue) /\ owned' = owned \ {p}
      /\ UNCHANGED <<phase, running, alloc, prev, rpdu, calls>>
  BY DEF FreeOwned, SafeUse, fixed
<1>2. running = None /\ ~ Gone
  BY <1>1 DEF IInv, Places, Gone
<1>3. p \notin outqueue \cup waitqueue /\ head[p] = p
  <2>1. p # None /\ calls[p] # 0
    BY <1>1 DEF Pdu
  <2>2. p \notin outqueue \cup waitqueue
    BY <1>2, <2>1 DEF IInv, Callbacks
  <2>3. head[p] = p
    BY <2>1 DEF IInv, Chains
  <2> QED
    BY <2>2, <2>3
<1> QED
  BY <1>1, <1>2, <1>3, FreeUntimed

\* A header names the PDU that is received next.
LEMMA HeaderUntimed ==
    ASSUME TypeOK, SafeUse, IInv, Untimed,
           NEW m \in Pdu, ReadUnknown(m) \/ ReadReply(m) \/ ReadOutOfOrder(m)
    PROVE  Untimed'
<1>1. /\ phase = "read" /\ rpdu = None /\ running = None /\ ~ Gone
      /\ UNCHANGED <<running, alloc, live, head, prev, owned, outqueue, begun, calls>>
  BY DEF ReadUnknown, ReadReply, ReadOutOfOrder, HeaderDue, IInv, Places, Gone, fixed
<1>2. \A q \in Pdu : q # None
  BY DEF Pdu
<1>3. CASE ReadUnknown(m)
  <2>1. rpdu' = rpdu /\ waitqueue' = waitqueue /\ Gone' = Gone
    BY <1>1, <1>3 DEF ReadUnknown, Gone
  <2> QED
    BY <1>1, <2>1, QuietUntimed
<1>4. CASE ReadReply(m) \/ ReadOutOfOrder(m)
  <2>1. /\ m \in waitqueue /\ rpdu' = m
        /\ \/ waitqueue' = waitqueue \ {m} /\ prev[m] \notin waitqueue
           \/ waitqueue' = waitqueue
    BY <1>4 DEF ReadReply, ReadOutOfOrder
  <2>2. Following'
    <3>1. ASSUME NEW p \in Pdu, prev[p] # None
          PROVE  /\ p \in waitqueue' => prev[p] \in waitqueue' \cup {m} \/ calls[prev[p]] > 0
                 /\ p = m /\ p \notin waitqueue' => calls[prev[p]] > 0
      <4>1. p \in waitqueue => prev[p] \in waitqueue \cup {rpdu} \/ calls[prev[p]] > 0
        BY <1>1, <3>1 DEF Untimed, Following
      <4>2. p \in waitqueue => prev[p] \in waitqueue \/ calls[prev[p]] > 0
        BY <1>1, <3>1, <4>1
      <4> QED
        BY <2>1, <4>2
    <3> QED
      BY <1>1, <2>1, <3>1 DEF Untimed, Following
  <2>3. OwnedKept' /\ BegunFirst'
    BY <1>1 DEF Untimed, OwnedKept, BegunFirst, First
  <2> QED
    BY <2>2, <2>3 DEF Untimed
<1> QED
  BY <1>3, <1>4

LEMMA ReadingUntimed == ASSUME TypeOK, SafeUse, IInv, Untimed, Reading PROVE Untimed'
<1> USE PduConstants DEF PduConstants
<1>0. \A q \in Pdu : q # None
  BY DEF Pdu
<1>1. CASE ReadPending \/ ReadBlocked \/ ReadFailed
  <2>1. /\ ~ Gone
        /\ UNCHANGED <<running, alloc, live, head, prev, owned, outqueue, waitqueue, rpdu, begun, calls>>
    BY <1>1 DEF ReadPending, ReadBlocked, ReadFailed, HeaderDue, Gone, reading, fixed
  <2> QED
    BY <2>1, QuietUntimed
<1>2. CASE ReadNotification
  <2>1. /\ alloc' = alloc + 1 /\ live' = live \cup {alloc + 1} /\ rpdu' = alloc + 1 /\ rpdu = None
        /\ alloc \in Nat /\ alloc + 1 \in Pdu /\ ~ Gone
        /\ UNCHANGED <<running, head, prev, owned, outqueue, waitqueue, begun, calls>>
    BY <1>2 DEF ReadNotification, HeaderDue, IInv, Places, TypeOK, Pdu, Gone, fixed
  <2>2. \A p \in Pdu : /\ p > alloc' => p > alloc
                       /\ p <= alloc => p <= alloc'
                       /\ p = alloc + 1 => p > alloc
    BY <2>1 DEF Pdu
  <2>3. Following'
    <3>1. prev[alloc + 1] = None
      BY <2>1, <2>2 DEF Untimed, Following
    <3>2. \A p \in Pdu : prev[p] # None => p # alloc + 1 /\ prev[p] <= alloc /\ prev[p] \in Pdu
      BY <3>1 DEF Untimed, Following, TypeOK
    <3> QED
      BY <1>0, <2>1, <2>2, <3>2 DEF Untimed, Following
  <2>4. OwnedKept' /\ BegunFirst'
    BY <2>1 DEF Untimed, OwnedKept, BegunFirst, First
  <2> QED
    BY <2>3, <2>4 DEF Untimed
<1>3. ASSUME NEW m \in Pdu, ReadUnknown(m) \/ ReadReply(m) \/ ReadOutOfOrder(m)
      PROVE  Untimed'
  BY <1>3, HeaderUntimed
<1>4. CASE Deliver
  <2>1. rpdu \in Pdu /\ rpdu \notin waitqueue /\ ~ Gone
    BY <1>4 DEF Deliver, IInv, Places, TypeOK, Gone
  <2>2. /\ running' = rpdu /\ calls' = Called(rpdu)
        /\ UNCHANGED <<alloc, live, head, prev, owned, outqueue, waitqueue, rpdu, begun>>
    BY <1>4 DEF Deliver, reading, fixed
  <2>3. \A q \in Pdu : /\ calls[q] \in Nat /\ calls'[q] >= calls[q]
                       /\ calls'[q] = IF q = rpdu THEN calls[q] + 1 ELSE calls[q]
    BY <2>2 DEF Called, TypeOK
  <2>4. Following'
    <3>1. calls'[rpdu] > 0
      BY <2>1, <2>3
    <3>2. ASSUME NEW p \in Pdu, prev[p] # None
          PROVE  /\ calls'[p] > 0 => calls'[prev[p]] > 0
                 /\ p \in waitqueue => prev[p] \in waitqueue \cup {rpdu} \/ calls'[prev[p]] > 0
                 /\ p = rpdu /\ p \notin waitqueue => calls'[prev[p]] > 0
                 /\ head[p] \in outqueue => head[prev[p]] = head[p]
      <4>1. prev[p] \in Pdu
        BY <3>2 DEF TypeOK
      <4>2. calls[prev[p]] > 0 => calls'[prev[p]] > 0
        BY <2>3, <4>1
      <4>3. /\ calls[p] > 0 => calls[prev[p]] > 0
            /\ p \in waitqueue => prev[p] \in waitqueue \cup {rpdu} \/ calls[prev[p]] > 0
            /\ p = rpdu /\ p \notin waitqueue => calls[prev[p]] > 0
            /\ head[p] \in outqueue => head[prev[p]] = head[p]
        BY <2>1, <3>2 DEF Untimed, Following
      <4>4. calls'[p] > 0 => calls[p] > 0 \/ p = rpdu
        BY <2>3
      <4> QED
        BY <2>1, <4>2, <4>3, <4>4
    <3> QED
      BY <2>2, <3>1, <3>2 DEF Untimed, Following
  <2>5. OwnedKept' /\ BegunFirst'
    BY <2>1, <2>2 DEF Untimed, OwnedKept, BegunFirst, First
  <2> QED
    BY <2>4, <2>5 DEF Untimed
<1>5. CASE Delivered
  <2>1. /\ running \in Pdu /\ running = rpdu /\ rpdu \notin outqueue \cup waitqueue
        /\ head[rpdu] = rpdu /\ ~ Gone /\ calls[rpdu] > 0
    BY <1>5 DEF Delivered, IInv, Places, Chains, TypeOK, Pdu, Gone, Untimed, Following
  <2>2. running' = None /\ rpdu' = None /\ UNCHANGED <<phase, alloc, prev, owned, calls>>
    BY <1>5 DEF Delivered, fixed
  <2>3. CASE running \notin owned
    <3>1. Free(running, outqueue, waitqueue)
      BY <1>5, <2>3 DEF Delivered
    <3> QED
      BY <2>1, <2>2, <2>3, <3>1, FreeUntimed
  <2>4. CASE running \in owned
    <3>1. UNCHANGED <<live, head, outqueue, waitqueue, begun>>
      BY <1>5, <2>4 DEF Delivered
    <3>2. Following'
      BY <1>0, <2>1, <2>2, <3>1 DEF Untimed, Following
    <3>3. OwnedKept' /\ BegunFirst'
      BY <2>1, <2>2, <3>1 DEF Untimed, OwnedKept, BegunFirst, First
    <3> QED
      BY <3>2, <3>3 DEF Untimed
  <2> QED
    BY <2>3, <2>4
<1> QED
  BY <1>1, <1>2, <1>3, <1>4, <1>5 DEF Reading

LEMMA WritingUntimed == ASSUME TypeOK, IInv, Untimed, Writing PROVE Untimed'
<1>1. /\ phase = "write" /\ ~ Gone
      /\ UNCHANGED <<rpdu, running, alloc, live, prev, owned, calls>>
  BY DEF Writing, WriteStops, WritePart, WriteRest, Writable, reading, fixed, Gone
<1>2. CASE WriteStops
  <2>1. UNCHANGED <<head, outqueue, waitqueue, begun>>
    BY <1>2 DEF WriteStops
  <2> QED
    BY <1>1, <2>1, QuietUntimed
<1>3. ASSUME NEW p \in Pdu, WritePart(p)
      PROVE  Untimed'
  <2>1. First(p, outqueue) /\ begun' = begun \cup {p} /\ UNCHANGED <<head, outqueue, waitqueue>>
    BY <1>3 DEF WritePart, Writable
  <2>2. Following' /\ OwnedKept'
    BY <1>1, <2>1 DEF Untimed, Following, OwnedKept
  <2>3. BegunFirst'
    BY <1>1, <2>1 DEF Untimed, BegunFirst, First
  <2> QED
    BY <2>2, <2>3 DEF Untimed
<1>4. ASSUME NEW p \in Pdu, WriteRest(p)
      PROVE  Untimed'
  <2>1. /\ First(p, outqueue) /\ begun' = begun \ {p}
        /\ outqueue' = outqueue \ {p} /\ waitqueue' = waitqueue \cup Chain(p)
        /\ head' = [q \in Pdu |-> IF head[q] = p THEN q ELSE head[q]]
    BY <1>4 DEF WriteRest, Writable
  <2>2. ASSUME NEW q \in Pdu, prev[q] # None
        PROVE  /\ q \in waitqueue' => prev[q] \in waitqueue' \cup {rpdu} \/ calls[prev[q]] > 0
               /\ q = rpdu /\ q \notin waitqueue' => calls[prev[q]] > 0
               /\ head'[q] \in outqueue' => head'[prev[q]] = head'[q]
    <3>1. /\ q \in waitqueue => prev[q] \in waitqueue \cup {rpdu} \/ calls[prev[q]] > 0
          /\ q = rpdu /\ q \notin waitqueue => calls[prev[q]] > 0
          /\ head[q] \in outqueue => head[prev[q]] = head[q]
          /\ prev[q] \in Pdu
      BY <1>1, <2>2 DEF Untimed, Following, TypeOK
    <3>2. CASE head[q] = p
      <4>1. prev[q] \in Chain(p) /\ q \in Chain(p)
        BY <2>1, <3>1, <3>2 DEF First, Chain
      <4>2. head'[q] = q /\ q \notin outqueue'
        BY <2>1, <3>2 DEF IInv, Chains
      <4> QED
        BY <2>1, <4>1, <4>2
    <3>3. CASE head[q] # p
      <4>1. q \notin Chain(p) /\ head'[q] = head[q]
        BY <2>1, <3>3 DEF Chain
      <4>2. head[q] \in outqueue => head'[prev[q]] = head[q]
        BY <2>1, <3>1, <3>3
      <4> QED
        BY <2>1, <3>1, <4>1, <4>2
    <3> QED
      BY <3>2, <3>3
  <2>3. Following'
    BY <1>1, <2>2 DEF Untimed, Following
  <2>4. OwnedKept'
    BY <1>1 DEF Untimed, OwnedKept
  <2>5. BegunFirst'
    <3>1. outqueue \subseteq Pdu /\ begun \subseteq Pdu
      BY DEF TypeOK
    <3>2. ASSUME NEW q \in begun PROVE q = p
      <4>1. q \in outqueue /\ p \in outqueue /\ q <= p /\ p <= q
        BY <1>1, <2>1 DEF Untimed, BegunFirst, First
      <4> QED
        BY <3>1, <4>1 DEF Pdu
    <3> QED
      BY <2>1, <3>2 DEF BegunFirst
  <2> QED
    BY <2>3, <2>4, <2>5 DEF Untimed
<1> QED
  BY <1>2, <1>3, <1>4 DEF Writing

\* Without a timeout the sweep finds nothing.
LEMMA SweepingUntimed ==
    ASSUME TypeOK, IInv, Untimed, Timeout = 0, Sweeping
    PROVE  Untimed'
<1>1. \A p \in Pdu : ~ SweepOut(p) /\ ~ SweepWait(p)
  BY DEF SweepOut, SweepWait, First, Expired
<1>2. ~ Swept
  BY DEF Swept, IInv, Places
<1>3. SweepDone
  BY <1>1, <1>2 DEF Sweeping
<1>4. /\ ~ Gone
      /\ UNCHANGED <<running, alloc, live, head, prev, owned, outqueue, waitqueue, rpdu, begun, calls>>
  BY <1>3 DEF SweepDone, Gone, reading, fixed
<1> QED
  BY <1>4, QuietUntimed

LEMMA UntimedStep ==
    ASSUME SafeUse, Timeout = 0, TypeOK, IInv, Untimed, [Next]_vars
    PROVE  Untimed'
<1>1. CASE Queue
  BY <1>1, QueueUntimed
<1>2. CASE \E p \in Pdu : FreeOwned(p)
  BY <1>2, FreeOwnedUntimed
<1>3. CASE Tick \/ Service
  <2>1. /\ ~ Gone
        /\ UNCHANGED <<running, alloc, live, head, prev, owned, outqueue, waitqueue, rpdu, begun, calls>>
    BY <1>3 DEF Tick, Service, Gone, reading, fixed
  <2> QED
    BY <2>1, QuietUntimed
<1>4. CASE Reading
  BY <1>4, ReadingUntimed
<1>5. CASE Writing
  BY <1>5, WritingUntimed
<1>6. CASE Sweeping
  BY <1>6, SweepingUntimed
<1>7. CASE Destroy \/ Draining
  <2>1. Gone' /\ UNCHANGED <<running, alloc, prev>>
    BY <1>7 DEF Destroy, Draining, DrainOut, DrainWait, DrainCurrent, Drained, rest, fixed, Gone
  <2>2. running = None
    BY <1>7 DEF Destroy, Draining, DrainOut, DrainWait, DrainCurrent, Drained, IInv, Places
  <2> QED
    BY <2>1, <2>2, GoneUntimed
<1>8. CASE Done \/ UNCHANGED vars
  <2>1. /\ Gone' = Gone
        /\ UNCHANGED <<running, alloc, live, head, prev, owned, outqueue, waitqueue, rpdu, begun, calls>>
    BY <1>8 DEF Done, vars, fixed, Gone
  <2> QED
    BY <2>1, QuietUntimed
<1> QED
  BY <1>1, <1>2, <1>3, <1>4, <1>5, <1>6, <1>7, <1>8 DEF Next

LEMMA UntimedInvariant == ASSUME SafeUse, Timeout = 0 PROVE Spec => [](TypeOK /\ IInv /\ Untimed)
<1>1. Init => Untimed
  BY DEF Init, Untimed, Following, OwnedKept, BegunFirst
<1>2. TypeOK /\ IInv /\ Untimed /\ [Next]_vars => Untimed'
  BY UntimedStep
<1> QED
  BY <1>1, <1>2, TypeCorrect, EngineInvariant, PTL DEF Spec

\* In a compound the callbacks run in the order of the commands, as long as the context is being
\* serviced: a reply out of order ends the service, and the chain of a compound is written whole.
THEOREM CompoundsInOrder == ASSUME SafeUse, Timeout = 0 PROVE Spec => []CompoundOrderInService
<1>1. Untimed => CompoundOrderInService
  BY DEF Untimed, Following, CompoundOrderInService
<1> QED
  BY <1>1, UntimedInvariant, PTL

\* A PDU the caller has yet to free is still allocated: neither its reply nor another command
\* frees it.
THEOREM OwnedStayLive == ASSUME SafeUse, Timeout = 0 PROVE Spec => []OwnedLive
<1>1. Untimed => OwnedLive
  BY DEF Untimed, OwnedKept, OwnedLive, Gone
<1> QED
  BY <1>1, UntimedInvariant, PTL

\* What was begun is no longer begun only once it is written.
LEMMA BegunUntilWritten ==
    ASSUME SafeUse, Timeout = 0, TypeOK, IInv, Untimed, Next, ~ Gone',
           NEW p \in begun, p \notin begun'
    PROVE  p \in waitqueue'
<1>1. p \in Pdu
  BY DEF TypeOK
<1>2. ~ Gone => p \in outqueue /\ head[p] = p
  BY <1>1 DEF Untimed, BegunFirst, First, IInv, Chains
<1>3. ASSUME NEW q \in Pdu, ~ Gone, q \notin outqueue, head[q] = q, begun' = begun \ Chain(q)
      PROVE  FALSE
  <2>1. Chain(q) = {q}
    BY <1>3, LoneChain DEF IInv
  <2> QED
    BY <1>2, <1>3, <2>1
<1>4. ASSUME NEW q \in Pdu, FreeOwned(q) PROVE FALSE
  <2>1. /\ ~ Gone /\ running = None /\ calls[q] # 0 /\ begun' = begun \ Chain(q)
    BY <1>4 DEF FreeOwned, SafeUse, Free, Gone, IInv, Places, TypeOK
  <2>2. q \notin outqueue /\ head[q] = q
    BY <2>1 DEF IInv, Callbacks, Chains
  <2> QED
    BY <1>3, <2>1, <2>2
<1>5. CASE Delivered
  <2>1. /\ running \in Pdu /\ running \notin outqueue /\ head[running] = running /\ ~ Gone
    BY <1>5 DEF Delivered, IInv, Places, Chains, TypeOK, Pdu, Gone
  <2>2. begun' = begun \/ begun' = begun \ Chain(running)
    BY <1>5 DEF Delivered, Free
  <2> QED
    BY <1>3, <2>1, <2>2
<1>6. CASE Swept
  BY <1>6 DEF Swept, IInv, Places
<1>7. ASSUME NEW q \in Pdu, WriteRest(q) PROVE p \in waitqueue'
  <2>1. ~ Gone /\ begun' = begun \ {q} /\ waitqueue' = waitqueue \cup Chain(q)
    BY <1>7 DEF WriteRest, Writable, Gone
  <2> QED
    BY <1>1, <1>2, <2>1 DEF Chain
<1>8. CASE Draining
  BY <1>8 DEF Draining, DrainOut, DrainWait, DrainCurrent, Drained, Gone
<1>9. CASE Queue
  BY <1>9 DEF Queue, QueueBehind, QueuePart, QueueSent
<1>10. CASE Tick \/ Service \/ Destroy \/ Done
  BY <1>10 DEF Tick, Service, Destroy, Done, vars
<1>11. CASE \/ ReadPending \/ ReadNotification \/ Deliver \/ ReadBlocked \/ ReadFailed
            \/ \E m \in Pdu : ReadUnknown(m) \/ ReadReply(m) \/ ReadOutOfOrder(m)
  BY <1>11 DEF ReadPending, ReadNotification, Deliver, ReadBlocked, ReadFailed, ReadUnknown,
               ReadReply, ReadOutOfOrder
<1>12. CASE WriteStops \/ \E q \in Pdu : WritePart(q)
  BY <1>12 DEF WriteStops, WritePart
<1>13. CASE SweepDone \/ \E q \in Pdu : SweepOut(q) \/ SweepWait(q)
  BY <1>13 DEF SweepDone, SweepOut, SweepWait
<1> QED
  BY <1>4, <1>5, <1>6, <1>7, <1>8, <1>9, <1>10, <1>11, <1>12, <1>13
     DEF Next, Reading, Writing, Sweeping

\* A frame whose first bytes were written is finished before another is begun.
THEOREM FramesStayWhole == ASSUME SafeUse, Timeout = 0 PROVE Spec => FramesWhole
<1>1. TypeOK /\ IInv /\ Untimed /\ Untimed' /\ [Next]_vars =>
        [\A p \in begun : First(p, outqueue') \/ p \in waitqueue' \/ Gone']_vars
  <2> SUFFICES ASSUME TypeOK, IInv, Untimed, Untimed', Next, NEW p \in begun, ~ Gone'
               PROVE  First(p, outqueue') \/ p \in waitqueue'
    OBVIOUS
  <2>1. CASE p \in begun'
    BY <2>1 DEF Untimed, BegunFirst, First
  <2>2. CASE p \notin begun'
    BY <2>2, BegunUntilWritten
  <2> QED
    BY <2>1, <2>2
<1> QED
  BY <1>1, UntimedInvariant, PTL DEF FramesWhole, Spec

-----------------------------------------------------------------------------
(* The contract, for uses without compounds *)

\* The uses the contract covers.
Alone == SafeUse /\ MaxChain = 1

\* Nothing that has yet to be called back is off the queues and not being
\* received, and destruction leaves no PDU on the out queue behind it.
Kept ==
    /\ \A p \in Pdu : p <= alloc /\ calls[p] = 0 => p \in outqueue \cup waitqueue \cup {rpdu}
    /\ phase \in {"drainWait", "gone"} => outqueue = {}
    /\ phase = "gone" => waitqueue = {}
    /\ running # None => calls[running] # 0

Inv == TypeOK /\ IInv /\ Kept

-----------------------------------------------------------------------------

\* Without compounds smb2_free_pdu() frees one PDU.
LEMMA FreeOne ==
    ASSUME Alone, Chains, NEW p \in Pdu, NEW out, NEW wait, Free(p, out, wait)
    PROVE  outqueue' = out \ {p} /\ waitqueue' = wait \ {p}
<1>1. Chain(p) = {p}
  BY DEF Alone, Chains, Chain
<1> QED
  BY <1>1 DEF Free

\* A context that is in use or draining queues single PDUs only.
LEMMA QueueOne ==
    ASSUME Alone, TypeOK, IInv, Queue
    PROVE  /\ alloc' = alloc + 1 /\ alloc + 1 \in Pdu /\ calls[alloc + 1] = 0
           /\ outqueue' \cup waitqueue' = outqueue \cup waitqueue \cup {alloc + 1}
           /\ phase' = phase /\ phase \in {"app", "read", "sweepOut", "sweepWait"}
           /\ UNCHANGED <<rpdu, running, calls>>
<1> USE PduConstants DEF PduConstants
<1> SUFFICES ASSUME NEW n \in 1 .. MaxChain, NEW ch \in [1 .. n -> Charges],
                    NEW own \in SUBSET {alloc + 1},
                    QueueBehind(n, ch, own) \/ QueuePart(n, ch, own) \/ QueueSent(n, ch, own)
             PROVE  /\ alloc' = alloc + 1 /\ alloc + 1 \in Pdu /\ calls[alloc + 1] = 0
                    /\ outqueue' \cup waitqueue' = outqueue \cup waitqueue \cup {alloc + 1}
                    /\ phase' = phase /\ phase \in {"app", "read", "sweepOut", "sweepWait"}
                    /\ UNCHANGED <<rpdu, running, calls>>
  BY DEF Queue
<1>1. n = 1 /\ alloc \in Nat
  BY DEF Alone, TypeOK
<1>2. New(n) = {alloc + 1}
  BY <1>1 DEF New
<1>3. /\ alloc' = alloc + 1 /\ alloc + 1 <= MaxPdu /\ MayQueue
      /\ UNCHANGED <<phase, rpdu, running, calls>>
  BY <1>1 DEF QueueBehind, QueuePart, QueueSent, Build
<1>4. alloc + 1 \in Pdu /\ calls[alloc + 1] = 0
  BY <1>1, <1>3 DEF Pdu, IInv, Chains
<1>5. outqueue' \cup waitqueue' = outqueue \cup waitqueue \cup {alloc + 1}
  BY <1>2 DEF QueueBehind, QueuePart, QueueSent, Affordable
<1> QED
  BY <1>3, <1>4, <1>5 DEF MayQueue

-----------------------------------------------------------------------------
(* Kept is inductive *)

\* No step of the engine loses a command whose callback has not run.
LEMMA KeptStep ==
    ASSUME Alone, Inv, [Next]_vars
    PROVE  Kept'
<1> USE PduConstants DEF PduConstants
<1>0. \A p \in Pdu : Chain(p) = {p}
  BY DEF Alone, Inv, IInv, Chains, Chain
<1>1. CASE Queue
  <2>1. alloc \in Nat
    BY DEF Inv, TypeOK
  <2> QED
    BY <1>1, <2>1, QueueOne DEF Inv, Kept, Pdu
<1>2. ASSUME NEW p \in Pdu, FreeOwned(p)
      PROVE  Kept'
  <2>1. /\ phase' = phase /\ phase = "app" /\ calls[p] > 0 /\ Free(p, outqueue, waitqueue)
        /\ UNCHANGED <<alloc, rpdu, running, calls>>
    BY <1>2 DEF FreeOwned, Alone, SafeUse
  <2>2. outqueue' = outqueue \ {p} /\ waitqueue' = waitqueue \ {p}
    BY <2>1, FreeOne DEF Inv, IInv
  <2> QED
    BY <2>1, <2>2 DEF Inv, Kept
<1>3. CASE Reading
  <2>1. CASE ReadPending \/ ReadBlocked \/ ReadFailed
    BY <2>1 DEF ReadPending, ReadBlocked, ReadFailed, HeaderDue, reading, Inv, Kept
  <2>2. CASE ReadNotification
    <3>1. /\ alloc' = alloc + 1 /\ rpdu = None /\ rpdu' = alloc + 1 /\ phase = "read"
          /\ UNCHANGED <<phase, outqueue, waitqueue, running, calls>>
      BY <2>2 DEF ReadNotification, HeaderDue, Inv, IInv, Places
    <3>2. alloc \in Nat /\ \A p \in Pdu : p # None /\ (p <= alloc + 1 => p <= alloc \/ p = alloc + 1)
      BY DEF Inv, TypeOK, Pdu
    <3> QED
      BY <3>1, <3>2 DEF Inv, Kept
  <2>3. ASSUME NEW m \in Pdu, ReadUnknown(m) \/ ReadReply(m) \/ ReadOutOfOrder(m)
        PROVE  Kept'
    <3>1. /\ rpdu = None /\ phase = "read" /\ phase' \in {"read", "sweepOut"}
          /\ outqueue' = outqueue /\ waitqueue \subseteq waitqueue' \cup {rpdu'}
          /\ UNCHANGED <<alloc, running, calls>>
      BY <2>3 DEF ReadUnknown, ReadReply, ReadOutOfOrder, HeaderDue, Inv, IInv, Places
    <3>2. \A p \in Pdu : p # None
      BY DEF Pdu
    <3> QED
      BY <3>1, <3>2 DEF Inv, Kept
  <2>4. CASE Deliver
    BY <2>4 DEF Deliver, Called, reading, Inv, TypeOK, Kept
  <2>5. CASE Delivered
    <3>1. /\ running \in Pdu /\ running = rpdu /\ rpdu' = None /\ running' = None /\ phase = "read" /\ phase' = phase
          /\ UNCHANGED <<alloc, calls>>
      BY <2>5 DEF Delivered, Inv, IInv, Places, TypeOK
    <3>2. outqueue \ {running} \subseteq outqueue' /\ waitqueue \ {running} \subseteq waitqueue'
      <4>1. CASE running \in owned
        BY <2>5, <4>1 DEF Delivered
      <4>2. CASE running \notin owned
        BY <2>5, <3>1, <4>2, FreeOne DEF Delivered, Inv, IInv
      <4> QED
        BY <4>1, <4>2
    <3>3. calls[running] # 0
      BY <3>1, <2>5 DEF Delivered, Inv, Kept
    <3> QED
      BY <3>1, <3>2, <3>3 DEF Inv, Kept
  <2> QED
    BY <1>3, <2>1, <2>2, <2>3, <2>4, <2>5 DEF Reading
<1>4. CASE Writing
  <2>1. CASE WriteStops \/ \E p \in Pdu : WritePart(p)
    BY <2>1 DEF WriteStops, WritePart, Writable, reading, Inv, Kept
  <2>2. ASSUME NEW p \in Pdu, WriteRest(p)
        PROVE  Kept'
    BY <1>0, <2>2 DEF WriteRest, Writable, reading, Inv, Kept
  <2> QED
    BY <1>4, <2>1, <2>2 DEF Writing
<1>5. CASE Sweeping
  <2>1. ASSUME NEW p \in Pdu, SweepOut(p) \/ SweepWait(p)
        PROVE  Kept'
    <3>1. /\ calls' = Called(p) /\ running' = p /\ phase' = phase
          /\ phase \in {"sweepOut", "sweepWait"} /\ UNCHANGED <<alloc, rpdu>>
          /\ outqueue \ {p} \subseteq outqueue' /\ waitqueue \ {p} \subseteq waitqueue'
      BY <2>1 DEF SweepOut, SweepWait, reading
    <3>2. calls'[p] = calls[p] + 1 /\ calls[p] \in Nat /\ \A q \in Pdu : q # p => calls'[q] = calls[q]
      BY <3>1 DEF Called, Inv, TypeOK
    <3>3. calls'[running'] # 0
      BY <3>1, <3>2
    <3>4. ASSUME NEW q \in Pdu, q <= alloc', calls'[q] = 0
          PROVE  q \in outqueue' \cup waitqueue' \cup {rpdu'}
      <4>1. q # p
        BY <3>2, <3>4
      <4>2. q \in outqueue \cup waitqueue \cup {rpdu}
        BY <3>1, <3>2, <3>4, <4>1 DEF Inv, Kept
      <4> QED
        BY <3>1, <4>1, <4>2
    <3>5. \A q \in Pdu : q <= alloc' /\ calls'[q] = 0 => q \in outqueue' \cup waitqueue' \cup {rpdu'}
      BY <3>4
    <3>6. ~ (phase' \in {"drainWait", "gone"})
      BY <3>1
    <3> QED
      BY <3>3, <3>5, <3>6 DEF Kept
  <2>2. CASE Swept
    <3>1. /\ running \in Pdu /\ running # rpdu /\ running' = None /\ phase' = phase
          /\ phase \in {"sweepOut", "sweepWait"} /\ UNCHANGED <<alloc, calls, rpdu>>
      BY <2>2 DEF Swept, reading, Inv, IInv, Places, TypeOK
    <3>2. outqueue' = outqueue \ {running} /\ waitqueue' = waitqueue \ {running}
      BY <2>2, <3>1, FreeOne DEF Swept, Inv, IInv
    <3>3. calls[running] # 0
      BY <2>2 DEF Swept, Inv, Kept
    <3> QED
      BY <3>1, <3>2, <3>3 DEF Inv, Kept
  <2>3. CASE SweepDone
    <3>1. phase' \in {"sweepWait", "failed", "app"}
      BY <2>3 DEF SweepDone
    <3> QED
      BY <2>3, <3>1 DEF SweepDone, reading, Inv, Kept
  <2> QED
    BY <1>5, <2>1, <2>2, <2>3 DEF Sweeping
<1>6. CASE Draining
  <2>1. running = None /\ running' = None /\ alloc' = alloc
    BY <1>6 DEF Draining, DrainOut, DrainWait, DrainCurrent, Drained, rest, Inv, IInv, Places
  <2>2. ASSUME NEW p \in Pdu, DrainOut(p) \/ DrainWait(p)
        PROVE  Kept'
    <3>1. /\ calls' = Called(p) /\ phase' = phase /\ rpdu' = rpdu
          /\ outqueue' = outqueue \ {p} /\ waitqueue' = waitqueue \ {p}
      <4>1. CASE DrainOut(p)
        BY <4>1, FreeOne DEF DrainOut, Inv, IInv
      <4>2. CASE DrainWait(p)
        BY <4>2, FreeOne DEF DrainWait, Inv, IInv
      <4> QED
        BY <2>2, <4>1, <4>2
    <3>2. calls'[p] = calls[p] + 1 /\ calls[p] \in Nat /\ \A q \in Pdu : q # p => calls'[q] = calls[q]
      BY <3>1 DEF Called, Inv, TypeOK
    <3> QED
      BY <2>1, <3>1, <3>2 DEF Inv, Kept
  <2>3. CASE DrainCurrent
    <3>1. phase' = "drainWait" /\ rpdu' = None /\ outqueue = {}
      BY <2>3 DEF DrainCurrent
    <3>2. CASE rpdu = None
      <4>1. UNCHANGED <<outqueue, waitqueue, calls>>
        BY <2>3, <3>2 DEF DrainCurrent
      <4> QED
        BY <2>1, <3>1, <3>2, <4>1 DEF Inv, Kept
    <3>3. CASE rpdu # None
      <4>1. rpdu \in Pdu /\ calls' = Called(rpdu) /\ Free(rpdu, outqueue, waitqueue)
        BY <2>3, <3>3 DEF DrainCurrent, Inv, TypeOK
      <4>2. outqueue' = {} /\ waitqueue' = waitqueue \ {rpdu}
        BY <3>1, <4>1, FreeOne DEF Inv, IInv
      <4>3. calls'[rpdu] = calls[rpdu] + 1 /\ calls[rpdu] \in Nat
            /\ \A q \in Pdu : q # rpdu => calls'[q] = calls[q]
        BY <4>1 DEF Called, Inv, TypeOK
      <4> QED
        BY <2>1, <3>1, <4>2, <4>3 DEF Inv, Kept
    <3> QED
      BY <3>2, <3>3
  <2>4. CASE Drained
    BY <2>4 DEF Drained, rest, Inv, Kept
  <2> QED
    BY <1>6, <2>2, <2>3, <2>4 DEF Draining
<1>7. CASE Tick \/ Service \/ Destroy \/ Done \/ UNCHANGED vars
  <2>1. /\ UNCHANGED <<alloc, calls, outqueue, waitqueue, rpdu, running>>
        /\ phase' = phase \/ phase' \in {"read", "write", "sweepOut", "drainOut"}
    BY <1>7 DEF Tick, Service, Destroy, Done, vars, reading, rest
  <2> QED
    BY <2>1 DEF Inv, Kept
<1> QED
  BY <1>1, <1>2, <1>3, <1>4, <1>5, <1>6, <1>7 DEF Next

-----------------------------------------------------------------------------
(* The refinement *)

\* The engine's invariant and Kept hold together in every state.
LEMMA Inductive == ASSUME Alone PROVE Spec => []Inv
<1>1. Init => Kept
  BY DEF Init, Kept, Pdu, PduConstants
<1>2. SafeUse
  BY DEF Alone
<1>3. Inv /\ [Next]_vars => Kept'
  BY KeptStep
<1> QED
  BY <1>1, <1>2, <1>3, TypeCorrect, EngineInvariant, PTL DEF Spec, Inv

\* Without compounds no command is forgotten: as long as its callback has not
\* run it is queued, waiting or being received.
THEOREM NoneLost == ASSUME Alone PROVE Spec => []NothingLost
<1>1. Inv => NothingLost
  <2> SUFFICES ASSUME Inv, NEW p \in 1 .. alloc, calls[p] = 0, p # rpdu
               PROVE  head[p] \in outqueue \cup waitqueue
    BY DEF NothingLost
  <2>1. p \in Pdu /\ p <= alloc
    BY PduConstants DEF Inv, TypeOK, Pdu, PduConstants
  <2>2. head[p] = p
    BY <2>1 DEF Alone, Inv, IInv, Chains
  <2> QED
    BY <2>1, <2>2 DEF Inv, Kept
<1> QED
  BY <1>1, Inductive, PTL

\* Without compounds every pending command is aborted, by its callback, before
\* the context is gone.
THEOREM EveryoneAborted == ASSUME Alone PROVE Spec => []AllAborted
<1>1. Inv => AllAborted
  <2> SUFFICES ASSUME Inv, phase = "gone", NEW p \in 1 .. alloc
               PROVE  calls[p] > 0
    BY DEF AllAborted
  <2>0. alloc \in 0 .. MaxPdu /\ MaxPdu \in Nat
    BY PduConstants DEF Inv, TypeOK, PduConstants
  <2>1. p \in Pdu /\ p <= alloc /\ p # None /\ calls[p] \in Nat
    <3>1. p \in Pdu /\ p <= alloc /\ p # None
      BY <2>0 DEF Pdu
    <3> QED
      BY <3>1 DEF Inv, TypeOK
  <2>2. outqueue = {} /\ waitqueue = {} /\ rpdu = None
    BY DEF Inv, Kept, IInv, Places
  <2>3. calls[p] # 0
    BY <2>1, <2>2 DEF Inv, Kept
  <2> QED
    BY <2>1, <2>3
<1> QED
  BY <1>1, Inductive, PTL

\* A step of the engine completes, issues or closes, or leaves what the contract
\* sees alone; each lemma names the step it is.
LEMMA Quiet ==
    ASSUME UNCHANGED <<alloc, calls>>, Context' = Context
    PROVE  UNCHANGED <<Context, Status>>
  BY DEF Status

\* A command not yet allocated is unused; one not yet called back is pending.
LEMMA StatusOf ==
    ASSUME NEW q \in Pdu
    PROVE  /\ q > alloc => Status[q] = "unused"
           /\ ~ (q > alloc) /\ calls[q] = 0 => Status[q] = "pending"
  BY DEF Status

\* The status of one command changes.
LEMMA Changes ==
    ASSUME NEW p \in Pdu, NEW s, Status'[p] = s,
           \A q \in Pdu : q # p => Status'[q] = Status[q]
    PROVE  Status' = [Status EXCEPT ![p] = s]
<1>1. DOMAIN Status = Pdu /\ Status' = [q \in Pdu |-> Status'[q]]
  BY DEF Status
<1>2. [Status EXCEPT ![p] = s] = [q \in Pdu |-> IF q = p THEN s ELSE Status[q]]
  BY <1>1 DEF Status
<1> QED
  BY <1>1, <1>2

\* The one call of a pending command's callback is the contract's completion.
LEMMA Completes ==
    ASSUME Inv, NEW p \in Pdu, calls[p] = 0, p <= alloc, calls' = Called(p), alloc' = alloc,
           Context' = Context, Context # "closed"
    PROVE  Contract!Complete(p)
<1>1. ~ (p > alloc) /\ calls'[p] = 1 /\ \A q \in Pdu : q # p => calls'[q] = calls[q]
  <2>1. alloc \in Nat /\ p \in Nat
    BY DEF Inv, TypeOK, Pdu
  <2>2. calls'[p] = 1 /\ \A q \in Pdu : q # p => calls'[q] = calls[q]
    BY DEF Called
  <2> QED
    BY <2>1, <2>2
<1>2. Status[p] = "pending"
  BY <1>1, StatusOf
<1>3. Status'[p] = "complete" /\ \A q \in Pdu : q # p => Status'[q] = Status[q]
  BY <1>1 DEF Status
<1>4. Status' = [Status EXCEPT ![p] = "complete"]
  BY <1>3, Changes
<1> QED
  BY <1>2, <1>4 DEF Contract!Complete

\* The allocation of a PDU is the contract's issue of a command.
LEMMA Issues ==
    ASSUME Inv, NEW p \in Pdu, p = alloc + 1, alloc' = alloc + 1, calls[p] = 0, calls' = calls,
           Context' = Context, Context = "open"
    PROVE  Contract!Issue(p)
<1>1. p > alloc /\ ~ (p > alloc') /\ \A q \in Pdu : q # p => (q > alloc' <=> q > alloc)
  <2>1. alloc \in Nat
    BY DEF Inv, TypeOK
  <2> QED
    BY <2>1 DEF Pdu
<1>2. Status[p] = "unused"
  BY <1>1, StatusOf
<1>3. Status'[p] = "pending" /\ \A q \in Pdu : q # p => Status'[q] = Status[q]
  BY <1>1 DEF Status
<1>4. Status' = [Status EXCEPT ![p] = "pending"]
  BY <1>3, Changes
<1> QED
  BY <1>2, <1>4 DEF Contract!Issue

\* Every step of the engine is a step of the contract, or leaves it unchanged.
LEMMA StepSimulates ==
    ASSUME Alone, Inv, [Next]_vars
    PROVE  [Contract!Next]_<<Context, Status>>
<1> USE PduConstants DEF PduConstants
<1>1. CASE Queue
  <2>1. Contract!Issue(alloc + 1)
    BY <1>1, QueueOne, Issues DEF Context, Inv
  <2> QED
    BY <2>1, <1>1, QueueOne DEF Contract!Next, Inv
<1>2. CASE ReadNotification
  <2>1. /\ alloc + 1 \in Pdu /\ calls[alloc + 1] = 0 /\ alloc' = alloc + 1
        /\ phase = "read" /\ UNCHANGED <<phase, calls>>
    <3>1. alloc \in Nat
      BY DEF Inv, TypeOK
    <3> QED
      BY <1>2, <3>1 DEF ReadNotification, HeaderDue, Inv, IInv, Chains, Pdu
  <2>2. Contract!Issue(alloc + 1)
    BY <2>1, Issues DEF Context
  <2> QED
    BY <2>1, <2>2 DEF Contract!Next
<1>3. ASSUME NEW p \in Pdu, calls[p] = 0, p <= alloc, calls' = Called(p), alloc' = alloc,
             Context' = Context, Context # "closed"
      PROVE  [Contract!Next]_<<Context, Status>>
  BY <1>3, Completes DEF Contract!Next
<1>4. ASSUME UNCHANGED <<alloc, calls>>, Context' = Context
      PROVE  [Contract!Next]_<<Context, Status>>
  BY <1>4, Quiet
<1>5. ASSUME NEW p \in outqueue \cup waitqueue
      PROVE  p \in Pdu /\ calls[p] = 0 /\ p <= alloc
  <2>1. p \in live /\ p \in Pdu /\ alloc \in Nat
    BY DEF Inv, IInv, Places, TypeOK
  <2>2. ~ (p > alloc)
    BY <2>1 DEF Inv, IInv, Chains
  <2>3. calls[p] = 0
    BY <2>1 DEF Inv, IInv, Callbacks
  <2> QED
    BY <2>1, <2>2, <2>3 DEF Pdu
<1>6. ASSUME rpdu # None, running # rpdu
      PROVE  rpdu \in Pdu /\ calls[rpdu] = 0 /\ rpdu <= alloc
  <2>1. rpdu \in live /\ rpdu \in Pdu /\ alloc \in Nat
    BY <1>6 DEF Inv, IInv, Places, TypeOK
  <2>2. ~ (rpdu > alloc)
    BY <2>1 DEF Inv, IInv, Chains
  <2> QED
    BY <1>6, <2>1, <2>2 DEF Inv, IInv, Callbacks, Pdu
<1>7. ASSUME NEW p \in Pdu, FreeOwned(p)
      PROVE  UNCHANGED <<alloc, calls>> /\ Context' = Context
  BY <1>7 DEF FreeOwned, Context
<1>8. CASE Reading
  <2>1. CASE ReadPending \/ ReadBlocked \/ ReadFailed \/ Delivered
    <3>1. UNCHANGED <<alloc, calls>> /\ Context = "open" /\ Context' = "open"
      BY <2>1 DEF ReadPending, ReadBlocked, ReadFailed, Delivered, HeaderDue, Context
    <3> QED
      BY <3>1, <1>4
  <2>2. ASSUME NEW m \in Pdu, ReadUnknown(m) \/ ReadReply(m) \/ ReadOutOfOrder(m)
        PROVE  [Contract!Next]_<<Context, Status>>
    <3>1. UNCHANGED <<alloc, calls>> /\ Context = "open" /\ Context' = "open"
      BY <2>2 DEF ReadUnknown, ReadReply, ReadOutOfOrder, HeaderDue, Context
    <3> QED
      BY <3>1, <1>4
  <2>3. CASE Deliver
    <3>1. /\ calls' = Called(rpdu) /\ alloc' = alloc /\ running = None
          /\ Context = "open" /\ Context' = "open" /\ phase = "read" /\ recv = "body"
      BY <2>3 DEF Deliver, Context
    <3>2. rpdu # None /\ running # rpdu
      BY <3>1 DEF Inv, IInv, Places
    <3> QED
      BY <3>1, <3>2, <1>6, <1>3
  <2> QED
    BY <1>2, <1>8, <2>1, <2>2, <2>3 DEF Reading
<1>9. CASE Writing \/ Tick \/ Service \/ SweepDone \/ Swept \/ Done \/ UNCHANGED vars
  <2>1. UNCHANGED <<alloc, calls>>
    BY <1>9 DEF Writing, WriteStops, WritePart, WriteRest, Tick, Service, SweepDone, Swept, Done, vars
  <2>2. Context' = Context
    BY <1>9 DEF Writing, WriteStops, WritePart, WriteRest, Writable, Tick, Service, SweepDone, Swept,
                Done, vars, Context
  <2> QED
    BY <2>1, <2>2, <1>4
<1>10. ASSUME NEW p \in Pdu, SweepOut(p) \/ SweepWait(p)
       PROVE  [Contract!Next]_<<Context, Status>>
  <2>1. /\ p \in outqueue \cup waitqueue /\ calls' = Called(p) /\ alloc' = alloc
        /\ Context = "open" /\ Context' = "open"
    BY <1>10 DEF SweepOut, SweepWait, First, Expired, Context
  <2> QED
    BY <2>1, <1>3, <1>5
<1>11. CASE Destroy
  <2>1. UNCHANGED <<alloc, calls>> /\ Context = "open" /\ Context' = "closing"
    BY <1>11 DEF Destroy, rest, Context
  <2>2. Status' = Status
    BY <2>1 DEF Status
  <2> QED
    BY <2>1, <2>2 DEF Contract!Next, Contract!Close
<1>12. CASE Draining
  <2>1. ASSUME NEW p \in Pdu, DrainOut(p) \/ DrainWait(p)
        PROVE  [Contract!Next]_<<Context, Status>>
    <3>1. /\ p \in outqueue \cup waitqueue /\ calls' = Called(p) /\ alloc' = alloc
          /\ Context = "closing" /\ Context' = "closing"
      BY <2>1 DEF DrainOut, DrainWait, First, rest, Context
    <3> QED
      BY <3>1, <1>3, <1>5
  <2>2. CASE DrainCurrent
    <3>1. alloc' = alloc /\ Context = "closing" /\ Context' = "closing" /\ running = None
      BY <2>2 DEF DrainCurrent, rest, Context, Inv, IInv, Places
    <3>2. CASE rpdu = None
      BY <2>2, <3>1, <3>2, <1>4 DEF DrainCurrent
    <3>3. CASE rpdu # None
      <4>1. calls' = Called(rpdu)
        BY <2>2, <3>3 DEF DrainCurrent
      <4> QED
        BY <3>1, <3>3, <4>1, <1>3, <1>6
    <3> QED
      BY <3>2, <3>3
  <2>3. CASE Drained
    <3>1. UNCHANGED <<alloc, calls>> /\ Context = "closing" /\ Context' = "closed"
          /\ waitqueue = {} /\ phase = "drainWait"
      BY <2>3 DEF Drained, rest, Context
    <3>2. \A p \in Pdu : Status[p] # "pending"
      <4>1. outqueue = {} /\ rpdu = None
        BY <3>1 DEF Inv, Kept, IInv, Places
      <4>2. \A p \in Pdu : p # None /\ (p > alloc \/ p <= alloc)
        BY DEF Pdu, Inv, TypeOK
      <4>3. \A p \in Pdu : p > alloc \/ calls[p] # 0
        BY <3>1, <4>1, <4>2 DEF Inv, Kept
      <4> QED
        BY <4>3 DEF Status
    <3>3. Status' = Status
      BY <3>1 DEF Status
    <3> QED
      BY <3>1, <3>2, <3>3 DEF Contract!Next, Contract!Closed
  <2> QED
    BY <1>12, <2>1, <2>2, <2>3 DEF Draining
<1> QED
  BY <1>1, <1>4, <1>7, <1>8, <1>9, <1>10, <1>11, <1>12 DEF Next, Sweeping

\* The engine is a correct context, when it is not used for compounds: every
\* command issued completes once, whatever mix of replies, duplicates, timeouts
\* and destruction it meets, and none is pending once the context is gone.
THEOREM ContractImplemented == ASSUME Alone PROVE Spec => Implements
<1>1. Init => Contract!Init
  <2> SUFFICES ASSUME Init PROVE Contract!Init
    OBVIOUS
  <2>1. Context = "open"
    BY DEF Init, Context
  <2>2. \A p \in Pdu : p > alloc
    BY DEF Init, Pdu
  <2> QED
    BY <2>1, <2>2 DEF Contract!Init, Status
<1>2. Inv /\ [Next]_vars => [Contract!Next]_<<Context, Status>>
  BY StepSimulates
<1> QED
  BY <1>1, <1>2, Inductive, PTL DEF Spec, Implements, Contract!Spec
=============================================================================
