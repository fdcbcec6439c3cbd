------------------------------ MODULE Smb2Pdu ------------------------------
(***************************************************************************)
(* The request engine of libsmb2: the PDUs of one smb2_context, from       *)
(* smb2_queue_pdu() to the callback and smb2_free_pdu() (lib/pdu.c,        *)
(* lib/socket.c, lib/init.c).                                              *)
(*                                                                         *)
(* A PDU is named by the position of its message id: smb2_allocate_pdu()   *)
(* and smb2_queue_pdu() run back to back in every command, and             *)
(* smb2_encode_header() hands out increasing ids, so both queues, which    *)
(* only ever grow at their end, are ordered by name and are kept as sets.  *)
(* The server is arbitrary: it may answer any id, in any order, more than  *)
(* once, late or never.                                                    *)
(***************************************************************************)
EXTENDS Integers, FiniteSets, FiniteSetsExt

CONSTANTS
    MaxPdu,       \* bound: PDUs allocated in a behaviour
    MaxChain,     \* longest compound chain the application builds
    Charges,      \* credit charges a PDU may carry (NEGOTIATE carries 0)
    Grants,       \* credits one response may grant
    MaxCredits,   \* bound: credits accumulated from the server
    Timeout,      \* smb2->timeout in clock ticks; 0 means no timeout
    CallerFrees   \* commands that return their PDU to be freed by the caller: the application
                  \* uses none ("no"), frees their PDU once the callback ran ("after"), or
                  \* whenever it likes ("any")

ASSUME PduConstants ==
    /\ MaxPdu \in Nat \ {0} /\ MaxChain \in Nat \ {0}
    /\ Charges \subseteq Nat /\ Grants \subseteq Nat
    /\ MaxCredits \in Nat /\ Timeout \in Nat
    /\ CallerFrees \in {"no", "after", "any"}

Pdu  == 1 .. MaxPdu
None == 0            \* a null PDU pointer

VARIABLES
    phase,      \* where the worker is: the application, a step of smb2_service_fd, or destruction
    ret,        \* what smb2_service_fd is about to return
    recv,       \* recv_state, reduced to: a header is due, or the body of rpdu is due
    running,    \* the PDU whose callback is on the stack
    alloc,      \* number of PDUs allocated so far
    live,       \* allocated and not yet freed
    head,       \* head of the compound chain a PDU hangs from (itself when it hangs from none)
    prev,       \* prev_compound_mid
    charge,     \* header.credit_charge
    left,       \* ticks before pdu->timeout has passed
    owned,      \* caller_frees_pdu PDUs the application has yet to free
    outqueue, waitqueue,
    rpdu,       \* smb2->pdu
    begun,      \* PDUs with some but not all of their bytes written (out.num_done)
    credits,    \* smb2->credits
    calls       \* history: how many times a PDU's callback ran

fixed  == <<prev, charge>>
vars   == <<phase, ret, recv, running, alloc, live, head, prev, charge, left, owned,
            outqueue, waitqueue, rpdu, begun, credits, calls>>

TypeOK ==
    /\ phase \in {"app", "read", "write", "sweepOut", "sweepWait", "failed",
                  "drainOut", "drainWait", "gone"}
    /\ ret \in {0, -1}
    /\ recv \in {"header", "body"}
    /\ running \in Pdu \cup {None}
    /\ alloc \in 0 .. MaxPdu
    /\ live \subseteq Pdu
    /\ head \in [Pdu -> Pdu]
    /\ prev \in [Pdu -> Pdu \cup {None}]
    /\ charge \in [Pdu -> Nat]
    /\ left \in [Pdu -> 0 .. Timeout + 1]
    /\ owned \subseteq Pdu
    /\ outqueue \subseteq Pdu /\ waitqueue \subseteq Pdu
    /\ rpdu \in Pdu \cup {None}
    /\ begun \subseteq Pdu
    /\ credits \in Nat
    /\ calls \in [Pdu -> Nat]

Init ==
    /\ phase = "app" /\ ret = 0 /\ recv = "header" /\ running = None
    /\ alloc = 0 /\ live = {}
    /\ head = [p \in Pdu |-> p]
    /\ prev = [p \in Pdu |-> None]
    /\ charge = [p \in Pdu |-> 0]
    /\ left = [p \in Pdu |-> 0]
    /\ owned = {} /\ outqueue = {} /\ waitqueue = {} /\ rpdu = None
    /\ begun = {} /\ credits = 0
    /\ calls = [p \in Pdu |-> 0]

-----------------------------------------------------------------------------
(* Helpers *)

Chain(p) == {q \in Pdu : head[q] = p}

Cost(S, c) == MapThenSumSet(LAMBDA q : c[q], S)

ChainCharge(p) == Cost(Chain(p), charge)

\* Mutation: a PDU is added to the front of a queue instead of its end.
FirstLatest(p, queue) == p \in queue /\ \A q \in queue : p >= q

First(p, queue) == p \in queue /\ \A q \in queue : p <= q

Expired(queue) == {p \in queue : Timeout > 0 /\ left[p] = 0}

\* smb2_free_pdu(): off both queues, and everything chained behind it goes too.
Free(p, out, wait) ==
    /\ live' = live \ Chain(p)
    /\ outqueue' = out \ Chain(p)
    /\ waitqueue' = wait \ Chain(p)
    /\ begun' = begun \ Chain(p)
    /\ head' = [q \in Pdu |-> IF head[q] = p THEN q ELSE head[q]]

Called(p) == [q \in Pdu |-> IF q = p THEN calls[q] + 1 ELSE calls[q]]

-----------------------------------------------------------------------------
(* The application, or a callback, queues a command: smb2_queue_pdu(). *)

MayQueue ==
    \/ phase = "app"
    \/ running # None /\ phase \in {"read", "sweepOut", "sweepWait"}

New(n) == (alloc + 1) .. (alloc + n)

\* Allocation, chaining and message ids of a command of n PDUs.
Build(n, ch, own) ==
    /\ MayQueue
    /\ n \in 1 .. MaxChain /\ alloc + n <= MaxPdu
    /\ own # {} => CallerFrees # "no" /\ n = 1
    /\ alloc' = alloc + n
    /\ live' = live \cup New(n)
    /\ prev' = [p \in Pdu |-> IF p \in New(n) \ {alloc + 1} THEN p - 1 ELSE prev[p]]
    /\ charge' = [p \in Pdu |-> IF p \in New(n) THEN ch[p - alloc] ELSE charge[p]]
    /\ left' = [p \in Pdu |-> IF p \in New(n) THEN Timeout + 1 ELSE left[p]]
    /\ owned' = owned \cup own

\* smb2_add_to_outqueue() writes right away only when the queue was empty,
\* and ignores what the attempt returns.
QueueBehind(n, ch, own) ==
    /\ Build(n, ch, own)
    /\ head' = [p \in Pdu |-> IF p \in New(n) THEN alloc + 1 ELSE head[p]]
    /\ outqueue' = outqueue \cup {alloc + 1}
    /\ UNCHANGED <<phase, ret, recv, running, waitqueue, rpdu, begun, credits, calls>>

\* Mutation: a request is sent whatever its credit charge.
AffordableUnchecked(n, ch) == outqueue = {}

Affordable(n, ch) == outqueue = {} /\ Cost(1 .. n, ch) \in 0 .. credits

QueuePart(n, ch, own) ==
    /\ Build(n, ch, own)
    /\ Affordable(n, ch)
    /\ head' = [p \in Pdu |-> IF p \in New(n) THEN alloc + 1 ELSE head[p]]
    /\ outqueue' = {alloc + 1}
    /\ begun' = begun \cup {alloc + 1}
    /\ UNCHANGED <<phase, ret, recv, running, waitqueue, rpdu, credits, calls>>

QueueSent(n, ch, own) ==
    /\ Build(n, ch, own)
    /\ Affordable(n, ch)
    /\ waitqueue' = waitqueue \cup New(n)
    /\ credits' = credits - Cost(1 .. n, ch)
    /\ UNCHANGED <<phase, ret, recv, running, head, outqueue, rpdu, begun, calls>>

Queue == \E n \in 1 .. MaxChain : \E ch \in [1 .. n -> Charges], own \in SUBSET {alloc + 1} :
    QueueBehind(n, ch, own) \/ QueuePart(n, ch, own) \/ QueueSent(n, ch, own)

\* The application calls smb2_free_pdu() on a PDU it was handed.
FreeOwned(p) ==
    /\ phase = "app" /\ p \in owned
    /\ calls[p] > 0 \/ CallerFrees = "any"
    /\ owned' = owned \ {p}
    /\ Free(p, outqueue, waitqueue)
    /\ UNCHANGED <<phase, ret, recv, running, alloc, fixed, left, rpdu, credits, calls>>

-----------------------------------------------------------------------------
(* smb2_service_fd() on the connected socket. *)

reading == <<recv, rpdu>>

\* What poll() reported decides where the call starts. An error or a hang-up
\* fails the call, but the timeout sweep at its end still runs.
Service ==
    /\ phase = "app"
    /\ \/ phase' \in {"read", "write", "sweepOut"} /\ ret' = 0
       \/ phase' = "sweepOut" /\ ret' = -1
    /\ UNCHANGED <<recv, running, alloc, live, head, fixed, left, owned,
                   outqueue, waitqueue, rpdu, begun, credits, calls>>

\* Credits are added as soon as the header is decoded, whatever it answers.
Granted(g) == g \in Grants /\ credits + g <= MaxCredits /\ credits' = credits + g

HeaderDue == phase = "read" /\ recv = "header" /\ running = None

\* An interim STATUS_PENDING response: its bytes are skipped.
ReadPending ==
    /\ HeaderDue
    /\ \E g \in Grants : Granted(g)
    /\ UNCHANGED <<phase, ret, recv, running, alloc, live, head, fixed, left, owned,
                   outqueue, waitqueue, rpdu, begun, calls>>

\* A response nobody waits for: skipped too (SMB2_RECV_UNKNOWN). The code also
\* frees a leftover smb2->pdu before it looks m up; NoLeftover says there is none.
ReadUnknown(m) ==
    /\ HeaderDue
    /\ m \notin waitqueue
    /\ rpdu' = None
    /\ \E g \in Grants : Granted(g)
    /\ UNCHANGED <<phase, ret, recv, running, alloc, live, head, fixed, left, owned,
                   outqueue, waitqueue, begun, calls>>

\* Mutation: the PDU being received stays on the wait queue.
ReadReplyQueued(m) ==
    /\ HeaderDue
    /\ m \in waitqueue
    /\ prev[m] \notin waitqueue
    /\ rpdu' = m
    /\ recv' = "body"
    /\ \E g \in Grants : Granted(g)
    /\ UNCHANGED <<phase, ret, running, alloc, live, head, fixed, left, owned,
                   outqueue, waitqueue, begun, calls>>

\* Mutation: the replies of a compound are taken in any order.
ReadReplyUnordered(m) ==
    /\ HeaderDue
    /\ m \in waitqueue
    /\ rpdu' = m
    /\ waitqueue' = waitqueue \ {m}
    /\ recv' = "body"
    /\ \E g \in Grants : Granted(g)
    /\ UNCHANGED <<phase, ret, running, alloc, live, head, fixed, left, owned,
                   outqueue, begun, calls>>

\* The response to m: m leaves the wait queue and becomes smb2->pdu.
ReadReply(m) ==
    /\ HeaderDue
    /\ m \in waitqueue
    /\ prev[m] \notin waitqueue
    /\ rpdu' = m
    /\ waitqueue' = waitqueue \ {m}
    /\ recv' = "body"
    /\ \E g \in Grants : Granted(g)
    /\ UNCHANGED <<phase, ret, running, alloc, live, head, fixed, left, owned,
                   outqueue, begun, calls>>

\* "compound reply received out of order": smb2->pdu is already set to m,
\* which stays on the wait queue.
ReadOutOfOrder(m) ==
    /\ HeaderDue
    /\ m \in waitqueue
    /\ prev[m] \in waitqueue
    /\ rpdu' = m
    /\ phase' = "sweepOut" /\ ret' = -1
    /\ \E g \in Grants : Granted(g)
    /\ UNCHANGED <<recv, running, alloc, live, head, fixed, left, owned,
                   outqueue, waitqueue, begun, calls>>

\* An oplock break notification answers no request: a PDU is made for it.
ReadNotification ==
    /\ HeaderDue
    /\ alloc < MaxPdu
    /\ alloc' = alloc + 1
    /\ live' = live \cup {alloc + 1}
    /\ left' = [left EXCEPT ![alloc + 1] = Timeout + 1]
    /\ rpdu' = alloc + 1
    /\ recv' = "body"
    /\ \E g \in Grants : Granted(g)
    /\ UNCHANGED <<phase, ret, running, head, fixed, owned, outqueue, waitqueue,
                   begun, calls>>

\* The rest of the response is in: the callback of smb2->pdu runs ...
Deliver ==
    /\ phase = "read" /\ recv = "body" /\ running = None
    /\ running' = rpdu
    /\ calls' = Called(rpdu)
    /\ UNCHANGED <<phase, ret, reading, alloc, live, head, fixed, left, owned,
                   outqueue, waitqueue, begun, credits>>

\* Mutation: smb2->pdu is not cleared.
DeliveredKeeping ==
    /\ phase = "read" /\ running # None
    /\ Free(running, outqueue, waitqueue)
    /\ running' = None /\ recv' = "header"
    /\ UNCHANGED <<phase, ret, alloc, fixed, left, owned, rpdu, credits, calls>>

\* Mutation: caller_frees_pdu is ignored.
DeliveredFreeing ==
    /\ phase = "read" /\ running # None
    /\ Free(running, outqueue, waitqueue)
    /\ running' = None /\ rpdu' = None /\ recv' = "header"
    /\ UNCHANGED <<phase, ret, alloc, fixed, left, owned, credits, calls>>

\* ... and when it returns the PDU is freed, unless its caller does that.
Delivered ==
    /\ phase = "read" /\ running # None
    /\ IF running \in owned
         THEN UNCHANGED <<live, head, outqueue, waitqueue, begun>>
         ELSE Free(running, outqueue, waitqueue)
    /\ running' = None /\ rpdu' = None /\ recv' = "header"
    /\ UNCHANGED <<phase, ret, alloc, fixed, left, owned, credits, calls>>

\* The socket has no more bytes for now, in the middle of a response or not.
ReadBlocked ==
    /\ phase = "read" /\ running = None
    /\ phase' \in {"write", "sweepOut"}
    /\ UNCHANGED <<ret, reading, running, alloc, live, head, fixed, left, owned,
                   outqueue, waitqueue, begun, credits, calls>>

\* Closed by the peer, malformed, not a reply, badly signed, not encrypted ...
ReadFailed ==
    /\ phase = "read" /\ running = None
    /\ phase' = "sweepOut" /\ ret' = -1
    /\ UNCHANGED <<reading, running, alloc, live, head, fixed, left, owned,
                   outqueue, waitqueue, begun, credits, calls>>

-----------------------------------------------------------------------------
(* smb2_write_to_socket(): as many whole chains as credits and socket take. *)

Writable(p) == /\ phase = "write"
               /\ First(p, outqueue)
               /\ ChainCharge(p) \in 0 .. credits

WritePart(p) ==
    /\ Writable(p)
    /\ begun' = begun \cup {p}
    /\ UNCHANGED <<phase, ret, reading, running, alloc, live, head, fixed, left, owned,
                   outqueue, waitqueue, credits, calls>>

\* Mutation: next_compound is not cleared.
WriteRestChained(p) ==
    /\ Writable(p)
    /\ outqueue' = outqueue \ {p}
    /\ waitqueue' = waitqueue \cup Chain(p)
    /\ begun' = begun \ {p}
    /\ credits' = credits - ChainCharge(p)
    /\ UNCHANGED <<phase, ret, reading, running, alloc, live, head, fixed, left, owned, calls>>

\* Mutation: a written PDU is not put on the wait queue.
WriteRestForgetting(p) ==
    /\ Writable(p)
    /\ outqueue' = outqueue \ {p}
    /\ head' = [q \in Pdu |-> IF head[q] = p THEN q ELSE head[q]]
    /\ begun' = begun \ {p}
    /\ credits' = credits - ChainCharge(p)
    /\ UNCHANGED <<phase, ret, reading, running, alloc, live, fixed, left, owned, waitqueue, calls>>

\* The chain is complete: it is taken apart, and each PDU waits on its own.
WriteRest(p) ==
    /\ Writable(p)
    /\ outqueue' = outqueue \ {p}
    /\ waitqueue' = waitqueue \cup Chain(p)
    /\ head' = [q \in Pdu |-> IF head[q] = p THEN q ELSE head[q]]
    /\ begun' = begun \ {p}
    /\ credits' = credits - ChainCharge(p)
    /\ UNCHANGED <<phase, ret, reading, running, alloc, live, fixed, left, owned, calls>>

\* Nothing to write, too few credits, EAGAIN, or a write error.
WriteStops ==
    /\ phase = "write"
    /\ phase' = "sweepOut"
    /\ ret' \in {0, -1}
    /\ UNCHANGED <<reading, running, alloc, live, head, fixed, left, owned,
                   outqueue, waitqueue, begun, credits, calls>>

-----------------------------------------------------------------------------
(* smb2_timeout_pdus(), at the end of every service call. *)

Time == \E p \in Pdu : left[p] > 0

Tick ==
    /\ phase = "app" /\ Time
    /\ left' = [p \in Pdu |-> IF left[p] > 0 THEN left[p] - 1 ELSE 0]
    /\ UNCHANGED <<phase, ret, reading, running, alloc, live, head, fixed, owned,
                   outqueue, waitqueue, begun, credits, calls>>

SweepOut(p) ==
    /\ phase = "sweepOut" /\ running = None
    /\ First(p, Expired(outqueue))
    /\ outqueue' = outqueue \ {p}
    /\ running' = p
    /\ calls' = Called(p)
    /\ UNCHANGED <<phase, ret, reading, alloc, live, head, fixed, left, owned,
                   waitqueue, begun, credits>>

SweepWait(p) ==
    /\ phase = "sweepWait" /\ running = None
    /\ First(p, Expired(waitqueue))
    /\ waitqueue' = waitqueue \ {p}
    /\ running' = p
    /\ calls' = Called(p)
    /\ UNCHANGED <<phase, ret, reading, alloc, live, head, fixed, left, owned,
                   outqueue, begun, credits>>

\* The PDU is freed whoever was to free it.
Swept ==
    /\ phase \in {"sweepOut", "sweepWait"} /\ running # None
    /\ Free(running, outqueue, waitqueue)
    /\ running' = None
    /\ UNCHANGED <<phase, ret, reading, alloc, fixed, left, owned, credits, calls>>

\* Mutation: only the out queue is swept.
SweepDoneEarly ==
    /\ running = None
    /\ phase = "sweepOut" /\ Expired(outqueue) = {}
    /\ phase' = IF ret < 0 THEN "failed" ELSE "app"
    /\ UNCHANGED <<ret, reading, running, alloc, live, head, fixed, left, owned,
                   outqueue, waitqueue, begun, credits, calls>>

SweepDone ==
    /\ running = None
    /\ \/ phase = "sweepOut" /\ Expired(outqueue) = {} /\ phase' = "sweepWait"
       \/ phase = "sweepWait" /\ Expired(waitqueue) = {}
          /\ phase' = IF ret < 0 THEN "failed" ELSE "app"
    /\ UNCHANGED <<ret, reading, running, alloc, live, head, fixed, left, owned,
                   outqueue, waitqueue, begun, credits, calls>>

-----------------------------------------------------------------------------
(* smb2_destroy_context(): every callback runs with SMB2_STATUS_SHUTDOWN. *)

rest == <<ret, recv, running, alloc, fixed, left, owned, credits>>

Destroy ==
    /\ phase \in {"app", "failed"}
    /\ phase' = "drainOut"
    /\ UNCHANGED <<rest, live, head, outqueue, waitqueue, rpdu, begun, calls>>

DrainOut(p) ==
    /\ phase = "drainOut" /\ First(p, outqueue)
    /\ calls' = Called(p)
    /\ Free(p, outqueue \ {p}, waitqueue)
    /\ UNCHANGED <<rest, phase, rpdu>>

\* Mutation: the PDU being received is freed and its callback forgotten.
DrainCurrentSilent ==
    /\ phase = "drainOut" /\ outqueue = {}
    /\ phase' = "drainWait"
    /\ IF rpdu = None
         THEN UNCHANGED <<live, head, outqueue, waitqueue, begun>>
         ELSE Free(rpdu, outqueue, waitqueue)
    /\ rpdu' = None
    /\ UNCHANGED <<rest, calls>>

DrainCurrent ==
    /\ phase = "drainOut" /\ outqueue = {}
    /\ phase' = "drainWait"
    /\ IF rpdu = None
         THEN UNCHANGED <<live, head, outqueue, waitqueue, begun, calls>>
         ELSE calls' = Called(rpdu) /\ Free(rpdu, outqueue, waitqueue)
    /\ rpdu' = None
    /\ UNCHANGED rest

DrainWait(p) ==
    /\ phase = "drainWait" /\ First(p, waitqueue)
    /\ calls' = Called(p)
    /\ Free(p, outqueue, waitqueue \ {p})
    /\ UNCHANGED <<rest, phase, rpdu>>

Drained ==
    /\ phase = "drainWait" /\ waitqueue = {}
    /\ phase' = "gone"
    /\ UNCHANGED <<rest, live, head, outqueue, waitqueue, rpdu, begun, calls>>

-----------------------------------------------------------------------------

Reading == \/ ReadPending \/ ReadNotification \/ Deliver \/ Delivered
           \/ ReadBlocked \/ ReadFailed
           \/ \E m \in Pdu : ReadUnknown(m) \/ ReadReply(m) \/ ReadOutOfOrder(m)

Writing == WriteStops \/ \E p \in Pdu : WritePart(p) \/ WriteRest(p)

Sweeping == Swept \/ SweepDone \/ \E p \in Pdu : SweepOut(p) \/ SweepWait(p)

Draining == DrainCurrent \/ Drained \/ \E p \in Pdu : DrainOut(p) \/ DrainWait(p)

Done == phase = "gone" /\ UNCHANGED vars

Next == \/ Queue \/ (\E p \in Pdu : FreeOwned(p)) \/ Tick \/ Service
        \/ Reading \/ Writing \/ Sweeping \/ Destroy \/ Draining \/ Done

Spec == Init /\ [][Next]_vars

(* What the worker owes: it keeps calling smb2_service_fd() (libsmb2.h asks *)
(* for one call a second), callbacks return, reads and writes end when the  *)
(* socket would block, and time passes. Nothing is assumed of the server.   *)
Fairness ==
    /\ WF_vars(Service) /\ SF_vars(Tick)
    /\ WF_vars(Delivered) /\ WF_vars(ReadBlocked \/ ReadFailed)
    /\ WF_vars(WriteStops) /\ WF_vars(Sweeping)
    /\ WF_vars(phase = "failed" /\ Destroy) /\ WF_vars(Draining)

FairSpec == Spec /\ Fairness

-----------------------------------------------------------------------------
(* Properties *)

Gone == phase \in {"drainOut", "drainWait", "gone"}

\* Every PDU the context or a running callback can still reach is allocated:
\* the queues, the chains behind queued heads, and smb2->pdu.
NoDangling ==
    /\ {p \in Pdu : head[p] \in outqueue} \cup waitqueue \subseteq live
    /\ {rpdu, running} \subseteq live \cup {None}

\* No command completes twice, whatever mix of replies, duplicates, timeouts
\* and destruction ends it.
AtMostOnce == \A p \in Pdu : calls[p] <= 1

\* The uses for which the engine keeps its promises: no caller frees a PDU whose
\* command is under way, and compounds are not combined with a timeout.
SafeUse == CallerFrees # "any" /\ (MaxChain = 1 \/ Timeout = 0)

\* The inductive invariant behind NoDangling and AtMostOnce, in three parts:
\* where a PDU may be,
Places ==
    /\ outqueue \cup waitqueue \subseteq live
    /\ {rpdu, running} \subseteq live \cup {None}
    /\ outqueue \cap waitqueue = {}
    /\ rpdu \notin outqueue
    /\ rpdu \in waitqueue => /\ Timeout = 0 /\ ret = -1
                             /\ phase \in {"sweepOut", "sweepWait", "failed", "drainOut"}
    /\ running \notin outqueue \cup waitqueue
    /\ running # None => phase \in {"read", "sweepOut", "sweepWait"}
    /\ running # None /\ phase = "read" => running = rpdu
    /\ running # None /\ phase # "read" => running # rpdu /\ Timeout > 0
    /\ recv = "body" /\ phase \in {"app", "read", "write"} => rpdu # None
    /\ recv = "header" /\ phase \in {"app", "read", "write"} => rpdu = None
    /\ phase \in {"drainWait", "gone"} => rpdu = None
    /\ phase \in {"sweepOut", "sweepWait"} /\ ret = 0 => (rpdu = None <=> recv = "header")

\* what a chain looks like while its head is queued,
Chains ==
    \A q \in Pdu :
        /\ q > alloc => q \notin live /\ head[q] = q /\ calls[q] = 0
        /\ MaxChain = 1 => head[q] = q /\ prev[q] = None
        /\ head[q] # q => /\ head[q] \in outqueue
                          /\ q \in live
                          /\ q \notin outqueue \cup waitqueue
                          /\ q # rpdu
                          /\ calls[q] = 0

\* and that whatever can still be called back has not been.
Callbacks ==
    \A p \in Pdu :
        /\ calls[p] <= 1
        /\ p \in outqueue \cup waitqueue => calls[p] = 0
        /\ p = rpdu /\ running # p => calls[p] = 0

IInv == Places /\ Chains /\ Callbacks

\* No command is forgotten: until its callback ran, a PDU is queued, chained
\* behind a queued one, waiting, or being received.
NothingLost ==
    \A p \in 1 .. alloc :
        calls[p] = 0 => head[p] \in outqueue \cup waitqueue \/ p = rpdu

\* No PDU is left in smb2->pdu when the next header is due.
NoLeftover == HeaderDue => rpdu = None

\* In a compound the callbacks run in the order of the commands (the last one
\* releases the data they share) as long as the context is being serviced. Not
\* so in destruction, which starts with the PDU being received.
CompoundOrderInService ==
    ~Gone => \A p \in Pdu : prev[p] # None /\ calls[p] > 0 => calls[prev[p]] > 0

\* Once the context is destroyed every command has completed
\* (libsmb2.h: "Any pending async commands will be aborted").
AllAborted == phase = "gone" => \A p \in 1 .. alloc : calls[p] > 0

\* A PDU the caller has yet to free is still allocated while the context is used.
OwnedLive == phase = "app" => owned \subseteq live

\* Once bytes of a frame are on the wire, its PDU stays the next one to be
\* written until the rest has followed: no other frame is begun inside it.
FramesWhole ==
    [][\A p \in begun : First(p, outqueue') \/ p \in waitqueue' \/ Gone']_vars

\* With a timeout, no command stays on a queue for ever, whatever the server does.
QueuedSettles ==
    \A p \in Pdu : p \in outqueue \cup waitqueue ~> p \notin outqueue \cup waitqueue

\* With a timeout, every command completes (libsmb2.h: "Set the timeout in
\* seconds after which a command will be aborted").
EveryCommandEnds == \A p \in Pdu : p \in live ~> calls[p] > 0
=============================================================================
