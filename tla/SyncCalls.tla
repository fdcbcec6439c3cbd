----------------------------- MODULE SyncCalls -----------------------------
(***************************************************************************)
(* sync.c: the blocking calls. Each starts the asynchronous operation with *)
(* a struct sync_cb_data, polls until the record says finished, and        *)
(* releases the record. The operation below (ClientPipelines) ends once,   *)
(* whenever it likes: while its caller waits, in the wait of a later call, *)
(* or when the context is destroyed. Nothing stops a caller whose wait     *)
(* failed from calling on.                                                 *)
(***************************************************************************)
EXTENDS Naturals, FiniteSets

CONSTANTS
    MaxCalls \* bound: calls on one context; the n-th call's record is n

ASSUME CallsAssumption == MaxCalls \in Nat

\* "generic": fsync, pread, pwrite, read, write, unlink, rmdir, mkdir, fstat, stat, rename,
\* statvfs, truncate, ftruncate, readlink and echo. Connecting and disconnecting share the
\* record embedded in the context, number 0.
Kinds == {"connect", "disconnect", "opendir", "open", "close", "generic", "shares"}
Embedded == 0
Records == 0 .. MaxCalls

VARIABLES
    context,  \* "open", "gone"; "closing": smb2_destroy_context runs the callbacks
    valid,    \* SMB2_VALID_SOCKET(fd)
    calls,    \* how many calls were made
    made,     \* the kind of each
    waiting,  \* the thread is in wait_for_reply of the last one
    finished, status, \* is_finished, status of each record
    alive,    \* the record is allocated
    pending,  \* the calls whose operation has not ended
    ended,    \* history: what each call's operation ended with
    returned, \* history: how each call returned
    touched   \* history: the first callback that used a freed record, and its status

vars == <<context, valid, calls, made, waiting, finished, status, alive, pending, ended, returned,
          touched>>

Results == {"ok", "error"}

\* "abandoned": the wait failed. "missed": it failed though the record was finished, because
\* smb2_service ran the callback and then failed.
Returns == Results \cup {"none", "abandoned", "missed"}

(***************************************************************************)
(* A call: the record is allocated (the embedded one is used as it was     *)
(* left) and the operation is queued, or cannot be.                        *)
(***************************************************************************)
TakeEmbedded(k, n) == Embedded \* for a mutant: every call uses the context's record.
Take(k, n) == IF k \in {"connect", "disconnect"} THEN Embedded ELSE n

Record(n) == Take(made[n], n)

Call(k) ==
    /\ context = "open" /\ ~ waiting /\ calls < MaxCalls
    /\ k = "connect" => ~ valid
    /\ k \in {"disconnect", "shares"} => valid
    /\ calls' = calls + 1 /\ made' = [made EXCEPT ![calls + 1] = k] /\ waiting' = TRUE
    /\ pending' = pending \cup {calls + 1}
    /\ LET r == Take(k, calls + 1) IN
         IF r = Embedded THEN UNCHANGED <<finished, status, alive>>
         ELSE /\ finished' = [finished EXCEPT ![r] = FALSE]
              /\ status' = [status EXCEPT ![r] = "ok"]
              /\ alive' = [alive EXCEPT ![r] = TRUE]
    /\ UNCHANGED <<context, valid, ended, returned, touched>>

\* The asynchronous function returned an error: the record goes, nothing is queued.
NotStarted(k) ==
    /\ context = "open" /\ ~ waiting /\ calls < MaxCalls
    /\ calls' = calls + 1 /\ made' = [made EXCEPT ![calls + 1] = k]
    /\ returned' = [returned EXCEPT ![calls + 1] = "error"]
    /\ UNCHANGED <<context, valid, waiting, finished, status, alive, pending, ended, touched>>

(***************************************************************************)
(* The callbacks. A cancelled record is freed by its callback, if anyone   *)
(* frees it; two of them return at once when the context shuts down,       *)
(* because their record is gone by then. An answer before that finds the   *)
(* freed block as it was left, or as the record of a later call.           *)
(***************************************************************************)
IgnoresNone(k) == FALSE \* for a mutant

IgnoresShutdown(k) == k \in {"opendir", "close"}

Block(r) == {r} \cup {q \in Records : ~ alive[r] /\ alive[q] /\ q > r}

\* smb2_opendir's callback leaves the status of a success as it is.
Finish(k, q, result) ==
    /\ finished' = [finished EXCEPT ![q] = TRUE]
    /\ status' = [status EXCEPT ![q] = IF result # "ok" THEN "error"
                                       ELSE IF k = "opendir" THEN @ ELSE "ok"]
    /\ UNCHANGED alive

SyncCallback(n, result) ==
    IF result = "shutdown" /\ IgnoresShutdown(made[n])
    THEN UNCHANGED <<finished, status, alive, touched>>
    ELSE /\ touched' = IF alive[Record(n)] \/ touched # {} THEN touched ELSE {<<n, result>>}
         /\ \E q \in Block(Record(n)) :
              IF status[q] = "cancelled" /\ made[n] \notin {"opendir", "open"}
              THEN /\ alive' = [alive EXCEPT ![q] = (q = Embedded)]
                   /\ UNCHANGED <<finished, status>>
              ELSE Finish(made[n], q, result)

\* The loop of wait_for_reply runs: the record is not finished, or was finished in this turn.
Polling == waiting /\ (finished[Record(calls)] => ended[calls] # "none" \/ touched # {})

\* smb2_service, or the timeout sweep, runs the callback of an operation that ended. A connection
\* attempt leaves a socket if it succeeds, and possibly if not; disconnecting closes it.
Service(n, result) ==
    /\ context = "open" /\ Polling /\ n \in pending
    /\ pending' = pending \ {n}
    /\ SyncCallback(n, result)
    /\ ended' = [ended EXCEPT ![n] = result]
    /\ \/ made[n] = "connect" /\ valid' \in {TRUE, result = "ok"}
       \/ made[n] = "disconnect" /\ valid' = (valid /\ result # "ok")
       \/ made[n] \notin {"connect", "disconnect"} /\ UNCHANGED valid
    /\ UNCHANGED <<context, calls, made, waiting, returned>>

(***************************************************************************)
(* The end of the wait.                                                    *)
(***************************************************************************)
Return(result) ==
    /\ returned' = [returned EXCEPT ![calls] = result]
    /\ waiting' = FALSE
    /\ UNCHANGED <<context, calls, made, finished, ended, touched>>

\* The listing keeps the record its directory was opened with; smb2_open leaves its record to
\* the PDU, which was never told to free it; the others are freed.
WaitForReply ==
    /\ waiting /\ finished[Record(calls)]
    /\ LET r == Record(calls)
            result == IF status[r] = "ok" THEN "ok" ELSE "error"
       IN  /\ Return(result)
           /\ alive' = [alive EXCEPT ![r] = \/ r = Embedded \/ made[calls] = "open"
                                            \/ made[calls] = "opendir" /\ result = "ok"]
    /\ UNCHANGED <<valid, status, pending>>

FreedAtOnce(k) == k \in {"opendir", "close"}
NeverCancelled(k) == FALSE \* for a mutant
Cancelled(k)   == k \in {"connect", "disconnect", "generic", "close"}

\* smb2_free_pdu takes the CREATE back; a listing may be past it.
Withdrawn(k) ==
    \/ k \in {"open", "opendir"} /\ pending' = pending \ {calls}
    \/ k # "open" /\ UNCHANGED pending

\* poll or smb2_service failed, or there was no socket for too long. A connection attempt may
\* have a socket by then.
WaitFails ==
    /\ Polling
    /\ LET r == Record(calls)
            k == made[calls]
       IN  /\ Return(IF finished[r] THEN "missed" ELSE "abandoned")
           /\ status' = [status EXCEPT ![r] = IF Cancelled(k) THEN "cancelled" ELSE @]
           /\ alive' = [alive EXCEPT ![r] = ~ FreedAtOnce(k)]
           /\ Withdrawn(k)
           /\ valid' \in {valid, (valid \/ k = "connect")}

(***************************************************************************)
(* The destruction of the context.                                         *)
(***************************************************************************)
Destroy ==
    /\ context = "open" /\ ~ waiting
    /\ context' = "closing" /\ valid' = FALSE
    /\ UNCHANGED <<calls, made, waiting, finished, status, alive, pending, ended, returned,
                   touched>>

ShutDown(n) ==
    /\ context = "closing" /\ n \in pending
    /\ pending' = pending \ {n}
    /\ SyncCallback(n, "shutdown")
    /\ UNCHANGED <<context, valid, calls, made, waiting, ended, returned>>

Gone ==
    /\ context = "closing" /\ pending = {}
    /\ context' = "gone"
    /\ alive' = [alive EXCEPT ![Embedded] = FALSE]
    /\ UNCHANGED <<valid, calls, made, waiting, finished, status, pending, ended, returned,
                   touched>>

Init ==
    /\ context = "open" /\ valid = FALSE /\ calls = 0 /\ waiting = FALSE
    /\ made = [n \in 1 .. MaxCalls |-> "none"]
    /\ finished = [r \in Records |-> FALSE] /\ status = [r \in Records |-> "ok"]
    /\ alive = [r \in Records |-> r = Embedded]
    /\ pending = {}
    /\ ended = [n \in 1 .. MaxCalls |-> "none"]
    /\ returned = [n \in 1 .. MaxCalls |-> "none"]
    /\ touched = {}

Next ==
    \/ \E k \in Kinds : Call(k) \/ NotStarted(k)
    \/ \E n \in 1 .. MaxCalls, result \in Results : Service(n, result)
    \/ \E n \in 1 .. MaxCalls : ShutDown(n)
    \/ WaitForReply \/ WaitFails \/ Destroy \/ Gone

\* The thread is in the call: it polls, and leaves when the record is finished; the server
\* answers or the poll fails.
Fairness == WF_vars(\/ WaitForReply \/ WaitFails
                    \/ \E n \in 1 .. MaxCalls, result \in Results : Service(n, result))

Spec == Init /\ [][Next]_vars /\ Fairness

(***************************************************************************)
(* Properties.                                                             *)
(***************************************************************************)
TypeOK ==
    /\ context \in {"open", "closing", "gone"} /\ valid \in BOOLEAN /\ waiting \in BOOLEAN
    /\ calls \in 0 .. MaxCalls /\ made \in [1 .. MaxCalls -> Kinds \cup {"none"}]
    /\ finished \in [Records -> BOOLEAN] /\ alive \in [Records -> BOOLEAN]
    /\ status \in [Records -> Results \cup {"cancelled"}]
    /\ pending \subseteq 1 .. MaxCalls
    /\ ended \in [1 .. MaxCalls -> Results \cup {"none"}]
    /\ returned \in [1 .. MaxCalls -> Returns]
    /\ touched \subseteq (1 .. MaxCalls) \X (Results \cup {"shutdown"})

\* The first callback to use a record that its call has freed, if there is one, is that of an
\* smb2_opendir or smb2_close whose wait failed, run by an answer or a timeout in the wait of a
\* later call. No other call's callback comes too late, and destruction runs none that does.
LateTouches == \A t \in touched :
    /\ made[t[1]] \in {"opendir", "close"} /\ returned[t[1]] = "abandoned"
    /\ t[2] # "shutdown" /\ t[1] < calls

\* A call that returns success returns what its own operation ended with, though operations of
\* earlier calls may end while it waits. Two exceptions: the record of connecting and
\* disconnecting still says finished from the time before, and the callback of an earlier call
\* has used the memory of a freed record, which may be this one's now.
ResultIsOwn == \A n \in 1 .. MaxCalls : returned[n] = "ok" =>
    \/ ended[n] = "ok"
    \/ /\ made[n] \in {"connect", "disconnect"}
       /\ \E m \in 1 .. n - 1 : made[m] \in {"connect", "disconnect"} /\ ended[m] = "ok"
    \/ \E t \in touched : t[1] < n

\* Every record is given back by the time the context is gone, if no freed one was used: by its
\* call, by its callback, or with the listing. Not those of smb2_open, of an smb2_share_enum_sync
\* whose wait failed, and of a call whose callback had run when its wait failed.
Left(n) == \/ made[n] = "opendir" /\ returned[n] = "ok"
           \/ made[n] = "open"
           \/ made[n] = "shares" /\ returned[n] = "abandoned"
           \/ returned[n] = "missed"
RecordsReturned ==
    context = "gone" /\ touched = {} => \A n \in 1 .. calls : alive[n] => Left(n)

\* A call that was made returns.
CallsReturn == waiting ~> ~ waiting

\* No callback, however late it comes, uses a record that its call has freed. Refuted by
\* smb2_close and smb2_opendir: LateTouches says how far it holds.
NoLateTouch == touched = {}

\* sync.c on smb2_open's record: "pdu takes ownership of cb_data and will free it when the pdu is
\* freed", which smb2_open does before it returns.
OpenRecordFreed == \A n \in 1 .. MaxCalls :
    made[n] = "open" /\ returned[n] # "none" => ~ alive[n]

\* libsmb2.h on smb2_disconnect_share, "0: Disconnected from the share successfully": the call
\* returns 0 only when its operation has ended.
DisconnectWaits == \A n \in 1 .. MaxCalls :
    made[n] = "disconnect" /\ returned[n] = "ok" => n \notin pending
=============================================================================
