-------------------------- MODULE ClientPipelines --------------------------
(***************************************************************************)
(* The client operations of libsmb2.c: each one queues a command, or a     *)
(* compound of related commands, and its callbacks carry it from answer to *)
(* answer until the caller is told. The engine below (Smb2Pdu) calls every *)
(* callback once; here is what the callbacks do with it. Several           *)
(* operations may be in flight, each in a slot of its own, and the caller  *)
(* may destroy the context at any time.                                    *)
(*                                                                         *)
(* The caller keeps one rule: while an operation that stores its callback  *)
(* in the file handle (open, close, fsync) is in flight, it starts no      *)
(* other such operation on that handle, and it closes a quiet handle only. *)
(***************************************************************************)
EXTENDS Naturals, Sequences, FiniteSets

CONSTANTS
    Slot,       \* operations in flight
    Handle,     \* the struct smb2fh that may be allocated
    NoHandle,   \* the fh of an operation on a path
    Pipe,       \* the server's handle of the srvsvc pipe
    MaxStarts,  \* bound: operations started
    MaxBatches  \* bound: QUERY_DIRECTORY replies of one listing

ASSUME PipelineConstants ==
    /\ NoHandle \notin Handle /\ Slot \cap Handle = {} /\ Pipe \notin Slot \cup Handle
    /\ MaxStarts \in Nat /\ MaxBatches \in Nat

VARIABLES
    context,   \* "open"; "closing": smb2_destroy_context drains; "gone"; "crashed": the process
    connected, \* smb2->fd is valid
    ops,       \* what each slot runs or last ran
    handles,   \* each smb2fh: "none", "allocated", "open", "freed"
    frees,     \* history: how often each smb2fh was freed
    opened,    \* what the server holds open for this client
    starts     \* history: operations started

vars == <<context, connected, ops, handles, frees, opened, starts>>

(***************************************************************************)
(* Statuses. The two refusals stand for all of them but END_OF_FILE, which *)
(* nterror_to_errno takes for 0 whatever command it answers; a malformed   *)
(* listing is a success whose buffer does not parse.                       *)
(***************************************************************************)
Refusal == {"DENIED", "BUSY"}
Errno(s) == IF s = "EOF" THEN "OK" ELSE s

MergedLast(recorded, s) == s \* for a mutant: the last status stays.

\* "status" of stat_cb_data, trunc_cb_data and rename_cb_data: the first failure stays.
Merged(recorded, s) == IF recorded = "OK" THEN s ELSE recorded

Idle == [name |-> "none", queue |-> <<>>, sent |-> FALSE, recorded |-> "OK", data |-> "none",
         told |-> <<>>, fh |-> NoHandle, listed |-> <<>>, dropped |-> FALSE, refused |-> FALSE,
         created |-> "none", failure |-> "OK", closed |-> "OK", batches |-> 0]

\* History: what the CREATE (the first command) was answered, the first status that is not a
\* success, the CLOSE of an unlink or a mkdir, the batches of the listing that were sent.
Answered(o, s) == [o EXCEPT
    !.queue = Tail(@),
    !.created = IF @ = "none" THEN s ELSE @,
    !.failure = IF @ = "OK" THEN s ELSE @,
    !.closed = IF Head(o.queue) = "create_cb_2" THEN s ELSE @,
    !.batches = IF Head(o.queue) = "query_cb" /\ s = "OK" THEN @ + 1 ELSE @]

(***************************************************************************)
(* The callbacks, on the operation o whose head request has been answered. *)
(***************************************************************************)
Ask(o, cb)   == [o EXCEPT !.queue = <<cb>>, !.sent = FALSE]
Tell(o, r)   == [o EXCEPT !.told = Append(@, r), !.data = "freed"]
Record(o, s) == [o EXCEPT !.recorded = Merged(@, s)]

\* For a mutant: opendir_cb asks again when it is shut down.
OpendirCbRearms(o, s, built) ==
    IF s = "OK" /\ built    THEN Ask(o, "query_cb")
    ELSE IF s = "SHUTDOWN" THEN Ask(o, "opendir_cb")
    ELSE Tell(o, IF s = "OK" THEN "NOMEM" ELSE Errno(s))

OpendirCb(o, s, built) ==
    IF s = "OK" /\ built THEN Ask(o, "query_cb")
    ELSE Tell(o, IF s = "OK" THEN "NOMEM" ELSE Errno(s))

DecodeDirentsLast(o) == [o EXCEPT !.listed = Append(@, Len(@) + 1)] \* for a mutant

\* SMB2_LIST_ADD puts an entry in front: the newest batch leads the list.
DecodeDirents(o) == [o EXCEPT !.listed = <<Len(@) + 1>> \o @]

QueryCb(o, s, built) ==
    IF s = "OK" /\ built           THEN Ask(DecodeDirents(o), "query_cb")
    ELSE IF s = "NO_MORE" /\ built THEN Ask(o, "od_close_cb")
    ELSE Tell(o, IF s \in {"OK", "NO_MORE", "MALFORMED"} THEN "NOMEM" ELSE Errno(s))

OdCloseCb(o, s) ==
    IF s = "OK" THEN [o EXCEPT !.told = Append(@, "OK"), !.data = "given"]
    ELSE Tell(o, Errno(s))

\* open_cb, close_cb and fsync_cb report through the handle; HandlesAfter keeps or frees it.
OpenCb(o, s)  == [o EXCEPT !.told = Append(@, Errno(s))]
CloseCb(o, s) == [o EXCEPT !.told = Append(@, Errno(s))]
FsyncCb(o, s) == [o EXCEPT !.told = Append(@, Errno(s))]

ReadCb(o, s)   == Tell(o, Errno(s))
WriteCb(o, s)  == Tell(o, Errno(s))
FstatCb1(o, s) == Tell(o, Errno(s))
FtruncCb1(o, s) == Tell(o, Errno(s))
EchoCb(o, s)   == Tell(o, Errno(s))

\* For a mutant: the failed CREATE frees the record its CLOSE still carries.
CreateCb1Frees(o, s) == IF s = "OK" THEN o ELSE [o EXCEPT !.data = "freed"]
CreateCb1(o, s) == o
CreateCb2(o, s) == Tell(o, Errno(s))

\* For a mutant: a failed QUERY_INFO is reported before the CLOSE is answered.
GetinfoCb2Tells(o, s) == IF s = "OK" THEN Record(o, s) ELSE Tell(Record(o, s), Errno(s))
GetinfoCb1(o, s) == Record(o, s)
GetinfoCb2(o, s) == Record(o, s)
GetinfoCb3(o, s) == Tell(o, Errno(Merged(o.recorded, s)))
TruncCb1(o, s)   == Record(o, s)
TruncCb2(o, s)   == Record(o, s)
TruncCb3(o, s)   == Tell(o, Errno(Merged(o.recorded, s)))
RenameCb1(o, s)  == Record(o, s)
RenameCb2(o, s)  == Record(o, s)
RenameCb3(o, s)  == Tell(o, Errno(Merged(o.recorded, s)))

ReadlinkCb1(o, s) == [o EXCEPT !.recorded = s]
ReadlinkCb2(o, s) == Record(o, s)
ReadlinkCb3(o, s) == Tell(o, Errno(o.recorded))

DisconnectCb1(o, s, built) ==
    IF s = "OK" /\ built THEN Ask(o, "disconnect_cb_2") ELSE Tell(o, "NOMEM")
DisconnectCb2(o, s) == Tell(o, "OK")

\* Listing the shares: the srvsvc pipe is opened, bound and called; nothing closes it. What is
\* answered END_OF_FILE is passed on as 0, so the next step is taken: an open that failed so
\* goes straight to the call.
SmbOpenCb(o, s, built) ==
    IF s = "OK" /\ built       THEN Ask(o, "smb2_bind_cb")
    ELSE IF s = "EOF" /\ built THEN Ask(o, "dcerpc_call_cb")
    ELSE Tell(o, IF Errno(s) = "OK" THEN "NOMEM" ELSE Errno(s))

SmbBindCb(o, s, built) ==
    IF Errno(s) = "OK" /\ built THEN Ask(o, "dcerpc_call_cb")
    ELSE Tell(o, IF Errno(s) = "OK" THEN "NOMEM"
                 ELSE IF s = "MALFORMED" THEN "INVAL" ELSE Errno(s))

DcerpcCallCb(o, s, built) ==
    Tell(o, IF s = "OK" /\ ~ built THEN "NOMEM" ELSE IF s = "MALFORMED" THEN "INVAL" ELSE Errno(s))

\* pdu->cb of the answered request.
Callback(o, s, built) ==
    LET cb == Head(o.queue)
        a  == Answered(o, s) IN
    CASE cb = "opendir_cb"      -> OpendirCb(a, s, built)
      [] cb = "query_cb"        -> QueryCb(a, s, built)
      [] cb = "od_close_cb"     -> OdCloseCb(a, s)
      [] cb = "open_cb"         -> OpenCb(a, s)
      [] cb = "close_cb"        -> CloseCb(a, s)
      [] cb = "fsync_cb"        -> FsyncCb(a, s)
      [] cb = "read_cb"         -> ReadCb(a, s)
      [] cb = "write_cb"        -> WriteCb(a, s)
      [] cb = "fstat_cb_1"      -> FstatCb1(a, s)
      [] cb = "ftrunc_cb_1"     -> FtruncCb1(a, s)
      [] cb = "echo_cb"         -> EchoCb(a, s)
      [] cb = "create_cb_1"     -> CreateCb1(a, s)
      [] cb = "create_cb_2"     -> CreateCb2(a, s)
      [] cb = "getinfo_cb_1"    -> GetinfoCb1(a, s)
      [] cb = "getinfo_cb_2"    -> GetinfoCb2(a, s)
      [] cb = "getinfo_cb_3"    -> GetinfoCb3(a, s)
      [] cb = "trunc_cb_1"      -> TruncCb1(a, s)
      [] cb = "trunc_cb_2"      -> TruncCb2(a, s)
      [] cb = "trunc_cb_3"      -> TruncCb3(a, s)
      [] cb = "rename_cb_1"     -> RenameCb1(a, s)
      [] cb = "rename_cb_2"     -> RenameCb2(a, s)
      [] cb = "rename_cb_3"     -> RenameCb3(a, s)
      [] cb = "readlink_cb_1"   -> ReadlinkCb1(a, s)
      [] cb = "readlink_cb_2"   -> ReadlinkCb2(a, s)
      [] cb = "readlink_cb_3"   -> ReadlinkCb3(a, s)
      [] cb = "disconnect_cb_1" -> DisconnectCb1(a, s, built)
      [] cb = "disconnect_cb_2" -> DisconnectCb2(a, s)
      [] cb = "smb2_open_cb"    -> SmbOpenCb(a, s, built)
      [] cb = "smb2_bind_cb"    -> SmbBindCb(a, s, built)
      [] cb = "dcerpc_call_cb"  -> DcerpcCallCb(a, s, built)

\* free_smb2fh is called by a failed open_cb and by every close_cb.
FreesHandle(cb, s) == cb = "close_cb" \/ (cb = "open_cb" /\ s # "OK")

\* For a mutant: the handle of a failed open stays on pta_open_handles.
HandlesKept(cb, s, h) ==
    CASE cb = "open_cb" /\ s = "OK" -> [handles EXCEPT ![h] = "open"]
      [] cb = "close_cb" -> [handles EXCEPT ![h] = "freed"]
      [] OTHER -> handles

\* What open_cb and close_cb do with the smb2fh.
HandlesAfter(cb, s, h) ==
    CASE cb = "open_cb" /\ s = "OK" -> [handles EXCEPT ![h] = "open"]
      [] FreesHandle(cb, s) -> [handles EXCEPT ![h] = "freed"]
      [] OTHER -> handles

(***************************************************************************)
(* Starting operations.                                                    *)
(***************************************************************************)
Busy(h)  == \E k \in Slot : ops[k].fh = h /\ ops[k].queue # <<>>
Owned(h) == \E k \in Slot : /\ ops[k].fh = h /\ ops[k].queue # <<>>
                            /\ ops[k].name \in {"open", "close", "fsync"}

\* A record is kept by the operations that allocate one; open, close and fsync use the smb2fh.
Queue(k, name, chain, h) ==
    /\ context = "open" /\ starts < MaxStarts
    /\ ops[k].queue = <<>> /\ ops[k].data # "given"
    /\ ops' = [ops EXCEPT ![k] = [Idle EXCEPT
                  !.name = name, !.queue = chain, !.fh = h,
                  !.data = IF name \in {"open", "close", "fsync"} THEN "none" ELSE "live"]]
    /\ starts' = starts + 1
    /\ UNCHANGED <<context, connected, opened, frees>>

OnPath(k, name, chain)      == Queue(k, name, chain, NoHandle) /\ UNCHANGED handles
OnHandle(k, name, chain, h) == handles[h] = "open" /\ Queue(k, name, chain, h) /\ UNCHANGED handles

Opendir(k)  == OnPath(k, "opendir", <<"opendir_cb">>)
Unlink(k)   == OnPath(k, "unlink", <<"create_cb_1", "create_cb_2">>)
Mkdir(k)    == OnPath(k, "mkdir", <<"create_cb_1", "create_cb_2">>)
Getinfo(k)  == OnPath(k, "stat", <<"getinfo_cb_1", "getinfo_cb_2", "getinfo_cb_3">>)
Truncate(k) == OnPath(k, "truncate", <<"trunc_cb_1", "trunc_cb_2", "trunc_cb_3">>)
Rename(k)   == OnPath(k, "rename", <<"rename_cb_1", "rename_cb_2", "rename_cb_3">>)
Readlink(k) == OnPath(k, "readlink", <<"readlink_cb_1", "readlink_cb_2", "readlink_cb_3">>)
Echo(k)     == OnPath(k, "echo", <<"echo_cb">>)

ShareEnum(k) == OnPath(k, "share_enum", <<"smb2_open_cb">>)

Disconnect(k) == connected /\ OnPath(k, "disconnect", <<"disconnect_cb_1">>)

Open(k, h) ==
    /\ handles[h] = "none"
    /\ Queue(k, "open", <<"open_cb">>, h)
    /\ handles' = [handles EXCEPT ![h] = "allocated"]

Close(k, h)     == ~ Busy(h) /\ OnHandle(k, "close", <<"close_cb">>, h)
Fsync(k, h)     == ~ Owned(h) /\ OnHandle(k, "fsync", <<"fsync_cb">>, h)
Closing(h)      == \E k \in Slot : ops[k].fh = h /\ ops[k].queue = <<"close_cb">>
Pread(k, h)     == ~ Closing(h) /\ OnHandle(k, "read", <<"read_cb">>, h)
Pwrite(k, h)    == ~ Closing(h) /\ OnHandle(k, "write", <<"write_cb">>, h)
Fstat(k, h)     == ~ Closing(h) /\ OnHandle(k, "fstat", <<"fstat_cb_1">>, h)
Ftruncate(k, h) == ~ Closing(h) /\ OnHandle(k, "ftruncate", <<"ftrunc_cb_1">>, h)

\* The caller frees the listing it was given.
Closedir(k) ==
    /\ context \in {"open", "closing"} /\ ops[k].data = "given"
    /\ ops' = [ops EXCEPT ![k].data = "freed"]
    /\ UNCHANGED <<context, connected, handles, frees, opened, starts>>

(***************************************************************************)
(* A command of the operation cannot be built (no memory): the request at  *)
(* place "at" of the compound. The function returns an error; whether it   *)
(* also calls the callback and frees its record differs from one operation *)
(* to the next.                                                            *)
(***************************************************************************)
Compounds == {"unlink", "mkdir", "stat", "truncate", "rename", "readlink"}
LastOf(name) == IF name \in {"unlink", "mkdir"} THEN 2 ELSE IF name \in Compounds THEN 3 ELSE 1
Leaks(name, at) == at = 1 /\ name \in {"unlink", "mkdir", "ftruncate", "read", "write"}
TellsToo(name, at) == at = 3 /\ name \in {"stat", "truncate", "rename"}

Unbuilt(k, name) == \E at \in 1 .. LastOf(name) :
    /\ context = "open" /\ starts < MaxStarts
    /\ ops[k].queue = <<>> /\ ops[k].data # "given"
    /\ ops' = [ops EXCEPT ![k] = [Idle EXCEPT
                  !.name = name, !.refused = TRUE,
                  !.data = IF Leaks(name, at) THEN "leaked" ELSE "freed",
                  !.told = IF TellsToo(name, at) THEN <<"NOMEM">> ELSE <<>>]]
    /\ starts' = starts + 1
    /\ UNCHANGED <<context, connected, handles, frees, opened>>

(***************************************************************************)
(* The engine and the server. A compound is written as one, and the        *)
(* server answers related commands in order: once the CREATE failed, the   *)
(* commands on the handle it should have given fail too.                   *)
(***************************************************************************)
Write(k) ==
    /\ context = "open" /\ connected /\ ops[k].queue # <<>> /\ ~ ops[k].sent
    /\ ops' = [ops EXCEPT ![k].sent = TRUE]
    /\ UNCHANGED <<context, connected, handles, frees, opened, starts>>

Creates == {"opendir_cb", "open_cb", "create_cb_1", "getinfo_cb_1", "trunc_cb_1", "rename_cb_1",
            "readlink_cb_1", "smb2_open_cb"}
Closes  == {"od_close_cb", "close_cb", "create_cb_2", "getinfo_cb_3", "trunc_cb_3", "rename_cb_3",
            "readlink_cb_3"}
Key(k)  == IF ops[k].fh # NoHandle THEN ops[k].fh
           ELSE IF ops[k].name = "share_enum" THEN Pipe ELSE k

Answers(k) ==
    LET cb == Head(ops[k].queue) IN
    CASE cb = "query_cb" ->
            Refusal \cup {"NO_MORE", "EOF"}
              \cup (IF Len(ops[k].listed) < MaxBatches THEN {"OK", "MALFORMED"} ELSE {})
      [] cb = "smb2_bind_cb"   -> Refusal \cup {"OK", "EOF", "MALFORMED"}
      [] cb = "dcerpc_call_cb" -> Refusal \cup {"OK", "MALFORMED"} \* END_OF_FILE: see Crash
      [] ops[k].name \in Compounds /\ cb \notin Creates /\ ops[k].created # "OK" ->
            Refusal \cup {"EOF"}
      [] OTHER -> Refusal \cup {"OK", "EOF"}

Reply(k) ==
    /\ context = "open" /\ connected /\ ops[k].queue # <<>> /\ ops[k].sent
    /\ \E s \in Answers(k), built \in BOOLEAN :
         LET cb == Head(ops[k].queue) IN
         /\ ops' = [ops EXCEPT ![k] = Callback(@, s, built)]
         /\ handles' = HandlesAfter(cb, s, ops[k].fh)
         /\ frees' = [h \in Handle |-> frees[h] +
                        IF ops[k].fh = h /\ FreesHandle(cb, s) THEN 1 ELSE 0]
         /\ opened' = IF s = "OK" /\ cb \in Creates THEN opened \cup {Key(k)}
                      ELSE IF s = "OK" /\ cb \in Closes THEN opened \ {Key(k)} ELSE opened
         /\ connected' = (cb # "disconnect_cb_2")
    /\ UNCHANGED <<context, starts>>

(***************************************************************************)
(* Two callbacks read through a NULL. fstat_cb_1 reads rep->output_buffer  *)
(* before it looks at the status, and a request that times out or is shut  *)
(* down brings no reply: a build that keeps the early read ends there, one *)
(* that moves it behind the check goes on (Reply, Drain). srvsvc_ioctl_cb  *)
(* reads rep->status of the call answered END_OF_FILE, which               *)
(* dcerpc_call_cb passed on as 0 without a payload.                        *)
(***************************************************************************)
Crash(k) ==
    /\ ops[k].queue # <<>>
    /\ \/ Head(ops[k].queue) = "fstat_cb_1" /\ context \in {"open", "closing"}
       \/ Head(ops[k].queue) = "dcerpc_call_cb" /\ ops[k].sent /\ context = "open" /\ connected
    /\ context' = "crashed"
    /\ UNCHANGED <<connected, ops, handles, frees, opened, starts>>

(***************************************************************************)
(* smb2_destroy_context: every queued request is called back with          *)
(* SMB2_STATUS_SHUTDOWN, but of a compound that was not written only the   *)
(* head is; then the handles that were not closed are freed.               *)
(***************************************************************************)
Destroy ==
    /\ context = "open"
    /\ context' = "closing" /\ connected' = FALSE /\ opened' = {}
    /\ UNCHANGED <<ops, handles, frees, starts>>

\* What a callback queues while the context drains is drained too.
Drain(k) ==
    /\ context = "closing" /\ ops[k].queue # <<>>
    /\ LET o  == ops[k]
           cb == Head(o.queue)
           a  == Callback(o, "SHUTDOWN", TRUE) IN
       /\ ops' = [ops EXCEPT ![k] =
             IF ~ o.sent /\ Len(o.queue) > 1 THEN [a EXCEPT !.queue = <<>>, !.dropped = TRUE] ELSE a]
       /\ handles' = HandlesAfter(cb, "SHUTDOWN", o.fh)
       /\ frees' = [h \in Handle |-> frees[h] +
                      IF o.fh = h /\ FreesHandle(cb, "SHUTDOWN") THEN 1 ELSE 0]
    /\ UNCHANGED <<context, connected, opened, starts>>

FreeOpenHandles ==
    /\ context = "closing" /\ \A k \in Slot : ops[k].queue = <<>>
    /\ context' = "gone"
    /\ handles' = [h \in Handle |-> IF handles[h] \in {"allocated", "open"} THEN "freed"
                                    ELSE handles[h]]
    /\ frees' = [h \in Handle |-> frees[h] + IF handles[h] \in {"allocated", "open"} THEN 1 ELSE 0]
    /\ UNCHANGED <<connected, ops, opened, starts>>

Init ==
    /\ context = "open" /\ connected = TRUE
    /\ ops = [k \in Slot |-> Idle]
    /\ handles = [h \in Handle |-> "none"] /\ frees = [h \in Handle |-> 0]
    /\ opened = {} /\ starts = 0

StartOnPath(k) == Opendir(k) \/ Unlink(k) \/ Mkdir(k) \/ Getinfo(k) \/ Truncate(k) \/ Rename(k)
                    \/ Readlink(k) \/ ShareEnum(k) \/ Echo(k) \/ Disconnect(k)
StartOnHandle(k, h) == Open(k, h) \/ Close(k, h) \/ Fsync(k, h) \/ Pread(k, h) \/ Pwrite(k, h)
                         \/ Fstat(k, h) \/ Ftruncate(k, h)

Next ==
    \/ \E k \in Slot : StartOnPath(k) \/ Closedir(k) \/ Write(k) \/ Reply(k) \/ Crash(k) \/ Drain(k)
    \/ \E k \in Slot, h \in Handle : StartOnHandle(k, h)
    \/ \E k \in Slot, name \in Compounds \cup {"ftruncate", "read", "write"} : Unbuilt(k, name)
    \/ Destroy \/ FreeOpenHandles

\* The caller's loop writes and reads while the context is open and destroys it at its
\* deadline; the destruction runs to its end.
Fairness ==
    /\ WF_vars(Destroy)
    /\ WF_vars((\E k \in Slot : Drain(k)) \/ FreeOpenHandles)

Spec == Init /\ [][Next]_vars /\ Fairness

(***************************************************************************)
(* Properties.                                                             *)
(***************************************************************************)
Pending(k) == ops[k].queue # <<>>
Results == {"OK", "NOMEM", "INVAL", "SHUTDOWN"} \cup Refusal

TypeOK ==
    /\ context \in {"open", "closing", "gone", "crashed"} /\ connected \in BOOLEAN
    /\ \A k \in Slot : /\ ops[k].told \in Seq(Results)
                       /\ ops[k].fh \in Handle \cup {NoHandle}
                       /\ ops[k].data \in {"none", "live", "given", "freed", "leaked"}
    /\ handles \in [Handle -> {"none", "allocated", "open", "freed"}]
    /\ frees \in [Handle -> Nat] /\ opened \subseteq Slot \cup Handle \cup {Pipe}

\* The caller of an operation that was started hears exactly one result, and not before its last
\* command is answered. The exception is the code's: the compound that was still unsent when the
\* context was destroyed.
ToldOnce == \A k \in Slot :
    ~ ops[k].refused /\ ops[k].name # "none" =>
        Len(ops[k].told) = IF Pending(k) \/ ops[k].dropped THEN 0 ELSE 1

\* The record the callbacks share is alive as long as a request that carries it is queued, and
\* freed, or handed to the caller with the listing, when none is.
RecordLives == \A k \in Slot :
    ops[k].data # "none" /\ ~ ops[k].refused /\ ~ ops[k].dropped =>
        (Pending(k) <=> ops[k].data = "live")

\* stat, statvfs, truncate and rename report the first of their commands' statuses that is not a
\* success, however the later ones end; and no operation reports a success over a failed CREATE.
\* END_OF_FILE counts as the code counts it: told as 0, it hides the failures behind it, and as
\* the answer to the CLOSE of an unlink or a mkdir the failed CREATE before it.
FirstFailureReported == \A k \in Slot : LET o == ops[k] IN
    o.told # <<>> /\ ~ o.refused =>
       /\ o.name \in {"stat", "truncate", "rename"} => o.told[1] = Errno(o.failure)
       /\ o.told[1] = "OK" /\ o.name # "disconnect" =>
             o.created \in {"OK", "EOF"} \/ (o.name \in {"unlink", "mkdir"} /\ o.closed = "EOF")

\* A listing handed to the caller holds every batch the server sent, each once, newest first,
\* and the directory was closed. (A listing that ends in END_OF_FILE hands nothing over, though
\* its caller is told 0.)
ListingWhole == \A k \in Slot : LET o == ops[k] IN
    o.name = "opendir" /\ o.data = "given" =>
        /\ o.listed = [i \in 1 .. o.batches |-> o.batches + 1 - i]
        /\ k \notin opened

\* An smb2fh is freed once: by the open that failed, by its close, or with the context; and the
\* caller's open handles are those the server keeps for it.
HandlesFreedOnce ==
    /\ \A h \in Handle : frees[h] = IF handles[h] = "freed" THEN 1 ELSE 0
    /\ context = "gone" => \A h \in Handle : handles[h] \in {"none", "freed"}
    /\ context = "open" => \A h \in Handle : handles[h] = "open" => h \in opened

\* Whatever was started ends: the caller is told, or the compound was never sent, or the process
\* ended in one of the two reads through a NULL.
EndsTold == \A k \in Slot : Pending(k) ~> (~ Pending(k) \/ context = "crashed")

\* libsmb2.h, "-errno : There was an error. The callback function will not be invoked."
RefusedNotTold == \A k \in Slot : ops[k].refused => ops[k].told = <<>>
=============================================================================
