------------------------------- MODULE Formats -------------------------------
(***************************************************************************)
(* One message at a time from the encoder of a command's request or reply  *)
(* to the decoder of the other side: what lib/pdu.c dispatches on a        *)
(* command, first for the fixed part, whose decoder says how many bytes    *)
(* the variable part has, then for that.                                   *)
(*                                                                         *)
(* A message is                                                            *)
(*   cmd, kind   the command, and "request" (client to server) or "reply"  *)
(*   form        which of several structures of the command                *)
(*   status      of a reply: "ok", "error", "more_processing", "symlink"   *)
(*   rec         the structure given to the encoder                        *)
(*   count       of a read or write of a file, the bytes still to do       *)
(*   ctx         what the contexts on both sides say (CommandCodecs), the  *)
(*               class of a query, the room for its reply                  *)
(***************************************************************************)
EXTENDS CommandCodecs

CONSTANTS Messages,    \* a sequence of sets of messages, those of a set of the same structure
          Names,       \* the names, as UTF-16, that an entry of a listing may have
          Calls,       \* DCE/RPC messages: what they are, and mem: what is in the sender's memory
          Marshal(_),  \* what is on the wire of a call, and
          Unmarshal(_, _)  \* what its receiver makes of that, each with ok (DceRpc)

VARIABLES stage,       \* how far the message is: see Stages
          message,
          header,      \* the header on the wire and, once decoded, what it said
          body,        \* the body on the wire
          asked,       \* the length of the variable part the decoder asked for
          got          \* what the decoders made of it
messageVars == <<stage, message, header, body, asked, got>>

\* What is known of the numbers in a message. smb2_pread_async and smb2_pwrite_async are only for
\* what a server can do, which supports multi-credit operations from SMB 2.1 on
\* (libsmb2.c:932); a length is up to the most that 16 bits can charge for; and nothing in the
\* code asks for more than 65535 bytes of information (DEFAULT_OUTPUT_BUFFER_LENGTH, libsmb2.c:122).
Chargeable(n) == n \in Nat /\ (n - 1) \div 65536 < 65535
RequestsFit(m) ==
    /\ m.ctx.dialect \in Nat /\ (m.ctx.multi => m.ctx.dialect > 202)
    /\ m.cmd \in {"read", "write"}   => Chargeable(m.rec.length)
    /\ m.cmd = "query_directory"     => Chargeable(m.rec.output_buffer_length)
    /\ m.cmd = "query_info"          => m.rec.output_buffer_length \in Nat /\ m.rec.output_buffer_length < 65536
\* The fields of a structure that say how long something is are unsigned, an array has a length,
\* and a name is bytes, whether UTF-8 or not.
Bytes      == Seq(Octets)
Commands   == {"negotiate", "session_setup", "logoff", "tree_connect", "tree_disconnect",
               "create", "close", "flush", "read", "write", "lock", "echo", "query_directory",
               "change_notify", "query_info", "set_info", "ioctl", "oplock_break"}
BreakForms == {"oplock", "oplock_notification", "lease", "lease_notification"}
RequestLengths(m) ==
    LET r == m.rec
    IN  /\ m.cmd = "negotiate"     => r.dialect_count \in Nat
        /\ m.cmd = "session_setup" => r.security_buffer_length \in Nat
        /\ m.cmd = "tree_connect"  => r.path_length \in Nat
        /\ m.cmd = "create"        => r.create_context_length \in Nat
        /\ m.cmd = "write"         => r.write_channel_info_length \in Nat
        /\ m.cmd = "lock"          => Len(r.locks) \in Nat
        /\ m.cmd = "query_info"    => r.input_buffer_length \in Nat
        /\ m.cmd = "ioctl"         => r.input_count \in Nat
        /\ m.cmd = "set_info" /\ m.ctx.passthrough => r.buffer_length \in Nat
        /\ m.cmd \in {"create", "query_directory"} => r.name \in Bytes
        /\ m.cmd = "set_info" /\ ~ m.ctx.passthrough /\ r.file_info_class = "rename" =>
               r.data.file_name \in Bytes
InfoLengths(class, fs) ==
    /\ class = "stream" =>
           /\ Len(fs) \in Nat \ {0}
           /\ \A i \in 1 .. Len(fs) :
                  fs[i].stream_name_length \in Nat /\ fs[i].stream_name \in Bytes
    /\ class = "normalized_name" => fs.file_name_length \in Nat
    /\ class \in {"all", "normalized_name"} => fs.name \in Bytes
    /\ class = "fs_volume"    => fs.volume_label \in Bytes
    /\ class = "fs_attribute" => fs.filesystem_name \in Bytes
    /\ class \notin KnownClasses => fs.total \in Nat
ReplyLengths(m) ==
    LET r == m.rec
    IN  /\ m.status \in {"ok", "error"} \/ (m.status = "more_processing" /\ m.cmd = "session_setup")
        /\ m.cmd = "oplock_break" => m.form \in BreakForms
        /\ IF m.status = "error" THEN r.byte_count \in Nat
           ELSE /\ m.cmd \in {"negotiate", "session_setup"} => r.security_buffer_length \in Nat
                /\ m.cmd = "create"          => r.create_context_length \in Nat
                /\ m.cmd = "read"            => r.data_length \in Nat
                /\ m.cmd = "change_notify"   => r.output_buffer_length \in Nat
                /\ m.cmd = "ioctl"           => r.input_count \in Nat /\ r.output_count \in Nat
                /\ m.cmd = "query_directory" =>
                       IF m.ctx.passthrough THEN r.output_buffer_length \in Nat
                       ELSE /\ Len(r.entries) \in Nat
                            /\ \A i \in 1 .. Len(r.entries) : r.entries[i].name \in Bytes
                /\ m.cmd = "query_info" /\ r.data # NoData =>
                       m.ctx.room \in Nat /\ InfoLengths(m.ctx.class, r.data)
CountsFit(m) ==
    /\ m.kind = "request" /\ m.cmd \in {"read", "write"} /\ "rec" \in DOMAIN m
    /\ "length" \in DOMAIN m.rec
    /\ m.cmd = "write" => "write_channel_info_length" \in DOMAIN m.rec
    /\ m.count \in Nat /\ m.ctx.credits \in Nat /\ m.ctx.max \in Nat \ {0}
ASSUME MessagesAreOfSizes ==
    \A k \in DOMAIN Messages : \A m \in Messages[k] :
        /\ m.cmd \in Commands /\ m.kind \in {"request", "reply"}
        /\ m.kind = "request" => RequestsFit(m) /\ RequestLengths(m)
        /\ m.kind = "reply" => ReplyLengths(m)
        /\ "count" \in DOMAIN m => CountsFit(m)

\* The names come from the wire two bytes at a time.
ASSUME NamesAreUnits == \A u \in Names : u \in Seq(CodeUnits)

Stages == {"idle", "refused", "sent", "fixed", "rejected", "done", "named", "called", "heard",
           "aborted"}

(***************************************************************************)
(* The encoders, called by the commands' functions.                        *)
(***************************************************************************)
Request(m) ==
    LET r == m.rec  c == m.ctx
    IN  CASE m.cmd = "negotiate"       -> CmdNegotiateAsync(r, c)
          [] m.cmd = "session_setup"   -> CmdSessionSetupAsync(r)
          [] m.cmd = "logoff"          -> CmdLogoffAsync
          [] m.cmd = "tree_connect"    -> CmdTreeConnectAsync(r)
          [] m.cmd = "tree_disconnect" -> CmdTreeDisconnectAsync
          [] m.cmd = "create"          -> CmdCreateAsync(r)
          [] m.cmd = "close"           -> CmdCloseAsync(r)
          [] m.cmd = "flush"           -> CmdFlushAsync(r)
          [] m.cmd = "read"            -> CmdReadAsync(r, c)
          [] m.cmd = "write"           -> CmdWriteAsync(r, c)
          [] m.cmd = "lock"            -> CmdLockAsync(r)
          [] m.cmd = "echo"            -> CmdEchoAsync
          [] m.cmd = "query_directory" -> CmdQueryDirectoryAsync(r)
          [] m.cmd = "change_notify"   -> CmdChangeNotifyAsync(r)
          [] m.cmd = "query_info"      -> CmdQueryInfoAsync(r)
          [] m.cmd = "set_info"        -> CmdSetInfoAsync(r, c)
          [] m.cmd = "ioctl"           -> CmdIoctlAsync(r)
          [] m.cmd = "oplock_break"    -> IF m.form = "lease" THEN CmdLeaseBreakAsync(r)
                                          ELSE CmdOplockBreakAsync(r)
Reply(m) ==
    LET r == m.rec  c == m.ctx
    IN  IF m.status = "error" THEN CmdErrorReplyAsync(r)
        ELSE
        CASE m.cmd = "negotiate"       -> CmdNegotiateReplyAsync(r, c)
          [] m.cmd = "session_setup" -> CmdSessionSetupReplyAsync(r)
          [] m.cmd = "logoff"          -> CmdLogoffReplyAsync
          [] m.cmd = "tree_connect"    -> CmdTreeConnectReplyAsync(r)
          [] m.cmd = "tree_disconnect" -> CmdTreeDisconnectReplyAsync
          [] m.cmd = "create" -> CmdCreateReplyAsync(r)
          [] m.cmd = "close"           -> CmdCloseReplyAsync(r)
          [] m.cmd = "flush"           -> CmdFlushReplyAsync
          [] m.cmd = "read" -> CmdReadReplyAsync(r)
          [] m.cmd = "write"           -> CmdWriteReplyAsync(r)
          [] m.cmd = "lock"            -> CmdLockReplyAsync
          [] m.cmd = "echo"            -> CmdEchoReplyAsync
          [] m.cmd = "query_directory" -> CmdQueryDirectoryReplyAsync(c.class, r, c)
          [] m.cmd = "change_notify"   -> CmdChangeNotifyReplyAsync(r, c)
          [] m.cmd = "query_info"      -> CmdQueryInfoReplyAsync(c.class, c.room, r.data, c)
          [] m.cmd = "set_info"        -> CmdSetInfoReplyAsync
          [] m.cmd = "ioctl"           -> CmdIoctlReplyAsync(r, c)
          [] m.cmd = "oplock_break" /\ m.form = "oplock" -> CmdOplockBreakReplyAsync(r)
          [] m.cmd = "oplock_break" /\ m.form = "oplock_notification" ->
                 CmdOplockBreakNotificationAsync(r)
          [] m.cmd = "oplock_break" /\ m.form = "lease"  -> CmdLeaseBreakReplyAsync(r)
          [] m.cmd = "oplock_break" /\ m.form = "lease_notification" ->
                 CmdLeaseBreakNotificationAsync(r)
Encoded(m) == IF m.kind = "request" THEN Request(m) ELSE Reply(m)

(***************************************************************************)
(* The header. A message that is not answered at once has an id of its own *)
(* in place of the process and the tree.                                   *)
(***************************************************************************)
NoTree == {"negotiate", "session_setup", "logoff", "echo", "tree_connect"}

\* smb2_allocate_pdu, and the commands of which the charge depends on a length.
CreditCharge(m) ==
    LET cost == CASE m.cmd \in {"read", "write"} -> m.rec.length
                  [] m.cmd = "query_directory"   -> m.rec.output_buffer_length
    IN  IF m.ctx.multi /\ m.kind = "request" /\ m.cmd \in {"read", "write", "query_directory"}
        THEN Charge(cost)
        ELSE IF m.ctx.dialect = 202 \/ m.cmd = "negotiate" THEN 0 ELSE 1
AllocatePdu(m) ==
    [struct_size |-> HEADER_SIZE, credit_charge |-> CreditCharge(m), status |-> m.status,
     command |-> m.cmd, credit_request_response |-> MAX_CREDITS - m.ctx.credits,
     flags |-> m.ctx.flags, next_command |-> m.ctx.next_command,
     message_id |-> m.ctx.message_id, async_id |-> m.ctx.async_id, process_id |-> 65279,
     tree_id |-> IF m.cmd \in NoTree THEN 0 ELSE m.ctx.tree_id,
     session_id |-> IF m.cmd = "negotiate" THEN 0 ELSE m.ctx.session_id]

HeaderFields ==
    [struct_size |-> <<4, 2>>, credit_charge |-> <<6, 2>>, status |-> <<8, 4>>,
     command |-> <<12, 2>>, credit_request_response |-> <<14, 2>>, flags |-> <<16, 4>>,
     next_command |-> <<20, 4>>, message_id |-> <<24, 8>>, session_id |-> <<40, 8>>]
SyncFields  == [process_id |-> <<32, 4>>, tree_id |-> <<36, 4>>]
AsyncFields == [async_id |-> <<32, 8>>]
EncodeHeader(h) ==
    Body(HEADER_SIZE, Put(h, [struct_size |-> <<4, 2>>, credit_charge |-> <<6, 2>>,
                              status |-> <<8, 4>>, command |-> <<12, 2>>,
                              credit_request_response |-> <<14, 2>>, flags |-> <<16, 4>>,
                              next_command |-> <<20, 4>>, message_id |-> <<24, 8>>,
                              session_id |-> <<40, 8>>]) \cup
                      (IF h.flags = "async" THEN Put(h, AsyncFields) ELSE Put(h, SyncFields)), <<>>)
DecodeHeader(b) ==
    LET h   == Get(b, HEADER_SIZE, HeaderFields)
        ids == Get(b, HEADER_SIZE, IF h.flags = "async" THEN AsyncFields ELSE SyncFields)
    IN  [f \in DOMAIN h \cup DOMAIN ids |-> IF f \in DOMAIN h THEN h[f] ELSE ids[f]]

(***************************************************************************)
(* The decoders' dispatch.                                                 *)
(***************************************************************************)
IsErrorResponse(h) == h.status \in {"error", "symlink"}

GetFixedReplySize(h) ==
    IF IsErrorResponse(h) THEN 8
    ELSE
    CASE h.command = "negotiate"          -> 64
      [] h.command = "session_setup" -> 8
      [] h.command \in {"logoff", "tree_disconnect", "flush", "lock", "echo"} -> 4
      [] h.command = "tree_connect"       -> 16
      [] h.command = "create" -> 88
      [] h.command = "close"              -> 60
      [] h.command = "read" -> 16
      [] h.command = "write"              -> 16
      [] h.command \in {"query_directory", "change_notify", "query_info"} -> 8
      [] h.command = "set_info"           -> 2
      [] h.command = "ioctl"              -> 48
      [] h.command = "oplock_break"       -> 2
GetFixedRequestSize(h) ==
    CASE h.command = "negotiate"          -> 36
      [] h.command \in {"session_setup", "close", "flush"} -> 24
      [] h.command \in {"logoff", "tree_disconnect", "echo"} -> 4
      [] h.command = "tree_connect"       -> 8
      [] h.command \in {"create", "ioctl"} -> 56
      [] h.command \in {"read", "write", "lock"} -> 48
      [] h.command \in {"query_directory", "change_notify", "set_info"} -> 32
      [] h.command = "query_info"         -> 40
      [] h.command = "oplock_break"       -> 2
GetFixedSize(m, h) == IF m.kind = "request" THEN GetFixedRequestSize(h) ELSE GetFixedReplySize(h)

ProcessReplyPayloadFixed(h, b, spl, c) ==
    IF IsErrorResponse(h) THEN ProcessErrorFixed(b)
    ELSE
    CASE h.command = "negotiate"          -> ProcessNegotiateFixed(b, spl)
      [] h.command = "session_setup" -> ProcessSessionSetupFixed(b, spl)
      [] h.command = "logoff"             -> ProcessLogoffFixed(b)
      [] h.command = "tree_connect"       -> ProcessTreeConnectFixed(b)
      [] h.command = "tree_disconnect"    -> ProcessTreeDisconnectFixed(b)
      [] h.command = "create" -> ProcessCreateFixed(b)
      [] h.command = "close"              -> ProcessCloseFixed(b)
      [] h.command = "flush"              -> ProcessFlushFixed(b)
      [] h.command = "read" -> ProcessReadFixed(b)
      [] h.command = "write"              -> ProcessWriteFixed(b)
      [] h.command = "echo"               -> ProcessEchoFixed(b)
      [] h.command = "lock"               -> ProcessLockFixed(b)
      [] h.command = "query_directory"    -> ProcessQueryDirectoryFixed(b, spl)
      [] h.command = "change_notify"      -> ProcessChangeNotifyFixed(b)
      [] h.command = "query_info"         -> ProcessQueryInfoFixed(b, spl, c.next_command)
      [] h.command = "set_info"           -> ProcessSetInfoFixed(b)
      [] h.command = "ioctl"              -> ProcessIoctlFixed(b)
      [] h.command = "oplock_break"       -> ProcessOplockBreakFixed(b)
ProcessReplyPayloadVariable(h, iov, r, c) ==
    IF IsErrorResponse(h) THEN ProcessErrorVariable(iov.buf)
    ELSE
    CASE h.command = "negotiate"          -> ProcessNegotiateVariable(iov.buf, r)
      [] h.command = "session_setup"      -> ProcessSessionSetupVariable(iov.buf, r)
      [] h.command = "create" -> ProcessCreateVariable(iov.buf, r)
      [] h.command = "read" -> ProcessReadVariable(iov.buf)
      [] h.command = "query_directory"    -> ProcessQueryDirectoryVariable(iov, r)
      [] h.command = "change_notify"      -> ProcessChangeNotifyVariable(iov.buf)
      [] h.command = "query_info"         -> ProcessQueryInfoVariable(iov, r, c.class, c)
      [] h.command = "ioctl"              -> ProcessIoctlVariable(iov, r)
      [] h.command = "oplock_break"       -> ProcessOplockBreakVariable(iov, r, h.message_id)

ProcessRequestPayloadFixed(h, b, spl, c) ==
    CASE h.command = "negotiate"          -> ProcessNegotiateRequestFixed(b, spl)
      [] h.command = "session_setup"      -> ProcessSessionSetupRequestFixed(b)
      [] h.command = "logoff"             -> ProcessLogoffRequestFixed(b)
      [] h.command = "tree_connect"       -> ProcessTreeConnectRequestFixed(b)
      [] h.command = "tree_disconnect"    -> ProcessTreeDisconnectRequestFixed(b)
      [] h.command = "create"             -> ProcessCreateRequestFixed(b)
      [] h.command = "close"              -> ProcessCloseRequestFixed(b)
      [] h.command = "flush"              -> ProcessFlushRequestFixed(b)
      [] h.command = "read"               -> ProcessReadRequestFixed(b, c.max_read_size)
      [] h.command = "write"              -> ProcessWriteRequestFixed(b)
      [] h.command = "echo"               -> ProcessEchoRequestFixed(b)
      [] h.command = "lock"               -> ProcessLockRequestFixed(b)
      [] h.command = "query_directory"    -> ProcessQueryDirectoryRequestFixed(b, spl)
      [] h.command = "change_notify"      -> ProcessChangeNotifyRequestFixed(b)
      [] h.command = "query_info"         -> ProcessQueryInfoRequestFixed(b)
      [] h.command = "set_info"           -> ProcessSetInfoRequestFixed(b)
      [] h.command = "ioctl"              -> ProcessIoctlRequestFixed(b)
      [] h.command = "oplock_break"       -> ProcessOplockBreakRequestFixed(b)
ProcessRequestPayloadVariable(h, iov, r, c) ==
    CASE h.command = "negotiate"          -> ProcessNegotiateRequestVariable(iov.buf, r)
      [] h.command = "session_setup"      -> ProcessSessionSetupRequestVariable(iov.buf, r)
      [] h.command = "tree_connect"       -> ProcessTreeConnectRequestVariable(iov.buf, r)
      [] h.command = "create"             -> ProcessCreateRequestVariable(iov.buf, r)
      [] h.command = "write"              -> ProcessWriteRequestVariable(iov.buf, r)
      [] h.command = "lock"               -> ProcessLockRequestVariable(iov.buf, r)
      [] h.command = "query_directory"    -> ProcessQueryDirectoryRequestVariable(iov, r)
      [] h.command = "query_info"         -> ProcessQueryInfoRequestVariable(iov, r)
      [] h.command = "set_info"           -> ProcessSetInfoRequestVariable(iov, c)
      [] h.command = "ioctl"              -> ProcessIoctlRequestVariable(iov, r, c)
      [] h.command = "oplock_break"       -> ProcessOplockBreakRequestVariable(iov, r)

\* The receiver's context, where it is another than the sender's.
Receiver(m) == IF "receiver" \in DOMAIN m.ctx THEN m.ctx.receiver @@ m.ctx ELSE m.ctx
ProcessPayloadFixed(m, h, b, spl) ==
    IF m.kind = "request" THEN ProcessRequestPayloadFixed(h, b, spl, Receiver(m))
    ELSE ProcessReplyPayloadFixed(h, b, spl, Receiver(m))
ProcessPayloadVariable(m, h, iov, r) ==
    IF m.kind = "request" THEN ProcessRequestPayloadVariable(h, iov, r, Receiver(m))
    ELSE ProcessReplyPayloadVariable(h, iov, r, Receiver(m))

(***************************************************************************)
(* Behaviour                                                               *)
(***************************************************************************)
None == [cmd |-> "none"]
MessageInit ==
    /\ stage = "idle" /\ message = None /\ header = <<>> /\ body = NoPart
    /\ asked = 0 /\ got = <<>>

\* smb2_pread_async and smb2_pwrite_async ask for what they can of count.
Asks(m) == IF "count" \in DOMAIN m THEN [m EXCEPT !.rec.length = Clamp(m.count, m.ctx)] ELSE m

FreesTwice(m) == /\ m.cmd = "query_directory" /\ m.kind = "reply" /\ m.status = "ok"
                 /\ FreesNameTwice(m.ctx.class, m.rec, m.ctx)

\* A command's function: NULL when the body cannot be built, or the PDU that is queued. Memory
\* freed twice ends the program, or is not noticed here.
Send ==
    /\ stage = "idle"
    /\ \E k \in DOMAIN Messages : \E given \in Messages[k] : message' = Asks(given)
    /\ body' = Encoded(message')
    /\ header' = EncodeHeader(AllocatePdu(message'))
    /\ stage' \in CASE body' = Refused -> {"refused"}
                   [] body' # Refused /\ FreesTwice(message') -> {"aborted", "sent"}
                   [] OTHER -> {"sent"}
    /\ asked' = 0 /\ got' = <<>>

Spl == HEADER_SIZE + body.total

ReadFixed ==
    /\ stage = "sent"
    /\ header' = DecodeHeader(header)
    /\ \E r \in {ProcessPayloadFixed(message, header', body, Spl)} :
           /\ asked' = r.n /\ got' = r.rec
           /\ stage' = IF r.n < 0 THEN "rejected" ELSE IF r.n = 0 THEN "done" ELSE "fixed"
    /\ UNCHANGED <<message, body>>

\* What the decoder adds to the structure of the fixed part takes its fields' place.
ReadVariable ==
    /\ stage = "fixed"
    /\ \E r \in {ProcessPayloadVariable(message, header,
                                       Vec(body, GetFixedSize(message, header), asked), got)} :
          IF r = Refused THEN stage' = "rejected" /\ UNCHANGED got
          ELSE stage' = "done" /\ got' = r @@ got
    /\ UNCHANGED <<message, header, body, asked>>

\* The name of an entry, which a server chose, becomes a string: the room is reckoned first.
ReadName ==
    /\ stage = "idle"
    /\ \E units \in Names : asked' = Utf16Size(units) /\ got' = Utf16ToUtf8(units)
    /\ stage' = "named" /\ UNCHANGED <<message, header, body>>

\* A DCE/RPC message travels in an IOCTL.
Call ==
    /\ stage = "idle"
    /\ \E c \in Calls : \E wire \in {Marshal(c)} :
           message' = c /\ body' = wire /\ stage' = IF wire.ok THEN "called" ELSE "refused"
    /\ header' = <<>> /\ asked' = 0 /\ got' = <<>>
Hear ==
    /\ stage = "called"
    /\ got' = Unmarshal(message, body)
    /\ stage' = IF got'.ok THEN "heard" ELSE "rejected"
    /\ UNCHANGED <<message, header, body, asked>>

\* The PDU and what was made of it are freed, or the program begins anew.
FreePdu ==
    /\ stage \in {"refused", "rejected", "done", "named", "heard", "aborted"}
    /\ stage' = "idle" /\ message' = None /\ header' = <<>> /\ body' = NoPart
    /\ asked' = 0 /\ got' = <<>>

(***************************************************************************)
(* What is known to get lost or to be refused                              *)
(***************************************************************************)
\* Fields that the two sides of a message place or measure differently.
Lost(m) ==
    CASE m.cmd = "session_setup" /\ m.kind = "request" -> {"previous_session_id"}
      [] m.cmd = "change_notify" /\ m.kind = "request" -> {"output_buffer_length"}
      [] m.cmd = "oplock_break" /\ m.form = "lease" /\ m.kind = "request" ->
             {"flags", "lease_state", "lease_duration"}
      [] m.cmd = "oplock_break" /\ m.form = "lease" /\ m.kind = "reply" -> {"lease_duration"}
      [] m.cmd = "oplock_break" /\ m.form = "lease_notification" ->
             {"flags", "current_lease_state", "new_lease_state", "break_reason",
              "access_mask_hint", "share_mask_hint"}
      [] OTHER -> {}
\* How much of a field arrives. The place of the next entry of a listing or of a chain of streams
\* is written from the start of the buffer and read from the entry before: the two agree for the
\* second entry and for none behind it.
Reached(m, f, value) ==
    IF /\ m.kind = "reply" /\ m.status = "ok" /\ ~ m.ctx.passthrough
       /\ f = IF m.cmd = "query_directory" THEN "entries" ELSE "output_buffer"
       /\ m.cmd = "query_directory" \/ m.ctx.class = "stream"
    THEN [i \in DOMAIN value \cap 1 .. 2 |-> value[i]]
    ELSE value
\* Messages whose receiver refuses what the sender's code builds.
Unwelcome(m) ==
    \/ m.cmd = "read" /\ m.kind = "request" /\ m.rec.read_channel_info_length > 0
    \/ m.cmd = "set_info" /\ m.kind = "request" /\ ~ m.ctx.passthrough
    \/ m.cmd = "query_info" /\ m.kind = "reply" /\ m.status = "ok" /\ m.rec.data # NoData
       /\ \/ m.ctx.class = "fs_control"
          \/ Overflows(m.ctx.class, m.ctx.room, m.rec.data)
          \/ m.ctx.class = "fs_attribute" /\ Len(Utf8ToUtf16(m.rec.data.filesystem_name)) < 4
\* Messages of which the length of the variable part is wrong: the reply to an IOCTL without
\* output, or with an input, which is said to lie before the output and is not laid; and an
\* error whose data, which is not laid either, would not fit in the padding.
Overstated(m) ==
    m.kind = "reply" /\
    \/ m.status = "error" /\ m.rec.byte_count > 8
    \/ m.status = "ok" /\ m.cmd = "ioctl" /\ (m.rec.output_count = 0 \/ m.rec.input_count > 0)

MessageNext == Send \/ ReadFixed \/ ReadVariable \/ ReadName \/ Call \/ Hear \/ FreePdu
MessageSpec == MessageInit /\ [][MessageNext]_messageVars

(***************************************************************************)
(* Properties                                                              *)
(***************************************************************************)
MessageTypeOK ==
    /\ stage \in Stages /\ asked \in Int
    /\ stage \in {"sent", "fixed", "done"} => body.total \in Nat

\* The structure the receiver should end up with. A message whose content was laid out by
\* someone else says what it means itself.
Meant(m) ==
    IF "means" \in DOMAIN m THEN m.means
    ELSE
    CASE m.cmd = "create" /\ m.kind = "request" /\ m.status = "ok" ->
             [m.rec EXCEPT !.name = Turned(@)]
      [] m.cmd \in {"read", "write"} /\ m.kind = "request" ->
             [f \in DOMAIN m.rec \ (IF m.rec.length = 0 THEN {"buf"} ELSE {}) |->
                 IF f = "length" THEN Cut(m.rec, m.ctx) ELSE m.rec[f]]
      [] m.cmd = "query_info" /\ m.kind = "reply" /\ m.status = "ok" ->
             IF m.rec.data = NoData THEN <<>> ELSE [output_buffer |-> m.rec.data]
      [] OTHER -> m.rec
\* What the program makes of it: the buffer of a listing or of changes goes through its decoder.
Delivered ==
    CASE message.cmd = "query_directory" /\ message.kind = "reply" /\ message.status = "ok" ->
             IF asked = 0 THEN [entries |-> <<>>]
             ELSE LET found == DecodeDirents(Vec(got.output_buffer, 0, got.output_buffer_length))
                  IN  [entries |-> [i \in DOMAIN found |->
                          [f \in DOMAIN found[i] \ {"next_entry_offset"} |-> found[i][f]]]]
      [] message.cmd = "change_notify" /\ message.kind = "reply" /\ message.status = "ok" ->
             IF asked = 0 THEN [changes |-> <<>>]
             ELSE [changes |-> DecodeFileNotifyChangeInformation(
                                   Vec(got.output, 0, got.output_buffer_length))]
      [] OTHER -> got

\* The fields the decoder of the variable part fills.
Buffers == {"name", "path", "data", "input", "output", "entries", "security_buffer",
            "create_context", "read_channel_info",
           "write_channel_info", "output_buffer"}

\* Every field reaches the other side as it was meant: an encoder and the decoder of the same
\* message agree on every place, width and length (lib/smb2-cmd-*.c, lib/smb2-data-*.c, for the
\* header pdu.c:459), but for the fields of Lost and what lies behind the second entry of a
\* listing or of a chain of streams (Reached). So does the whole tree behind the pointers of
\* a DCE/RPC call, in NDR32 and NDR64, in fragments, and laid out by the server's own hand.
RoundTrip ==
    /\ stage = "done" /\ ~ Overstated(message) =>
        /\ \A f \in DOMAIN header : header[f] = AllocatePdu(message)[f]
        /\ \A f \in DOMAIN Meant(message) \ Lost(message) :
               IF f \in DOMAIN Delivered
               THEN Reached(message, f, Delivered[f]) = Reached(message, f, Meant(message)[f])
               ELSE f \in Buffers /\ Meant(message)[f] = NoData
    /\ stage = "heard" =>
        \A p \in DOMAIN message.mem :
            (IF p \in DOMAIN got.mem THEN got.mem[p] ELSE 0) = message.mem[p]

\* No decoder refuses what the code of the other side builds (the early returns of the
\* smb2_process_*_fixed and _variable functions), but for the messages of Unwelcome.
OwnAccepted == stage = "rejected" => Unwelcome(message)

\* The variable part a decoder asks for ends where the frame ends or before: asking for more
\* takes the bytes of the next message (socket.c:642), but for the messages of Overstated.
FitsFrame ==
    stage = "fixed" /\ ~ Overstated(message) => GetFixedSize(message, header) + asked <= body.total

\* A request is charged for all of its payload or of the room for the reply, one credit for each
\* 64 KiB begun, and for no more (smb2-cmd-read.c:176, write.c:156, query-directory.c:191): a
\* server drops the connection of who charges too little. No bytes cost nothing or one credit.
Payload(m) ==
    CASE m.cmd \in {"read", "write"}  -> Cut(m.rec, m.ctx)
      [] m.cmd \in {"query_directory", "query_info"} -> m.rec.output_buffer_length
      [] OTHER -> 0
ChargeCovers ==
    stage = "sent" /\ message.kind = "request" /\ message.ctx.multi =>
        LET paid == AllocatePdu(message).credit_charge
        IN  /\ Payload(message) <= paid * 65536
            /\ paid > 1 => (paid - 1) * 65536 < Payload(message)

\* A read or write asks for no more credits than there are (libsmb2.c:1543 and 1662): one it
\* cannot pay for stays in the outqueue, and everything behind it, until a reply grants more. With
\* no credit left that is so of a server that charges each request the same, and of the others
\* the transfer shrinks to no bytes, which cost nothing. It asks for no more bytes than the
\* caller's, but for a count of 0, of which the credits needed wrap: it asks for all that the
\* credits pay for.
Wraps(m) == m.count = 0 /\ m.ctx.dialect > 202
Affordable ==
    stage = "sent" /\ "count" \in DOMAIN message =>
        LET c == message.ctx
        IN  /\ AllocatePdu(message).credit_charge <= c.credits \/ (c.credits = 0 /\ ~ c.multi)
            /\ Payload(message) <= IF Wraps(message) THEN 65536 * c.credits ELSE message.count
            /\ Payload(message) = 0 => message.count = 0 \/ (c.credits = 0 /\ c.dialect > 202)

\* The string made of a name takes exactly the room reckoned for it, and is UTF-8 whatever the
\* server sent (unicode.c utf16_size and smb2_utf16_to_utf8): less room is a write past its end.
NameFits ==
    stage = "named" => Len(got) = asked /\ Utf8ToUtf16(got) # Invalid
=============================================================================
