--------------------------- MODULE CommandCodecs ----------------------------
(***************************************************************************)
(* The bodies of the SMB2 commands, as lib/smb2-cmd-*.c encodes requests   *)
(* and replies and decodes them. The tables of an encoder and of the       *)
(* decoder of the same message are translated each from its own function.  *)
(*                                                                         *)
(* c is the context: passthrough, multi (supports_multi_credit), dialect   *)
(* (0x0311 as 311), spl (the frame's length). Allocations succeed.         *)
(***************************************************************************)
EXTENDS QueryCodecs

PREAUTH_INTEGRITY_CAP == 1
ENCRYPTION_CAP        == 2
AES_128_CCM           == 1
MAX_CREDITS           == 1024

(***************************************************************************)
(* ECHO, LOGOFF, TREE_DISCONNECT, FLUSH, CLOSE: no variable part.          *)
(***************************************************************************)
Bare(size) == Body(Even(size), {Word(0, 2, size)}, <<>>)
BareFixed(body, size, fixed) == IF Sized(body, size, fixed) THEN Reads(0, <<>>) ELSE Refused

EncodeEchoRequest           == Bare(4)
CmdEchoAsync                == Padded(EncodeEchoRequest)
EncodeEchoReply             == Bare(4)
CmdEchoReplyAsync           == Padded(EncodeEchoReply)
ProcessEchoFixed(b)         == BareFixed(b, 4, 4)
ProcessEchoRequestFixed(b)  == BareFixed(b, 4, 4)

EncodeLogoffRequest          == Bare(4)
CmdLogoffAsync               == Padded(EncodeLogoffRequest)
EncodeLogoffReply            == Bare(4)
CmdLogoffReplyAsync          == Padded(EncodeLogoffReply)
ProcessLogoffFixed(b)        == Reads(0, <<>>)
ProcessLogoffRequestFixed(b) == BareFixed(b, 4, 4)

EncodeTreeDisconnectRequest          == Bare(4)
CmdTreeDisconnectAsync               == Padded(EncodeTreeDisconnectRequest)
EncodeTreeDisconnectReply            == Bare(4)
CmdTreeDisconnectReplyAsync          == Padded(EncodeTreeDisconnectReply)
ProcessTreeDisconnectFixed(b)        == Reads(0, <<>>)
ProcessTreeDisconnectRequestFixed(b) == Reads(0, <<>>)

EncodeFlushRequest(r) ==
    Body(24, {Word(0, 2, 24)} \cup Put(r, [file_id |-> <<8, FD_SIZE>>]), <<>>)
CmdFlushAsync(r)      == Padded(EncodeFlushRequest(r))
EncodeFlushReply      == Bare(4)
CmdFlushReplyAsync    == Padded(EncodeFlushReply)
ProcessFlushFixed(b)  == BareFixed(b, 4, 4)
ProcessFlushRequestFixed(b) ==
    IF Sized(b, 24, 24) THEN Reads(0, Get(b, 24, [file_id |-> <<8, FD_SIZE>>])) ELSE Refused

EncodeCloseRequest(r) ==
    Body(24, {Word(0, 2, 24)} \cup Put(r, [flags |-> <<2, 2>>, file_id |-> <<8, FD_SIZE>>]), <<>>)
CmdCloseAsync(r) == Padded(EncodeCloseRequest(r))
EncodeCloseReply(r) ==
    Body(60, {Word(0, 2, 60)} \cup
             Put(r, [flags |-> <<2, 2>>, creation_time |-> <<8, 8>>,
                     last_access_time |-> <<16, 8>>, last_write_time |-> <<24, 8>>,
                     change_time |-> <<32, 8>>, allocation_size |-> <<40, 8>>,
                     end_of_file |-> <<48, 8>>, file_attributes |-> <<56, 4>>]), <<>>)
CmdCloseReplyAsync(r) == Padded(EncodeCloseReply(r))
CloseReplyFields ==
    [flags |-> <<2, 2>>, creation_time |-> <<8, 8>>, last_access_time |-> <<16, 8>>,
     last_write_time |-> <<24, 8>>, change_time |-> <<32, 8>>, allocation_size |-> <<40, 8>>,
     end_of_file |-> <<48, 8>>, file_attributes |-> <<56, 4>>]
ProcessCloseFixed(b) ==
    IF Sized(b, 60, 60) THEN Reads(0, Get(b, 60, CloseReplyFields)) ELSE Refused
ProcessCloseRequestFixed(b) ==
    IF Sized(b, 24, 24)
    THEN Reads(0, Get(b, 24, [flags |-> <<2, 2>>, file_id |-> <<8, FD_SIZE>>]))
    ELSE Refused

(***************************************************************************)
(* TREE_CONNECT.                                                           *)
(***************************************************************************)
EncodeTreeConnectRequest(r) ==
    Body(8, {Word(0, 2, 9), Word(4, 2, HEADER_SIZE + 8)} \cup
            Put(r, [flags |-> <<2, 2>>, path_length |-> <<6, 2>>]),
         <<Part(r.path_length, r.path)>>)
CmdTreeConnectAsync(r) == Padded(EncodeTreeConnectRequest(r))
EncodeTreeConnectReply(r) ==
    Body(16, {Word(0, 2, 16), Word(3, 1, 0)} \cup
             Put(r, [share_type |-> <<2, 1>>, share_flags |-> <<4, 4>>,
                     capabilities |-> <<8, 4>>, maximal_access |-> <<12, 4>>]), <<>>)
CmdTreeConnectReplyAsync(r) == Padded(EncodeTreeConnectReply(r))
ProcessTreeConnectFixed(b) ==
    IF Sized(b, 16, 16)
    THEN Reads(0, Get(b, 16, [share_type |-> <<2, 1>>, share_flags |-> <<4, 4>>,
                              capabilities |-> <<8, 4>>, maximal_access |-> <<12, 4>>]))
    ELSE Refused
ProcessTreeConnectRequestFixed(b) ==
    LET r == Get(b, 8, [flags |-> <<2, 2>>, path_offset |-> <<4, 2>>, path_length |-> <<6, 2>>])
    IN  IF Sized(b, 9, 8) THEN Reads(r.path_length, r) ELSE Refused
ProcessTreeConnectRequestVariable(b, r) == [path |-> BytesAt(b, 8, 0)]

(***************************************************************************)
(* SESSION_SETUP.                                                          *)
(***************************************************************************)
EncodeSessionSetupRequest(r) ==
    Body(24, {Word(0, 2, 25), Word(12, 2, HEADER_SIZE + 24)} \cup
             Put(r, [flags |-> <<2, 1>>, security_mode |-> <<3, 1>>, capabilities |-> <<4, 4>>,
                     channel |-> <<8, 4>>, security_buffer_length |-> <<14, 2>>,
                     previous_session_id |-> <<16, 8>>]),
         <<Part(r.security_buffer_length, r.security_buffer)>>)
CmdSessionSetupAsync(r) == Padded(EncodeSessionSetupRequest(r))
EncodeSessionSetupReply(r) ==
    Body(8, {Word(0, 2, 9), Word(4, 2, HEADER_SIZE + 8)} \cup
            Put(r, [session_flags |-> <<2, 2>>, security_buffer_length |-> <<6, 2>>]),
         <<Part(PadTo32bit(r.security_buffer_length), r.security_buffer)>>)
CmdSessionSetupReplyAsync(r) == Padded(EncodeSessionSetupReply(r))
SessionSetupFields ==
    [session_flags |-> <<2, 2>>, security_buffer_offset |-> <<4, 2>>,
     security_buffer_length |-> <<6, 2>>]
ProcessSessionSetupFixed(b, spl) ==
    LET r == Get(b, 8, SessionSetupFields)
        off == r.security_buffer_offset
        len == r.security_buffer_length
    IN  IF ~ Sized(b, 9, 8) \/ (len > 0 /\ off + len > spl % 65536) THEN Refused
        ELSE IF len = 0 THEN Reads(0, r)
        ELSE IF off < HEADER_SIZE + 8 THEN Refused
        ELSE Reads(off - HEADER_SIZE - 8 + len, r)
ProcessSessionSetupVariable(b, r) ==
    [security_buffer |-> BytesAt(b, 8, r.security_buffer_offset - HEADER_SIZE - 8)]
\* The decoder takes previous_session_id at 18 and its last two bytes are not there.
SessionSetupRequestFields ==
    [flags |-> <<2, 1>>, security_mode |-> <<3, 1>>, capabilities |-> <<4, 4>>,
     channel |-> <<8, 4>>, security_buffer_length |-> <<14, 2>>,
     previous_session_id |-> <<18, 8>>]
ProcessSessionSetupRequestFixed(b) ==
    LET r == Get(b, 24, SessionSetupRequestFields)
    IN  IF Sized(b, 25, 24) THEN Reads(r.security_buffer_length, r) ELSE Refused
ProcessSessionSetupRequestVariable(b, r) == [security_buffer |-> BytesAt(b, 24, 0)]

(***************************************************************************)
(* NEGOTIATE. The dialects follow the 36 bytes of the request; with SMB    *)
(* 3.1.1 possible, the negotiate contexts follow on a multiple of eight.   *)
(***************************************************************************)
EncodePreauthContext(c)    == Part(8 + PadTo64bit(38), <<PREAUTH_INTEGRITY_CAP, 38, c.salt>>)
EncodeEncryptionContext    == Part(PadTo64bit(8 + 8), <<ENCRYPTION_CAP, 8, AES_128_CCM>>)
Contexts(c)                == <<EncodePreauthContext(c), EncodeEncryptionContext>>

EncodeNegotiateRequest(r, c) ==
    LET plain == PadTo32bit(36 + 2 * r.dialect_count)
        len   == IF c.smb311 THEN PadTo64bit(plain) ELSE plain
        rest  == <<Part(2 * r.dialect_count, r.dialects),
                   Zeroes(len - 36 - 2 * r.dialect_count)>>
    IN  Body(36, {Word(0, 2, 36)} \cup
                 {Word(28, 4, IF c.smb311 THEN len + HEADER_SIZE ELSE 0),
                  Word(32, 2, IF c.smb311 THEN 2 ELSE 0)} \cup
                 Put(r, [dialect_count |-> <<2, 2>>, security_mode |-> <<4, 2>>,
                         capabilities |-> <<8, 4>>, client_guid |-> <<12, 16>>]),
             IF c.smb311 THEN rest \o Contexts(c) ELSE rest)
CmdNegotiateAsync(r, c) == Padded(EncodeNegotiateRequest(r, c))

\* The room for the security buffer is computed from the length of the fixed part.
EncodeNegotiateReply(r, c) ==
    LET seclen == IF r.security_buffer_length > 0 THEN PadTo64bit(64) ELSE 0
        rest   == IF seclen > 0 THEN <<Part(seclen, r.security_buffer)>> ELSE <<>>
    IN  Body(64, {Word(0, 2, 65), Word(6, 2, IF c.smb311 THEN 2 ELSE 0),
                  Word(56, 2, 64 + HEADER_SIZE), Word(60, 4, 64 + seclen + HEADER_SIZE)} \cup
                 Put(r, [security_mode |-> <<2, 2>>, dialect_revision |-> <<4, 2>>,
                         server_guid |-> <<8, 16>>, capabilities |-> <<24, 4>>,
                         max_transact_size |-> <<28, 4>>, max_read_size |-> <<32, 4>>,
                         max_write_size |-> <<36, 4>>, system_time |-> <<40, 8>>,
                         server_start_time |-> <<48, 8>>,
                         security_buffer_length |-> <<58, 2>>]),
             IF c.smb311 THEN rest \o Contexts(c) ELSE rest)
CmdNegotiateReplyAsync(r, c) == Padded(EncodeNegotiateReply(r, c))

NegotiateFields ==
    [security_mode |-> <<2, 2>>, dialect_revision |-> <<4, 2>>, server_guid |-> <<8, 16>>,
     capabilities |-> <<24, 4>>, max_transact_size |-> <<28, 4>>, max_read_size |-> <<32, 4>>,
     max_write_size |-> <<36, 4>>, system_time |-> <<40, 8>>, server_start_time |-> <<48, 8>>,
     security_buffer_offset |-> <<56, 2>>, security_buffer_length |-> <<58, 2>>,
     negotiate_context_count |-> <<6, 2>>, negotiate_context_offset |-> <<60, 4>>]
ProcessNegotiateFixed(b, spl) ==
    LET r == Get(b, 64, NegotiateFields)
        off == r.security_buffer_offset
        len == r.security_buffer_length
    IN  IF ~ Sized(b, 65, 64) \/ (len > 0 /\ off + len > spl % 65536) THEN Refused
        ELSE IF len = 0 THEN Reads(0, r)
        ELSE IF off < HEADER_SIZE + 64 THEN Refused
        ELSE Reads(IF r.dialect_revision >= 311 THEN spl - HEADER_SIZE - 64
                   ELSE off - HEADER_SIZE - 64 + len, r)

\* smb2_parse_negotiate_contexts: count contexts from an offset, each on a multiple of eight.
\* A context's data is its type, its length and its content.
ParseNegotiateContexts(b, fixed, offset, count) ==
    LET From[k \in 0 .. count] ==
            IF k = 0 THEN [at |-> offset, found |-> <<>>]
            ELSE LET data == BytesAt(b, fixed, From[k - 1].at)
                 IN  IF Len(data) < 3 THEN From[k - 1]
                     ELSE [at    |-> From[k - 1].at + PadTo64bit(data[2] + 8),
                           found |-> Append(From[k - 1].found, data[1])]
    IN  From[count].found
ParseEncryptionContext(found) == IF \E i \in DOMAIN found : found[i] = ENCRYPTION_CAP
                                 THEN AES_128_CCM ELSE Unset
ProcessNegotiateVariable(b, r) ==
    LET buffer == BytesAt(b, 64, r.security_buffer_offset - HEADER_SIZE - 64)
        found  == IF r.dialect_revision < 311 \/ r.negotiate_context_count = 0 THEN <<>>
                  ELSE ParseNegotiateContexts(b, 64, r.negotiate_context_offset - HEADER_SIZE - 64,
                                              r.negotiate_context_count)
    IN  [security_buffer |-> buffer, cypher |-> ParseEncryptionContext(found)]

NegotiateRequestFields ==
    [dialect_count |-> <<2, 2>>, security_mode |-> <<4, 2>>, capabilities |-> <<8, 4>>,
     client_guid |-> <<12, 16>>, negotiate_context_offset |-> <<28, 4>>,
     negotiate_context_count |-> <<32, 2>>]
ProcessNegotiateRequestFixed(b, spl) ==
    LET r == Get(b, 36, NegotiateRequestFields)
    IN  IF ~ Sized(b, 36, 36) THEN Refused
        ELSE Reads(IF r.negotiate_context_count > 0 THEN spl - HEADER_SIZE - 36
                                                    ELSE 2 * r.dialect_count, r)
ParseNegotiateRequestContexts(b, r) ==
    ParseNegotiateContexts(b, 36, r.negotiate_context_offset - HEADER_SIZE - 36,
                           r.negotiate_context_count)
ProcessNegotiateRequestVariable(b, r) ==
    LET dialects == BytesAt(b, 36, 0)
    IN  [dialects |-> dialects,
         contexts |-> IF r.negotiate_context_count = 0
                         \/ ~ \E i \in DOMAIN dialects : dialects[i] = 311 THEN <<>>
                      ELSE ParseNegotiateRequestContexts(b, r)]

(***************************************************************************)
(* CREATE. The name has its slashes turned and fills up to eight bytes; an *)
(* empty one is eight zeroes. The create contexts follow it.               *)
(***************************************************************************)
EncodeCreateRequest(r) ==
    LET bytes    == NameLen(r.name)
        name_off == PadTo32bit(HEADER_SIZE + 56)
        ctx_off  == IF r.create_context_length = 0 THEN 0
                    ELSE IF bytes = 0 THEN PadTo64bit(4 + name_off) ELSE PadTo64bit(bytes + name_off)
    IN  IF Utf8ToUtf16(r.name) = Invalid THEN Refused
        ELSE Body(56, {Word(0, 2, 57), Word(44, 2, name_off), Word(46, 2, bytes),
                  Word(48, 4, ctx_off)} \cup
                 Put(r, [security_flags |-> <<2, 1>>, requested_oplock_level |-> <<3, 1>>,
                         impersonation_level |-> <<4, 4>>, smb_create_flags |-> <<8, 8>>,
                         desired_access |-> <<24, 4>>, file_attributes |-> <<28, 4>>,
                         share_access |-> <<32, 4>>, create_disposition |-> <<36, 4>>,
                         create_options |-> <<40, 4>>, create_context_length |-> <<52, 4>>]),
             <<IF bytes = 0 THEN Zeroes(8) ELSE Part(PadTo64bit(bytes), Turned(Utf8ToUtf16(r.name)))>> \o
             (IF r.create_context_length = 0 THEN <<>>
              ELSE <<Part(PadTo64bit(r.create_context_length), r.create_context)>>))
CmdCreateAsync(r) == Padded(EncodeCreateRequest(r))

EncodeCreateReply(r) ==
    Body(88, {Word(0, 2, 89), Word(80, 4, PadTo64bit(88 + HEADER_SIZE))} \cup
             Put(r, [oplock_level |-> <<2, 1>>, flags |-> <<3, 1>>, create_action |-> <<4, 4>>,
                     creation_time |-> <<8, 8>>, last_access_time |-> <<16, 8>>,
                     last_write_time |-> <<24, 8>>, change_time |-> <<32, 8>>,
                     allocation_size |-> <<40, 8>>, end_of_file |-> <<48, 8>>,
                     file_attributes |-> <<56, 4>>, file_id |-> <<64, FD_SIZE>>,
                     create_context_length |-> <<84, 4>>]),
         IF r.create_context_length = 0 THEN <<>>
         ELSE <<Part(PadTo64bit(r.create_context_length), r.create_context)>>)
CmdCreateReplyAsync(r) == Padded(EncodeCreateReply(r))

CreateFields ==
    [oplock_level |-> <<2, 1>>, flags |-> <<3, 1>>, create_action |-> <<4, 4>>,
     creation_time |-> <<8, 8>>, last_access_time |-> <<16, 8>>, last_write_time |-> <<24, 8>>,
     change_time |-> <<32, 8>>, allocation_size |-> <<40, 8>>, end_of_file |-> <<48, 8>>,
     file_attributes |-> <<56, 4>>, file_id |-> <<64, FD_SIZE>>,
     create_context_offset |-> <<80, 4>>, create_context_length |-> <<84, 4>>]
ProcessCreateFixed(b) ==
    LET r == Get(b, 88, CreateFields)
    IN  IF ~ Sized(b, 89, 88) THEN Refused
        ELSE IF r.create_context_length = 0 THEN Reads(0, r)
        ELSE IF r.create_context_offset < HEADER_SIZE + 88 THEN Refused
        ELSE Reads(r.create_context_offset - HEADER_SIZE - 88 + r.create_context_length, r)
ProcessCreateVariable(b, r) ==
    [create_context |-> IF r.create_context_length = 0 THEN NoData
                        ELSE BytesAt(b, 88, r.create_context_offset - HEADER_SIZE - 88)]

\* Mutant: the name must lie behind the byte that follows the fixed part.
ProcessCreateRequestFixedStrict(b) ==
    LET r == Get(b, 56, [name_offset |-> <<44, 2>>, name_length |-> <<46, 2>>])
    IN  IF ~ Sized(b, 57, 56) \/ r.name_offset < HEADER_SIZE + 57 THEN Refused
        ELSE Reads(r.name_offset - HEADER_SIZE - 56 + r.name_length, r)
CreateRequestFields ==
    [security_flags |-> <<2, 1>>, requested_oplock_level |-> <<3, 1>>,
     impersonation_level |-> <<4, 4>>, smb_create_flags |-> <<8, 8>>, desired_access |-> <<24, 4>>,
     file_attributes |-> <<28, 4>>, share_access |-> <<32, 4>>, create_disposition |-> <<36, 4>>,
     create_options |-> <<40, 4>>, name_offset |-> <<44, 2>>, name_length |-> <<46, 2>>,
     create_context_offset |-> <<48, 4>>, create_context_length |-> <<52, 4>>]
ProcessCreateRequestFixed(b) ==
    LET r == Get(b, 56, CreateRequestFields)
        body == HEADER_SIZE + 56
    IN  IF ~ Sized(b, 57, 56) THEN Refused
        ELSE IF r.create_context_length = 0 /\ r.name_length = 0 THEN Reads(0, r)
        ELSE IF \/ r.name_length > 0 /\ r.name_offset < body
                \/ r.create_context_length > 0 /\ r.create_context_offset < body THEN Refused
        ELSE Reads(r.name_offset - body + r.create_context_length +
                   IF r.create_context_offset > r.name_offset
                   THEN PadTo64bit(r.create_context_offset - r.name_offset)
                   ELSE r.name_length, r)
ProcessCreateRequestVariable(b, r) ==
    [name |-> NameAt(Vec(b, 56, b.total - 56), 0, r.name_length),
     create_context |-> IF r.create_context_length = 0 \/ r.create_context_offset = 0 THEN NoData
                        ELSE BytesAt(b, 56, r.create_context_offset - HEADER_SIZE - 56)]

(***************************************************************************)
(* READ and WRITE. Without multi-credit a request is cut to 64 KiB. The    *)
(* credit charge is one for each 64 KiB, computed in 32 unsigned bits and  *)
(* stored in 16.                                                           *)
(***************************************************************************)
\* Mutant: a credit for every whole 64 KiB and one more.
ChargeRounded(length) == length \div 65536 + 1
Charge(length) == (IF length = 0 THEN 65536 ELSE (length - 1) \div 65536 + 1) % 65536
\* Mutant: one credit more than there are.
ClampLate(count, c) ==
    LET some == IF count > c.max THEN c.max ELSE count
    IN  CASE c.dialect > 202 -> IF some > (c.credits + 1) * 65536 THEN c.credits * 65536 ELSE some
          [] c.dialect <= 202 -> IF some > 65536 THEN 65536 ELSE some
\* How much of count bytes smb2_pread_async and smb2_pwrite_async ask for with the credits there
\* are. The credits needed for no bytes are 65536: the subtraction wraps.
Clamp(count, c) ==
    LET Needed(n) == IF n = 0 THEN 65536 ELSE (n - 1) \div 65536 + 1
        some == IF count > c.max THEN c.max ELSE count
        most == IF Needed(some) > MAX_CREDITS - 16 THEN (MAX_CREDITS - 16) * 65536 ELSE some
    IN  CASE c.dialect > 202 -> IF Needed(most) > c.credits THEN c.credits * 65536 ELSE most
          [] c.dialect <= 202 -> IF some > 65536 THEN 65536 ELSE some
Cut(r, c) == IF ~ c.multi /\ r.length > 65536 THEN 65536 ELSE r.length

EncodeReadRequest(r, c) ==
    LET info    == r.read_channel_info_length
        carries == info > 0 /\ r.read_channel_info # NoData
        cut     == Cut(r, c) # r.length
    IN  IF carries /\ ~ c.passthrough THEN Refused
        ELSE Body(48, {Word(0, 2, 49), Word(4, 4, Cut(r, c)),
                       Word(32, 4, IF cut THEN 0 ELSE r.minimum_count),
                       Word(44, 2, IF carries THEN 48 + HEADER_SIZE ELSE 0)} \cup
                      Put(r, [flags |-> <<3, 1>>, offset |-> <<8, 8>>,
                              file_id |-> <<16, FD_SIZE>>, channel |-> <<36, 4>>,
                              remaining_bytes |-> <<40, 4>>,
                              read_channel_info_length |-> <<46, 2>>]),
                  CASE carries -> <<Part(PadTo64bit(info), r.read_channel_info)>>
                    [] info = 0 -> <<Zeroes(1)>>
                    [] OTHER -> <<>>)
\* The reply's data goes to the caller's buffer, of which there must be one.
CmdReadAsync(r, c) ==
    IF EncodeReadRequest(r, c) = Refused \/ (r.length > 0 /\ ~ c.buffer) THEN Refused
    ELSE Padded(EncodeReadRequest(r, c))

EncodeReadReply(r) ==
    Body(16, {Word(0, 2, 17), Word(2, 1, IF r.data_length > 0 /\ r.data # NoData
                                         THEN 16 + HEADER_SIZE ELSE 0)} \cup
             Put(r, [data_length |-> <<4, 4>>, data_remaining |-> <<8, 4>>]),
         IF r.data_length > 0 /\ r.data # NoData THEN <<Part(r.data_length, r.data)>> ELSE <<>>)
CmdReadReplyAsync(r) == Padded(EncodeReadReply(r))

ProcessReadFixed(b) ==
    LET r == Get(b, 16, [data_offset |-> <<2, 1>>, data_length |-> <<4, 4>>,
                         data_remaining |-> <<8, 4>>])
    IN  IF GetUint(b, 16, 0, 2) > 17 THEN Refused
        ELSE IF r.data_length = 0 THEN Reads(0, r)
        ELSE IF r.data_offset # HEADER_SIZE + 16 THEN Refused
        ELSE Reads(r.data_length, r)
ProcessReadVariable(b) == [data |-> BytesAt(b, 16, 0)]

\* The offset of the channel information is looked for only once its length, which is read
\* after it, is known: it stays zero and a request that carries any is refused.
ProcessReadRequestFixed(b, max_read_size) ==
    LET r == Get(b, 48, [flags |-> <<3, 1>>, length |-> <<4, 4>>, offset |-> <<8, 8>>,
                         file_id |-> <<16, FD_SIZE>>, minimum_count |-> <<32, 4>>,
                         channel |-> <<36, 4>>, remaining_bytes |-> <<40, 4>>,
                         read_channel_info_length |-> <<46, 2>>])
    IN  IF GetUint(b, 48, 0, 2) > 49 \/ r.length > max_read_size
           \/ r.read_channel_info_length # 0 THEN Refused ELSE Reads(0, r)

EncodeWriteRequest(r, c) ==
    LET info    == r.write_channel_info_length
        carries == info > 0 /\ r.write_channel_info # NoData
    IN  IF carries /\ ~ c.passthrough THEN Refused
        ELSE Body(48, {Word(0, 2, 49), Word(2, 2, HEADER_SIZE + 48), Word(4, 4, Cut(r, c)),
                       Word(40, 2, IF carries THEN 48 + HEADER_SIZE ELSE 0)} \cup
                      Put(r, [offset |-> <<8, 8>>, file_id |-> <<16, FD_SIZE>>,
                              channel |-> <<32, 4>>, remaining_bytes |-> <<36, 4>>,
                              write_channel_info_length |-> <<42, 2>>, flags |-> <<44, 4>>]),
                  IF carries THEN <<Part(PadTo64bit(info), r.write_channel_info)>> ELSE <<>>)
\* The data is the last vector, behind the padding.
CmdWriteAsync(r, c) ==
    LET body == EncodeWriteRequest(r, c)
    IN  IF body = Refused THEN Refused
        ELSE [body EXCEPT !.total = PadTo64bit(@) + Cut(r, c),
                          !.parts = @ \cup {[at |-> PadTo64bit(body.total), len |-> Cut(r, c),
                                              data |-> r.buf]}]
EncodeWriteReply(r) ==
    Body(17, {Word(0, 2, 17)} \cup Put(r, [count |-> <<4, 4>>, remaining |-> <<8, 4>>]), <<>>)
CmdWriteReplyAsync(r) == Padded(EncodeWriteReply(r))
ProcessWriteFixed(b) ==
    IF Sized(b, 17, 16) THEN Reads(0, Get(b, 16, [count |-> <<4, 4>>, remaining |-> <<8, 4>>]))
    ELSE Refused

WriteRequestFields ==
    [data_offset |-> <<2, 2>>, length |-> <<4, 4>>, offset |-> <<8, 8>>,
     file_id |-> <<16, FD_SIZE>>, channel |-> <<32, 4>>, remaining_bytes |-> <<36, 4>>,
     write_channel_info_offset |-> <<40, 2>>, write_channel_info_length |-> <<42, 2>>,
     flags |-> <<44, 4>>]
\* Mutant: the data padded like the channel information.
ProcessWriteRequestFixedPadded(b) ==
    LET r == Get(b, 48, WriteRequestFields)
    IN  Reads(PadTo64bit(r.write_channel_info_length) + PadTo64bit(r.length), r)
ProcessWriteRequestFixed(b) ==
    LET r == Get(b, 48, WriteRequestFields)
        info == r.write_channel_info_length
        lead == IF info = 0 THEN 0 ELSE r.write_channel_info_offset - HEADER_SIZE - 48
    IN  IF GetUint(b, 48, 0, 2) > 49 \/ lead < 0 THEN Refused
        ELSE IF r.length > 0 THEN Reads(lead + PadTo64bit(info) + r.length, r)
        ELSE IF info > 0 THEN Reads(lead + info, r)
        ELSE Reads(0, r)
\* Mutant: the padding between the channel information and the data forgotten.
ProcessWriteRequestVariablePacked(b, r) ==
    [write_channel_info |-> IF r.write_channel_info_length = 0 THEN NoData ELSE BytesAt(b, 48, 0),
     buf |-> BytesAt(b, 48, r.write_channel_info_length)]
ProcessWriteRequestVariable(b, r) ==
    LET info == r.write_channel_info_length
        lead == IF info = 0 THEN 0 ELSE r.write_channel_info_offset - HEADER_SIZE - 48
    IN  [write_channel_info |-> IF info = 0 THEN NoData ELSE BytesAt(b, 48, lead),
         buf |-> BytesAt(b, 48, lead + PadTo64bit(info))]

(***************************************************************************)
(* LOCK: one element in the fixed part, the others behind it.              *)
(***************************************************************************)
LockElement(at) == [offset |-> <<at, 8>>, length |-> <<at + 8, 8>>, flags |-> <<at + 16, 4>>]

EncodeLockRequest(r) ==
    LET n == Len(r.locks)
    IN  Body(48, {Word(0, 2, 48), Word(2, 2, n),
                  Word(4, 4, r.lock_sequence_number * 2^28 + r.lock_sequence_index)} \cup
                 Put(r, [file_id |-> <<8, FD_SIZE>>]) \cup
                 (IF n = 0 THEN {} ELSE Put(r.locks[1], LockElement(24))),
             IF n <= 1 THEN <<>> ELSE <<Part(PadTo64bit(24 * n), Tail(r.locks))>>)
CmdLockAsync(r)      == Padded(EncodeLockRequest(r))
EncodeLockReply      == Bare(4)
CmdLockReplyAsync    == Padded(EncodeLockReply)
ProcessLockFixed(b)  == BareFixed(b, 4, 4)
\* smb2_parse_locks on the one element of the fixed part.
ParseLocks(b) == <<Get(b, 48, LockElement(24))>>
ProcessLockRequestFixed(b) ==
    LET r == Get(b, 48, [lock_count |-> <<2, 2>>, sequence |-> <<4, 4>>,
                         file_id |-> <<8, FD_SIZE>>])
    IN  IF ~ Sized(b, 48, 48) \/ r.lock_count < 1 THEN Refused
        ELSE Reads(24 * (r.lock_count - 1),
                   [lock_count |-> r.lock_count, file_id |-> r.file_id, locks |-> ParseLocks(b),
                    lock_sequence_number |-> r.sequence \div 2^28,
                    lock_sequence_index |-> r.sequence % 2^28])
ProcessLockRequestVariable(b, r) ==
    [locks |-> r.locks \o BytesAt(b, 48, 0)]
=============================================================================
