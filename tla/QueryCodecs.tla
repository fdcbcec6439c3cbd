----------------------------- MODULE QueryCodecs -----------------------------
(***************************************************************************)
(* The bodies of ERROR, CHANGE_NOTIFY, IOCTL, SET_INFO, QUERY_DIRECTORY,   *)
(* QUERY_INFO and the breaks of oplocks and leases, as the lib/smb2-cmd    *)
(* files of these commands encode and decode them.                         *)
(***************************************************************************)
EXTENDS DataCodecs

KnownClasses == {"basic", "standard", "stream", "position", "all", "network_open",
                 "normalized_name", "fs_volume", "fs_size", "fs_device", "fs_attribute",
                 "fs_control", "fs_full_size", "fs_object_id", "fs_sector_size"}

(***************************************************************************)
(* The error reply of any command. Its data is not encoded.                *)
(***************************************************************************)
EncodeErrorReply(r) ==
    Body(9, {Word(0, 2, 9)} \cup Put(r, [error_context_count |-> <<2, 1>>,
                                         byte_count |-> <<4, 4>>]), <<>>)
CmdErrorReplyAsync(r) == Padded(EncodeErrorReply(r))
ProcessErrorFixed(b) ==
    LET r == Get(b, 8, [error_context_count |-> <<2, 1>>, byte_count |-> <<4, 4>>])
    IN  IF Sized(b, 9, 8) THEN Reads(r.byte_count, r) ELSE Refused
ProcessErrorVariable(b) == [error_data |-> BytesAt(b, 8, 0)]

(***************************************************************************)
(* CHANGE_NOTIFY. The reply's decoder takes the changes from where the     *)
(* fixed part ends, whatever the offset says.                              *)
(***************************************************************************)
EncodeChangeNotifyRequest(r) ==
    Body(32, {Word(0, 2, 32)} \cup
             Put(r, [flags |-> <<2, 2>>, output_buffer_length |-> <<4, 4>>,
                     file_id |-> <<8, FD_SIZE>>, completion_filter |-> <<24, 4>>]), <<>>)
CmdChangeNotifyAsync(r) == Padded(EncodeChangeNotifyRequest(r))
\* The server's decoder leaves output_buffer_length as malloc gave it.
ProcessChangeNotifyRequestFixed(b) ==
    LET r == Get(b, 32, [flags |-> <<2, 2>>, file_id |-> <<8, FD_SIZE>>,
                         completion_filter |-> <<24, 4>>])
    IN  IF Sized(b, 32, 32) THEN Reads(0, [output_buffer_length |-> Unset] @@ r) ELSE Refused

EncodeChangeNotifyReply(r, c) ==
    IF r.output_buffer_length > 0 /\ ~ c.passthrough THEN Refused
    ELSE Body(8, {Word(0, 2, 9), Word(2, 2, HEADER_SIZE + 32)} \cup
                 Put(r, [output_buffer_length |-> <<4, 4>>]),
              IF r.output_buffer_length = 0 THEN <<>>
              ELSE <<Part(r.output_buffer_length, r.output)>>)
CmdChangeNotifyReplyAsync(r, c) == Padded(EncodeChangeNotifyReply(r, c))
ProcessChangeNotifyFixed(b) ==
    LET r == Get(b, 8, [output_buffer_offset |-> <<2, 2>>, output_buffer_length |-> <<4, 4>>])
    IN  IF Sized(b, 9, 8) THEN Reads(r.output_buffer_length, r) ELSE Refused
ProcessChangeNotifyVariable(b) == [output |-> BytesAt(b, 8, 0)]

\* smb2_decode_filenotifychangeinformation: the changes one behind the other. An entry that
\* does not fit is left as calloc made it.
DecodeFileNotifyChangeInformation(v) ==
    LET From[at \in 0 .. v.len] ==
            LET next == Uint(v, at, 4)
                here == [action |-> Uint(v, at + 4, 4),
                         name   |-> NameAt(v, at + 12, Uint(v, at + 8, 4))]
            IN  IF at + 12 > v.len THEN <<[action |-> 0, name |-> <<>>]>>
                ELSE <<here>> \o
                     (IF next = 0 THEN <<>>
                      ELSE IF at + next <= v.len THEN From[at + next]
                           ELSE <<[action |-> 0, name |-> <<>>]>>)
    IN  From[0]

(***************************************************************************)
(* IOCTL                                                                   *)
(***************************************************************************)
VALIDATE_NEGOTIATE_INFO == 1   \* the control codes the code knows
GET_REPARSE_POINT       == 2
PIPE_TRANSCEIVE         == 3   \* one it hands on as bytes

EncodeIoctlRequest(r) ==
    Body(56, {Word(0, 2, 57), Word(24, 4, HEADER_SIZE + 56), Word(32, 4, 0),
              Word(44, 4, 65535)} \cup
             Put(r, [ctl_code |-> <<4, 4>>, file_id |-> <<8, FD_SIZE>>,
                     input_count |-> <<28, 4>>, flags |-> <<48, 4>>]),
         IF r.input_count > 0 THEN <<Part(r.input_count, r.input)>> ELSE <<>>)
CmdIoctlAsync(r) == Padded(EncodeIoctlRequest(r))

ValidateNegotiateInfo(info) ==
    Body(24, Put(info, [capabilities |-> <<0, 4>>, guid |-> <<4, 16>>,
                        security_mode |-> <<20, 2>>, dialect |-> <<22, 2>>]), <<>>)
\* Without any output the length of the fixed part is what output_count says.
EncodeIoctlReply(r, c) ==
    LET output == CASE r.output_count = 0 -> Part(0, NoPart)
                    [] r.output_count > 0 /\ r.ctl_code = VALIDATE_NEGOTIATE_INFO ->
                           Part(24, ValidateNegotiateInfo(r.output))
                    [] OTHER -> Part(r.output_count, r.output)
        known  == r.output_count = 0 \/ r.ctl_code = VALIDATE_NEGOTIATE_INFO \/ c.passthrough
    IN  IF ~ known THEN Refused
        ELSE Body(48, {Word(0, 2, 49), Word(24, 4, HEADER_SIZE + 48),
                       Word(32, 4, HEADER_SIZE + 48 + PadTo64bit(r.input_count)),
                       Word(36, 4, IF r.output_count = 0 THEN 48 ELSE output.len)} \cup
                      Put(r, [ctl_code |-> <<4, 4>>, file_id |-> <<8, FD_SIZE>>,
                              input_count |-> <<28, 4>>, flags |-> <<40, 4>>]),
                  IF r.output_count = 0 THEN <<>> ELSE <<output>>)
CmdIoctlReplyAsync(r, c) == Padded(EncodeIoctlReply(r, c))

IoctlOffset(r) == r.output_offset - HEADER_SIZE - 48
IoctlFields ==
    [ctl_code |-> <<4, 4>>, file_id |-> <<8, FD_SIZE>>, input_offset |-> <<24, 4>>,
     input_count |-> <<28, 4>>, output_offset |-> <<32, 4>>, output_count |-> <<36, 4>>,
     flags |-> <<40, 4>>]
ProcessIoctlFixed(b) ==
    LET r == Get(b, 48, IoctlFields)
    IN  IF ~ Sized(b, 49, 48) THEN Refused
        ELSE IF r.output_count = 0 THEN Reads(0, r)
        ELSE IF IoctlOffset(r) < 0 THEN Refused
        ELSE Reads(IoctlOffset(r) + PadTo64bit(r.input_count) + r.output_count, r)
ProcessIoctlVariable(iov, r) ==
    LET len  == iov.len - IoctlOffset(r)
        data == DataAt(iov, IoctlOffset(r))
        tree == DecodeReparseDataBuffer(Vec(BodyAt(iov, IoctlOffset(r)), 0, len))
    IN  CASE r.output_count > len                                   -> Refused
          [] r.output_count <= len /\ r.ctl_code # GET_REPARSE_POINT -> [output |-> data]
          [] OTHER -> IF Fails(tree) THEN Refused ELSE [output |-> tree]

IoctlRequestOffset(r) == r.input_offset - HEADER_SIZE - 56
IoctlRequestFields ==
    [ctl_code |-> <<4, 4>>, file_id |-> <<8, FD_SIZE>>, input_offset |-> <<24, 4>>,
     input_count |-> <<28, 4>>, max_input_response |-> <<32, 4>>, output_offset |-> <<36, 4>>,
     output_count |-> <<40, 4>>, max_output_response |-> <<44, 4>>, flags |-> <<48, 4>>]
ProcessIoctlRequestFixed(b) ==
    LET r == Get(b, 56, IoctlRequestFields)
    IN  IF ~ Sized(b, 57, 56) THEN Refused
        ELSE IF r.input_count = 0 THEN Reads(0, r)
        ELSE IF IoctlRequestOffset(r) < 0 THEN Refused
        ELSE Reads(IoctlRequestOffset(r) + r.input_count, r)
\* What is not known and not passed through leaves the request without its input.
ProcessIoctlRequestVariable(iov, r, c) ==
    LET data == DataAt(iov, IoctlRequestOffset(r))
    IN  IF r.input_count > iov.len - IoctlRequestOffset(r) THEN Refused
        ELSE IF r.ctl_code = VALIDATE_NEGOTIATE_INFO
        THEN [input |-> Get(BodyAt(iov, IoctlRequestOffset(r)), 24,
                            [capabilities |-> <<0, 4>>, guid |-> <<4, 16>>,
                             security_mode |-> <<20, 2>>, dialect |-> <<22, 2>>])]
        ELSE [input |-> IF c.passthrough THEN data ELSE NoPart]

(***************************************************************************)
(* SET_INFO                                                                *)
(***************************************************************************)
EncodeRenameInfo(rni) ==
    Body(20, {Word(0, 1, rni.replace_if_exist), Word(8, 8, 0), Word(16, 4, NameLen(rni.file_name))},
         <<Part(NameLen(rni.file_name), Turned(Utf8ToUtf16(rni.file_name))), Zeroes(8)>>)
SetInfoData(r) ==
    CASE r.file_info_class = "basic"       -> EncodeFileBasicInfo(r.data)
      [] r.file_info_class = "end_of_file" -> Body(8, {Word(0, 8, r.data.end_of_file)}, <<>>)
      [] r.file_info_class = "rename"      -> EncodeRenameInfo(r.data)
      [] r.file_info_class = "disposition" -> Body(1, {Word(0, 1, r.data.delete_pending)}, <<>>)

\* Passed through, the length and the offset are written into the last vector: the data, if any.
EncodeSetInfoRequest(r, c) ==
    LET head == {Word(0, 2, 33)} \cup
                Put(r, [info_type |-> <<2, 1>>, file_info_class |-> <<3, 1>>,
                        additional_information |-> <<12, 4>>, file_id |-> <<16, FD_SIZE>>])
        over == {Word(4, 4, r.buffer_length), Word(8, 2, r.buffer_offset)}
        data == SetInfoData(r)
    IN  CASE c.passthrough /\ r.buffer_length > 0 ->
                 Body(32, head \cup {Word(8, 2, HEADER_SIZE + 32)},
                      <<Part(r.buffer_length,
                             [r.data EXCEPT !.cells = @ \cup SetUint(r.buffer_length, over)])>>)
          [] c.passthrough /\ r.buffer_length = 0 -> Body(32, head \cup over, <<>>)
          [] ~ c.passthrough /\
             (\/ r.info_type # "file"
              \/ r.file_info_class \notin {"basic", "end_of_file", "rename", "disposition"}
              \/ r.file_info_class = "rename" /\ Utf8ToUtf16(r.data.file_name) = Invalid) -> Refused
          [] OTHER -> Body(32, head \cup {Word(4, 4, data.total), Word(8, 2, HEADER_SIZE + 32)},
                           <<Part(data.total, data)>>)
CmdSetInfoAsync(r, c)    == Padded(EncodeSetInfoRequest(r, c))
EncodeSetInfoReply       == Body(2, {Word(0, 2, 2)}, <<>>)
CmdSetInfoReplyAsync     == Padded(EncodeSetInfoReply)
ProcessSetInfoFixed(b)   == Reads(0, <<>>)
SetInfoRequestFields ==
    [info_type |-> <<2, 1>>, file_info_class |-> <<3, 1>>, buffer_length |-> <<4, 4>>,
     buffer_offset |-> <<8, 2>>, additional_information |-> <<12, 4>>,
     file_id |-> <<16, FD_SIZE>>]
ProcessSetInfoRequestFixed(b) ==
    LET r == Get(b, 32, SetInfoRequestFields)
    IN  IF Sized(b, 33, 32) THEN Reads(r.buffer_length, r) ELSE Refused
ProcessSetInfoRequestVariable(iov, c) ==
    IF c.passthrough THEN [input_data |-> DataAt(iov, 0)] ELSE Refused

(***************************************************************************)
(* QUERY_DIRECTORY                                                         *)
(***************************************************************************)
EncodeQueryDirectoryRequest(r) ==
    IF Utf8ToUtf16(r.name) = Invalid THEN Refused
    ELSE Body(32, {Word(0, 2, 33), Word(24, 2, HEADER_SIZE + 32), Word(26, 2, NameLen(r.name))} \cup
                  Put(r, [file_information_class |-> <<2, 1>>, flags |-> <<3, 1>>,
                          file_index |-> <<4, 4>>, file_id |-> <<8, FD_SIZE>>,
                          output_buffer_length |-> <<28, 4>>]), <<NamePart(r.name)>>)
CmdQueryDirectoryAsync(r) == Padded(EncodeQueryDirectoryRequest(r))

QueryDirectoryRequestFields ==
    [file_information_class |-> <<2, 1>>, flags |-> <<3, 1>>, file_index |-> <<4, 4>>,
     file_id |-> <<8, FD_SIZE>>, file_name_offset |-> <<24, 2>>, file_name_length |-> <<26, 2>>,
     output_buffer_length |-> <<28, 4>>]
ProcessQueryDirectoryRequestFixed(b, spl) ==
    LET r == Get(b, 32, QueryDirectoryRequestFields)
        lead == r.file_name_offset - HEADER_SIZE - 32
        len  == r.file_name_length
    IN  IF ~ Sized(b, 33, 32) \/ (len > 0 /\ r.file_name_offset + len > spl % 65536) THEN Refused
        ELSE IF len = 0 THEN Reads(0, r)
        ELSE IF lead < 0 THEN Refused
        ELSE Reads(lead + len, r)
ProcessQueryDirectoryRequestVariable(iov, r) ==
    [name |-> NameAt(iov, r.file_name_offset - HEADER_SIZE - 32, r.file_name_length)]

\* One entry of a listing in the class's layout, and the room it takes.
EntryHead(class)       == IF class = "id_full" THEN 80 ELSE 104
EntrySize(class, fs)   ==
    IF class \in {"id_full", "id_both"} THEN PadTo32bit(EntryHead(class) + NameLen(fs.name)) ELSE 0
EntryCells(class, fs)  ==
    {Word(60, 4, NameLen(fs.name))} \cup
    Put(WithTimes(fs, TimevalToWin),
        [file_index |-> <<4, 4>>, creation_time |-> <<8, 8>>, last_access_time |-> <<16, 8>>,
         last_write_time |-> <<24, 8>>, change_time |-> <<32, 8>>, end_of_file |-> <<40, 8>>,
         allocation_size |-> <<48, 8>>, file_attributes |-> <<56, 4>>, ea_size |-> <<64, 4>>,
         file_id |-> IF class = "id_full" THEN <<72, 8>> ELSE <<96, 8>>]) \cup
    (IF class = "id_full" THEN {Word(68, 4, 0)}
     ELSE Put(fs, [short_name_length |-> <<68, 1>>, short_name |-> <<70, 24>>]))

\* The encoder writes as next_entry_offset where the next entry is in the buffer.
Listing(class, entries) ==
    LET at == Places(0, [i \in DOMAIN entries |-> Part(EntrySize(class, entries[i]), NoData)])
        cells(i) == {[w EXCEPT !.at = @ + at[i]] : w \in EntryCells(class, entries[i]) \cup
                        {Word(0, 4, IF i < Len(entries) THEN at[i + 1] ELSE 0)}}
        name(i)  == [at |-> at[i] + EntryHead(class), len |-> NameLen(entries[i].name),
                     data |-> Utf8ToUtf16(entries[i].name)]
    IN  [cells |-> UNION {cells(i) : i \in DOMAIN entries},
         parts |-> {name(i) : i \in DOMAIN entries}, total |-> at[Len(entries) + 1]]
\* Passed through, the buffer goes out as it is, without padding.
EncodeQueryDirectoryReply(class, r, c) ==
    LET Fixed(length) == {Word(0, 2, 9), Word(2, 2, 8 + HEADER_SIZE), Word(4, 4, length)}
        listing == Listing(class, r.entries)
        blob    == Part(r.output_buffer_length, r.output_buffer)
    IN  CASE c.passthrough -> Body(8, Fixed(r.output_buffer_length),
                                   IF r.output_buffer_length = 0 THEN <<>> ELSE <<blob>>)
          [] ~ c.passthrough /\ \E i \in DOMAIN r.entries : Utf8ToUtf16(r.entries[i].name) = Invalid ->
                 Refused
          [] OTHER -> Body(8, Fixed(listing.total),
                           IF listing.total = 0 THEN <<>>
                           ELSE <<Part(PadTo32bit(listing.total), listing)>>)
CmdQueryDirectoryReplyAsync(class, r, c) == Padded(EncodeQueryDirectoryReply(class, r, c))

\* The pointer to the UTF-16 of a name outlives it. An entry without a name, of which nothing is
\* converted, finds the one of the entry before, or the last one of when the sizes were added up,
\* and frees it once more.
FreesNameTwice(class, r, c) ==
    /\ ~ c.passthrough /\ class \in {"id_full", "id_both"}
    /\ {r.entries[i].name = <<>> : i \in DOMAIN r.entries} = BOOLEAN

ProcessQueryDirectoryFixed(b, spl) ==
    LET r == Get(b, 8, [output_buffer_offset |-> <<2, 2>>, output_buffer_length |-> <<4, 4>>])
        lead == r.output_buffer_offset - HEADER_SIZE - 8
        len  == r.output_buffer_length
    IN  IF ~ Sized(b, 9, 8) \/ (len > 0 /\ r.output_buffer_offset + len > spl) THEN Refused
        ELSE IF len = 0 THEN Reads(0, r)
        ELSE IF lead < 0 THEN Refused
        ELSE Reads(lead + len, r)
ProcessQueryDirectoryVariable(iov, r) ==
    [output_buffer |-> DataAt(iov, r.output_buffer_offset - HEADER_SIZE - 8)]

DecodeFileIdFullDirectoryInformation(v) ==
    LET len == Uint(v, 60, 4)
    IN  IF len = Unset \/ 80 + len > v.len THEN Failed
        ELSE WithTimes(Fields(v, [next_entry_offset |-> <<0, 4>>, file_index |-> <<4, 4>>,
                                  creation_time |-> <<8, 8>>, last_access_time |-> <<16, 8>>,
                                  last_write_time |-> <<24, 8>>, change_time |-> <<32, 8>>,
                                  end_of_file |-> <<40, 8>>, allocation_size |-> <<48, 8>>,
                                  file_attributes |-> <<56, 4>>, ea_size |-> <<64, 4>>,
                                  file_id |-> <<72, 8>>]), WinToTimeval) @@
             [name |-> NameAt(v, 80, len)]
\* The walk of decode_dirents. It adds next_entry_offset to where it is. What it makes of bytes
\* that are no entry is left open.
DecodeDirents(v) ==
    LET From[at \in 0 .. v.len] ==
            LET fs == DecodeFileIdFullDirectoryInformation(After(v, at))
            IN  CASE at >= v.len -> <<Failed>>
                  [] at < v.len /\ Fails(fs) -> <<Failed>>
                  [] OTHER -> IF fs.next_entry_offset = 0 THEN <<fs>>
                              ELSE IF at + fs.next_entry_offset \notin at .. v.len - 1
                                   THEN <<fs, Failed>>
                              ELSE <<fs>> \o From[at + fs.next_entry_offset]
    IN  From[0]

(***************************************************************************)
(* QUERY_INFO. The classes by the names of their structures.               *)
(***************************************************************************)
EncodeInfo(class, fs) ==
    CASE class = "basic"           -> EncodeFileBasicInfo(fs)
      [] class = "standard"        -> EncodeFileStandardInfo(fs)
      [] class = "stream"          -> EncodeFileStreamInfo(fs)
      [] class = "position"        -> EncodeFilePositionInfo(fs)
      [] class = "all"             -> EncodeFileAllInfo(fs)
      [] class = "network_open"    -> EncodeFileNetworkOpenInfo(fs)
      [] class = "normalized_name" -> EncodeFileNormalizedNameInfo(fs)
      [] class = "fs_volume"       -> EncodeFileFsVolumeInfo(fs)
      [] class = "fs_size"         -> EncodeFileFsSizeInfo(fs)
      [] class = "fs_device"       -> EncodeFileFsDeviceInfo(fs)
      [] class = "fs_attribute"    -> EncodeFileFsAttributeInfo(fs)
      [] class = "fs_control"      -> EncodeFileFsControlInfo(fs)
      [] class = "fs_full_size"    -> EncodeFileFsFullSizeInfo(fs)
      [] class = "fs_object_id"    -> EncodeFileFsObjectIdInfo(fs)
      [] class = "fs_sector_size"  -> EncodeFileFsSectorSizeInfo(fs)
      [] OTHER                     -> NoPart
DecodeInfo(class, v) ==
    CASE class = "basic"           -> DecodeFileBasicInfo(v)
      [] class = "standard"        -> DecodeFileStandardInfo(v)
      [] class = "stream"          -> DecodeFileStreamInfo(v)
      [] class = "position"        -> DecodeFilePositionInfo(v)
      [] class = "all"             -> DecodeFileAllInfo(v)
      [] class = "network_open"    -> DecodeFileNetworkOpenInfo(v)
      [] class = "normalized_name" -> DecodeFileNormalizedNameInfo(v)
      [] class = "fs_volume"       -> DecodeFileFsVolumeInfo(v)
      [] class = "fs_size"         -> DecodeFileFsSizeInfo(v)
      [] class = "fs_device"       -> DecodeFileFsDeviceInfo(v)
      [] class = "fs_attribute"    -> DecodeFileFsAttributeInfo(v)
      [] class = "fs_control"      -> DecodeFileFsControlInfo(v)
      [] class = "fs_full_size"    -> DecodeFileFsFullSizeInfo(v)
      [] class = "fs_object_id"    -> DecodeFileFsObjectIdInfo(v)
      [] class = "fs_sector_size"  -> DecodeFileFsSectorSizeInfo(v)
      [] class = "security"        -> DecodeSecurityDescriptor(v)
      [] OTHER                     -> Failed

EncodeQueryInfoRequest(r) ==
    IF r.input_buffer_length > 0 THEN Refused
    ELSE Body(40, {Word(0, 2, 41), Word(8, 2, HEADER_SIZE + 40)} \cup
                  Put(r, [info_type |-> <<2, 1>>, file_info_class |-> <<3, 1>>,
                          output_buffer_length |-> <<4, 4>>, input_buffer_length |-> <<12, 4>>,
                          additional_information |-> <<16, 4>>, flags |-> <<20, 4>>,
                          file_id |-> <<24, FD_SIZE>>]), <<>>)
CmdQueryInfoAsync(r) == Padded(EncodeQueryInfoRequest(r))
QueryInfoRequestFields ==
    [info_type |-> <<2, 1>>, file_info_class |-> <<3, 1>>, output_buffer_length |-> <<4, 4>>,
     input_buffer_offset |-> <<8, 2>>, input_buffer_length |-> <<12, 4>>,
     additional_information |-> <<16, 4>>, flags |-> <<20, 4>>, file_id |-> <<24, FD_SIZE>>]
ProcessQueryInfoRequestFixed(b) ==
    LET r == Get(b, 40, QueryInfoRequestFields)
        lead == r.input_buffer_offset - HEADER_SIZE - 40
    IN  IF ~ Sized(b, 41, 40) THEN Refused
        ELSE IF r.input_buffer_length = 0 THEN Reads(0, r)
        ELSE IF lead < 0 THEN Refused
        ELSE Reads(lead + r.input_buffer_length, r)
ProcessQueryInfoRequestVariable(iov, r) ==
    [input |-> DataAt(iov, r.input_buffer_offset - HEADER_SIZE - 40)]

\* What does not fit the length asked for is cut, in what the reply says and, to the next
\* multiple of eight, in what it carries. room is the length the request allows.
EncodeInfoReply(room, data, blob, c) ==
    LET len == IF blob.total > room THEN room ELSE blob.total
    IN  CASE data = NoData -> Body(8, {Word(0, 2, 9), Word(2, 2, 0), Word(4, 4, 0)}, <<>>)
          [] data # NoData /\ blob # NoPart ->
                 Body(8, {Word(0, 2, 9), Word(2, 2, 8 + HEADER_SIZE), Word(4, 4, len)},
                      <<Part(PadTo64bit(len), blob)>>)
          [] OTHER ->
                 Body(8, {Word(0, 2, 9), Word(2, 2, 8 + HEADER_SIZE), Word(4, 4, data.total)},
                      <<IF c.passthrough THEN Part(PadTo64bit(data.total), data)
                        ELSE Part(0, NoPart)>>)
EncodeQueryInfoReply(class, room, data, c) ==
    EncodeInfoReply(room, data, EncodeInfo(class, data), c)
Overflows(class, room, data) == data # NoData /\ EncodeInfo(class, data).total > room
CmdQueryInfoReplyAsync(class, room, data, c) == Padded(EncodeQueryInfoReply(class, room, data, c))

ProcessQueryInfoFixed(b, spl, next_command) ==
    LET r == Get(b, 8, [output_buffer_offset |-> <<2, 2>>, output_buffer_length |-> <<4, 4>>])
        len == r.output_buffer_length
        opl == r.output_buffer_offset + len
    IN  IF ~ Sized(b, 9, 8) THEN Refused
        ELSE IF len = 0 THEN Reads(0, r)
        ELSE IF \/ opl > spl \/ (next_command > 0 /\ opl > next_command)
                \/ r.output_buffer_offset < HEADER_SIZE + 8 THEN Refused
        ELSE Reads(opl - HEADER_SIZE - 8, r)
InfoReply(class, fs) ==
    IF class # "stream" /\ Fails(fs) THEN Refused ELSE [output_buffer |-> fs]
ProcessQueryInfoVariable(iov, r, class, c) ==
    LET lead == r.output_buffer_offset - HEADER_SIZE - 8
    IN  IF c.passthrough /\ class \notin KnownClasses THEN [output_buffer |-> DataAt(iov, lead)]
        ELSE InfoReply(class, DecodeInfo(class, Vec(BodyAt(iov, lead), 0, iov.len - lead)))

(***************************************************************************)
(* Breaks of oplocks and leases. The fixed part is the size alone, which   *)
(* says what follows.                                                      *)
(***************************************************************************)
EncodeOplockBreakAcknowledgement(r) ==
    Body(24, {Word(0, 2, 24)} \cup Put(r, [oplock_level |-> <<2, 1>>,
                                           file_id |-> <<8, FD_SIZE>>]), <<>>)
CmdOplockBreakAsync(r) == Padded(EncodeOplockBreakAcknowledgement(r))
EncodeOplockBreakReply(r) ==
    Body(24, {Word(0, 2, 24)} \cup Put(r, [oplock_level |-> <<2, 1>>,
                                           file_id |-> <<8, FD_SIZE>>]), <<>>)
CmdOplockBreakReplyAsync(r) == Padded(EncodeOplockBreakReply(r))
EncodeOplockBreakNotification(r) ==
    Body(24, {Word(0, 2, 24)} \cup Put(r, [oplock_level |-> <<2, 1>>,
                                           file_id |-> <<8, FD_SIZE>>]), <<>>)
CmdOplockBreakNotificationAsync(r) == Padded(EncodeOplockBreakNotification(r))

\* The state and the duration are written over the flags: the last stays.
EncodeLeaseBreakAcknowledgement(r) ==
    Body(36, {Word(0, 2, 36), Word(4, 4, r.lease_duration)} \cup
             Put(r, [lease_key |-> <<8, 16>>]), <<>>)
CmdLeaseBreakAsync(r) == Padded(EncodeLeaseBreakAcknowledgement(r))
EncodeLeaseBreakReply(r) ==
    Body(36, {Word(0, 2, 36)} \cup
             Put(r, [flags |-> <<4, 4>>, lease_key |-> <<8, 16>>, lease_state |-> <<24, 4>>,
                     lease_duration |-> <<28, 4>>]), <<>>)
CmdLeaseBreakReplyAsync(r) == Padded(EncodeLeaseBreakReply(r))
EncodeLeaseBreakNotification(r) ==
    Body(44, {Word(0, 2, 44), Word(4, 4, r.share_mask_hint)} \cup
             Put(r, [new_epoch |-> <<2, 2>>, lease_key |-> <<8, 16>>]), <<>>)
CmdLeaseBreakNotificationAsync(r) == Padded(EncodeLeaseBreakNotification(r))

ProcessOplockBreakFixed(b) ==
    LET size == GetUint(b, 2, 0, 2)
    IN  IF size \in {24, 44, 36} THEN Reads(size - 2, [struct_size |-> size]) ELSE Refused
\* NOTIFICATION_ID is the message id of what nobody asked for.
NOTIFICATION_ID == -1
ProcessOplockBreakVariable(iov, r, message_id) ==
    CASE r.struct_size = 24 ->
             [break_type |-> IF message_id = NOTIFICATION_ID THEN "oplock_notification"
                             ELSE "oplock_response"] @@
             Fields(iov, [oplock_level |-> <<0, 1>>, file_id |-> <<6, FD_SIZE>>])
      [] r.struct_size = 44 ->
             [break_type |-> "lease_notification"] @@
             Fields(iov, [new_epoch |-> <<0, 2>>, flags |-> <<2, 4>>, lease_key |-> <<6, 16>>,
                          current_lease_state |-> <<22, 4>>, new_lease_state |-> <<26, 4>>,
                          break_reason |-> <<30, 4>>, access_mask_hint |-> <<34, 4>>,
                          share_mask_hint |-> <<38, 4>>])
      [] r.struct_size = 36 ->
             [break_type |-> "lease_response"] @@
             Fields(iov, [flags |-> <<2, 4>>, lease_key |-> <<6, 16>>, lease_state |-> <<22, 4>>,
                          lease_duration |-> <<26, 8>>])
ProcessOplockBreakRequestFixed(b) ==
    LET size == GetUint(b, 2, 0, 2)
    IN  IF size \in {24, 36} THEN Reads(size - 2, [struct_size |-> size]) ELSE Refused
ProcessOplockBreakRequestVariable(iov, r) ==
    CASE r.struct_size = 24 ->
             [break_type |-> "oplock_acknowledge"] @@
             Fields(iov, [oplock_level |-> <<0, 1>>, file_id |-> <<6, FD_SIZE>>])
      [] r.struct_size = 36 ->
             [break_type |-> "lease_acknowledge"] @@
             Fields(iov, [flags |-> <<2, 4>>, lease_key |-> <<6, 16>>, lease_state |-> <<22, 4>>,
                          lease_duration |-> <<26, 8>>])
=============================================================================
