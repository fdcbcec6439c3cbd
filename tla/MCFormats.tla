----------------------------- MODULE MCFormats ------------------------------
(***************************************************************************)
(* The messages and names of the check of Formats. Fields of which nothing *)
(* depends on the value hold numbers that are all different, so that one   *)
(* read from the place of another is seen.                                 *)
(***************************************************************************)
EXTENDS Formats, DceRpc

Fresh(fields) == LET all == <<
    "security_mode", "dialect_revision", "client_guid", "server_guid", "capabilities",
    "max_transact_size", "max_read_size", "max_write_size", "system_time", "server_start_time",
    "flags", "channel", "previous_session_id", "session_flags", "share_type", "share_flags",
    "maximal_access", "security_flags", "requested_oplock_level", "impersonation_level",
    "smb_create_flags", "desired_access", "file_attributes", "share_access",
    "create_disposition", "create_options", "oplock_level", "create_action", "creation_time",
    "last_access_time", "last_write_time", "change_time", "allocation_size", "end_of_file",
    "file_id", "offset", "minimum_count", "remaining_bytes", "data_remaining", "count",
    "remaining", "output_buffer_length", "completion_filter", "info_type", "file_info_class",
    "additional_information", "file_index", "file_information_class", "ea_size", "lease_key",
    "lease_state", "lease_duration", "new_epoch", "current_lease_state", "new_lease_state",
    "break_reason", "access_mask_hint", "share_mask_hint", "error_context_count",
    "number_of_links", "delete_pending", "directory", "current_byte_offset", "index_number",
    "access_flags", "mode", "alignment_requirement", "volume_serial_number",
    "supports_objects", "reserved", "total_allocation_units", "available_allocation_units",
    "sectors_per_allocation_unit", "bytes_per_sector", "device_type", "characteristics",
    "filesystem_attributes", "maximum_component_name_length", "free_space_start_filtering",
    "free_space_threshold", "free_space_stop_filtering", "default_quota_threshold",
    "default_quota_limit", "file_system_control_flags", "caller_available_allocation_units",
    "actual_available_allocation_units", "object_id", "extended_info",
    "logical_bytes_per_sector", "physical_for_atomicity", "physical_for_performance",
    "effective_for_atomicity", "byte_offset_for_sector_alignment",
    "byte_offset_for_partition_alignment", "lock_sequence_index", "length", "guid", "dialect",
    "stream_size", "stream_allocation_size", "short_name">>
    IN  [f \in fields |-> 2000 + CHOOSE i \in DOMAIN all : all[i] = f]

\* UTF-8: "a/b", e with an acute accent, an emoji, what is no UTF-8, and four letters.
Path    == <<97, 47, 98>>
Accent  == <<195, 169>>
Emoji   == <<240, 159, 152, 128, 97>>
Bad     == <<97, 192, 128>>
Letters == <<78, 84, 70, 83>>
Strings == {<<>>, Path, Accent, Emoji, Bad}

At(m, s, u)  == [min |-> m, sec |-> s, usec |-> u]
SomeTimes    == [creation_time |-> At(28000000, 59, 999999), last_access_time |-> At(1, 2, 3),
                 last_write_time |-> At(28000001, 0, 0), change_time |-> At(0, 0, 1)]

Context ==
    [passthrough |-> FALSE, multi |-> TRUE, dialect |-> 300, smb311 |-> FALSE, buffer |-> TRUE,
     class |-> "none", room |-> 65535, next_command |-> 0, message_id |-> 17, async_id |-> 18,
     tree_id |-> 19, session_id |-> 20, flags |-> "sync", credits |-> 300, salt |-> 21,
     max_read_size |-> 1048576]
Ask(cmd, rec, over) ==
    [cmd |-> cmd, kind |-> "request", form |-> "only", status |-> "ok", rec |-> rec,
     ctx |-> over @@ Context]
Answer(cmd, rec, over) == [Ask(cmd, rec, over) EXCEPT !.kind = "reply"]
Same  == <<>>   \* as in Context
Thru  == [passthrough |-> TRUE]
Meaning(m, meant) == [means |-> meant] @@ m

Bares ==
  <<{Ask(cmd, <<>>, Same) : cmd \in {"logoff", "echo", "tree_disconnect"}},
    {Answer(cmd, <<>>, Same) : cmd \in {"logoff", "echo", "tree_disconnect",
                                        "flush", "lock", "set_info"}},
    {Answer("echo", <<>>, [flags |-> "async"])},
    {Ask("echo", <<>>, [dialect |-> 202, multi |-> FALSE])}>>

Session ==
  <<{Ask("negotiate", [dialect_count |-> Len(ds), dialects |-> ds] @@
                      Fresh({"security_mode", "capabilities", "client_guid"}),
         [smb311 |-> ds[Len(ds)] = 311]) :
        ds \in {<<202>>, <<202, 300, 302>>, <<202, 210, 300, 302, 311>>}},
    {Answer("negotiate", [dialect_revision |-> d, security_buffer_length |-> n,
                          security_buffer |-> IF n = 0 THEN NoData ELSE <<7, 7>>] @@
                         Fresh({"security_mode", "server_guid", "capabilities",
                                "max_transact_size", "max_read_size", "max_write_size",
                                "system_time", "server_start_time"}),
            [smb311 |-> d = 311]) : d \in {202, 311}, n \in {0, 64}},
    {Ask("session_setup", [security_buffer_length |-> 5, security_buffer |-> <<5>>] @@
                          Fresh({"flags", "security_mode", "capabilities", "channel",
                                 "previous_session_id"}), Same)},
    {[Answer("session_setup", [security_buffer_length |-> n, security_buffer |-> <<6>>] @@
                              Fresh({"session_flags"}), Same) EXCEPT !.status = "more_processing"] :
        n \in {6, 300}},
    {Ask("tree_connect", [path_length |-> 12, path |-> <<1, 2, 3>>] @@ Fresh({"flags"}), Same)},
    {Answer("tree_connect", Fresh({"share_type", "share_flags", "capabilities", "maximal_access"}),
            Same)}>>

Files ==
  <<{Ask("create", [name |-> name, create_context_length |-> n,
                    create_context |-> IF n = 0 THEN NoData ELSE <<8, 8>>] @@
                   Fresh({"security_flags", "requested_oplock_level", "impersonation_level",
                          "smb_create_flags", "desired_access", "file_attributes", "share_access",
                          "create_disposition", "create_options"}), Same) :
        name \in Strings, n \in {0, 20}},
    {Answer("create", [create_context_length |-> n,
                       create_context |-> IF n = 0 THEN NoData ELSE <<9>>] @@
                      Fresh({"oplock_level", "flags", "create_action", "creation_time",
                             "last_access_time", "last_write_time", "change_time",
                             "allocation_size", "end_of_file", "file_attributes", "file_id"}), Same) :
        n \in {0, 9}},
    {Ask("close", Fresh({"flags", "file_id"}), Same)}, {Ask("flush", Fresh({"file_id"}), Same)},
    {Answer("close", Fresh({"flags", "creation_time", "last_access_time", "last_write_time",
                            "change_time", "allocation_size", "end_of_file",
                            "file_attributes"}), Same)},
    {[Answer("create", [byte_count |-> n] @@ Fresh({"error_context_count"}), Same)
        EXCEPT !.status = "error"] : n \in {0, 8, 24}}>>

Reads_ ==
  <<{Ask("read", [length |-> n, read_channel_info_length |-> i,
                  read_channel_info |-> IF i = 0 THEN NoData ELSE <<3>>,
                  minimum_count |-> 0] @@
                 Fresh({"flags", "offset", "file_id", "channel", "remaining_bytes"}),
         [multi |-> multi, passthrough |-> i > 0]) :
        n \in {0, 1, 65535, 65536, 65537, 1048576}, i \in {0, 4}, multi \in BOOLEAN},
    {Answer("read", [data_length |-> n, data |-> IF n = 0 THEN NoData ELSE <<4>>] @@
                    Fresh({"data_remaining"}), Same) : n \in {0, 1, 65537}}>>
Writes ==
  <<{Ask("write", [length |-> n, buf |-> <<4>>, write_channel_info_length |-> i,
                   write_channel_info |-> IF i = 0 THEN NoData ELSE <<3>>] @@
                  Fresh({"flags", "offset", "file_id", "channel", "remaining_bytes"}),
         [multi |-> multi, passthrough |-> i > 0]) :
        n \in {0, 1, 65536, 65537, 131073}, i \in {0, 4, 8}, multi \in BOOLEAN},
    {Answer("write", Fresh({"count", "remaining"}), Same)}>>

\* A file's reads and writes: what a dialect allows, the credits, the largest transfer.
Counts     == {0, 1, 65535, 65536, 65537, 131073, 8388608, 70000000}
Transfers ==
  <<{[count |-> n] @@ Ask("read", [length |-> n, read_channel_info_length |-> 0, minimum_count |-> 0,
                                   read_channel_info |-> NoData] @@
                                  Fresh({"flags", "offset", "file_id", "channel", "remaining_bytes"}),
                          [dialect |-> d, multi |-> d >= 300, credits |-> k, max |-> max,
                           max_read_size |-> 2000000000]) :
        n \in Counts, d \in {202, 210, 300}, k \in {0, 1, 2, 1007, 1008}, max \in {65536, 100000000}},
    {[count |-> n] @@ Ask("write", [length |-> n, write_channel_info_length |-> 0, buf |-> <<4>>,
                                    write_channel_info |-> NoData] @@
                                   Fresh({"flags", "offset", "file_id", "channel", "remaining_bytes"}),
                          [dialect |-> d, multi |-> d >= 300, credits |-> k, max |-> 8388608]) :
        n \in Counts, d \in {202, 210, 300}, k \in {0, 1, 127, 128}}>>

Locks ==
  <<{Ask("lock", [locks |-> [i \in 1 .. n |-> [offset |-> 10 * i, length |-> 10 * i + 1,
                                               flags |-> 10 * i + 2]],
                  lock_sequence_number |-> 7] @@ Fresh({"file_id", "lock_sequence_index"}), Same) :
        n \in 1 .. 3}>>

Entry(name) == [name |-> name] @@ SomeTimes @@
    Fresh({"file_index", "end_of_file", "allocation_size", "file_attributes", "ea_size", "file_id"})
\* A listing as a server lays it out: an entry says how far behind it the next one is.
ServersListing(names) ==
    LET at == Places(0, [i \in DOMAIN names |-> Part(EntrySize("id_full", Entry(names[i])), NoData)])
        cells(i) == {[w EXCEPT !.at = @ + at[i]] :
                     w \in EntryCells("id_full", Entry(names[i])) \cup
                           {Word(0, 4, IF i < Len(names) THEN at[i + 1] - at[i] ELSE 0)}}
    IN  [cells |-> UNION {cells(i) : i \in DOMAIN names},
         parts |-> {[at |-> at[i] + 80, len |-> NameLen(names[i]),
                     data |-> Utf8ToUtf16(names[i])] : i \in DOMAIN names},
         total |-> at[Len(names) + 1]]
Listings ==
  <<{Ask("query_directory", [name |-> name, output_buffer_length |-> n] @@
                            Fresh({"file_information_class", "flags", "file_index", "file_id"}), Same) :
        name \in Strings, n \in {65535, 65536, 65537}},
    {Answer("query_directory", [entries |-> es], [class |-> "id_full"]) :
        es \in {<<>>, <<Entry(Path)>>, <<Entry(Accent), Entry(Emoji)>>, <<Entry(Bad)>>,
                <<Entry(Path), Entry(<<>>)>>, <<Entry(Path), Entry(Accent), Entry(Emoji)>>,
                <<Entry(Emoji), Entry(Path), Entry(Path), Entry(Accent)>>}},
    {Meaning(Answer("query_directory", [output_buffer_length |-> ServersListing(ns).total,
                                        output_buffer |-> ServersListing(ns)], Thru),
             [entries |-> [i \in DOMAIN ns |-> Entry(ns[i])]]) :
        ns \in {<<>>, <<Path>>, <<Accent, Emoji, Path>>}}>>

\* Changes laid out by a server, the one behind the other on multiples of four.
Changes(names) ==
    LET size(i)  == PadTo32bit(12 + NameLen(names[i]))
        from[i \in 1 .. Len(names) + 1] == IF i = 1 THEN 0 ELSE from[i - 1] + size(i - 1)
    IN  [cells |-> UNION {{Word(from[i], 4, IF i = Len(names) THEN 0 ELSE size(i)),
                           Word(from[i] + 4, 4, i), Word(from[i] + 8, 4, NameLen(names[i]))} :
                          i \in DOMAIN names},
         parts |-> {[at |-> from[i] + 12, len |-> NameLen(names[i]), data |-> Utf8ToUtf16(names[i])] :
                    i \in DOMAIN names},
         total |-> from[Len(names) + 1]]
Notices ==
  <<{Ask("change_notify", Fresh({"flags", "output_buffer_length", "file_id",
                                 "completion_filter"}), Same)},
    {Meaning(Answer("change_notify", [output_buffer_length |-> Changes(ns).total,
                                      output |-> Changes(ns)], Thru),
             [changes |-> [i \in DOMAIN ns |-> [action |-> i, name |-> ns[i]]]]) :
        ns \in {<<>>, <<Path>>, <<Accent, Emoji, Path>>}}>>

\* A symbolic link as a server describes it.
Link(sub, print) ==
    Body(20, {Word(0, 4, SMB2_REPARSE_TAG_SYMLINK), Word(8, 2, 0), Word(10, 2, NameLen(sub)),
              Word(4, 2, 12 + NameLen(sub) + NameLen(print)), Word(12, 2, NameLen(sub)),
              Word(14, 2, NameLen(print)), Word(16, 4, 1)}, <<NamePart(sub), NamePart(print)>>)
Told == Fresh({"capabilities", "guid", "security_mode", "dialect"})
Ioctls ==
  <<{Ask("ioctl", [ctl_code |-> PIPE_TRANSCEIVE, input_count |-> n, input |-> IF n = 0 THEN NoData ELSE <<2>>] @@
                  Fresh({"file_id", "flags"}), Thru) : n \in {0, 24}},
    {Meaning(Ask("ioctl", [ctl_code |-> VALIDATE_NEGOTIATE_INFO, input_count |-> 24,
                           input |-> ValidateNegotiateInfo(Told)] @@ Fresh({"file_id", "flags"}), Thru),
             [input |-> Told])},
    {Answer("ioctl", [ctl_code |-> PIPE_TRANSCEIVE, input_count |-> i, output_count |-> n,
                      output |-> <<2>>] @@ Fresh({"file_id", "flags"}), Thru) :
        i \in {0, 8}, n \in {0, 24}},
    {Meaning(Answer("ioctl", [ctl_code |-> GET_REPARSE_POINT, input_count |-> 0,
                              output_count |-> Link(sub, Accent).total, output |-> Link(sub, Accent)] @@
                             Fresh({"file_id", "flags"}), Thru),
             [output |-> [reparse_tag |-> SMB2_REPARSE_TAG_SYMLINK, flags |-> 1, subname |-> sub,
                          printname |-> Accent]]) : sub \in {Accent, Emoji, Path}}>>

Times4(rec) == SomeTimes @@ rec
Structures ==
  <<<<"basic", Times4(Fresh({"file_attributes"}))>>,
     <<"standard", Fresh({"allocation_size", "end_of_file", "number_of_links", "delete_pending",
                          "directory"})>>,
     <<"position", Fresh({"current_byte_offset"})>>,
     <<"network_open", Times4(Fresh({"allocation_size", "end_of_file", "file_attributes"}))>>,
     <<"fs_volume", [creation_time |-> At(28000000, 1, 1), volume_label |-> Emoji,
                     volume_label_length |-> 6] @@
                    Fresh({"volume_serial_number", "supports_objects", "reserved"})>>,
     <<"fs_size", Fresh({"total_allocation_units", "available_allocation_units",
                         "sectors_per_allocation_unit", "bytes_per_sector"})>>,
     <<"fs_device", Fresh({"device_type", "characteristics"})>>,
     <<"fs_control", Fresh({"free_space_start_filtering", "free_space_threshold",
                            "free_space_stop_filtering", "default_quota_threshold",
                            "default_quota_limit", "file_system_control_flags"})>>,
     <<"fs_full_size", Fresh({"total_allocation_units", "caller_available_allocation_units",
                              "actual_available_allocation_units", "sectors_per_allocation_unit",
                              "bytes_per_sector"})>>,
     <<"fs_object_id", Fresh({"object_id", "extended_info"})>>,
     <<"fs_sector_size", Fresh({"logical_bytes_per_sector", "physical_for_atomicity",
                                "physical_for_performance", "effective_for_atomicity", "flags",
                                "byte_offset_for_sector_alignment",
                                "byte_offset_for_partition_alignment"})>>,
     <<"fs_attribute", [filesystem_name |-> Accent] @@
                       Fresh({"filesystem_attributes", "maximum_component_name_length"})>>,
     <<"fs_attribute", [filesystem_name |-> Letters] @@
                       Fresh({"filesystem_attributes", "maximum_component_name_length"})>>,
     <<"all", [basic |-> Times4(Fresh({"file_attributes"})), name |-> Accent, standard |->
               Fresh({"allocation_size", "end_of_file", "number_of_links", "delete_pending",
                      "directory"})] @@
              Fresh({"index_number", "ea_size", "access_flags", "current_byte_offset", "mode",
                     "alignment_requirement"})>>>>
Stream(name) == [stream_name |-> name] @@ Fresh({"stream_size", "stream_allocation_size"})
WithLength(s) == [stream_name_length |-> Len(Utf8ToUtf16(s.stream_name))] @@ s
Streams == {<<Stream(Path)>>, <<Stream(Accent), Stream(Emoji)>>,
            <<Stream(Path), Stream(Accent), Stream(Emoji)>>}

\* A descriptor with an owner, a group and a list of one entry of each kind.
Sid(at, sub) == {Word(at, 1, 1), Word(at + 1, 1, 1), Word(at + 2, 6, 5), Word(at + 8, 4, sub)}
Ace(at, type, size, sid) ==
    {Word(at, 1, type), Word(at + 1, 1, 0), Word(at + 2, 2, size), Word(at + 4, 4, 77)} \cup Sid(sid, 9)
Descriptor ==
    [cells |-> {Word(0, 1, 1), Word(2, 2, 4), Word(4, 4, 20), Word(8, 4, 32), Word(16, 4, 44),
                Word(44, 1, 2), Word(46, 2, 92), Word(48, 2, 3)} \cup Sid(20, 3) \cup Sid(32, 4) \cup
               Ace(52, 0, 20, 60) \cup Ace(72, 5, 56, 116) \cup
               {Word(80, 4, 1), Word(84, 16, 2), Word(100, 16, 3)} \cup
               {Word(128, 1, 99), Word(130, 2, 8)},
     parts |-> {}, total |-> 136]
SidIs(sub) == [id_auth |-> 5, sub_auth |-> <<sub>>]
AceIs(type, size) == [ace_type |-> type, ace_flags |-> 0, ace_size |-> size]
DescriptorIs ==
    [control |-> 4, owner |-> SidIs(3), group |-> SidIs(4),
     dacl |-> [revision |-> 2, aces |->
        <<[mask |-> 77, sid |-> SidIs(9)] @@ AceIs(0, 20),
          [mask |-> 77, flags |-> 1, object_type |-> 2, inherited_object_type |-> 3,
           sid |-> SidIs(9)] @@ AceIs(5, 56),
          [raw_len |-> 4] @@ AceIs(99, 8)>>]]

Structured ==
    [i \in DOMAIN Structures |->
        {Answer("query_info", [data |-> Structures[i][2]],
                [class |-> Structures[i][1], room |-> room]) :
            room \in IF Structures[i][1] = "fs_size" THEN {16, 65535} ELSE {65535}}]
Infos ==
  <<{Ask("query_info", [input_buffer_length |-> 0] @@
                       Fresh({"info_type", "file_info_class", "output_buffer_length",
                              "additional_information", "flags", "file_id"}), Same)},
    {Meaning(Answer("query_info", [data |-> [i \in DOMAIN ss |-> WithLength(ss[i])]],
                    [class |-> "stream"]), [output_buffer |-> ss]) : ss \in Streams},
    {Meaning(Answer("query_info", [data |-> [name |-> Emoji, file_name_length |-> n]],
                    [class |-> "normalized_name"]), [output_buffer |-> [name |-> Emoji]]) :
        n \in {0, 10}},
    {Meaning(Answer("query_info", [data |-> Descriptor], [class |-> "security", passthrough |-> TRUE,
                                                          receiver |-> [passthrough |-> FALSE]]),
             [output_buffer |-> DescriptorIs])},
    {Answer("query_info", [data |-> NoData], [class |-> "basic"])}>>

SetInfos ==
  <<{Ask("set_info", [info_type |-> "file", file_info_class |-> class, data |-> data] @@
                     Fresh({"additional_information", "file_id"}), Same) :
        class \in {"end_of_file"}, data \in {[end_of_file |-> 5]}},
    {Ask("set_info", [info_type |-> "file", file_info_class |-> "basic", data |->
                      [creation_time |-> AllOnes, last_access_time |-> NoTime] @@
                      Times4(Fresh({"file_attributes"}))] @@
                     Fresh({"additional_information", "file_id"}), Same)},
    {Ask("set_info", [info_type |-> "file", file_info_class |-> "rename",
                      data |-> [replace_if_exist |-> 1, file_name |-> n]] @@
                     Fresh({"additional_information", "file_id"}), Same) : n \in {Path, Bad}},
    {Ask("set_info", [info_type |-> "file", file_info_class |-> "disposition", buffer_length |-> 0,
                      buffer_offset |-> 96] @@ Fresh({"additional_information", "file_id"}), Thru)}>>

Breaks ==
  <<{[Ask("oplock_break", Fresh({"oplock_level", "file_id"}), Same) EXCEPT !.form = "oplock"]},
    {[Answer("oplock_break", Fresh({"oplock_level", "file_id"}), Same) EXCEPT !.form = "oplock"]},
    {[Answer("oplock_break", Fresh({"oplock_level", "file_id"}), [message_id |-> NOTIFICATION_ID])
         EXCEPT !.form = "oplock_notification"]},
    {[Ask("oplock_break", Fresh({"flags", "lease_key", "lease_state", "lease_duration"}), Same)
         EXCEPT !.form = "lease"]},
    {[Answer("oplock_break", Fresh({"flags", "lease_key", "lease_state", "lease_duration"}), Same)
         EXCEPT !.form = "lease"]},
    {[Answer("oplock_break", Fresh({"new_epoch", "flags", "lease_key", "current_lease_state",
                                    "new_lease_state", "break_reason", "access_mask_hint",
                                    "share_mask_hint"}), [message_id |-> NOTIFICATION_ID])
         EXCEPT !.form = "lease_notification"]}>>

MCMessages == Bares \o Session \o Files \o Reads_ \o Writes \o Transfers \o Locks \o Listings \o
              Notices \o Ioctls \o Structured \o Infos \o SetInfos \o Breaks

(***************************************************************************)
(* DCE/RPC                                                                 *)
(***************************************************************************)
Path2(p, names) == p \o [i \in DOMAIN names |-> <<names[i], 0>>]
Arg(names)      == Path2(PAYLOAD, names)
Rpc(ptype, drep) ==
    [p \in {Field(HDR, f) : f \in {"rpc_vers", "PTYPE", "pfc_flags", "packed_drep", "call_id"}} |->
        CASE p = Field(HDR, "rpc_vers") -> 5 [] p = Field(HDR, "PTYPE") -> ptype
          [] p = Field(HDR, "pfc_flags") -> 3 [] p = Field(HDR, "packed_drep") -> drep
          [] p = Field(HDR, "call_id") -> 2]
Ptypes == [request |-> 0, reply |-> 2, bind |-> 11, bind_ack |-> 12]
RpcCall(kind, proc, wide, drep, mem) ==
    [cmd |-> "rpc", kind |-> kind, proc |-> proc, wide |-> wide, drep |-> drep,
     mem |-> [p \in DOMAIN (mem @@ Rpc(Ptypes[kind], drep))
                        \ (IF kind = "reply" THEN {Field(HDR, "pfc_flags")} ELSE {}) |->
                 (mem @@ Rpc(Ptypes[kind], drep))[p]], words |-> <<>>, fragment |-> 4096]

EnumRequest(level) ==
    Arg(<<"ServerName">>) :> Path @@ Arg(<<"ses", "Level">>) :> level
    @@ Arg(<<"ses", "ShareInfo", "Level">>) :> level
    @@ Arg(<<"PreferedMaximumLength">>) :> 65536 @@ Arg(<<"ResumeHandle">>) :> 7
    @@ Field(BODY, "opnum") :> 15 @@ Field(BODY, "context_id") :> 1
Share(name, type, remark) == [netname |-> name, type |-> type, remark |-> remark]
EnumReply(level, shares) ==
    LET l == ToString(level)
        Buffer == Arg(<<"ses", "ShareInfo", l, "Buffer">>)
        Of(i)  == Field(Item(Buffer, i), "netname") :> shares[i].netname
                  @@ (IF level = 0 THEN <<>>
                      ELSE Field(Item(Buffer, i), "type") :> shares[i].type
                           @@ Field(Item(Buffer, i), "remark") :> shares[i].remark)
        All    == FoldLeft(LAMBDA acc, i : acc @@ Of(i), <<>>, [i \in DOMAIN shares |-> i])
    IN  All @@ Field(Buffer, "max_count") :> Len(shares)
        @@ Arg(<<"ses", "ShareInfo", l, "EntriesRead">>) :> Len(shares)
        @@ Arg(<<"ses", "Level">>) :> level @@ Arg(<<"ses", "ShareInfo", "Level">>) :> level
        @@ Arg(<<"total_entries">>) :> Len(shares) @@ Arg(<<"resume_handle">>) :> 8
        @@ Arg(<<"status">>) :> 0
Shares == {<<>>, <<Share(Letters, 3, <<>>)>>,
           <<Share(Path, 0, Emoji), Share(<<>>, 5, Accent), Share(Accent, 1, Letters)>>}

\* The same as a server lays it out, for two shares of level 1: widths and words.
Text(w, units) == <<<<w, Len(units) + 1>>, <<w, 0>>, <<w, Len(units) + 1>>>>
                  \o [i \in DOMAIN units |-> <<2, units[i]>>] \o <<<<2, 0>>>>
TwoShares == <<Share(<<65>>, 3, <<66, 67>>), Share(<<68, 69>>, 5, <<>>)>>
ByHand(w) ==
    <<<<4, 1>>, <<w, 1>>, <<w, 131072>>, <<4, 2>>, <<w, 131076>>, <<w, 2>>,
      <<w, 131080>>, <<4, 3>>, <<w, 131084>>, <<w, 131088>>, <<4, 5>>, <<w, 131092>>>>
    \o Text(w, <<65>>) \o Text(w, <<66, 67>>) \o Text(w, <<68, 69>>) \o Text(w, <<>>)
    \o <<<<4, 2>>, <<w, 131096>>, <<4, 8>>, <<4, 0>>>>

Ack(n) ==
    LET Of(i) == LET r == Item(Field(BODY, "results"), i)
                 IN  Field(r, "ack_result") :> (i % 2) @@ Field(r, "ack_reason") :> 2
                     @@ Path2(r, <<"uuid", "v1">>) :> 100 + i @@ Field(r, "syntax_version") :> 2
    IN  FoldLeft(LAMBDA acc, i : acc @@ Of(i),
                 Field(BODY, "num_results") :> n @@ Field(BODY, "sec_addr_len") :> 13
                 @@ Field(BODY, "max_recv_frag") :> 4280, [i \in 1 .. n |-> i])

MCCalls ==
    {RpcCall("request", "NetrShareEnum", wide, drep, EnumRequest(level)) :
        wide \in BOOLEAN, drep \in {0, 16}, level \in {0, 1}} \cup
    {RpcCall("request", "NetrShareGetInfo", wide, 16,
             Arg(<<"ServerName">>) :> s @@ Arg(<<"NetName">>) :> Accent @@ Arg(<<"Level">>) :> 1) :
        wide \in BOOLEAN, s \in {Bad, Letters}} \cup
    {RpcCall("reply", "NetrShareGetInfo", wide, drep,
             Arg(<<"InfoStruct", "level">>) :> 1
             @@ Arg(<<"InfoStruct", "1", "netname">>) :> Path @@ Arg(<<"InfoStruct", "1", "type">>) :> 4
             @@ Arg(<<"InfoStruct", "1", "remark">>) :> Emoji @@ Arg(<<"status">>) :> 6) :
        wide \in BOOLEAN, drep \in {0, 16}} \cup
    {[RpcCall("reply", "NetrShareEnum", wide, 16, EnumReply(level, shares)) EXCEPT !.fragment = size] :
        wide \in BOOLEAN, level \in {0, 1}, shares \in Shares, size \in {8, 20, 4096}} \cup
    {[RpcCall("reply", "NetrShareEnum", wide, 16, EnumReply(1, TwoShares))
         EXCEPT !.words = ByHand(IF wide THEN 8 ELSE 4), !.fragment = size] :
        wide \in BOOLEAN, size \in {24, 4096}} \cup
    {RpcCall("bind", "", FALSE, 16, BindMem(ndr)) : ndr \in 0 .. 2} \cup
    {RpcCall("bind_ack", "", FALSE, 16, Ack(n)) : n \in {0, 1, 2}}

\* Units of one, two and three bytes, both halves of pairs, up to three behind one another.
SomeUnits == {65, 2047, 2048, 55296, 56319, 56320, 57343, 65535}
MCNames == UNION {[1 .. n -> SomeUnits] : n \in 0 .. 3}
=============================================================================
