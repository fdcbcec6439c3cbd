----------------------------- MODULE DataCodecs ------------------------------
(***************************************************************************)
(* The structures that QUERY_INFO, SET_INFO, QUERY_DIRECTORY and IOCTL     *)
(* carry: lib/smb2-data-*.c and lib/timestamps.c. An encoder returns the   *)
(* bytes it wrote, a decoder the structure or Failed.                      *)
(***************************************************************************)
EXTENDS Smb2Wire

Failed       == [returned |-> -1]
Fails(r)     == "returned" \in DOMAIN r   \* what the callers make of what a decoder returned

(***************************************************************************)
(* Times. Windows counts 100 ns from 1601, the program seconds and         *)
(* microseconds from 1970. Both are kept in minutes and what is left of    *)
(* the minute; 194074560 minutes lie between the two origins.              *)
(***************************************************************************)
EPOCH == 194074560
TimevalToWin(tv) == <<tv.min + EPOCH, tv.sec * 10000000 + tv.usec * 10>>
WinToTimeval(w)  == [min |-> w[1] - EPOCH, sec |-> w[2] \div 10000000,
                     usec |-> (w[2] \div 10) % 1000000]
NoTime  == [min |-> 0, sec |-> 0, usec |-> 0]
AllOnes == [min |-> -1, sec |-> -1, usec |-> -1]   \* 0xffffffff in both members
WinAllOnes == <<-1, -1>>
\* smb2_tv_timeval_to_win: "leave this time alone" and "never" are passed as they are.
TvTimevalToWin(tv) ==
    CASE tv = NoTime  -> <<0, 0>>
      [] tv = AllOnes -> WinAllOnes
      [] OTHER        -> TimevalToWin(tv)

Times == {"creation_time", "last_access_time", "last_write_time", "change_time"}
WithTimes(rec, Conv(_)) == [f \in DOMAIN rec |-> IF f \in Times THEN Conv(rec[f]) ELSE rec[f]]

(***************************************************************************)
(* smb2-data-file-info.c                                                   *)
(***************************************************************************)
DecodeFileBasicInfo(v) ==
    WithTimes(Fields(v, [creation_time |-> <<0, 8>>, last_access_time |-> <<8, 8>>,
                         last_write_time |-> <<16, 8>>, change_time |-> <<24, 8>>,
                         file_attributes |-> <<32, 4>>]), WinToTimeval)
EncodeFileBasicInfo(fs) ==
    Body(40, Put(WithTimes(fs, TvTimevalToWin),
                 [creation_time |-> <<0, 8>>, last_access_time |-> <<8, 8>>,
                  last_write_time |-> <<16, 8>>, change_time |-> <<24, 8>>,
                  file_attributes |-> <<32, 4>>]), <<>>)

DecodeFileStandardInfo(v) ==
    Fields(v, [allocation_size |-> <<0, 8>>, end_of_file |-> <<8, 8>>,
               number_of_links |-> <<16, 4>>, delete_pending |-> <<20, 1>>,
               directory |-> <<21, 1>>])
EncodeFileStandardInfo(fs) ==
    Body(24, Put(fs, [allocation_size |-> <<0, 8>>, end_of_file |-> <<8, 8>>,
                      number_of_links |-> <<16, 4>>, delete_pending |-> <<20, 1>>,
                      directory |-> <<21, 1>>]), <<>>)

DecodeFilePositionInfo(v)  == Fields(v, [current_byte_offset |-> <<0, 8>>])
EncodeFilePositionInfo(fs) == Body(8, Put(fs, [current_byte_offset |-> <<0, 8>>]), <<>>)

\* A chain of streams. The decoder adds next_entry_offset to where it is; a name that the
\* vector cuts is shortened.
DecodeFileStreamInfo(v) ==
    LET Entry(at) ==
            LET len == Uint(v, at + 4, 4)
                cut == IF v.len < at + 24 + len THEN v.len - at - 24 ELSE len
            IN  [stream_name |-> NameAt(v, at + 24, cut)] @@
                Fields(After(v, at), [stream_size |-> <<8, 8>>, stream_allocation_size |-> <<16, 8>>])
        From[at \in 0 .. v.len] ==
            LET next == Uint(v, at, 4)
            IN  <<Entry(at)>> \o (IF next > 0 /\ at + next + 24 <= v.len THEN From[at + next] ELSE <<>>)
    IN  From[0]
\* The encoder writes as next_entry_offset where the next entry is in the vector: each begins on
\* a multiple of eight behind the one before.
EncodeFileStreamInfo(fs) ==
    LET size(i) == 24 + 2 * fs[i].stream_name_length
        at == Places(0, [i \in DOMAIN fs |-> Part(PadTo64bit(size(i)), NoData)])
        cells(i) == {Word(at[i], 4, IF i < Len(fs) THEN at[i + 1] ELSE 0),
                     Word(at[i] + 4, 4, 2 * fs[i].stream_name_length),
                     Word(at[i] + 8, 8, fs[i].stream_size),
                     Word(at[i] + 16, 8, fs[i].stream_allocation_size)}
        name(i)  == [at |-> at[i] + 24, len |-> NameLen(fs[i].stream_name),
                     data |-> Utf8ToUtf16(fs[i].stream_name)]
    IN  [cells |-> UNION {cells(i) : i \in DOMAIN fs}, parts |-> {name(i) : i \in DOMAIN fs},
         total |-> at[Len(fs)] + size(Len(fs))]

DecodeFileAllInfo(v) ==
    IF v.len < 64 THEN Failed
    ELSE Fields(v, [index_number |-> <<64, 8>>, ea_size |-> <<72, 4>>, access_flags |-> <<76, 4>>,
                    current_byte_offset |-> <<80, 8>>, mode |-> <<88, 4>>,
                    alignment_requirement |-> <<92, 4>>]) @@
         [basic    |-> DecodeFileBasicInfo(Vec(v.buf, v.at, 40)),
          standard |-> DecodeFileStandardInfo(Vec(v.buf, v.at + 40, 24)),
          name     |-> NameAt(v, 100, Uint(v, 96, 4))]
EncodeFileAllInfo(fs) ==
    LET standard == {[c EXCEPT !.at = @ + 40] : c \in EncodeFileStandardInfo(fs.standard).cells}
        rest == Put(fs, [index_number |-> <<64, 8>>, ea_size |-> <<72, 4>>,
                         access_flags |-> <<76, 4>>, current_byte_offset |-> <<80, 8>>,
                         mode |-> <<88, 4>>, alignment_requirement |-> <<92, 4>>])
    IN  Body(100, EncodeFileBasicInfo(fs.basic).cells \cup standard \cup rest \cup
                  {Word(96, 4, NameLen(fs.name))}, <<NamePart(fs.name)>>)

DecodeFileNetworkOpenInfo(v) ==
    IF v.len < 56 THEN Failed
    ELSE WithTimes(Fields(v, [creation_time |-> <<0, 8>>, last_access_time |-> <<8, 8>>,
                              last_write_time |-> <<16, 8>>, change_time |-> <<24, 8>>,
                              allocation_size |-> <<32, 8>>, end_of_file |-> <<40, 8>>,
                              file_attributes |-> <<48, 4>>]), WinToTimeval)
EncodeFileNetworkOpenInfo(fs) ==
    Body(56, Put(WithTimes(fs, TvTimevalToWin),
                 [creation_time |-> <<0, 8>>, last_access_time |-> <<8, 8>>,
                  last_write_time |-> <<16, 8>>, change_time |-> <<24, 8>>,
                  allocation_size |-> <<32, 8>>, end_of_file |-> <<40, 8>>,
                  file_attributes |-> <<48, 4>>]), <<>>)

DecodeFileNormalizedNameInfo(v) ==
    LET len == Uint(v, 0, 4)
    IN  IF v.len < 4 THEN Failed
        ELSE [name |-> NameAt(v, 4, IF v.len < len + 4 THEN v.len - 4 ELSE len)]
\* The length is the structure's, at least the name's; what is between is zeroed.
EncodeFileNormalizedNameInfo(fs) ==
    LET len == IF fs.file_name_length < NameLen(fs.name) THEN NameLen(fs.name)
               ELSE fs.file_name_length
    IN  Body(4, {Word(0, 4, len)}, <<Part(len, Utf8ToUtf16(fs.name) \o
                                          [i \in 1 .. (len - NameLen(fs.name)) \div 2 |-> 0])>>)

(***************************************************************************)
(* smb2-data-filesystem-info.c                                             *)
(***************************************************************************)
DecodeFileFsVolumeInfo(v) ==
    LET r == Fields(v, [creation_time |-> <<0, 8>>, volume_serial_number |-> <<8, 4>>,
                        volume_label_length |-> <<12, 4>>, supports_objects |-> <<16, 1>>,
                        reserved |-> <<17, 1>>])
    IN  [volume_label |-> NameAt(v, 18, r.volume_label_length)] @@ WithTimes(r, WinToTimeval)
EncodeFileFsVolumeInfo(fs) ==
    Body(18, {Word(12, 4, NameLen(fs.volume_label))} \cup
             Put(WithTimes(fs, TimevalToWin),
                 [creation_time |-> <<0, 8>>, volume_serial_number |-> <<8, 4>>,
                  supports_objects |-> <<16, 1>>, reserved |-> <<17, 1>>]),
         <<NamePart(fs.volume_label)>>)

DecodeFileFsSizeInfo(v) ==
    IF v.len < 24 THEN Failed
    ELSE Fields(v, [total_allocation_units |-> <<0, 8>>, available_allocation_units |-> <<8, 8>>,
                    sectors_per_allocation_unit |-> <<16, 4>>, bytes_per_sector |-> <<20, 4>>])
EncodeFileFsSizeInfo(fs) ==
    Body(24, Put(fs, [total_allocation_units |-> <<0, 8>>, available_allocation_units |-> <<8, 8>>,
                      sectors_per_allocation_unit |-> <<16, 4>>,
                      bytes_per_sector |-> <<20, 4>>]), <<>>)

DecodeFileFsDeviceInfo(v) ==
    IF v.len < 8 THEN Failed
    ELSE Fields(v, [device_type |-> <<0, 4>>, characteristics |-> <<4, 4>>])
EncodeFileFsDeviceInfo(fs) ==
    Body(8, Put(fs, [device_type |-> <<0, 4>>, characteristics |-> <<4, 4>>]), <<>>)

\* The decoder wants 20 bytes, which a name of fewer than four units does not make.
DecodeFileFsAttributeInfo(v) ==
    IF v.len < 20 THEN Failed
    ELSE [filesystem_name |-> NameAt(v, 12, Uint(v, 8, 4))] @@
         Fields(v, [filesystem_attributes |-> <<0, 4>>, maximum_component_name_length |-> <<4, 4>>])
EncodeFileFsAttributeInfo(fs) ==
    Body(12, {Word(8, 4, NameLen(fs.filesystem_name))} \cup
             Put(fs, [filesystem_attributes |-> <<0, 4>>,
                      maximum_component_name_length |-> <<4, 4>>]),
         <<NamePart(fs.filesystem_name)>>)

\* The decoder returns 44 for success, of which its callers know only zero.
DecodeFileFsControlInfo(v) ==
    IF v.len < 44 THEN Failed
    ELSE [returned |-> 44] @@
         Fields(v, [free_space_start_filtering |-> <<0, 8>>, free_space_threshold |-> <<8, 8>>,
                    free_space_stop_filtering |-> <<16, 8>>, default_quota_threshold |-> <<24, 8>>,
                    default_quota_limit |-> <<32, 8>>, file_system_control_flags |-> <<40, 4>>])
EncodeFileFsControlInfo(fs) ==
    Body(44, Put(fs, [free_space_start_filtering |-> <<0, 8>>, free_space_threshold |-> <<8, 8>>,
                      free_space_stop_filtering |-> <<16, 8>>, default_quota_threshold |-> <<24, 8>>,
                      default_quota_limit |-> <<32, 8>>,
                      file_system_control_flags |-> <<40, 4>>]), <<>>)

DecodeFileFsFullSizeInfo(v) ==
    IF v.len < 32 THEN Failed
    ELSE Fields(v, [total_allocation_units |-> <<0, 8>>,
                    caller_available_allocation_units |-> <<8, 8>>,
                    actual_available_allocation_units |-> <<16, 8>>,
                    sectors_per_allocation_unit |-> <<24, 4>>, bytes_per_sector |-> <<28, 4>>])
EncodeFileFsFullSizeInfo(fs) ==
    Body(32, Put(fs, [total_allocation_units |-> <<0, 8>>,
                      caller_available_allocation_units |-> <<8, 8>>,
                      actual_available_allocation_units |-> <<16, 8>>,
                      sectors_per_allocation_unit |-> <<24, 4>>,
                      bytes_per_sector |-> <<28, 4>>]), <<>>)

DecodeFileFsObjectIdInfo(v) ==
    IF v.len < 64 THEN Failed
    ELSE Fields(v, [object_id |-> <<0, 16>>, extended_info |-> <<16, 48>>])
EncodeFileFsObjectIdInfo(fs) ==
    Body(64, Put(fs, [object_id |-> <<0, 16>>, extended_info |-> <<16, 48>>]), <<>>)

DecodeFileFsSectorSizeInfo(v) ==
    IF v.len < 28 THEN Failed
    ELSE Fields(v, [logical_bytes_per_sector |-> <<0, 4>>, physical_for_atomicity |-> <<4, 4>>,
                    physical_for_performance |-> <<8, 4>>, effective_for_atomicity |-> <<12, 4>>,
                    flags |-> <<16, 4>>, byte_offset_for_sector_alignment |-> <<20, 4>>,
                    byte_offset_for_partition_alignment |-> <<24, 4>>])
EncodeFileFsSectorSizeInfo(fs) ==
    Body(28, Put(fs, [logical_bytes_per_sector |-> <<0, 4>>, physical_for_atomicity |-> <<4, 4>>,
                      physical_for_performance |-> <<8, 4>>, effective_for_atomicity |-> <<12, 4>>,
                      flags |-> <<16, 4>>, byte_offset_for_sector_alignment |-> <<20, 4>>,
                      byte_offset_for_partition_alignment |-> <<24, 4>>]), <<>>)

(***************************************************************************)
(* smb2-data-reparse-point.c. The names of a symbolic link lie behind the  *)
(* 20 bytes of the structure, 8 of which reparse_data_length leaves out.   *)
(***************************************************************************)
SMB2_REPARSE_TAG_SYMLINK == 12   \* 0xA000000C
DecodeReparseDataBuffer(v) ==
    LET r     == Fields(v, [reparse_tag |-> <<0, 4>>, reparse_data_length |-> <<4, 2>>,
                            suboffset |-> <<8, 2>>, sublen |-> <<10, 2>>,
                            printoffset |-> <<12, 2>>, printlen |-> <<14, 2>>, flags |-> <<16, 4>>])
        tagged == [reparse_tag |-> r.reparse_tag]
    IN  IF v.len < 8 \/ v.len % 65536 < r.reparse_data_length + 8 THEN Failed
        ELSE IF r.reparse_tag # SMB2_REPARSE_TAG_SYMLINK THEN tagged
        ELSE IF \/ v.len < 20
                \/ r.suboffset + r.sublen + 12 > r.reparse_data_length
                \/ r.printoffset + r.printlen + 12 > r.reparse_data_length THEN Failed
        ELSE [flags |-> r.flags, subname |-> NameAt(v, r.suboffset + 20, r.sublen),
              printname |-> NameAt(v, r.printoffset + 20, r.printlen)] @@ tagged

(***************************************************************************)
(* smb2-data-security-descriptor.c                                         *)
(***************************************************************************)
PLAIN_ACES    == {0, 1, 2, 17, 19}    \* allowed, denied, audit, mandatory label, scoped policy
OBJECT_ACES   == {5, 6, 7}
CALLBACK_ACES == {9, 16, 18}          \* allowed and denied callback, resource attribute
ACL_REVISIONS == {2, 4}

SidLen(v) == 8 + 4 * Uint(v, 1, 1)
DecodeSid(v) ==
    IF v.len < 8 \/ Uint(v, 0, 1) # 1 \/ v.len < SidLen(v) THEN Failed
    ELSE [id_auth  |-> Uint(v, 2, 6),
          sub_auth |-> [i \in 1 .. Uint(v, 1, 1) |-> Uint(v, 4 + 4 * i, 4)]]

\* A SID that cannot be decoded leaves the entry without one; the entry stays. What follows the
\* SID is the application's.
CallbackAce(data, sid) ==
    [mask   |-> Uint(data, 0, 4), sid |-> sid,
     ad_len |-> data.len - 4 - (IF Fails(sid) THEN 0 ELSE SidLen(After(data, 4)))]
DecodeAce(v) ==
    LET type == Uint(v, 0, 1)
        size == Uint(v, 2, 2)
        head == [ace_type |-> type, ace_flags |-> Uint(v, 1, 1), ace_size |-> size]
        data == After(v, 4)
    IN  IF v.len < 4 \/ size < 4 \/ v.len < size THEN Failed
        ELSE
        CASE type \in PLAIN_ACES ->
                 IF data.len < 4 THEN Failed
                 ELSE [mask |-> Uint(data, 0, 4), sid |-> DecodeSid(After(data, 4))] @@ head
          [] type \in OBJECT_ACES ->
                 IF data.len < 40 THEN Failed
                 ELSE Fields(data, [mask |-> <<0, 4>>, flags |-> <<4, 4>>, object_type |-> <<8, 16>>,
                                    inherited_object_type |-> <<24, 16>>]) @@
                      [sid |-> DecodeSid(After(data, 40))] @@ head
          [] type \in CALLBACK_ACES ->
                 IF data.len < 4 THEN Failed
                 ELSE CallbackAce(data, DecodeSid(After(data, 4))) @@ head
          [] OTHER -> [raw_len |-> data.len] @@ head

WithAce(ace, rest) ==
    IF \E k \in DOMAIN rest : Fails(rest[k]) THEN <<Failed>> ELSE <<ace>> \o rest
AclOf(revision, aces) ==
    IF aces = <<Failed>> THEN Failed ELSE [revision |-> revision, aces |-> aces]
DecodeAcl(v) ==
    LET size  == Uint(v, 2, 2)
        count == Uint(v, 4, 2)
        list  == After([v EXCEPT !.len = size], 8)
        \* The entries from the i-th on, the first of them at an offset of the list.
        From[i \in 1 .. count + 1, at \in 0 .. size] ==
            IF i > count THEN <<>>
            ELSE LET ace == DecodeAce(After(list, at))
                 IN  WithAce(ace, IF Fails(ace) THEN <<Failed>> ELSE From[i + 1, at + ace.ace_size])
    IN  IF v.len < 8 \/ Uint(v, 0, 1) \notin ACL_REVISIONS \/ v.len < size THEN Failed
        ELSE AclOf(Uint(v, 0, 1), From[1, 0])

\* The system ACL is not looked at. What begins too near the end is taken for absent.
SdOf(v, owner, group, dacl) ==
    IF v.len < 20 \/ Uint(v, 0, 1) # 1 \/ Fails(owner) \/ Fails(group) \/ Fails(dacl) THEN Failed
    ELSE [control |-> Uint(v, 2, 2), owner |-> owner, group |-> group, dacl |-> dacl]
SidAt(v, at)  == IF at > 0 /\ at + 8 < v.len THEN DecodeSid(After(v, at)) ELSE <<>>
DaclAt(v, at) == IF at > 0 /\ at + 8 <= v.len THEN DecodeAcl(After(v, at)) ELSE <<>>
DecodeSecurityDescriptor(v) ==
    SdOf(v, SidAt(v, Uint(v, 4, 4)), SidAt(v, Uint(v, 8, 4)), DaclAt(v, Uint(v, 16, 4)))
=============================================================================
