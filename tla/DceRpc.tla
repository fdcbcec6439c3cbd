------------------------------- MODULE DceRpc -------------------------------
(***************************************************************************)
(* NDR as lib/dcerpc.c codes it, and the calls of the srvsvc pipe of       *)
(* lib/dcerpc-srvsvc.c. One coder per type serves both directions. It runs *)
(* twice over a type: the conformance run learns the alignment and codes   *)
(* the sizes, the other codes the data; what pointers refer to follows.    *)
(*                                                                         *)
(* A coder function is a type here, and Coder what runs it. The state is   *)
(*   buf, len, off   the wire, a byte of it being <<value, width, place>>; *)
(*                   bytes that are zero are not in DOMAIN buf             *)
(*   mem             what C has at an address; zero where nothing is. An   *)
(*                   address is a path of fields and indices               *)
(*   decode, wide    the direction, and tctx_id: NDR64                     *)
(*   conf, align, top, ptrs   is_conformance_run, max_alignment, top_level *)
(*                   and the deferred pointers not yet followed            *)
(*   val             what the last scalar was                              *)
(*   ok              no coder has returned -1 yet                          *)
(***************************************************************************)
EXTENDS Unicode, TLC

NSE_BUF_SIZE == 131072
LITTLE_ENDIAN == 16

Field(p, f) == Append(p, <<f, 0>>)
Item(p, i)  == Append(p, <<"[]", i>>)
HDR         == <<<<"hdr", 0>>>>       \* pdu->hdr, of which packed_drep is the order of bytes
NEXT_HDR    == <<<<"next_hdr", 0>>>>
BODY        == <<<<"body", 0>>>>
PAYLOAD     == <<<<"payload", 0>>>>

NewState(decode, wide, mem) ==
    [buf |-> <<>>, len |-> NSE_BUF_SIZE, off |-> 0, mem |-> mem, decode |-> decode,
     wide |-> wide, conf |-> FALSE, align |-> 1, top |-> TRUE, ptrs |-> <<>>,
     val |-> 0, ok |-> TRUE]

Mem(s, p)      == IF p \in DOMAIN s.mem THEN s.mem[p] ELSE 0
Put1(s, p, v)  == [s EXCEPT !.mem = (p :> v) @@ @]
Fail(s)        == [s EXCEPT !.ok = FALSE]
UpTo(off, n)   == off + ((n - (off % n)) % n)
Little(s)      == Mem(s, Field(HDR, "packed_drep")) = LITTLE_ENDIAN
WordSize(s)    == IF s.wide THEN 8 ELSE 4

(***************************************************************************)
(* Scalars                                                                 *)
(***************************************************************************)
Place(s, w, k) == IF Little(s) THEN k ELSE w - 1 - k
DcerpcSet(s, w, v) ==
    LET at == UpTo(s.off, w)
    IN  IF at + w > s.len THEN Fail(s)
        ELSE [s EXCEPT !.off = at + w, !.val = v,
                       !.buf = LET kept == DOMAIN @ \ (at .. at + w - 1)
                               IN  [x \in kept \cup (IF v = 0 THEN {} ELSE at .. at + w - 1) |->
                                       IF x \in kept THEN @[x] ELSE <<v, w, Place(s, w, x - at)>>]]
DcerpcGet(s, w) ==
    LET at    == UpTo(s.off, w)
        bytes == (at .. at + w - 1) \cap DOMAIN s.buf
        whole == \A x \in at .. at + w - 1 :
                     x \in bytes /\ s.buf[x] = <<s.buf[at][1], w, Place(s, w, x - at)>>
    IN  IF at + w > s.len THEN Fail(s)
        ELSE [s EXCEPT !.off = at + w,
                       !.val = IF bytes = {} THEN 0 ELSE IF whole THEN s.buf[at][1] ELSE -2]
Scalar(s, w, v) == IF s.decode THEN DcerpcGet(s, w) ELSE DcerpcSet(s, w, v)
Aligns(s, w)    == [s EXCEPT !.align = IF @ < w THEN w ELSE @]

\* dcerpc_uint8_coder to dcerpc_uint32_coder.
UintCoder(s, w, p) ==
    IF s.conf THEN Aligns(s, w)
    ELSE LET r == Scalar(s, w, Mem(s, p)) IN IF s.decode THEN Put1(r, p, r.val) ELSE r
Uint3264Coder(s, v) ==
    IF s.conf THEN [Aligns(s, WordSize(s)) EXCEPT !.val = v] ELSE Scalar(s, WordSize(s), v)
ConformanceCoder(s, v) ==
    IF s.conf THEN Scalar(s, WordSize(s), v) ELSE [s EXCEPT !.val = v]

(***************************************************************************)
(* Types                                                                   *)
(***************************************************************************)
U8     == [t |-> "uint", width |-> 1]
U16    == [t |-> "uint", width |-> 2]
U32    == [t |-> "uint", width |-> 4]
Skip(n)          == [t |-> "skip", n |-> n]
Address          == [t |-> "address"]
Struct(fields)   == [t |-> "struct", fields |-> fields]
Counted(n, of)   == [t |-> "counted", count |-> n, of |-> of]
Carray(of)       == [t |-> "carray", of |-> of]
Union(tag, arms) == [t |-> "union", tag |-> tag, arms |-> arms]
Utf16z           == [t |-> "utf16", nult |-> TRUE]
Ptr(kind, to, nullable) == [t |-> "ptr", kind |-> kind, to |-> to, nullable |-> nullable]
Ref(to)          == Ptr("ref", to, FALSE)
Unique(to)       == Ptr("unique", to, FALSE)

RECURSIVE Coder(_, _, _), ProcessDeferredPointers(_)

DataRun(c, t, p) ==
    IF ~ c.ok THEN c ELSE Coder([c EXCEPT !.off = UpTo(@, c.align), !.conf = FALSE], t, p)
DoCoder(s, t, p) == DataRun(Coder([s EXCEPT !.align = 1, !.conf = TRUE], t, p), t, p)
ProcessDeferredPointers(s) ==
    IF s.ptrs = <<>> \/ ~ s.ok THEN s
    ELSE ProcessDeferredPointers(
             DoCoder([s EXCEPT !.ptrs = Tail(@)], Head(s.ptrs)[1], Head(s.ptrs)[2]))
AddDeferredPointer(s, t, p) == [s EXCEPT !.ptrs = Append(@, <<t, p>>)]

\* What a pointer says on the wire: zero for NULL, or the mark of its kind.
Mark(s, t, p) ==
    IF t.nullable /\ Field(p, "max_count") \notin DOMAIN s.mem THEN 0
    ELSE IF t.kind = "ref" THEN 82 ELSE 85
\* dcerpc_encode_ptr and dcerpc_decode_ptr. What an outer pointer refers to comes at once, what
\* an inner one refers to when the outer one is done.
Followed(w, t, p) ==
    IF w.top
    THEN [ProcessDeferredPointers(
              IF w.val = 0 \/ ~ w.ok THEN [w EXCEPT !.top = FALSE]
              ELSE DoCoder([w EXCEPT !.top = FALSE], t.to, p)) EXCEPT !.top = TRUE]
    ELSE IF w.val = 0 \/ ~ w.ok THEN w ELSE AddDeferredPointer(w, t.to, p)
PtrCoder(s, t, p) ==
    IF s.conf
    THEN IF s.decode /\ t.kind = "ref" /\ s.top THEN s ELSE Aligns(s, WordSize(s))
    ELSE Followed(IF t.kind = "ref" /\ s.top THEN [s EXCEPT !.val = 82]
                  ELSE Uint3264Coder(s, Mark(s, t, p)), t, p)

\* Elements from the first to the n-th, each as long as the ones before it were coded.
Elements(s, n, of, p) ==
    FoldLeft(LAMBDA acc, i : Coder(acc, of, Item(p, i)), s, [i \in 1 .. n |-> i])
CarrayElements(c, t, p) ==
    IF ~ c.ok THEN c
    ELSE Elements(IF c.decode THEN Put1(c, Field(p, "max_count"), c.val) ELSE c, c.val, t.of, p)
CarrayCoder(s, t, p) ==
    CarrayElements(ConformanceCoder(s, Mem(s, Field(p, "max_count"))), t, p)

\* max_count, offset and actual_count of a string.
SizesCoder(s, max, actual) == ConformanceCoder(ConformanceCoder(ConformanceCoder(s, max), 0), actual)
EncodeUnits(s, units, nult) ==
    LET actual == Len(units) + (IF nult THEN 1 ELSE 0)
    IN  CASE units = Invalid             -> Fail(s)
          [] units # Invalid /\ s.conf   ->
                 Aligns(SizesCoder(s, IF nult THEN actual ELSE actual + (actual % 2), actual), 2)
          [] units # Invalid /\ ~ s.conf ->
                 FoldLeft(LAMBDA acc, u : DcerpcSet(acc, 2, u), s,
                          IF nult THEN Append(units, 0) ELSE units)
EncodeUtf16(s, t, p) ==
    EncodeUnits(s, Utf8ToUtf16(IF p \in DOMAIN s.mem THEN s.mem[p] ELSE <<>>), t.nult)
DecodeUtf16(s, t, p) ==
    LET sizes == SizesCoder(s, 0, 0)
        n     == Mem(s, Field(p, "actual_count"))
        units == [i \in 1 .. n |-> DcerpcGet([s EXCEPT !.off = @ + 2 * (i - 1)], 2).val]
    IN  CASE s.conf -> Aligns(Put1(sizes, Field(p, "actual_count"), sizes.val), 2)
          [] ~ s.conf /\ s.off + 2 * n > s.len  -> Fail(s)
          [] ~ s.conf /\ s.off + 2 * n <= s.len ->
                 [Put1(s, p, CString(Utf16ToUtf8(units))) EXCEPT !.off = @ + 2 * n]
Utf16Coder(s, t, p) == IF s.decode THEN DecodeUtf16(s, t, p) ELSE EncodeUtf16(s, t, p)

\* The tag of a union is coded as a word of its own, before the arm it chooses.
ArmCoder(r, t, p, arm) ==
    IF r.ok /\ arm \in DOMAIN t.arms
    THEN Coder(Put1(r, Field(p, t.tag), r.val), t.arms[arm], Field(p, arm))
    ELSE r
UnionCoder(s, t, p) ==
    LET r == Uint3264Coder(s, Mem(s, Field(p, t.tag))) IN ArmCoder(r, t, p, ToString(r.val))

Coder(s, t, p) ==
    CASE ~ s.ok -> s
      [] s.ok /\ t.t = "uint"    -> UintCoder(s, t.width, p)
      [] s.ok /\ t.t = "skip"    -> [s EXCEPT !.off = @ + t.n]
      [] s.ok /\ t.t = "address" -> LET r == UintCoder(s, 2, p)
                                    IN  [r EXCEPT !.off = UpTo(@ + r.val, 4)]
      [] s.ok /\ t.t = "struct"  ->
             FoldLeft(LAMBDA acc, f : Coder(acc, f[2], Field(p, f[1])), s, t.fields)
      [] s.ok /\ t.t = "counted" -> Elements(s, Mem(s, Append(SubSeq(p, 1, Len(p) - 1), t.count)),
                                             t.of, p)
      [] s.ok /\ t.t = "carray"  -> CarrayCoder(s, t, p)
      [] s.ok /\ t.t = "union"   -> UnionCoder(s, t, p)
      [] s.ok /\ t.t = "utf16"   -> Utf16Coder(s, t, p)
      [] s.ok /\ t.t = "ptr"     -> PtrCoder(s, t, p)

(***************************************************************************)
(* Headers                                                                 *)
(***************************************************************************)
HeaderCoder ==
    Struct(<<<<"rpc_vers", U8>>, <<"rpc_vers_minor", U8>>, <<"PTYPE", U8>>, <<"pfc_flags", U8>>,
             <<"packed_drep", U8>>, <<"pad", Skip(3)>>, <<"frag_length", U16>>,
             <<"auth_length", U16>>, <<"call_id", U32>>>>)
UuidCoder ==
    Struct(<<<<"v1", U32>>, <<"v2", U16>>, <<"v3", U16>>, <<"v4_0", U8>>, <<"v4_1", U8>>,
             <<"v4_2", U8>>, <<"v4_3", U8>>, <<"v4_4", U8>>, <<"v4_5", U8>>, <<"v4_6", U8>>,
             <<"v4_7", U8>>>>)
Syntax == Struct(<<<<"uuid", UuidCoder>>, <<"vers", U16>>, <<"vers_minor", U16>>>>)
BindCoder ==
    Struct(<<<<"max_xmit_frag", U16>>, <<"max_recv_frag", U16>>, <<"assoc_group_id", U32>>,
             <<"n_context_elem", U8>>, <<"pad", Skip(3)>>,
             <<"p_cont_elem", Counted(<<"n_context_elem", 0>>,
                 Struct(<<<<"p_cont_id", U16>>, <<"n_transfer_syn", U8>>, <<"pad", Skip(1)>>,
                          <<"abstract_syntax", Syntax>>,
                          <<"transfer_syntaxes", Counted(<<"n_transfer_syn", 0>>, Syntax)>>>>))>>>>)
BindAckCoder ==
    Struct(<<<<"max_xmit_frag", U16>>, <<"max_recv_frag", U16>>, <<"assoc_group_id", U32>>,
             <<"sec_addr_len", Address>>, <<"num_results", U8>>, <<"pad", Skip(3)>>,
             <<"results", Counted(<<"num_results", 0>>,
                 Struct(<<<<"ack_result", U16>>, <<"ack_reason", U16>>, <<"uuid", UuidCoder>>,
                          <<"syntax_version", U32>>>>))>>>>)
RequestCoder  == Struct(<<<<"alloc_hint", U32>>, <<"context_id", U16>>, <<"opnum", U16>>>>)
ResponseCoder == Struct(<<<<"alloc_hint", U32>>, <<"context_id", U16>>, <<"cancel_count", U8>>,
                          <<"pad", Skip(1)>>>>)

(***************************************************************************)
(* The calls of srvsvc                                                     *)
(***************************************************************************)
ShareInfo0Coder == Struct(<<<<"netname", Unique(Utf16z)>>>>)
ShareInfo1Coder ==
    Struct(<<<<"netname", Unique(Utf16z)>>, <<"type", U32>>, <<"remark", Unique(Utf16z)>>>>)
Container(of) ==
    Struct(<<<<"EntriesRead", U32>>, <<"Buffer", Ptr("unique", Carray(of), TRUE)>>>>)
ShareEnumUnionCoder ==
    Union("Level", [x \in {"0", "1"} |->
        Unique(Container(IF x = "0" THEN ShareInfo0Coder ELSE ShareInfo1Coder))])
ShareEnumStructCoder == Struct(<<<<"Level", U32>>, <<"ShareInfo", ShareEnumUnionCoder>>>>)
NetrShareEnumReqCoder ==
    Struct(<<<<"ServerName", Unique(Utf16z)>>, <<"ses", Ref(ShareEnumStructCoder)>>,
             <<"PreferedMaximumLength", Ref(U32)>>, <<"ResumeHandle", Unique(U32)>>>>)
NetrShareEnumRepCoder ==
    Struct(<<<<"ses", Ref(ShareEnumStructCoder)>>, <<"total_entries", Ref(U32)>>,
             <<"resume_handle", Unique(U32)>>, <<"status", U32>>>>)
ShareInfoCoder == Union("level", [x \in {"1"} |-> Unique(ShareInfo1Coder)])
NetrShareGetInfoReqCoder ==
    Struct(<<<<"ServerName", Unique(Utf16z)>>, <<"NetName", Ref(Utf16z)>>, <<"Level", U32>>>>)
NetrShareGetInfoRepCoder == Struct(<<<<"InfoStruct", Ref(ShareInfoCoder)>>, <<"status", U32>>>>)

PayloadCoder(proc, kind) ==
    CASE proc = "NetrShareEnum" /\ kind = "request"    -> NetrShareEnumReqCoder
      [] proc = "NetrShareEnum" /\ kind = "reply"      -> NetrShareEnumRepCoder
      [] proc = "NetrShareGetInfo" /\ kind = "request" -> NetrShareGetInfoReqCoder
      [] proc = "NetrShareGetInfo" /\ kind = "reply"   -> NetrShareGetInfoRepCoder
BodyCoder(kind) ==
    CASE kind = "request"  -> RequestCoder
      [] kind = "reply"    -> ResponseCoder
      [] kind = "bind"     -> BindCoder
      [] kind = "bind_ack" -> BindAckCoder

(***************************************************************************)
(* PDUs                                                                    *)
(***************************************************************************)
\* dcerpc_pdu_coder, in either direction.
WithPayload(s, kind, proc) == Coder([s EXCEPT !.top = TRUE], PayloadCoder(proc, kind), PAYLOAD)
HeadersCoder(s, kind) == Coder(Coder(s, HeaderCoder, HDR), BodyCoder(kind), BODY)
PduCoder(s, kind, proc) ==
    IF kind = "reply" /\ s.decode THEN WithPayload(HeadersCoder(s, kind), kind, proc)
    ELSE HeadersCoder(s, kind)

Binding == {"bind", "bind_ack"}
\* The lengths are put in when the whole has been coded: of a bind by its coder, of a request
\* by dcerpc_call_async.
Lengths(s, kind) ==
    LET sized == [DcerpcSet([s EXCEPT !.off = 8], 2, s.off) EXCEPT !.off = s.off]
    IN  IF kind \in Binding THEN sized
        ELSE [DcerpcSet([sized EXCEPT !.off = 16], 4, s.off - 24) EXCEPT !.off = s.off]

\* What dcerpc_bind_async fills in: the contexts it offers for a choice of smb2->ndr, each with
\* the interface's syntax and one transfer syntax. Of a UUID only its number is told apart.
Offered(ndr) == CASE ndr = 0 -> <<0, 1>> [] ndr = 1 -> <<0>> [] ndr = 2 -> <<1>>
SyntaxMem(p, id) ==
    Append(Field(p, "uuid"), <<"v1", 0>>) :> 100 + id @@ Append(Field(p, "uuid"), <<"v4_7", 0>>) :> 40 + id
    @@ Field(p, "vers") :> 1 + id @@ Field(p, "vers_minor") :> 1
BindMem(ndr) ==
    LET Elem(i) == LET e == Item(Field(BODY, "p_cont_elem"), i)
                   IN  Field(e, "p_cont_id") :> Offered(ndr)[i] @@ Field(e, "n_transfer_syn") :> 1
                       @@ SyntaxMem(Field(e, "abstract_syntax"), 2)
                       @@ SyntaxMem(Item(Field(e, "transfer_syntaxes"), 1), Offered(ndr)[i])
    IN  FoldLeft(LAMBDA acc, i : acc @@ Elem(i),
                 Field(BODY, "max_xmit_frag") :> 32768 @@ Field(BODY, "max_recv_frag") :> 32768
                 @@ Field(BODY, "n_context_elem") :> (IF ndr = 0 THEN 2 ELSE 1),
                 [i \in 1 .. Len(Offered(ndr)) |-> i])

\* dcerpc_call_async and dcerpc_bind_async up to the IOCTL.
Ended(s) == [s EXCEPT !.len = s.off]
Whole(s, kind) == IF s.ok THEN Ended(Lengths(s, kind)) ELSE s
CallAsync(kind, proc, wide, mem) ==
    LET head == PduCoder(NewState(FALSE, wide, mem), kind, proc)
    IN  Whole(IF kind \in Binding THEN head ELSE WithPayload(head, kind, proc), kind)

(***************************************************************************)
(* dce_unfragment_ioctl: the stubs of the fragments of a response move up  *)
(* behind the first one. It gives up where a header would not fit.         *)
(***************************************************************************)
Moved(buf, to, from, n) ==
    [x \in {y \in DOMAIN buf : y \notin to .. to + n - 1}
           \cup {y \in to .. to + n - 1 : y - to + from \in DOMAIN buf} |->
        IF x \in to .. to + n - 1 THEN buf[x - to + from] ELSE buf[x]]
HeaderAt(s, at) ==
    Coder([s EXCEPT !.buf = [x \in {y - at : y \in {z \in DOMAIN s.buf : z >= at}} |-> @[x + at]],
                    !.len = @ - at, !.off = 0], HeaderCoder, NEXT_HDR)
FragLength(h) == Mem(h, Field(NEXT_HDR, "frag_length"))
LastFrag(h) == Mem(h, Field(NEXT_HDR, "pfc_flags")) \in {2, 3}

RECURSIVE Joined(_, _, _)
JoinedAt(s, unfragment_len, offset, last, size) ==
    LET next == [s EXCEPT !.buf = Moved(@, unfragment_len, offset + 24, size - 24)]
    IN  IF last THEN [next EXCEPT !.len = unfragment_len + size - 24]
        ELSE Joined(next, unfragment_len + size - 24, offset + size)
Joined(s, unfragment_len, offset) ==
    IF s.len - offset < 24 THEN s
    ELSE LET h == HeaderAt(s, offset)
         IN  JoinedAt(s, unfragment_len, offset, LastFrag(h), FragLength(h))
JoinedAfter(s, h) ==
    IF ~ h.ok \/ Mem(h, Field(NEXT_HDR, "PTYPE")) # 2 \/ LastFrag(h) THEN s
    ELSE Joined(s, FragLength(h), FragLength(h))
DceUnfragmentIoctl(s) == JoinedAfter(s, HeaderAt(s, 0))

\* dcerpc_call_cb and smb2_bind_cb on the IOCTL's output; the other side does the same with what
\* the client sent. What the client sent is little-endian, and its PDU receives the answer.
Heard(kind, proc, wide, wire) ==
    LET given == [NewState(TRUE, wide, Field(HDR, "packed_drep") :> LITTLE_ENDIAN)
                      EXCEPT !.buf = wire.buf, !.len = wire.len]
    IN  CASE kind = "reply"        -> PduCoder(DceUnfragmentIoctl(given), kind, proc)
          [] kind = "request"      -> Coder(PduCoder(given, kind, proc),
                                            PayloadCoder(proc, kind), PAYLOAD)
          [] kind \in Binding     -> PduCoder(given, kind, proc)

(***************************************************************************)
(* The server: it answers in fragments of a size, with words it lays out   *)
(* one after the other or with the same coders.                            *)
(***************************************************************************)
Words(s, words) == FoldLeft(LAMBDA acc, w : DcerpcSet(acc, w[1], w[2]), s, words)
Fragmented(s, size) ==
    LET stub    == s.off - 24
        n       == (stub + size - 1) \div size
        Piece(k) == IF k = n THEN stub - (n - 1) * size ELSE size
        Start(k) == (k - 1) * (24 + size)
        Head24(k) ==
            Coder(Coder([s EXCEPT !.buf = <<>>, !.off = 0, !.len = NSE_BUF_SIZE, !.mem =
                  (Field(HDR, "frag_length") :> 24 + Piece(k)) @@
                  (Field(HDR, "pfc_flags") :> (IF k = 1 THEN 1 ELSE 0) + (IF k = n THEN 2 ELSE 0))
                  @@ @], HeaderCoder, HDR), ResponseCoder, BODY).buf
        Frag(k) == [x \in {Start(k) + y : y \in DOMAIN Head24(k)} |-> Head24(k)[x - Start(k)]] @@
                   [x \in {y + 24 * (k - 1) : y \in (DOMAIN s.buf) \cap
                            (24 + (k - 1) * size .. 23 + (k - 1) * size + Piece(k))}
                       |-> s.buf[x - 24 * (k - 1)]]
    IN  [s EXCEPT !.buf = FoldLeft(LAMBDA acc, k : acc @@ Frag(k), Frag(1), [k \in 1 .. n |-> k]),
                  !.len = s.off + 24 * (n - 1)]

(***************************************************************************)
(* A message c: kind, proc and wide as above, mem of its sender and, of a  *)
(* reply, the size of its fragments and the words of one laid out by hand. *)
(***************************************************************************)
Coded(c) ==
    IF c.words = <<>> THEN CallAsync(c.kind, c.proc, c.wide, c.mem)
    ELSE Ended(Words(PduCoder(NewState(FALSE, c.wide, c.mem), c.kind, c.proc), c.words))
InFragments(c, wire) == IF wire.ok /\ c.kind = "reply" THEN Fragmented(wire, c.fragment) ELSE wire
Marshalled(c)        == InFragments(c, Coded(c))
Unmarshalled(c, wire) == Heard(c.kind, c.proc, c.wide, wire)
=============================================================================
