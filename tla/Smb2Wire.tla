------------------------------ MODULE Smb2Wire ------------------------------
(***************************************************************************)
(* How libsmb2 lays a PDU's body out and reads it back: io vectors behind  *)
(* one another, little-endian integers at offsets, and a variable part of  *)
(* which the fixed part says the length.                                   *)
(*                                                                         *)
(* A body is a set of cells (an integer of a width at an offset) and parts *)
(* (bytes that no integer of the fixed part covers: the units of a name, a *)
(* blob, a structure laid out as a body of its own). What a field holds is *)
(* a number of its own, so that reading a field from another one's place   *)
(* is seen. Memory is never short.                                         *)
(***************************************************************************)
EXTENDS Unicode, FiniteSetsExt

HEADER_SIZE == 64
FD_SIZE     == 16
Unset       == -1   \* memory the decoder never wrote
Mixed       == -2   \* bytes of several fields

Even(n)       == n - (n % 2)
PadTo32bit(n) == n + ((4 - (n % 4)) % 4)
PadTo64bit(n) == n + ((8 - (n % 8)) % 8)

\* smb2_set_uint8 .. 64 write nothing that does not fit in the vector.
SetUint(len, cells) == {c \in cells : c.at + c.width <= len}

\* The fields of a structure at the places of a table: name |-> <<offset, width>>.
Put(rec, table) ==
    {[at |-> table[f][1], width |-> table[f][2], value |-> rec[f]] : f \in DOMAIN table}
Word(at, width, value) == [at |-> at, width |-> width, value |-> value]
Part(len, data)       == [len |-> len, data |-> data]
Zeroes(len)           == Part(len, <<0>>)
NoData                == <<>>
NoPart                == [cells |-> {}, parts |-> {}, total |-> 0]

\* smb2_add_iovector: each vector follows the ones before it.
Places(first, parts) ==
    LET At[i \in 1 .. Len(parts) + 1] == IF i = 1 THEN first ELSE At[i - 1] + parts[i - 1].len
    IN  At
Laid(first, parts) ==
    {[at |-> Places(first, parts)[i], len |-> parts[i].len, data |-> parts[i].data] :
     i \in DOMAIN parts}

Body(first, cells, parts) ==
    [cells |-> SetUint(first, cells), parts |-> Laid(first, parts),
     total |-> Places(first, parts)[Len(parts) + 1]]

\* What a decoder of the fixed part returns: the length of the variable part, or an error.
Refused          == [n |-> -1, rec |-> <<>>]
Reads(n, rec)    == [n |-> n, rec |-> rec]

\* smb2_pad_to_64bit ends every body that could be built.
Padded(body) == IF body = Refused THEN Refused ELSE [body EXCEPT !.total = PadTo64bit(@)]

\* Slashes of a name turned as the encoders of CREATE and rename do, unit by unit.
Turned(units) == [i \in DOMAIN units |-> IF units[i] = 47 THEN 92 ELSE units[i]]

\* smb2_get_uint8 .. 64 on the first len bytes.
GetUint(body, len, at, width) ==
    LET Under == {c \in body.cells : c.at < at + width /\ at < c.at + c.width}
        bytes == \E p \in body.parts : p.at < at + width /\ at < p.at + p.len
    IN  IF at + width > len THEN Unset
        ELSE IF bytes THEN Mixed
        ELSE IF Under = {} THEN 0
        ELSE IF Cardinality(Under) = 1 /\ \A c \in Under : c.at = at /\ c.width = width
             THEN (CHOOSE c \in Under : TRUE).value
        ELSE Mixed

Get(body, len, table) ==
    [f \in DOMAIN table |-> GetUint(body, len, table[f][1], table[f][2])]

Sized(body, size, fixed) == GetUint(body, fixed, 0, 2) = size /\ Even(size) = fixed

\* The bytes at an offset of the variable vector, which begins where the fixed part ends.
PartsAt(body, at) == {p \in body.parts : p.at = at /\ p.len > 0}
BytesAt(body, fixed, at) ==
    IF PartsAt(body, fixed + at) = {} THEN <<Mixed>>
    ELSE (CHOOSE p \in PartsAt(body, fixed + at) : TRUE).data

\* An io vector over len bytes of a buffer, and what follows an offset of it.
Vec(buf, at, len) == [buf |-> buf, at |-> at, len |-> len]
After(v, off)     == Vec(v.buf, v.at + off, v.len - off)
Uint(v, off, width) ==
    IF off < 0 THEN Mixed ELSE GetUint(v.buf, v.at + v.len, v.at + off, width)
Fields(v, table)  == [f \in DOMAIN table |-> Uint(v, table[f][1], table[f][2])]
DataAt(v, off)    == BytesAt(v.buf, v.at, off)
\* The same where what lies there is laid out as a body of its own.
BodyAt(v, off)    ==
    IF PartsAt(v.buf, v.at + off) = {} THEN [NoPart EXCEPT !.total = Unset] ELSE DataAt(v, off)

\* Names: smb2_utf8_to_utf16 when one is laid, smb2_utf16_to_utf8 on a number of bytes.
NamePart(name) == Part(2 * Len(Utf8ToUtf16(name)), Utf8ToUtf16(name))
NameLen(name)  == 2 * Len(Utf8ToUtf16(name))
NameAt(v, off, bytes) ==
    LET units == DataAt(v, off)
    IN  CASE bytes <= 0 -> <<>>
          [] bytes > 0 /\ 2 * Len(units) < bytes -> <<Mixed>>
          [] OTHER -> CString(Utf16ToUtf8(SubSeq(units, 1, bytes \div 2)))

=============================================================================
