------------------------------- MODULE Unicode -------------------------------
(***************************************************************************)
(* lib/unicode.c: names are bytes of UTF-8 for the program and units of    *)
(* UTF-16 on the wire. A C string ends at its first zero byte.             *)
(***************************************************************************)
EXTENDS Integers, Sequences, FiniteSets, SequencesExt

Invalid     == <<-1>>
Replacement == <<239, 191, 189>>
Octets      == {b \in Nat : b < 256}
CodeUnits   == {c \in Nat : c < 65536}
LeadUnits   == 55296 .. 56319    \* 0xd800 .. 0xdbff
TrailUnits  == 56320 .. 57343    \* 0xdc00 .. 0xdfff

\* l1: how many of the leading bits of a byte are set.
L1(c) == Cardinality({t \in {128, 192, 224, 240, 248, 252, 254, 255} : c >= t})

\* The unsigned shifts of the code, on the values of a code point.
Tail6(c) == c % 64

\* validate_utf8_cp on the bytes from i: the units of one code point and where the next begins.
ByteAfter(s, i, k) == IF i + k <= Len(s) THEN s[i + k] ELSE 0
CodePoint(s, i, l) ==
    CASE l = 2 -> (s[i] % 32) * 64 + Tail6(ByteAfter(s, i, 1))
      [] l = 3 -> (s[i] % 16) * 4096 + Tail6(ByteAfter(s, i, 1)) * 64 + Tail6(ByteAfter(s, i, 2))
      [] l = 4 -> (s[i] % 8) * 262144 + Tail6(ByteAfter(s, i, 1)) * 4096
                  + Tail6(ByteAfter(s, i, 2)) * 64 + Tail6(ByteAfter(s, i, 3))
      [] OTHER -> s[i]
Overlong(l, cp) == (l = 2 /\ cp < 128) \/ (l = 3 /\ cp < 2048) \/ (l = 4 /\ cp < 65536)
UnitsOf(s, i, l, cp) ==
    IF \/ l \in {1, 5, 6, 7, 8} \/ Overlong(l, cp)
       \/ \E k \in 1 .. l - 1 : L1(ByteAfter(s, i, k)) # 1
       \/ cp \in LeadUnits \cup TrailUnits \/ cp >= 1114112
    THEN [units |-> Invalid, next |-> i + 1]
    ELSE [units |-> IF cp < 65536 THEN <<cp>>
                    ELSE <<55296 + (cp - 65536) \div 1024, 56320 + (cp % 1024)>>,
          next  |-> i + (IF l = 0 THEN 1 ELSE l)]
ValidateUtf8Cp(s, i) ==
    LET l == L1(s[i]) IN UnitsOf(s, i, l, CodePoint(s, i, l))

\* smb2_utf8_to_utf16, which returns NULL when validate_utf8_str says so.
Prefixed(units, rest) == IF Invalid \in {units, rest} THEN Invalid ELSE units \o rest
Utf8ToUtf16(s) ==
    LET From[i \in 1 .. Len(s) + 1] ==
            IF i = Len(s) + 1 THEN <<>>
            ELSE LET cp == ValidateUtf8Cp(s, i) IN Prefixed(cp.units, From[cp.next])
    IN  From[1]

\* One unit, or a pair of surrogates, as smb2_utf16_to_utf8 writes it.
Utf8OfUnit(code) ==
    IF code < 128 THEN <<code>>
    ELSE IF code < 2048 THEN <<192 + code \div 64, 128 + Tail6(code)>>
    ELSE <<224 + code \div 4096, 128 + Tail6(code \div 64), 128 + Tail6(code)>>
Utf8OfPair(lead, trail) ==
    LET code == 65536 + (lead % 1024) * 1024 + (trail % 1024)
    IN  <<240 + code \div 262144, 128 + Tail6(code \div 4096),
          128 + Tail6(code \div 64), 128 + Tail6(code)>>

\* What lies at i of the units: a pair, half of one, which is replaced, or a unit of its own.
PairAt(u, i)   == u[i] \in LeadUnits /\ i < Len(u) /\ u[i + 1] \in TrailUnits
Behind(u, i)   == IF PairAt(u, i) THEN i + 2 ELSE i + 1
Utf8Of(u, i)   ==
    IF PairAt(u, i) THEN Utf8OfPair(u[i], u[i + 1])
    ELSE IF u[i] \in LeadUnits \cup TrailUnits THEN Replacement ELSE Utf8OfUnit(u[i])
Utf16ToUtf8(u) ==
    LET From[i \in 1 .. Len(u) + 1] ==
            IF i > Len(u) THEN <<>> ELSE Utf8Of(u, i) \o From[Behind(u, i)]
    IN  From[1]

\* Mutant: half of a pair reckoned as two bytes.
RoomOfHalves(u, i) ==
    IF u[i] < 128 THEN 1 ELSE IF u[i] < 2048 \/ u[i] \in LeadUnits \cup TrailUnits THEN 2 ELSE 3
RoomOf(u, i) ==
    IF u[i] < 128 THEN 1 ELSE IF u[i] < 2048 THEN 2 ELSE IF PairAt(u, i) THEN 4 ELSE 3
\* utf16_size: the room smb2_utf16_to_utf8 allocates, less the final zero.
Utf16Size(u) ==
    LET From[i \in 1 .. Len(u) + 1] ==
            IF i > Len(u) THEN 0 ELSE RoomOf(u, i) + From[Behind(u, i)]
    IN  From[1]

\* What a C string holds of the bytes.
CString(s) ==
    IF \E i \in DOMAIN s : s[i] = 0 THEN SubSeq(s, 1, SelectInSeq(s, LAMBDA c : c = 0) - 1) ELSE s
=============================================================================
