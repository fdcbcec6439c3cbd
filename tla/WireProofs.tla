------------------------------ MODULE WireProofs -----------------------------
(***************************************************************************)
(* Proofs about what is on the wire: Smb2Receive, for every size, every    *)
(* set of well-formed frames and every way the bytes are cut; and Formats, *)
(* for all messages, names and calls: the credits a message is charged,    *)
(* and the strings that are made of names.                                 *)
(***************************************************************************)
EXTENDS Smb2Receive, Formats, FiniteSetTheorems, SequenceTheorems, TLAPS

\* Where a frame's body starts in the count of bytes read.
Base == IF enc THEN 0 ELSE SPL_SIZE

InReply == recv \in {"fixed", "variable", "pad", "unknown"}

\* Which bytes were counted, and what of the frame they are.
Counted ==
    /\ recv # "spl" => /\ frame # NoFrame
                       /\ done = IF enc THEN encPos ELSE at
                       /\ spl = IF enc THEN Content(frame) ELSE Wire(frame)
    /\ enc => recv # "spl" /\ recv # "trfm" /\ frame.sealed /\ at = Size(frame)
    /\ recv = "trfm" => frame.sealed /\ hdr = 0
    /\ recv = "header" => hdr < frame.n /\ (hdr = 0 \/ enc \/ ~ frame.sealed)
    /\ InReply => /\ hdr > 0 /\ (enc \/ ~ frame.sealed)
                  /\ payload = Base + frame.start[hdr] + Hdr

\* Between two frames, or in a length.
Outside ==
    recv = "spl" =>
        /\ total = SPL_SIZE
        /\ \/ at = done /\ hdr = 0 /\ (done > 0 => frame # NoFrame)
           \/ /\ done = 0 /\ frame # NoFrame /\ at = Size(frame)
              /\ hdr > 0 /\ (hdr = frame.n \/ skipped = hdr)

\* How far is read before the next decision.
Targets ==
    /\ recv = "header" => total = Base + frame.start[hdr + 1] + Hdr
    /\ recv = "trfm" => total = Size(frame)
    /\ recv = "fixed" => ~ Response.pending /\ total = payload + Response.fixed
    /\ recv = "variable" => ~ Response.pending /\ total = payload + Response.fixed + Response.variable
    /\ recv = "pad" =>
         total = Base + (IF Response.pending THEN Content(frame) ELSE frame.start[hdr + 1])
    /\ recv = "unknown" => total = Base + Content(frame)

\* What became of the responses whose headers were decoded.
Decoded ==
    /\ \A i \in 1 .. hdr : frame.reply[i].pending \/ frame.reply[i].id \notin waiting
    /\ recv = "spl" /\ skipped # 0 => skipped = hdr
    /\ recv # "spl" =>
         skipped = IF recv = "unknown" \/ (recv = "pad" /\ Response.pending) THEN hdr ELSE 0

\* A session is set up for one of the two protections; both are wanted only
\* between the response that turned encryption on and its refusal.
OneProtection ==
    /\ frame.sealed => seal
    /\ seal /\ sign => /\ ~ frame.sealed
                       /\ phase = "failed" \/ (recv \in {"variable", "pad"} /\ Response.encrypts)

\* Where the signature of a response is computed from.
Signing ==
    /\ sign /\ ~ seal /\ recv = "spl" => signFrom = SPL_SIZE
    /\ sign /\ ~ seal /\ recv = "header" =>
         signFrom = SPL_SIZE + frame.start[hdr + 1] \/ (hdr > 0 /\ resumed)
    /\ sign /\ ~ seal /\ InReply => signFrom = payload - Hdr \/ (hdr > 1 /\ resumed)
    /\ reason = "signature" => phase = "failed" /\ hdr > 0
    /\ RefusalsExplained

IInv == TypeOK /\ Counted /\ Outside /\ Targets /\ Decoded /\ OneProtection /\ Signing

-----------------------------------------------------------------------------
(* Frames *)

\* Where response i of a frame lies.
LaidOut(f, i) ==
    /\ f.sealed \in BOOLEAN /\ f.n \in Nat \ {0} /\ f # NoFrame
    /\ f.start[1] = 0 /\ f.start[i] \in Nat /\ f.start[i + 1] \in Nat
    /\ i > 1 => f.start[i] > 0
    /\ f.start[i + 1] =
          f.start[i] + Hdr + f.reply[i].fixed + f.reply[i].variable + f.reply[i].pad
    /\ f.start[i + 1] <= Content(f) /\ Content(f) \in Nat
    /\ f.reply[i].fixed \in Nat \ {0} /\ f.reply[i].variable \in Nat
    /\ f.reply[i].pad \in Nat
    /\ f.reply[i].pending \in BOOLEAN /\ f.reply[i].setup \in BOOLEAN
    /\ f.reply[i].encrypts \in BOOLEAN /\ ~ (f.reply[i].setup /\ f.reply[i].encrypts)
    /\ f.reply[i].signature \in {"none", "good", "bad"}

\* The responses of a frame lie one behind the other, within its body.
LEMMA Layout == \A f \in Frames : \A i \in 1 .. f.n : LaidOut(f, i)
<1> SUFFICES ASSUME NEW f \in Frames, NEW i \in 1 .. f.n PROVE LaidOut(f, i)
  OBVIOUS
<1>1. WellFormed(f)
  BY ReceiveConstants DEF ReceiveConstants
<1>2. f.n \in Nat \ {0} /\ f.start \in [1 .. f.n + 1 -> Nat] /\ f.start[1] = 0
  BY <1>1 DEF WellFormed
<1>3. 1 \in 1 .. f.n + 1 /\ i \in 1 .. f.n + 1 /\ i + 1 \in 1 .. f.n + 1 /\ f.n + 1 \in 1 .. f.n + 1
  BY <1>2
<1>4. \A j, k \in 1 .. f.n + 1 : j < k => f.start[j] < f.start[k]
  BY <1>1 DEF WellFormed
<1>5. f.start[i] \in Nat /\ f.start[i + 1] \in Nat /\ f.start[f.n + 1] \in Nat
  BY <1>2, <1>3
<1>6. i > 1 => f.start[i] > 0
  BY <1>2, <1>3, <1>4, <1>5
<1>7. f.start[i + 1] <= f.start[f.n + 1]
  <2>1. CASE i = f.n
    BY <2>1, <1>5
  <2>2. CASE i # f.n
    <3>1. i + 1 < f.n + 1
      BY <2>2, <1>2
    <3>2. f.start[i + 1] < f.start[f.n + 1]
      BY <3>1, <1>3, <1>4
    <3> QED
      BY <3>2, <1>5
  <2> QED
    BY <2>1, <2>2
<1>8. f # NoFrame
  <2>1. NoFrame.n = 0
    BY DEF NoFrame
  <2> QED
    BY <1>2, <2>1
<1> QED
  BY <1>1, <1>2, <1>5, <1>6, <1>7, <1>8 DEF WellFormed, Content, LaidOut

\* No two responses of a frame start at the same place.
LEMMA Distinct ==
    ASSUME NEW f \in Frames, NEW i \in 1 .. f.n, NEW j \in 1 .. f.n, f.start[i] = f.start[j]
    PROVE  i = j
<1>1. WellFormed(f)
  BY ReceiveConstants DEF ReceiveConstants
<1>2. f.n \in Nat /\ f.start \in [1 .. f.n + 1 -> Nat]
  BY <1>1 DEF WellFormed
<1>3. i \in 1 .. f.n + 1 /\ j \in 1 .. f.n + 1 /\ f.start[i] \in Nat /\ f.start[j] \in Nat
  BY <1>2
<1>4. (i < j => f.start[i] < f.start[j]) /\ (j < i => f.start[j] < f.start[i])
  BY <1>1, <1>3 DEF WellFormed
<1> QED
  BY <1>2, <1>3, <1>4

\* What is asked for is never more than what the frame holds.
LEMMA Within ==
    TypeOK /\ Counted /\ Targets /\ recv # "spl" =>
        /\ frame \in Frames /\ Content(frame) \in Nat /\ Wire(frame) \in Nat /\ Size(frame) \in Nat
        /\ total <= IF enc THEN Content(frame) ELSE Size(frame)
        /\ done <= IF enc THEN Content(frame) ELSE Size(frame)
<1> SUFFICES ASSUME TypeOK, Counted, Targets, recv # "spl"
             PROVE  /\ frame \in Frames /\ Content(frame) \in Nat /\ Wire(frame) \in Nat
                    /\ Size(frame) \in Nat
                    /\ total <= IF enc THEN Content(frame) ELSE Size(frame)
                    /\ done <= IF enc THEN Content(frame) ELSE Size(frame)
  OBVIOUS
<1>1. frame \in Frames /\ hdr \in 0 .. frame.n /\ done \in Nat /\ total \in Nat /\ done <= total
  BY DEF TypeOK, Counted
<1>2. frame.n \in Nat \ {0}
  BY <1>1, ReceiveConstants DEF ReceiveConstants, WellFormed
<1>3. 1 \in 1 .. frame.n /\ (hdr > 0 => hdr \in 1 .. frame.n) /\ (hdr < frame.n => hdr + 1 \in 1 .. frame.n)
  BY <1>1, <1>2
<1>4. Content(frame) \in Nat /\ frame.sealed \in BOOLEAN
  BY <1>1, <1>3, Layout DEF LaidOut
<1>5. SPL_SIZE \in Nat /\ Hdr \in Nat /\ Trfm \in Nat
  BY ReceiveConstants DEF ReceiveConstants
<1>6. Wire(frame) \in Nat /\ Content(frame) <= Wire(frame) /\ Size(frame) = SPL_SIZE + Wire(frame)
  BY <1>4, <1>5 DEF Wire, Size
<1>7. CASE recv = "header"
  <2>1. total = Base + frame.start[hdr + 1] + Hdr /\ hdr + 1 \in 1 .. frame.n
    BY <1>1, <1>2, <1>3, <1>7 DEF Targets, Counted
  <2>2. frame.start[hdr + 1] + Hdr <= Content(frame)
    BY <2>1, <1>1, <1>5, Layout DEF LaidOut
  <2>3. total <= Base + Content(frame)
    BY <2>1, <2>2, <1>1, <1>4, <1>5, Layout DEF LaidOut, Base
  <2> QED
    BY <2>3, <1>1, <1>4, <1>5, <1>6 DEF Base, Wire
<1>8. CASE recv = "trfm"
  BY <1>1, <1>4, <1>5, <1>6, <1>8 DEF Targets, Counted
<1>9. CASE InReply
  <2>1. hdr \in 1 .. frame.n /\ payload = Base + frame.start[hdr] + Hdr
    BY <1>1, <1>3, <1>9 DEF Counted
  <2>2. total <= Base + Content(frame)
    BY <2>1, <1>1, <1>4, <1>5, <1>9, Layout DEF LaidOut, Targets, InReply, Response, Base
  <2> QED
    BY <2>2, <1>1, <1>4, <1>5, <1>6 DEF Base
<1> QED
  BY <1>1, <1>4, <1>6, <1>7, <1>8, <1>9 DEF TypeOK, InReply

-----------------------------------------------------------------------------
(* The invariant *)

LEMMA Step == IInv /\ [Next]_vars => IInv'
<1> SUFFICES ASSUME IInv, [Next]_vars PROVE IInv'
  OBVIOUS
<1> USE DEF Due, Got, session, wire, input, history, InReply, Base, Response
<1>c. SPL_SIZE \in Nat \ {0} /\ Hdr \in Nat \ {0} /\ Trfm \in 1 .. Hdr /\ MaxFrames \in Nat
  BY ReceiveConstants
<1>i. TypeOK /\ Counted /\ Outside /\ Targets /\ Decoded /\ OneProtection /\ Signing
  BY DEF IInv
<1>h. frame # NoFrame =>
        /\ frame \in Frames /\ frame.n \in Nat \ {0} /\ LaidOut(frame, 1)
        /\ hdr \in Nat /\ hdr <= frame.n
        /\ hdr > 0 => LaidOut(frame, hdr)
        /\ hdr < frame.n => LaidOut(frame, hdr + 1)
  BY <1>i, Layout, ReceiveConstants DEF TypeOK, WellFormed
<1>w. recv # "spl" =>
        /\ Content(frame) \in Nat /\ Wire(frame) \in Nat /\ Size(frame) \in Nat
        /\ total <= IF enc THEN Content(frame) ELSE Size(frame)
        /\ done <= IF enc THEN Content(frame) ELSE Size(frame)
  BY <1>i, Within
<1>r. recv # "spl" /\ (enc \/ ~ frame.sealed) => Rest \in Nat /\ done + Rest = Base + Content(frame)
  BY <1>c, <1>i, <1>w DEF Rest, Size, Wire, Counted, TypeOK
<1>n. InReply => /\ frame # NoFrame /\ hdr > 0
                 /\ NextCommand # 0 <=> hdr < frame.n
                 /\ NextCommand # 0 => NextCommand = frame.start[hdr + 1] - frame.start[hdr]
  <2> SUFFICES ASSUME InReply
               PROVE  /\ frame # NoFrame /\ hdr > 0
                      /\ NextCommand # 0 <=> hdr < frame.n
                      /\ NextCommand # 0 =>
                           NextCommand = frame.start[hdr + 1] - frame.start[hdr]
    OBVIOUS
  <2>1. frame # NoFrame /\ hdr > 0
    BY <1>i DEF Counted
  <2>2. frame.start[hdr + 1] - frame.start[hdr] \in Nat \ {0}
    BY <2>1, <1>c, <1>h DEF LaidOut
  <2> QED
    BY <2>1, <2>2 DEF NextCommand
<1>p. InReply /\ done = payload + Response.fixed + Response.variable =>
        Padding \in Nat /\ done + Padding = Base + frame.start[hdr + 1]
  <2> SUFFICES ASSUME InReply, done = payload + Response.fixed + Response.variable
               PROVE  Padding \in Nat /\ done + Padding = Base + frame.start[hdr + 1]
    OBVIOUS
  <2>1. LaidOut(frame, hdr) /\ frame # NoFrame /\ payload = Base + frame.start[hdr] + Hdr
    BY <1>i, <1>h DEF Counted
  <2>2. CASE hdr < frame.n
    BY <2>1, <2>2, <1>c, <1>n DEF Padding, LaidOut
  <2>3. CASE hdr = frame.n
    <3>1. Content(frame) = frame.start[hdr + 1] /\ Padding = Rest
      BY <2>3, <1>n, <1>h DEF Padding, Content
    <3>2. recv # "spl" /\ (enc \/ ~ frame.sealed)
      BY <1>i DEF Counted
    <3> QED
      BY <3>1, <3>2, <1>r
  <2> QED
    BY <2>1, <2>2, <2>3, <1>h
<1>1. ASSUME NEW f \in Frames, ServerSends(f) PROVE IInv'
  <2>m. f.n \in Nat \ {0} /\ 1 \in 1 .. f.n
    BY ReceiveConstants DEF WellFormed
  <2>n. f.n \in Nat \ {0} /\ f # NoFrame /\ LaidOut(f, 1)
    BY <2>m, Layout DEF LaidOut
  <2>1. TypeOK'
    <3>1. frame' = f /\ hdr' = 0 /\ skipped' = 0 /\ heard' = {} /\ resumed' = FALSE /\ at' = 0
      BY <1>1 DEF ServerSends
    <3>2. frame' \in Frames \cup {NoFrame} /\ heard' \subseteq 1 .. frame'.n
      BY <3>1
    <3>3. hdr' \in 0 .. frame'.n /\ skipped' \in 0 .. frame'.n
      BY <3>1, <2>n
    <3>4. frames' \in 0 .. MaxFrames
      BY <1>1, <1>c, <1>i DEF ServerSends, TypeOK
    <3>5. UNCHANGED <<seal, sign, waiting, phase, recv, done, total, spl, payload, enc, encPos,
                      signFrom, reason>>
      BY <1>1 DEF ServerSends
    <3> QED
      BY <3>1, <3>3, <3>4, <3>5, <1>i DEF TypeOK
  <2>2. Counted' /\ Outside' /\ Targets'
    BY <1>1, <1>i DEF ServerSends, Between, Counted, Outside, Targets
  <2>3. Decoded'
    BY <1>1 DEF ServerSends, Decoded
  <2>4. OneProtection' /\ Signing'
    BY <1>1, <1>i DEF ServerSends, Between, OneProtection, Signing, RefusalsExplained
  <2> QED
    BY <2>1, <2>2, <2>3, <2>4 DEF IInv
<1>2. CASE ReadSome
  <2>1. TypeOK'
    BY <1>2, <1>i DEF ReadSome, TypeOK
  <2>2. Counted' /\ Outside' /\ Targets'
    BY <1>2, <1>i DEF ReadSome, InFrame, TypeOK, Counted, Outside, Targets
  <2>3. Decoded'
    BY <1>2, <1>i DEF ReadSome, Decoded
  <2>4. OneProtection' /\ Signing'
    BY <1>2, <1>i DEF ReadSome, OneProtection, Signing, RefusalsExplained
  <2> QED
    BY <2>1, <2>2, <2>3, <2>4 DEF IInv
<1>3. CASE WouldBlock
  <2>1. TypeOK'
    BY <1>3, <1>i DEF WouldBlock, TypeOK
  <2>2. Counted' /\ Outside' /\ Targets'
    BY <1>3, <1>i DEF WouldBlock, Counted, Outside, Targets
  <2>3. Decoded'
    BY <1>3, <1>i DEF WouldBlock, Decoded
  <2>4. OneProtection' /\ Signing'
    BY <1>3, <1>i DEF WouldBlock, OneProtection, Signing, RefusalsExplained
  <2> QED
    BY <2>1, <2>2, <2>3, <2>4 DEF IInv
<1>4. CASE Resume
  <2>1. TypeOK'
    BY <1>4, <1>c, <1>i DEF Resume, TypeOK
  <2>2. Counted' /\ Outside' /\ Targets'
    BY <1>4, <1>i DEF Resume, Counted, Outside, Targets
  <2>3. Decoded'
    BY <1>4, <1>i DEF Resume, Decoded
  <2>4. OneProtection' /\ Signing'
    BY <1>4, <1>c, <1>i, <1>h DEF Resume, Between, TypeOK, Counted, OneProtection, Signing,
       RefusalsExplained, LaidOut
  <2> QED
    BY <2>1, <2>2, <2>3, <2>4 DEF IInv
<1>5. CASE ReadBuf
  <2>1. TypeOK'
    BY <1>5, <1>i DEF ReadBuf, TypeOK, Counted, Targets
  <2>2. Counted' /\ Outside' /\ Targets'
    BY <1>5, <1>i DEF ReadBuf, Counted, Outside, Targets
  <2>3. Decoded'
    BY <1>5, <1>i DEF ReadBuf, Decoded
  <2>4. OneProtection' /\ Signing'
    BY <1>5, <1>i DEF ReadBuf, OneProtection, Signing, RefusalsExplained
  <2> QED
    BY <2>1, <2>2, <2>3, <2>4 DEF IInv
<1>6. CASE SplRead
  <2>1. TypeOK'
    BY <1>6, <1>c, <1>i, <1>h DEF SplRead, Wire, TypeOK, Outside, LaidOut
  <2>2. Counted' /\ Outside' /\ Targets'
    BY <1>6, <1>c, <1>i, <1>h DEF SplRead, Counted, Outside, Targets, LaidOut
  <2>3. Decoded'
    BY <1>6, <1>c, <1>i DEF SplRead, Outside, Decoded
  <2>4. OneProtection' /\ Signing'
    BY <1>6, <1>c, <1>i, <1>h DEF SplRead, Outside, OneProtection, Signing, RefusalsExplained,
       LaidOut
  <2> QED
    BY <2>1, <2>2, <2>3, <2>4 DEF IInv
<1>7. CASE Transform
  <2>1. TypeOK'
    BY <1>7, <1>c, <1>i, <1>h DEF Transform, Wire, TypeOK, Counted, LaidOut
  <2>2. Counted' /\ Outside' /\ Targets'
    BY <1>7, <1>c, <1>i, <1>h, <1>w DEF Transform, Size, Counted, Outside, Targets, LaidOut
  <2>3. Decoded'
    BY <1>7, <1>i DEF Transform, Decoded
  <2>4. OneProtection' /\ Signing'
    BY <1>7, <1>i DEF Transform, OneProtection, Signing, RefusalsExplained
  <2> QED
    BY <2>1, <2>2, <2>3, <2>4 DEF IInv
<1>8. CASE Decrypt
  <2>1. TypeOK'
    BY <1>8, <1>c, <1>i, <1>w DEF Decrypt, TypeOK
  <2>2. Counted' /\ Outside' /\ Targets'
    BY <1>8, <1>c, <1>i, <1>h DEF Decrypt, Counted, Outside, Targets, LaidOut
  <2>3. Decoded'
    BY <1>8, <1>i DEF Decrypt, Decoded
  <2>4. OneProtection' /\ Signing'
    BY <1>8, <1>i DEF Decrypt, Counted, OneProtection, Signing, RefusalsExplained
  <2> QED
    BY <2>1, <2>2, <2>3, <2>4 DEF IInv
<1>9. ASSUME NEW i \in 1 .. frame.n, Decode(i) PROVE IInv'
  <2>a. /\ recv = "header" /\ done = total /\ (enc \/ ~ frame.sealed)
        /\ frame.start[i] + Hdr = Pos /\ frame \in Frames /\ hdr < frame.n /\ frame # NoFrame
    BY <1>9, <1>i, <1>h DEF Decode, HeaderIn, Counted
  <2>b. Pos = frame.start[hdr + 1] + Hdr
    BY <2>a, <1>c, <1>i, <1>h DEF Pos, Counted, Targets, LaidOut
  <2>f. hdr + 1 \in 1 .. frame.n /\ LaidOut(frame, i) /\ LaidOut(frame, hdr + 1)
    BY <2>a, <1>h, Layout
  <2>d. LaidOut(frame, i) /\ frame.start[i] = frame.start[hdr + 1]
    BY <2>a, <2>b, <2>f, <1>c DEF LaidOut
  <2>e. i = hdr + 1 /\ payload' = Base + frame.start[i] + Hdr
    BY <2>a, <2>d, <1>9, <1>c, <1>i, Distinct DEF Decode, Pos, Counted, LaidOut, TypeOK
  <2>1. TypeOK'
    BY <1>9, <1>i, <1>r, <2>a, <2>d DEF Decode, Skipped, TypeOK, LaidOut
  <2>u. /\ hdr' = i /\ payload' = done
        /\ UNCHANGED <<session, wire, phase, done, spl, enc, encPos, signFrom, resumed, reason>>
    BY <1>9 DEF Decode
  <2>k. \/ /\ frame.reply[i].pending
           /\ recv' = "pad" /\ total' = total + Rest /\ skipped' = i /\ waiting' = waiting
        \/ /\ ~ frame.reply[i].pending /\ frame.reply[i].id \notin waiting
           /\ recv' = "unknown" /\ total' = total + Rest /\ skipped' = i /\ waiting' = waiting
        \/ /\ ~ frame.reply[i].pending /\ recv' = "fixed" /\ skipped' = skipped
           /\ total' = total + frame.reply[i].fixed /\ waiting' = waiting \ {frame.reply[i].id}
    BY <1>9 DEF Decode, Skipped
  <2>2. Counted' /\ Outside' /\ Targets'
    <3>1. Counted'
      BY <1>c, <1>i, <1>h, <1>r, <2>a, <2>d, <2>e, <2>u, <2>k DEF TypeOK, Counted, Targets, LaidOut
    <3>2. Outside'
      BY <2>k DEF Outside
    <3>3. Targets'
      BY <1>c, <1>i, <1>h, <1>r, <2>a, <2>e, <2>u, <2>k DEF Counted, Targets, LaidOut
    <3> QED
      BY <3>1, <3>2, <3>3
  <2>3. Decoded'
    <3>1. \A j \in 1 .. hdr' : frame.reply[j].pending \/ frame.reply[j].id \notin waiting'
      <4>1. \A j \in 1 .. hdr : frame.reply[j].pending \/ frame.reply[j].id \notin waiting
        BY <1>i DEF Decoded
      <4>2. \A j \in 1 .. hdr' : j \in 1 .. hdr \/ j = i
        BY <1>h, <2>a, <2>e, <2>u
      <4>3. waiting' \subseteq waiting
        BY <2>k
      <4> QED
        BY <2>k, <4>1, <4>2, <4>3
    <3>2. skipped = 0 /\ i # 0
      BY <1>i, <2>a DEF Decoded
    <3> QED
      BY <2>u, <2>k, <3>1, <3>2 DEF Decoded
  <2>4. OneProtection' /\ Signing'
    BY <1>9, <1>c, <1>i, <1>h, <2>e DEF Decode, HeaderIn, Skipped, Counted, OneProtection,
       Signing, RefusalsExplained, LaidOut
  <2> QED
    BY <2>1, <2>2, <2>3, <2>4 DEF IInv
<1>10. CASE FixedRead
  <2>1. TypeOK'
    BY <1>10, <1>i, <1>h, <1>n, <1>p DEF FixedRead, TypeOK, Targets, LaidOut
  <2>2. Counted' /\ Outside' /\ Targets'
    BY <1>10, <1>c, <1>i, <1>h, <1>p DEF FixedRead, Counted, Outside, Targets, LaidOut
  <2>3. Decoded'
    BY <1>10, <1>i DEF FixedRead, Targets, Decoded
  <2>4. OneProtection' /\ Signing'
    BY <1>10, <1>i DEF FixedRead, OneProtection, Signing, RefusalsExplained
  <2> QED
    BY <2>1, <2>2, <2>3, <2>4 DEF IInv
<1>11. CASE VariableRead
  <2>1. TypeOK'
    BY <1>11, <1>i, <1>p DEF VariableRead, TypeOK, Targets
  <2>2. Counted' /\ Outside' /\ Targets'
    BY <1>11, <1>i, <1>p DEF VariableRead, Counted, Outside, Targets
  <2>3. Decoded'
    BY <1>11, <1>i DEF VariableRead, Targets, Decoded
  <2>4. OneProtection' /\ Signing'
    BY <1>11, <1>i DEF VariableRead, OneProtection, Signing, RefusalsExplained
  <2> QED
    BY <2>1, <2>2, <2>3, <2>4 DEF IInv
<1>12. CASE UnknownRead
  <2>1. TypeOK'
    <3>1. total' \in Nat /\ done' \in Nat /\ done' <= total' /\ signFrom' \in Nat
      BY <1>12, <1>c DEF UnknownRead, Restart
    <3>2. recv' = "spl" /\ enc' = FALSE
      BY <1>12 DEF UnknownRead, Restart
    <3> QED
      BY <3>1, <1>12, <1>i DEF UnknownRead, Restart, TypeOK
  <2>2. Counted' /\ Outside' /\ Targets'
    BY <1>12, <1>i, <1>w DEF UnknownRead, Restart, Counted, Outside, Targets, Decoded, Size, Wire
  <2>3. Decoded'
    BY <1>12, <1>i DEF UnknownRead, Restart, Decoded
  <2>4. OneProtection' /\ Signing'
    BY <1>12, <1>i DEF UnknownRead, Restart, OneProtection, Signing, RefusalsExplained
  <2> QED
    BY <2>1, <2>2, <2>3, <2>4 DEF IInv
<1>13. CASE Finished
  <2>1. TypeOK'
    <3>1. hdr \in 1 .. frame.n
      BY <1>13, <1>h, <1>n DEF Finished
    <3>4. heard' \subseteq 1 .. frame'.n
      BY <3>1, <1>13, <1>i DEF Finished, TypeOK
    <3>5. UNCHANGED <<seal, sign, waiting, frame, at, frames, spl, hdr, payload, encPos, resumed, skipped>>
      BY <1>13 DEF Finished
    <3>2. total' \in Nat /\ done' \in Nat /\ done' <= total' /\ signFrom' \in Nat
      BY <1>13, <1>c, <1>i DEF Finished, Restart, GiveUp, Chain, TypeOK
    <3>3. /\ recv' \in {recv, "spl", "header"}
          /\ phase' \in {phase, "failed"} /\ reason' \in {reason, "policy", "signature"}
      BY <1>13 DEF Finished, Restart, GiveUp, Chain
    <3>6. enc' \in BOOLEAN
      BY <1>13, <1>i DEF Finished, Restart, GiveUp, Chain, TypeOK
    <3> QED
      BY <3>2, <3>3, <3>4, <3>5, <3>6, <1>i DEF TypeOK
  <2>2. Counted' /\ Outside' /\ Targets'
    BY <1>13, <1>c, <1>i, <1>h, <1>n DEF Finished, Restart, GiveUp, Chain, TypeOK, Counted,
       Outside, Targets, Decoded, LaidOut, Size, Wire, Content
  <2>3. Decoded'
    BY <1>13, <1>i DEF Finished, Restart, GiveUp, Chain, Decoded
  <2>4. OneProtection' /\ Signing'
    BY <1>13, <1>i, <1>h DEF Finished, Restart, GiveUp, Chain, WrongSignature, Unprotected,
       Counted, Targets, OneProtection, Signing, RefusalsExplained, LaidOut
  <2> QED
    BY <2>1, <2>2, <2>3, <2>4 DEF IInv
<1>14. CASE UNCHANGED vars
  BY <1>14 DEF vars, IInv, TypeOK, Counted, Outside, Targets, Decoded, OneProtection, Signing,
     RefusalsExplained
<1> QED
  BY <1>1, <1>2, <1>3, <1>4, <1>5, <1>6, <1>7, <1>8, <1>9, <1>10, <1>11, <1>12, <1>13,
     <1>14 DEF Next, Server, Reader, Done

-----------------------------------------------------------------------------
(* Theorems *)

LEMMA Start == Init => IInv
<1>1. SPL_SIZE \in Nat \ {0}
  BY ReceiveConstants DEF ReceiveConstants
<1>2. MaxFrames \in Nat /\ NoFrame.n = 0 /\ NoFrame.sealed = FALSE
  BY ReceiveConstants DEF ReceiveConstants, NoFrame
<1> SUFFICES ASSUME Init PROVE IInv
  OBVIOUS
<1>3. frame.n = 0 /\ frame.sealed = FALSE
  BY <1>2 DEF Init
<1>4. TypeOK
  <2>1. /\ seal \in BOOLEAN /\ sign \in BOOLEAN /\ waiting \subseteq Ids
        /\ frame \in Frames \cup {NoFrame} /\ resumed \in BOOLEAN /\ enc \in BOOLEAN
        /\ phase \in {"reading", "idle", "failed"}
        /\ recv \in {"spl", "header", "trfm", "fixed", "variable", "pad", "unknown"}
        /\ reason \in {"none", "policy", "signature", "closed"}
    BY DEF Init
  <2>2. /\ at \in Nat /\ frames \in 0 .. MaxFrames /\ done \in Nat /\ total \in Nat /\ done <= total
        /\ spl \in Nat /\ hdr \in 0 .. frame.n /\ payload \in Nat /\ encPos \in Nat
        /\ signFrom \in Nat /\ heard \subseteq 1 .. frame.n /\ skipped \in 0 .. frame.n
    BY <1>1, <1>2, <1>3 DEF Init
  <2> QED
    BY <2>1, <2>2 DEF TypeOK
<1>5. Counted /\ Outside /\ Targets /\ Decoded
  BY <1>1 DEF Init, Counted, Outside, Targets, Decoded, InReply
<1>6. OneProtection /\ Signing
  BY <1>3 DEF Init, OneProtection, Signing, RefusalsExplained, InReply
<1> QED
  BY <1>4, <1>5, <1>6 DEF IInv

\* For all sizes, all well-formed frames and however the bytes arrive, the reader's
\* count, position and state fit the frame it reads.
THEOREM ReaderInvariant == Spec => []IInv
BY Start, Step, PTL DEF Spec

\* Every variable stays in its type: no length that is computed is negative.
THEOREM TypeCorrect == Spec => []TypeOK
BY ReaderInvariant, PTL DEF IInv

\* Headers are looked for where responses start, and nothing past a frame is asked for.
THEOREM FramesAligned == Spec => []Aligned
<1>1. IInv => Aligned
  <2> SUFFICES ASSUME IInv PROVE Aligned
    OBVIOUS
  <2>1. HeaderIn => \E i \in 1 .. frame.n : Pos = frame.start[i] + Hdr
    <3> SUFFICES ASSUME HeaderIn PROVE \E i \in 1 .. frame.n : Pos = frame.start[i] + Hdr
      OBVIOUS
    <3>1. hdr + 1 \in 1 .. frame.n
      BY ReceiveConstants DEF IInv, TypeOK, Counted, HeaderIn, Got, ReceiveConstants, WellFormed
    <3>2. frame.start[hdr + 1] \in Nat /\ SPL_SIZE \in Nat /\ Hdr \in Nat
      BY <3>1, Layout, ReceiveConstants
      DEF IInv, TypeOK, Counted, HeaderIn, Got, ReceiveConstants, LaidOut
    <3>3. Pos = frame.start[hdr + 1] + Hdr
      BY <3>2 DEF IInv, Counted, Targets, HeaderIn, Got, Pos, Base, TypeOK
    <3> QED
      BY <3>1, <3>3
  <2>2. recv # "spl" => total - done <= IF enc THEN spl - encPos ELSE Size(frame) - at
    BY Within DEF IInv, Counted, TypeOK
  <2>3. recv = "spl" /\ done = 0 =>
          at \in {0} \cup (IF frame = NoFrame THEN {} ELSE {Size(frame)})
    BY DEF IInv, Outside
  <2> QED
    BY <2>1, <2>2, <2>3 DEF Aligned
<1> QED
  BY <1>1, ReaderInvariant, PTL

\* A response is handed over when exactly its bytes were read.
THEOREM RepliesWhole == Spec => []ReplyWhole
<1>1. IInv => ReplyWhole
  <2> SUFFICES ASSUME IInv, Got, recv = "pad", ~ Response.pending
               PROVE  Pos = frame.start[hdr + 1]
    BY DEF ReplyWhole
  <2>1. done = Base + frame.start[hdr + 1] /\ done = IF enc THEN encPos ELSE at
    BY DEF IInv, Targets, Counted, Got
  <2>2. hdr \in 1 .. frame.n /\ frame \in Frames
    BY DEF IInv, TypeOK, Counted, InReply
  <2>3. frame.start[hdr + 1] \in Nat /\ SPL_SIZE \in Nat
    BY <2>2, Layout, ReceiveConstants DEF LaidOut, ReceiveConstants
  <2> QED
    BY <2>1, <2>3 DEF Pos, Base
<1> QED
  BY <1>1, ReaderInvariant, PTL

\* No response of a frame is passed over, unless it lies behind one that is skipped.
THEOREM NoneSkipped == Spec => []NothingSkipped
<1>1. IInv => NothingSkipped
  <2> SUFFICES ASSUME IInv, frame # NoFrame, Between, ~ InFrame, NEW i \in 1 .. frame.n,
                      ~ frame.reply[i].pending, frame.reply[i].id \in waiting
               PROVE  0 < skipped /\ skipped < i
    BY DEF NothingSkipped
  <2>1. i \notin 1 .. hdr /\ hdr \in 0 .. frame.n /\ frame \in Frames
    BY DEF IInv, Decoded, TypeOK
  <2>2. frame.n \in Nat /\ Size(frame) \in Nat \ {0}
    BY <2>1, Layout, ReceiveConstants DEF Size, Wire, LaidOut, ReceiveConstants
  <2>3. hdr > 0 /\ skipped = hdr
    BY <2>1, <2>2 DEF IInv, Outside, TypeOK, Between, InFrame
  <2> QED
    BY <2>1, <2>2, <2>3
<1> QED
  BY <1>1, ReaderInvariant, PTL

\* The receive policy is enforced on every response that reaches a callback.
THEOREM PolicyEnforced == Spec => Protected
<1>1. IInv /\ [Next]_vars =>
        [\A i \in heard' \ heard :
           \/ frame.reply[i].setup
           \/ /\ seal => frame.sealed
              /\ sign /\ ~ frame.sealed => frame.reply[i].signature = "good"]_vars
  <2> SUFFICES ASSUME IInv, [Next]_vars, NEW i \in heard' \ heard, ~ frame.reply[i].setup
               PROVE  /\ seal => frame.sealed
                      /\ sign /\ ~ frame.sealed => frame.reply[i].signature = "good"
    OBVIOUS
  <2>1. Finished
    BY DEF Next, Server, Reader, Done, vars, history, ServerSends, ReadSome, WouldBlock, Resume, ReadBuf,
       SplRead, Transform, Decrypt, Decode, FixedRead, VariableRead, UnknownRead
  <2>2. i = hdr /\ ~ Unprotected(Response) /\ ~ WrongSignature(Response) /\ ~ Response.pending
    BY <2>1 DEF Finished
  <2>3. hdr \in 1 .. frame.n /\ frame \in Frames /\ (enc => frame.sealed)
    BY <2>1 DEF Finished, IInv, TypeOK, Counted, InReply
  <2>4. Response.signature \in {"none", "good", "bad"}
    BY <2>3, Layout DEF LaidOut, Response
  <2> QED
    BY <2>2, <2>3, <2>4 DEF Unprotected, WrongSignature, Response
<1> QED
  BY <1>1, ReaderInvariant, PTL DEF Spec, Protected

\* A good signature is refused only behind another response and after a pause.
THEOREM RefusalsAreExplained == Spec => []RefusalsExplained
BY ReaderInvariant, PTL DEF IInv, Signing

(***************************************************************************)
(* The charge of a message.                                                *)
(***************************************************************************)
\* What the state says of the message on its way.
OnItsWay ==
    /\ stage \in {"sent", "fixed"} =>
           /\ \E k \in DOMAIN Messages : \E given \in Messages[k] : message = Asks(given)
           /\ body = Encoded(message) /\ body # Refused
    /\ stage = "sent"  => header = EncodeHeader(AllocatePdu(message))

\* What the state says of a message stays true from its encoder to its decoder.
THEOREM MessageWay == MessageSpec => []OnItsWay
<1>1. MessageInit => OnItsWay
  BY DEF MessageInit, OnItsWay
<1>2. OnItsWay /\ [MessageNext]_messageVars => OnItsWay'
  <2> SUFFICES ASSUME OnItsWay, [MessageNext]_messageVars PROVE OnItsWay'
    OBVIOUS
  <2> USE DEF OnItsWay
  <2>1. CASE Send
    <3>1. PICK k \in DOMAIN Messages : \E given \in Messages[k] : message' = Asks(given)
      BY <2>1 DEF Send
    <3>2. stage' # "fixed" /\ (stage' = "sent" => body' # Refused)
      BY <2>1 DEF Send
    <3>3. body' = Encoded(message)' /\ header' = EncodeHeader(AllocatePdu(message))'
      BY <2>1 DEF Send
    <3> QED
      BY <3>1, <3>2, <3>3
  <2>2. CASE ReadFixed
    BY <2>2 DEF ReadFixed
  <2>3. CASE ReadVariable
    BY <2>3 DEF ReadVariable
  <2>4. CASE ReadName
    BY <2>4 DEF ReadName
  <2>5. CASE Call
    BY <2>5 DEF Call
  <2>6. CASE Hear
    BY <2>6 DEF Hear
  <2>7. CASE FreePdu
    BY <2>7 DEF FreePdu
  <2>8. CASE UNCHANGED messageVars
    BY <2>8 DEF messageVars
  <2> QED
    BY <2>1, <2>2, <2>3, <2>4, <2>5, <2>6, <2>7, <2>8 DEF MessageNext
<1> QED
  BY <1>1, <1>2, PTL DEF MessageSpec

\* One credit for each 64 KiB, as far as 16 bits count (lib/pdu.c and the commands).
LEMMA Charged ==
    ASSUME NEW n \in Nat, Chargeable(n)
    PROVE  /\ Charge(n) \in Nat /\ n <= Charge(n) * 65536
           /\ Charge(n) > 1 => (Charge(n) - 1) * 65536 < n
<1>1. CASE n = 0
  BY <1>1 DEF Charge
<1>2. CASE n > 0
  BY <1>2 DEF Charge, Chargeable
<1> QED
  BY <1>1, <1>2

\* smb2_pread_async asks for what it can.
LEMMA Clamped ==
    ASSUME NEW count \in Nat, NEW c, c.credits \in Nat, c.max \in Nat \ {0}, c.dialect \in Nat
    PROVE  LET n == Clamp(count, c)
           IN  /\ n \in Nat /\ Chargeable(n)
               /\ c.dialect > 202 => Charge(n) <= c.credits
               /\ n <= IF count = 0 /\ c.dialect > 202 THEN 65536 * c.credits ELSE count
               /\ n = 0 => count = 0 \/ (c.credits = 0 /\ c.dialect > 202)
<1> DEFINE Needed(n) == IF n = 0 THEN 65536 ELSE (n - 1) \div 65536 + 1
           some == IF count > c.max THEN c.max ELSE count
           most == IF Needed(some) > MAX_CREDITS - 16 THEN (MAX_CREDITS - 16) * 65536 ELSE some
           n    == Clamp(count, c)
<1>1. some \in Nat /\ some <= count /\ (some = 0 => count = 0)
  OBVIOUS
<1> HIDE DEF some
<1>2. most \in Nat \ {0} /\ most <= 1008 * 65536 /\ (count > 0 => most <= some)
  <2>1. CASE some = 0
    BY <1>1, <2>1 DEF MAX_CREDITS
  <2>2. CASE some > 0 /\ (some - 1) \div 65536 + 1 > 1008
    BY <1>1, <2>2 DEF MAX_CREDITS
  <2>3. CASE some > 0 /\ ~ ((some - 1) \div 65536 + 1 > 1008)
    BY <1>1, <2>3 DEF MAX_CREDITS
  <2> QED
    BY <1>1, <2>1, <2>2, <2>3
<1> HIDE DEF most
<1>3. n = IF c.dialect > 202 THEN IF Needed(most) > c.credits THEN c.credits * 65536 ELSE most
          ELSE IF some > 65536 THEN 65536 ELSE some
  BY DEF Clamp, some, most
<1>4. Needed(most) = (most - 1) \div 65536 + 1 /\ most \in Nat \ {0} /\ c.credits * 65536 \in Nat
  BY <1>2
<1> SUFFICES /\ n \in Nat /\ Chargeable(n)
             /\ c.dialect > 202 => Charge(n) <= c.credits
             /\ n <= IF count = 0 /\ c.dialect > 202 THEN 65536 * c.credits ELSE count
             /\ n = 0 => count = 0 \/ (c.credits = 0 /\ c.dialect > 202)
  OBVIOUS
<1> HIDE DEF n, Needed
<1>5. CASE c.dialect > 202 /\ Needed(most) > c.credits
  <2>1. n = c.credits * 65536 /\ c.credits < 1008 /\ n < most
    BY <1>2, <1>3, <1>4, <1>5
  <2>2. Charge(n) = c.credits
    <3>1. CASE c.credits = 0
      BY <2>1, <3>1 DEF Charge
    <3>2. CASE c.credits > 0
      BY <2>1, <3>2 DEF Charge
    <3> QED
      BY <3>1, <3>2
  <2>3. Chargeable(n) /\ n \in Nat
    BY <2>1 DEF Chargeable
  <2>4. n <= IF count = 0 /\ c.dialect > 202 THEN 65536 * c.credits ELSE count
    <3>1. count > 0 => n <= count
      <4>1. most \in Int /\ some \in Int /\ n \in Int
        BY <1>1, <1>2, <2>3
      <4> QED
        BY <1>1, <1>2, <2>1, <4>1, SMT
    <3>2. n <= 65536 * c.credits
      BY <2>1, SMT
    <3> QED
      BY <1>5, <3>1, <3>2, SMT
  <2>5. n = 0 => c.credits = 0
    BY <2>1
  <2> QED
    BY <1>5, <2>2, <2>3, <2>4, <2>5
<1>6. CASE c.dialect > 202 /\ ~ (Needed(most) > c.credits)
  <2>1. n = most /\ (n - 1) \div 65536 + 1 <= c.credits
    BY <1>2, <1>3, <1>4, <1>6
  <2>2. n \in Nat \ {0} /\ n <= 1008 * 65536 /\ (n - 1) \div 65536 + 1 <= 1008
    BY <1>2, <2>1
  <2>3. Charge(n) <= c.credits /\ Chargeable(n) /\ n <= 65536 * c.credits
    BY <2>1, <2>2 DEF Charge, Chargeable
  <2>4. n <= IF count = 0 /\ c.dialect > 202 THEN 65536 * c.credits ELSE count
    <3>1. count > 0 => n <= count
      <4>1. most \in Int /\ some \in Int
        BY <1>1, <1>2
      <4> QED
        BY <1>1, <1>2, <2>1, <4>1, SMT
    <3> QED
      BY <1>6, <2>3, <3>1, SMT
  <2> QED
    BY <2>2, <2>3, <2>4
<1>7. CASE ~ (c.dialect > 202)
  BY <1>3, <1>7, <1>1 DEF Chargeable
<1> QED
  BY <1>5, <1>6, <1>7

\* Only the length of a read or write is set by what can be paid for.
LEMMA AskedOf ==
    ASSUME NEW given, CountsFit(given), "count" \in DOMAIN given
    PROVE  LET m == Asks(given)
           IN  /\ m.rec.length = Clamp(given.count, given.ctx)
               /\ m.ctx = given.ctx /\ m.cmd = given.cmd /\ m.kind = given.kind
               /\ m.count = given.count /\ DOMAIN m = DOMAIN given
<1>1. /\ Asks(given) = [given EXCEPT !.rec = [given.rec EXCEPT !.length = Clamp(given.count, given.ctx)]]
      /\ "rec" \in DOMAIN given /\ "length" \in DOMAIN given.rec
  BY DEF Asks, CountsFit
<1> QED
  BY <1>1

\* A request is charged one credit for each 64 KiB of its payload or of the room for the reply
\* (smb2-cmd-read.c:176, write.c:156, query-directory.c:191).
THEOREM MessagesCharged == MessageSpec => []ChargeCovers
<1>1. OnItsWay => ChargeCovers
  <2> SUFFICES ASSUME OnItsWay, stage = "sent", message.kind = "request", message.ctx.multi
               PROVE  LET paid == AllocatePdu(message).credit_charge
                      IN  /\ Payload(message) <= paid * 65536
                          /\ paid > 1 => (paid - 1) * 65536 < Payload(message)
    BY DEF ChargeCovers
  <2>1. PICK k \in DOMAIN Messages : \E given \in Messages[k] : message = Asks(given)
    BY DEF OnItsWay
  <2>2. PICK given \in Messages[k] : message = Asks(given)
    BY <2>1
  <2>3. /\ message.cmd \in {"read", "write"} => Chargeable(message.rec.length)
        /\ message.cmd = "query_directory" => Chargeable(message.rec.output_buffer_length)
        /\ message.cmd = "query_info" => message.rec.output_buffer_length \in Nat /\ message.rec.output_buffer_length < 65536
        /\ message.ctx.dialect \in Nat /\ message.ctx.dialect > 202
    <3>1. CASE "count" \in DOMAIN given
      <4>1. CountsFit(given) /\ (given.kind = "request" => RequestsFit(given))
        BY <3>1, MessagesAreOfSizes
      <4>2. Chargeable(Clamp(given.count, given.ctx))
        BY <4>1, Clamped DEF CountsFit, RequestsFit
      <4> QED
        <5>1. message.rec.length = Clamp(given.count, given.ctx) /\ message.ctx = given.ctx
              /\ message.cmd = given.cmd /\ message.kind = given.kind
          BY <2>2, <3>1, <4>1, AskedOf
        <5>2. given.ctx.dialect \in Nat /\ given.ctx.dialect > 202
          <6>1. given.kind = "request" /\ given.ctx.multi
            BY <5>1
          <6>2. RequestsFit(given)
            BY <4>1, <6>1
          <6> QED
            BY <6>1, <6>2 DEF RequestsFit
        <5>3. message.cmd \in {"read", "write"}
          BY <4>1, <5>1 DEF CountsFit
        <5> QED
          BY <4>2, <5>1, <5>2, <5>3
    <3>2. CASE "count" \notin DOMAIN given
      <4>1. message = given
        BY <2>2, <3>2 DEF Asks
      <4>2. RequestsFit(message)
        BY <2>2, <4>1, MessagesAreOfSizes
      <4>3. message.ctx.dialect \in Nat /\ message.ctx.dialect > 202
        BY <4>2 DEF RequestsFit
      <4> QED
        BY <4>2, <4>3 DEF RequestsFit
    <3> QED
      BY <3>1, <3>2
  <2>4. AllocatePdu(message).credit_charge = CreditCharge(message)
    BY DEF AllocatePdu
  <2>5. CASE message.cmd \in {"read", "write"}
    <3>1. Payload(message) = message.rec.length
      BY <2>5 DEF Payload, Cut
    <3>2. CreditCharge(message) = Charge(message.rec.length)
      BY <2>5 DEF CreditCharge
    <3>3. message.rec.length \in Nat /\ Chargeable(message.rec.length)
      BY <2>3, <2>5 DEF Chargeable
    <3> QED
      BY <2>4, <3>1, <3>2, <3>3, Charged
  <2>6. CASE message.cmd = "query_directory"
    <3>1. Payload(message) = message.rec.output_buffer_length
      BY <2>6 DEF Payload
    <3>2. CreditCharge(message) = Charge(message.rec.output_buffer_length)
      BY <2>6 DEF CreditCharge
    <3>3. message.rec.output_buffer_length \in Nat /\ Chargeable(message.rec.output_buffer_length)
      BY <2>3, <2>6 DEF Chargeable
    <3> QED
      BY <2>4, <3>1, <3>2, <3>3, Charged
  <2>7. CASE message.cmd = "query_info"
    <3>1. Payload(message) = message.rec.output_buffer_length
      BY <2>7 DEF Payload
    <3>2. CreditCharge(message) = 1
      BY <2>3, <2>7 DEF CreditCharge
    <3> QED
      BY <2>3, <2>4, <2>7, <3>1, <3>2
  <2>8. CASE message.cmd \notin {"read", "write", "query_directory", "query_info"}
    <3>1. Payload(message) = 0
      BY <2>8 DEF Payload
    <3>2. CreditCharge(message) \in {0, 1}
      BY <2>8 DEF CreditCharge
    <3> QED
      BY <2>4, <3>1, <3>2
  <2> QED
    BY <2>5, <2>6, <2>7, <2>8
<1> QED
  BY <1>1, MessageWay, PTL

\* What smb2_pread_async and smb2_pwrite_async ask for, whatever the count, the largest transfer
\* and the credits, none among them, can be paid for with the credits there are, but by who has
\* none and is charged for each request the same; it is no more than the caller's count, but for a
\* count of 0; and it is nothing only of nothing or for want of credits (libsmb2.c:1543 and 1662).
THEOREM TransfersAffordable == MessageSpec => []Affordable
<1>1. OnItsWay => Affordable
  <2> DEFINE c == message.ctx
  <2> SUFFICES ASSUME OnItsWay, stage = "sent", "count" \in DOMAIN message
               PROVE  /\ \/ AllocatePdu(message).credit_charge <= c.credits
                         \/ c.credits = 0 /\ ~ c.multi
                      /\ Payload(message) <= IF Wraps(message) THEN 65536 * c.credits ELSE message.count
                      /\ Payload(message) = 0 =>
                             message.count = 0 \/ (c.credits = 0 /\ c.dialect > 202)
    BY DEF Affordable
  <2>1. PICK k \in DOMAIN Messages : \E given \in Messages[k] : message = Asks(given)
    BY DEF OnItsWay
  <2>2. PICK given \in Messages[k] : message = Asks(given)
    BY <2>1
  <2>3. "count" \in DOMAIN given
    BY <2>2 DEF Asks
  <2>4. CountsFit(given) /\ RequestsFit(given)
    BY <2>3, MessagesAreOfSizes DEF CountsFit
  <2> DEFINE n == Clamp(given.count, given.ctx)
  <2>5. message.rec.length = n /\ message.ctx = given.ctx /\ message.cmd = given.cmd
        /\ message.kind = given.kind /\ message.count = given.count
    BY <2>2, <2>3, <2>4, AskedOf
  <2>6. /\ n \in Nat /\ (c.dialect > 202 => Charge(n) <= c.credits)
        /\ n <= IF message.count = 0 /\ c.dialect > 202 THEN 65536 * c.credits ELSE message.count
        /\ n = 0 => message.count = 0 \/ (c.credits = 0 /\ c.dialect > 202)
    BY <2>4, <2>5, Clamped DEF CountsFit, RequestsFit
  <2>7. /\ message.count \in Nat /\ c.credits \in Nat /\ c.dialect \in Nat
        /\ message.cmd \in {"read", "write"} /\ (c.multi => c.dialect > 202)
    BY <2>4, <2>5 DEF CountsFit, RequestsFit
  <2>8. Payload(message) \in {n, 65536} /\ (Payload(message) = n \/ n > 65536)
    BY <2>5, <2>7 DEF Payload, Cut
  <2>9. CreditCharge(message) \in {0, 1} \/ (c.multi /\ CreditCharge(message) = Charge(n))
    BY <2>5, <2>7 DEF CreditCharge
  <2>10. AllocatePdu(message).credit_charge = CreditCharge(message)
    BY DEF AllocatePdu
  <2>11. c.multi /\ message.kind = "request" => CreditCharge(message) = Charge(n)
    BY <2>5, <2>7 DEF CreditCharge
  <2>12. message.kind = "request"
    BY <2>4, <2>5 DEF CountsFit
  <2> HIDE DEF n, c
  <2>13. AllocatePdu(message).credit_charge <= c.credits \/ (c.credits = 0 /\ ~ c.multi)
    BY <2>6, <2>7, <2>9, <2>10, <2>11, <2>12
  <2>14. Payload(message) <= IF Wraps(message) THEN 65536 * c.credits ELSE message.count
    BY <2>6, <2>7, <2>8 DEF Wraps, c
  <2>15. Payload(message) = 0 => message.count = 0 \/ (c.credits = 0 /\ c.dialect > 202)
    BY <2>6, <2>8
  <2> QED
    BY <2>13, <2>14, <2>15
<1> QED
  BY <1>1, MessageWay, PTL

(***************************************************************************)
(* Names: induction on the natural numbers, from the finite sets.          *)
(***************************************************************************)
LEMMA LeastNatural ==
    ASSUME NEW T \in SUBSET Nat, T # {}
    PROVE  \E n \in T : \A m \in T : n <= m
<1> DEFINE R  == StrictSubsetOrdering(Nat)
           TT == {1 .. n : n \in T}
<1>1. IsWellFoundedOn(R, FiniteSubsetsOf(Nat))
  BY FS_StrictSubsetOrderingWellFounded
<1>2. TT # {}
  OBVIOUS
<1>3. \A n \in Nat : 1 .. n \in FiniteSubsetsOf(Nat)
  BY FS_Interval DEF FiniteSubsetsOf
<1>4. TT \subseteq FiniteSubsetsOf(Nat)
  BY <1>3
<1> HIDE DEF R, TT
<1>5. PICK x \in TT : \A y \in TT : ~ (<<y, x>> \in R)
  BY <1>1, <1>2, <1>4, WFMin
<1>6. PICK n \in T : x = 1 .. n
  BY <1>5 DEF TT
<1>7. ASSUME NEW m \in T, m < n PROVE FALSE
  <2>1. <<1 .. m, 1 .. n>> \in (SUBSET Nat) \X (SUBSET Nat)
    OBVIOUS
  <2>2. 1 .. m \subseteq 1 .. n /\ n \in 1 .. n /\ n \notin 1 .. m
    BY <1>7
  <2>3. <<1 .. m, 1 .. n>> \in R
    BY <2>1, <2>2 DEF R, StrictSubsetOrdering
  <2>4. 1 .. m \in TT
    BY DEF TT
  <2> QED
    BY <1>5, <1>6, <2>3, <2>4
<1> QED
  BY <1>6, <1>7

LEMMA Induction ==
    ASSUME NEW n \in Nat, NEW Q, 0 \in Q, \A i \in 1 .. n : i - 1 \in Q => i \in Q
    PROVE  0 .. n \subseteq Q
<1> DEFINE T == (0 .. n) \ Q
<1> SUFFICES ASSUME T # {} PROVE FALSE
  OBVIOUS
<1>1. T \in SUBSET Nat
  OBVIOUS
<1> HIDE DEF T
<1>2. PICK m \in T : \A k \in T : m <= k
  BY <1>1, LeastNatural
<1>3. m \in 1 .. n /\ m - 1 \notin T
  BY <1>2 DEF T
<1>4. m - 1 \in Q
  BY <1>3 DEF T
<1> QED
  BY <1>3, <1>4 DEF T

LEMMA DownInduction ==
    ASSUME NEW n \in Nat, NEW Q,
           \A i \in 1 .. n : (\A j \in 1 .. n : j > i => j \in Q) => i \in Q
    PROVE  1 .. n \subseteq Q
<1> DEFINE T == {k \in 0 .. n : \A i \in 1 .. n : i > n - k => i \in Q}
<1>1. 0 \in T
  OBVIOUS
<1>2. ASSUME NEW k \in 1 .. n, k - 1 \in T PROVE k \in T
  <2>1. \A j \in 1 .. n : j > n - k + 1 => j \in Q
    BY <1>2
  <2>2. n - k + 1 \in Q
    BY <2>1
  <2>3. \A j \in 1 .. n : j > n - k => j > n - k + 1 \/ j = n - k + 1
    OBVIOUS
  <2> QED
    BY <2>1, <2>2, <2>3
<1>3. 0 .. n \subseteq T
  <2> HIDE DEF T
  <2> QED
    BY <1>1, <1>2, Induction
<1>4. n \in T
  <2> HIDE DEF T
  <2> QED
    BY <1>3
<1> QED
  BY <1>4

-----------------------------------------------------------------------------
(* Recursion from the end of a sequence: what a recursive function of the  *)
(* places of a sequence is, when its value at a place is made of the place *)
(* and its value at a place behind it.                                     *)

Steps(n, X, base, next, C) ==
    /\ base \in X
    /\ next \in [1 .. n -> 1 .. n + 1] /\ \A i \in 1 .. n : next[i] > i
    /\ C \in [(1 .. n) \X X -> X]
Chained(n, X, base, next, C, g) ==
    /\ g \in [1 .. n + 1 -> X]
    /\ g[n + 1] = base
    /\ \A i \in 1 .. n : g[i] = C[<<i, g[next[i]]>>]

LEMMA ChainExists ==
    ASSUME NEW n \in Nat, NEW X, NEW base, NEW next, NEW C, Steps(n, X, base, next, C)
    PROVE  \E g : Chained(n, X, base, next, C, g)
<1> USE DEF Steps
<1> DEFINE Works(g, k) == /\ g[n + 1] = base
                          /\ \A i \in 1 .. n : i > n - k => g[i] = C[<<i, g[next[i]]>>]
           Q == {k \in 0 .. n : \E g \in [1 .. n + 1 -> X] : Works(g, k)}
<1>1. 0 \in Q
  <2>1. [i \in 1 .. n + 1 |-> base] \in [1 .. n + 1 -> X] /\ Works([i \in 1 .. n + 1 |-> base], 0)
    OBVIOUS
  <2> QED
    BY <2>1
<1>2. ASSUME NEW k \in 1 .. n, k - 1 \in Q PROVE k \in Q
  <2>1. PICK g \in [1 .. n + 1 -> X] : Works(g, k - 1)
    BY <1>2
  <2> DEFINE j == n - k + 1
             h == [g EXCEPT ![j] = C[<<j, g[next[j]]>>]]
  <2>2. j \in 1 .. n
    OBVIOUS
  <2>3. h \in [1 .. n + 1 -> X]
    <3>1. <<j, g[next[j]]>> \in (1 .. n) \X X
      BY <2>2
    <3> HIDE DEF j
    <3> QED
      BY <2>2, <3>1
  <2>4. \A i \in 1 .. n + 1 : i # j => h[i] = g[i]
    BY <2>2
  <2>5. h[j] = C[<<j, g[next[j]]>>]
    BY <2>2
  <2>6. \A i \in 1 .. n : i > n - k => i = j \/ i > n - (k - 1)
    OBVIOUS
  <2> HIDE DEF h
  <2>7. \A i \in 1 .. n : i >= j => h[next[i]] = g[next[i]]
    BY <2>2, <2>4
  <2>8. h[n + 1] = base
    BY <2>1, <2>2, <2>4
  <2>9. ASSUME NEW i \in 1 .. n, i > n - k PROVE h[i] = C[<<i, h[next[i]]>>]
    <3>1. i >= j
      BY <2>9
    <3>2. CASE i = j
      BY <2>5, <2>7, <3>1, <3>2
    <3>3. CASE i # j
      <4>1. i > n - (k - 1)
        BY <2>6, <2>9, <3>3
      <4>2. g[i] = C[<<i, g[next[i]]>>]
        BY <2>1, <4>1
      <4>3. h[i] = g[i]
        BY <2>4, <3>3
      <4> QED
        BY <2>7, <3>1, <4>2, <4>3
    <3> QED
      BY <3>2, <3>3
  <2> QED
    BY <2>3, <2>8, <2>9
<1>3. 0 .. n \subseteq Q
  <2> HIDE DEF Q
  <2> QED
    BY <1>1, <1>2, Induction
<1>4. n \in Q
  <2> HIDE DEF Q
  <2> QED
    BY <1>3
<1> QED
  BY <1>4 DEF Chained

Follows(n, X, base, next, C, f) ==
    /\ f = [i \in 1 .. n + 1 |-> f[i]]
    /\ f[n + 1] = base
    /\ \A i \in 1 .. n : f[next[i]] \in X => f[i] = C[<<i, f[next[i]]>>]
LEMMA OneChain ==
    ASSUME NEW n \in Nat, NEW X, NEW base, NEW next, NEW C, Steps(n, X, base, next, C),
           NEW g, Chained(n, X, base, next, C, g),
           NEW f, Follows(n, X, base, next, C, f)
    PROVE  f = g
<1> USE DEF Steps, Chained, Follows
<1> DEFINE Q == {i \in 1 .. n : f[i] = g[i]}
<1>1. ASSUME NEW i \in 1 .. n, \A j \in 1 .. n : j > i => j \in Q PROVE i \in Q
  <2>1. next[i] \in 1 .. n \/ next[i] = n + 1
    OBVIOUS
  <2>2. f[next[i]] = g[next[i]]
    BY <1>1, <2>1
  <2>3. g[next[i]] \in X
    OBVIOUS
  <2> QED
    BY <2>2, <2>3
<1>2. 1 .. n \subseteq Q
  <2> HIDE DEF Q
  <2> QED
    BY <1>1, DownInduction
<1>3. \A i \in 1 .. n + 1 : f[i] = g[i]
  <2>1. \A i \in 1 .. n : f[i] = g[i]
    BY <1>2
  <2>2. \A i \in 1 .. n + 1 : i \in 1 .. n \/ i = n + 1
    OBVIOUS
  <2> HIDE DEF Q
  <2> QED
    BY <2>1, <2>2
<1> QED
  BY <1>3

LEMMA UnitKinds ==
    ASSUME NEW x
    PROVE  /\ x \in CodeUnits  <=> x \in Nat /\ x < 65536
           /\ x \in LeadUnits  <=> x \in Nat /\ 55296 <= x /\ x <= 56319
           /\ x \in TrailUnits <=> x \in Nat /\ 56320 <= x /\ x <= 57343
<1>1. x \in CodeUnits  <=> x \in Nat /\ x < 65536
  BY DEF CodeUnits
<1>2. x \in LeadUnits  <=> x \in Nat /\ 55296 <= x /\ x <= 56319
  BY SMTT(30) DEF LeadUnits
<1>3. x \in TrailUnits <=> x \in Nat /\ 56320 <= x /\ x <= 57343
  BY SMTT(30) DEF TrailUnits
<1> QED
  BY <1>1, <1>2, <1>3

LEMMA UnitsOfName ==
    ASSUME NEW u \in Seq(CodeUnits), NEW i \in 1 .. Len(u)
    PROVE  /\ u[i] \in Nat /\ u[i] < 65536
           /\ PairAt(u, i) => u[i] > 2047 /\ i < Len(u)
           /\ Behind(u, i) \in i + 1 .. Len(u) + 1
<1>1. Len(u) \in Nat /\ u[i] \in CodeUnits
  OBVIOUS
<1>2. PairAt(u, i) => u[i] > 2047 /\ i < Len(u)
  BY UnitKinds DEF PairAt
<1> QED
  BY <1>1, <1>2, UnitKinds DEF Behind

RoomsOf(u, g) ==
    /\ g \in [1 .. Len(u) + 1 -> Nat]
    /\ g[Len(u) + 1] = 0
    /\ \A i \in 1 .. Len(u) : g[i] = RoomOf(u, i) + g[Behind(u, i)]
LEMMA Rooms ==
    ASSUME NEW u \in Seq(CodeUnits)
    PROVE  \E g : RoomsOf(u, g) /\ Utf16Size(u) = g[1]
<1> DEFINE n == Len(u)
           X == Nat
           next == [i \in 1 .. n |-> Behind(u, i)]
           C == [p \in (1 .. n) \X X |-> RoomOf(u, p[1]) + p[2]]
           Turn(i, g) == IF i > Len(u) THEN 0 ELSE RoomOf(u, i) + g[Behind(u, i)]
           Solves(g) == g = [i \in 1 .. Len(u) + 1 |-> Turn(i, g)]
           From == CHOOSE g : Solves(g)
<1>1. n \in Nat
  OBVIOUS
<1>2. \A i \in 1 .. n : Behind(u, i) \in 1 .. n + 1 /\ Behind(u, i) > i /\ RoomOf(u, i) \in Nat
  BY <1>1, UnitsOfName DEF RoomOf
<1>3. Steps(n, X, 0, next, C)
  <2> HIDE DEF n
  <2> QED
    BY <1>2 DEF Steps
<1>4. \A i \in 1 .. n : \A x \in X : next[i] = Behind(u, i) /\ C[<<i, x>>] = RoomOf(u, i) + x
  <2> HIDE DEF n, X
  <2> QED
    OBVIOUS
<1> HIDE DEF next, C
<1>5. PICK g : Chained(n, X, 0, next, C, g)
  <2> HIDE DEF n, X
  <2> QED
    BY <1>1, <1>3, ChainExists
<1>6. RoomsOf(u, g)
  BY <1>2, <1>4, <1>5 DEF Chained, RoomsOf
<1>7. Solves(g)
  BY <1>1, <1>6 DEF RoomsOf
<1>8. Solves(From)
  <2> HIDE DEF Solves
  <2> QED
    BY <1>7
<1>9. Utf16Size(u) = From[1]
  BY DEF Utf16Size
<1> HIDE DEF From
<1>10. From = g
  <2>1. From = [i \in 1 .. n + 1 |-> From[i]] /\ From[n + 1] = 0
    BY <1>1, <1>8
  <2>2. \A i \in 1 .. n : From[i] = RoomOf(u, i) + From[Behind(u, i)]
    BY <1>1, <1>8
  <2>3. \A i \in 1 .. n : From[next[i]] \in X => From[i] = C[<<i, From[next[i]]>>]
    BY <1>4, <2>2
  <2>4. Follows(n, X, 0, next, C, From)
    BY <2>1, <2>3, Zenon DEF Follows
  <2> HIDE DEF n, X
  <2> QED
    BY <1>1, <1>3, <1>5, <2>4, OneChain
<1> QED
  BY <1>6, <1>9, <1>10

\* The bytes of what lies at a place: octets, as many as the room reckoned for it.
UnitRoom(code) == IF code < 128 THEN 1 ELSE IF code < 2048 THEN 2 ELSE 3
LEMMA BytesOfUnit ==
    ASSUME NEW code, code \in CodeUnits
    PROVE  Utf8OfUnit(code) \in Seq(Octets) /\ Len(Utf8OfUnit(code)) = UnitRoom(code)
<1> USE DEF UnitRoom
<1>0. code \in Nat /\ code < 65536
  BY UnitKinds
<1>1. CASE code < 128
  BY <1>0, <1>1, SMT DEF Utf8OfUnit, Octets
<1>2. CASE code >= 128 /\ code < 2048
  <2>1. Utf8OfUnit(code) = <<192 + code \div 64, 128 + Tail6(code)>>
    BY <1>0, <1>2, SMT DEF Utf8OfUnit
  <2>2. 192 + code \div 64 \in Octets /\ 128 + Tail6(code) \in Octets
    BY <1>0, <1>2, SMT DEF Octets, Tail6
  <2> QED
    BY <1>0, <1>2, <2>1, <2>2, SMT
<1>3. CASE code >= 2048
  <2>1. Utf8OfUnit(code) = <<224 + code \div 4096, 128 + Tail6(code \div 64), 128 + Tail6(code)>>
    BY <1>0, <1>3, SMT DEF Utf8OfUnit
  <2>2. 224 + code \div 4096 \in Octets /\ 128 + Tail6(code \div 64) \in Octets
        /\ 128 + Tail6(code) \in Octets
    BY <1>0, <1>3, SMT DEF Octets, Tail6
  <2> QED
    BY <1>0, <1>3, <2>1, <2>2, SMT
<1> QED
  BY <1>0, <1>1, <1>2, <1>3

LEMMA BytesOfPair ==
    ASSUME NEW lead \in Nat, NEW trail \in Nat
    PROVE  Utf8OfPair(lead, trail) \in Seq(Octets) /\ Len(Utf8OfPair(lead, trail)) = 4
<1> DEFINE code == 65536 + (lead % 1024) * 1024 + (trail % 1024)
<1>1. code \in Nat /\ code < 65536 + 1024 * 1024
  OBVIOUS
<1>2. Utf8OfPair(lead, trail) = <<240 + code \div 262144, 128 + Tail6(code \div 4096),
                                  128 + Tail6(code \div 64), 128 + Tail6(code)>>
  BY DEF Utf8OfPair
<1> HIDE DEF code
<1>3. /\ 240 + code \div 262144 \in Octets /\ 128 + Tail6(code \div 4096) \in Octets
      /\ 128 + Tail6(code \div 64) \in Octets /\ 128 + Tail6(code) \in Octets
  BY <1>1 DEF Octets, Tail6
<1> QED
  BY <1>2, <1>3

LEMMA BytesOfPlace ==
    ASSUME NEW u \in Seq(CodeUnits), NEW i \in 1 .. Len(u)
    PROVE  Utf8Of(u, i) \in Seq(Octets) /\ Len(Utf8Of(u, i)) = RoomOf(u, i)
<1>1. u[i] \in Nat /\ u[i] < 65536 /\ (PairAt(u, i) => u[i] > 2047 /\ i < Len(u))
  BY UnitsOfName
<1>2. CASE PairAt(u, i)
  <2>1. u[i + 1] \in Nat
    BY <1>1, <1>2, UnitsOfName
  <2>2. Utf8Of(u, i) = Utf8OfPair(u[i], u[i + 1]) /\ RoomOf(u, i) = 4
    BY <1>1, <1>2 DEF Utf8Of, RoomOf
  <2> QED
    BY <1>1, <2>1, <2>2, BytesOfPair
<1>3. CASE ~ PairAt(u, i) /\ u[i] \in LeadUnits \cup TrailUnits
  <2>1. u[i] >= 55296
    BY <1>3, UnitKinds
  <2>2. Utf8Of(u, i) = Replacement /\ RoomOf(u, i) = 3
    BY <1>1, <1>3, <2>1 DEF Utf8Of, RoomOf
  <2> QED
    BY <2>2 DEF Replacement, Octets
<1>4. CASE ~ PairAt(u, i) /\ u[i] \notin LeadUnits \cup TrailUnits
  <2>1. Utf8Of(u, i) = Utf8OfUnit(u[i])
        /\ RoomOf(u, i) = UnitRoom(u[i])
    BY <1>1, <1>4, SMT DEF Utf8Of, RoomOf, UnitRoom
  <2>2. u[i] \in CodeUnits
    OBVIOUS
  <2>3. Utf8OfUnit(u[i]) \in Seq(Octets) /\ Len(Utf8OfUnit(u[i])) = UnitRoom(u[i])
    BY <2>2, BytesOfUnit
  <2> QED
    BY <2>1, <2>3
<1> QED
  BY <1>2, <1>3, <1>4

StringsOf(u, g) ==
    /\ g \in [1 .. Len(u) + 1 -> Seq(Octets)]
    /\ g[Len(u) + 1] = <<>>
    /\ \A i \in 1 .. Len(u) : g[i] = Utf8Of(u, i) \o g[Behind(u, i)]
LEMMA Strings ==
    ASSUME NEW u \in Seq(CodeUnits)
    PROVE  \E g : StringsOf(u, g) /\ Utf16ToUtf8(u) = g[1]
<1> DEFINE n == Len(u)
           X == Seq(Octets)
           next == [i \in 1 .. n |-> Behind(u, i)]
           C == [p \in (1 .. n) \X X |-> Utf8Of(u, p[1]) \o p[2]]
           Turn(i, g) == IF i > Len(u) THEN <<>> ELSE Utf8Of(u, i) \o g[Behind(u, i)]
           Solves(g) == g = [i \in 1 .. Len(u) + 1 |-> Turn(i, g)]
           From == CHOOSE g : Solves(g)
<1>1. n \in Nat
  OBVIOUS
<1>2. \A i \in 1 .. n : Behind(u, i) \in 1 .. n + 1 /\ Behind(u, i) > i /\ Utf8Of(u, i) \in X
  BY <1>1, UnitsOfName, BytesOfPlace
<1>3. Steps(n, X, <<>>, next, C)
  <2>1. \A i \in 1 .. n : \A x \in X : Utf8Of(u, i) \o x \in X
    BY <1>2
  <2>2. <<>> \in X
    OBVIOUS
  <2> HIDE DEF n, X
  <2> QED
    BY <1>2, <2>1, <2>2 DEF Steps
<1>4. \A i \in 1 .. n : \A x \in X : next[i] = Behind(u, i) /\ C[<<i, x>>] = Utf8Of(u, i) \o x
  <2> HIDE DEF n, X
  <2> QED
    OBVIOUS
<1> HIDE DEF next, C
<1>5. PICK g : Chained(n, X, <<>>, next, C, g)
  <2> HIDE DEF n, X
  <2> QED
    BY <1>1, <1>3, ChainExists
<1>6. StringsOf(u, g)
  BY <1>2, <1>4, <1>5 DEF Chained, StringsOf
<1>7. Solves(g)
  BY <1>1, <1>6 DEF StringsOf
<1>8. Solves(From)
  <2> HIDE DEF Solves
  <2> QED
    BY <1>7
<1>9. Utf16ToUtf8(u) = From[1]
  BY DEF Utf16ToUtf8
<1> HIDE DEF From
<1>10. From = g
  <2>1. From = [i \in 1 .. n + 1 |-> From[i]] /\ From[n + 1] = <<>>
    BY <1>1, <1>8
  <2>2. \A i \in 1 .. n : From[i] = Utf8Of(u, i) \o From[Behind(u, i)]
    <3>1. \A i \in 1 .. n + 1 : From[i] = Turn(i, From)
      <4> HIDE DEF Turn
      <4> QED
        BY <1>8
    <3> SUFFICES ASSUME NEW i \in 1 .. n PROVE From[i] = Utf8Of(u, i) \o From[Behind(u, i)]
      OBVIOUS
    <3>2. i \in 1 .. n + 1 /\ ~ (i > Len(u))
      BY <1>1
    <3> QED
      BY <3>1, <3>2, Zenon
  <2>3. \A i \in 1 .. n : From[next[i]] \in X => From[i] = C[<<i, From[next[i]]>>]
    BY <1>4, <2>2, ZenonT(40)
  <2>4. Follows(n, X, <<>>, next, C, From)
    BY <2>1, <2>3, Zenon DEF Follows
  <2> HIDE DEF n, X
  <2> QED
    BY <1>1, <1>3, <1>5, <2>4, OneChain
<1> QED
  BY <1>6, <1>9, <1>10

\* The room reckoned for a name is the length of its string.
THEOREM NameTakesItsRoom ==
    ASSUME NEW u \in Seq(CodeUnits)
    PROVE  Len(Utf16ToUtf8(u)) = Utf16Size(u)
<1>1. PICK g : RoomsOf(u, g) /\ Utf16Size(u) = g[1]
  BY Rooms
<1>2. PICK h : StringsOf(u, h) /\ Utf16ToUtf8(u) = h[1]
  BY Strings
<1> DEFINE n == Len(u) + 1
           Q == {i \in 1 .. n : Len(h[i]) = g[i]}
<1>3. Len(u) \in Nat
  OBVIOUS
<1>4. ASSUME NEW i \in 1 .. n, \A j \in 1 .. n : j > i => j \in Q PROVE i \in Q
  <2>1. CASE i = n
    BY <1>1, <1>2, <2>1 DEF RoomsOf, StringsOf
  <2>2. CASE i \in 1 .. Len(u)
    <3>1. Behind(u, i) \in 1 .. n /\ Behind(u, i) > i
      BY <1>3, <2>2, UnitsOfName
    <3>2. Len(h[Behind(u, i)]) = g[Behind(u, i)]
      BY <1>4, <3>1
    <3>3. Utf8Of(u, i) \in Seq(Octets) /\ Len(Utf8Of(u, i)) = RoomOf(u, i)
      BY <2>2, BytesOfPlace
    <3>4. h[i] = Utf8Of(u, i) \o h[Behind(u, i)] /\ h[Behind(u, i)] \in Seq(Octets)
      BY <1>2, <2>2, <3>1 DEF StringsOf
    <3>5. Len(h[i]) = Len(Utf8Of(u, i)) + Len(h[Behind(u, i)])
      BY <3>3, <3>4, ConcatProperties
    <3>6. g[i] = RoomOf(u, i) + g[Behind(u, i)]
      BY <1>1, <2>2 DEF RoomsOf
    <3> QED
      BY <3>2, <3>3, <3>5, <3>6
  <2> QED
    BY <1>3, <2>1, <2>2
<1>5. 1 .. n \subseteq Q
  <2>1. n \in Nat
    BY <1>3
  <2> HIDE DEF n, Q
  <2> QED
    BY <1>4, <2>1, DownInduction
<1>6. 1 \in Q
  <2> HIDE DEF Q
  <2> QED
    BY <1>3, <1>5
<1> QED
  BY <1>1, <1>2, <1>6

(***************************************************************************)
(* Names: reading back the string made of one.                             *)
(***************************************************************************)

\* The leading bits of a byte, by its value.
LEMMA LeadingBits ==
    ASSUME NEW c \in Octets
    PROVE  /\ c < 128 => L1(c) = 0
           /\ 128 <= c /\ c < 192 => L1(c) = 1
           /\ 192 <= c /\ c < 224 => L1(c) = 2
           /\ 224 <= c /\ c < 240 => L1(c) = 3
           /\ 240 <= c /\ c < 248 => L1(c) = 4
           /\ 248 <= c => L1(c) \in 5 .. 8
<1> DEFINE S0 == {}
           S1 == S0 \cup {128}
           S2 == S1 \cup {192}
           S3 == S2 \cup {224}
           S4 == S3 \cup {240}
           S5 == S4 \cup {248}
           S6 == S5 \cup {252}
           S7 == S6 \cup {254}
           S8 == S7 \cup {255}
           Set == {t \in {128, 192, 224, 240, 248, 252, 254, 255} : c >= t}
<1>0. c \in Nat /\ c < 256 /\ L1(c) = Cardinality(Set)
  BY DEF Octets, L1
<1>1. IsFiniteSet(S0) /\ Cardinality(S0) = 0
  BY FS_EmptySet
<1>2. IsFiniteSet(S1) /\ Cardinality(S1) = 1
  <2>1. 128 \notin S0
    OBVIOUS
  <2> HIDE DEF S0
  <2> QED
    BY <1>1, <2>1, FS_AddElement
<1>3. IsFiniteSet(S2) /\ Cardinality(S2) = 2
  <2>1. 192 \notin S1
    OBVIOUS
  <2> HIDE DEF S1
  <2> QED
    BY <1>2, <2>1, FS_AddElement
<1>4. IsFiniteSet(S3) /\ Cardinality(S3) = 3
  <2>1. 224 \notin S2
    OBVIOUS
  <2> HIDE DEF S2
  <2> QED
    BY <1>3, <2>1, FS_AddElement
<1>5. IsFiniteSet(S4) /\ Cardinality(S4) = 4
  <2>1. 240 \notin S3
    OBVIOUS
  <2> HIDE DEF S3
  <2> QED
    BY <1>4, <2>1, FS_AddElement
<1>6. IsFiniteSet(S5) /\ Cardinality(S5) = 5
  <2>1. 248 \notin S4
    OBVIOUS
  <2> HIDE DEF S4
  <2> QED
    BY <1>5, <2>1, FS_AddElement
<1>7. IsFiniteSet(S6) /\ Cardinality(S6) = 6
  <2>1. 252 \notin S5
    OBVIOUS
  <2> HIDE DEF S5
  <2> QED
    BY <1>6, <2>1, FS_AddElement
<1>8. IsFiniteSet(S7) /\ Cardinality(S7) = 7
  <2>1. 254 \notin S6
    OBVIOUS
  <2> HIDE DEF S6
  <2> QED
    BY <1>7, <2>1, FS_AddElement
<1>9. IsFiniteSet(S8) /\ Cardinality(S8) = 8
  <2>1. 255 \notin S7
    OBVIOUS
  <2> HIDE DEF S7
  <2> QED
    BY <1>8, <2>1, FS_AddElement
<1>10. /\ c < 128 => Set = S0
       /\ 128 <= c /\ c < 192 => Set = S1
       /\ 192 <= c /\ c < 224 => Set = S2
       /\ 224 <= c /\ c < 240 => Set = S3
       /\ 240 <= c /\ c < 248 => Set = S4
       /\ 248 <= c => Set \in {S5, S6, S7, S8}
  <2>1. c < 128 => Set = S0
    BY <1>0, SMT
  <2>2. 128 <= c /\ c < 192 => Set = S1
    BY <1>0, SMT
  <2>3. 192 <= c /\ c < 224 => Set = S2
    BY <1>0, SMT
  <2>4. 224 <= c /\ c < 240 => Set = S3
    BY <1>0, SMT
  <2>5. 240 <= c /\ c < 248 => Set = S4
    BY <1>0, SMT
  <2>6. 248 <= c /\ c < 252 => Set = S5
    BY <1>0, SMT
  <2>7. 252 <= c /\ c < 254 => Set = S6
    BY <1>0, SMT
  <2>8. c = 254 => Set = S7
    BY <1>0, SMT
  <2>9. c = 255 => Set = S8
    BY <1>0, SMT
  <2> HIDE DEF Set, S0, S1, S2, S3, S4, S5, S6, S7, S8
  <2> QED
    BY <1>0, <2>1, <2>2, <2>3, <2>4, <2>5, <2>6, <2>7, <2>8, <2>9, SMT
<1> HIDE DEF Set, S0, S1, S2, S3, S4, S5, S6, S7, S8
<1> QED
  BY <1>0, <1>1, <1>2, <1>3, <1>4, <1>5, <1>6, <1>7, <1>8, <1>9, <1>10, SMT

\* What validate_utf8_cp makes of one place: some units, or the error, and a place behind it.
LEMMA OneCodePoint ==
    ASSUME NEW s \in Seq(Octets), NEW i \in 1 .. Len(s)
    PROVE  /\ ValidateUtf8Cp(s, i).units \in Seq(Int)
           /\ ValidateUtf8Cp(s, i).next \in i + 1 .. Len(s) + 1
<1> DEFINE l == L1(s[i])
           cp == CodePoint(s, i, l)
<1>1. s[i] \in Octets /\ s[i] \in Nat /\ Len(s) \in Nat
  BY DEF Octets
<1>2. l \in 0 .. 8
  <2>1. s[i] < 256
    BY <1>1 DEF Octets
  <2> QED
    BY <1>1, <2>1, LeadingBits, SMT
<1>3. \A k \in 1 .. 3 : ByteAfter(s, i, k) \in Octets /\ ByteAfter(s, i, k) \in Nat
                        /\ (L1(ByteAfter(s, i, k)) = 1 => i + k <= Len(s))
  <2> SUFFICES ASSUME NEW k \in 1 .. 3
               PROVE  ByteAfter(s, i, k) \in Octets /\ ByteAfter(s, i, k) \in Nat
                      /\ (L1(ByteAfter(s, i, k)) = 1 => i + k <= Len(s))
    OBVIOUS
  <2>1. CASE i + k <= Len(s)
    <3>1. ByteAfter(s, i, k) = s[i + k] /\ s[i + k] \in Octets
      BY <1>1, <2>1 DEF ByteAfter
    <3> QED
      BY <2>1, <3>1 DEF Octets
  <2>2. CASE ~ (i + k <= Len(s))
    <3>1. ByteAfter(s, i, k) = 0 /\ 0 \in Octets
      BY <2>2 DEF ByteAfter, Octets
    <3>2. L1(0) = 0
      BY <3>1, LeadingBits
    <3> QED
      BY <3>1, <3>2
  <2> QED
    BY <2>1, <2>2
<1>4. cp \in Nat
  <2> DEFINE b1 == ByteAfter(s, i, 1)
             b2 == ByteAfter(s, i, 2)
             b3 == ByteAfter(s, i, 3)
  <2>1. b1 \in Nat /\ b2 \in Nat /\ b3 \in Nat
    BY <1>3
  <2>2. cp = CASE l = 2 -> (s[i] % 32) * 64 + Tail6(b1)
               [] l = 3 -> (s[i] % 16) * 4096 + Tail6(b1) * 64 + Tail6(b2)
               [] l = 4 -> (s[i] % 8) * 262144 + Tail6(b1) * 4096 + Tail6(b2) * 64 + Tail6(b3)
               [] OTHER -> s[i]
    BY DEF CodePoint
  <2> HIDE DEF l, b1, b2, b3, cp
  <2>3. \A b \in Nat : Tail6(b) \in Nat
    BY SMT DEF Tail6
  <2> HIDE DEF Tail6
  <2>4. CASE l = 2
    BY <1>1, <2>1, <2>2, <2>3, <2>4, SMTT(30)
  <2>5. CASE l = 3
    BY <1>1, <2>1, <2>2, <2>3, <2>5, SMTT(30)
  <2>6. CASE l = 4
    <3>1. cp = (s[i] % 8) * 262144 + Tail6(b1) * 4096 + Tail6(b2) * 64 + Tail6(b3)
      BY <2>2, <2>6, SMT
    <3>2. Tail6(b1) \in Nat /\ Tail6(b2) \in Nat /\ Tail6(b3) \in Nat
      BY <2>1, <2>3
    <3>4. s[i] % 8 \in Nat
      BY <1>1
    <3>3. \A w, x, y, z \in Nat : w * 262144 + x * 4096 + y * 64 + z \in Nat
      BY SMT
    <3> QED
      BY <3>1, <3>2, <3>3, <3>4, SMTT(30)
  <2>7. CASE l \notin {2, 3, 4}
    BY <1>1, <2>2, <2>7, SMT
  <2> QED
    BY <2>4, <2>5, <2>6, <2>7
<1>5. ValidateUtf8Cp(s, i) = UnitsOf(s, i, l, cp)
  BY DEF ValidateUtf8Cp
<1> HIDE DEF l, cp
<1> DEFINE r == UnitsOf(s, i, l, cp)
<1>6. r.units \in Seq(Int)
  <2>1. Invalid \in Seq(Int)
    BY DEF Invalid
  <2>2. <<cp>> \in Seq(Int) /\ <<55296 + (cp - 65536) \div 1024, 56320 + (cp % 1024)>> \in Seq(Int)
    BY <1>4, SMT
  <2> QED
    BY <2>1, <2>2, SMT DEF UnitsOf
<1>7. r.next = i + 1
      \/ /\ r.next = i + l /\ l \in {2, 3, 4}
         /\ \A k \in 1 .. l - 1 : L1(ByteAfter(s, i, k)) = 1
  BY <1>2, SMT DEF UnitsOf
<1>8. r.next \in i + 1 .. Len(s) + 1
  <2>1. CASE r.next = i + 1
    BY <1>1, <2>1
  <2>2. CASE r.next # i + 1
    <3>1. r.next = i + l /\ l \in {2, 3, 4} /\ L1(ByteAfter(s, i, l - 1)) = 1
      BY <1>7, <2>2
    <3>2. i + (l - 1) <= Len(s)
      BY <1>3, <3>1
    <3> QED
      BY <1>1, <3>1, <3>2
  <2> QED
    BY <2>1, <2>2
<1> QED
  BY <1>5, <1>6, <1>8

DecodesAs(s, h) ==
    /\ h \in [1 .. Len(s) + 1 -> Seq(Int)]
    /\ h[Len(s) + 1] = <<>>
    /\ \A i \in 1 .. Len(s) : h[i] = Prefixed(ValidateUtf8Cp(s, i).units, h[ValidateUtf8Cp(s, i).next])
LEMMA PrefixedUnits ==
    ASSUME NEW x \in Seq(Int), NEW y \in Seq(Int)
    PROVE  Prefixed(x, y) \in Seq(Int)
  BY DEF Prefixed, Invalid
LEMMA Decodes ==
    ASSUME NEW s \in Seq(Octets)
    PROVE  \E h : DecodesAs(s, h) /\ Utf8ToUtf16(s) = h[1]
<1> DEFINE n == Len(s)
           X == Seq(Int)
           U(i) == ValidateUtf8Cp(s, i).units
           N(i) == ValidateUtf8Cp(s, i).next
           next == [i \in 1 .. n |-> N(i)]
           C == [p \in (1 .. n) \X X |-> Prefixed(U(p[1]), p[2])]
           Turn(i, g) == IF i = Len(s) + 1 THEN <<>>
                         ELSE LET cp == ValidateUtf8Cp(s, i) IN Prefixed(cp.units, g[cp.next])
           Solves(g) == g = [i \in 1 .. Len(s) + 1 |-> Turn(i, g)]
           From == CHOOSE g : Solves(g)
<1>1. n \in Nat
  OBVIOUS
<1>2. \A i \in 1 .. n : N(i) \in 1 .. n + 1 /\ N(i) > i /\ U(i) \in X
  <2> SUFFICES ASSUME NEW i \in 1 .. n PROVE N(i) \in 1 .. n + 1 /\ N(i) > i /\ U(i) \in X
    OBVIOUS
  <2>1. U(i) \in X /\ N(i) \in i + 1 .. n + 1
    BY OneCodePoint
  <2> HIDE DEF U, N, n, X
  <2> QED
    BY <1>1, <2>1
<1>3. Steps(n, X, <<>>, next, C)
  <2>1. \A i \in 1 .. n : \A x \in X : Prefixed(U(i), x) \in X
    BY <1>2, PrefixedUnits
  <2>2. <<>> \in X
    OBVIOUS
  <2> HIDE DEF n, X, U, N
  <2> QED
    BY <1>2, <2>1, <2>2 DEF Steps
<1>4. \A i \in 1 .. n : \A x \in X : next[i] = N(i) /\ C[<<i, x>>] = Prefixed(U(i), x)
  <2> HIDE DEF n, X, U, N
  <2> QED
    OBVIOUS
<1> HIDE DEF next, C
<1>5. PICK g : Chained(n, X, <<>>, next, C, g)
  <2> HIDE DEF n, X, U, N
  <2> QED
    BY <1>1, <1>3, ChainExists
<1>6. DecodesAs(s, g)
  <2>1. g \in [1 .. n + 1 -> X] /\ g[n + 1] = <<>>
    BY <1>5 DEF Chained
  <2>2. ASSUME NEW i \in 1 .. n PROVE g[i] = Prefixed(U(i), g[N(i)])
    <3>1. g[i] = C[<<i, g[next[i]]>>]
      BY <1>5 DEF Chained
    <3>2. next[i] = N(i) /\ g[N(i)] \in X
      BY <1>2, <1>4, <2>1, Zenon
    <3> HIDE DEF U, N, n, X
    <3> QED
      BY <1>4, <3>1, <3>2
  <2> QED
    BY <2>1, <2>2 DEF DecodesAs
<1>7. Solves(g)
  <2>1. \A i \in 1 .. n + 1 : i = n + 1 \/ i \in 1 .. n
    BY <1>1
  <2> HIDE DEF N, U
  <2>2. \A i \in 1 .. n + 1 : g[i] = Turn(i, g)
    <3> SUFFICES ASSUME NEW i \in 1 .. n + 1 PROVE g[i] = Turn(i, g)
      OBVIOUS
    <3>1. CASE i = n + 1
      BY <1>6, <3>1 DEF DecodesAs
    <3>2. CASE i # n + 1
      <4>1. g[i] = Prefixed(ValidateUtf8Cp(s, i).units, g[ValidateUtf8Cp(s, i).next])
        BY <1>6, <2>1, <3>2 DEF DecodesAs
      <4> QED
        BY <3>2, <4>1, Zenon
    <3> QED
      BY <3>1, <3>2
  <2>3. g = [i \in 1 .. n + 1 |-> g[i]]
    BY <1>6 DEF DecodesAs
  <2> HIDE DEF Turn
  <2> QED
    BY <2>2, <2>3
<1>8. Solves(From)
  <2> HIDE DEF Solves
  <2> QED
    BY <1>7
<1>9. Utf8ToUtf16(s) = From[1]
  BY DEF Utf8ToUtf16
<1> HIDE DEF From
<1>10. From = g
  <2>0. \A i \in 1 .. n + 1 : From[i] = Turn(i, From)
    <3> HIDE DEF Turn
    <3> QED
      BY <1>8
  <2>1. From = [i \in 1 .. n + 1 |-> From[i]] /\ From[n + 1] = <<>>
    <3>1. n + 1 \in 1 .. n + 1
      BY <1>1
    <3>2. From[n + 1] = <<>>
      BY <2>0, <3>1, Zenon
    <3> HIDE DEF Turn
    <3> QED
      BY <1>8, <3>2
  <2>2. \A i \in 1 .. n : From[i] = Prefixed(U(i), From[N(i)])
    <3> SUFFICES ASSUME NEW i \in 1 .. n PROVE From[i] = Prefixed(U(i), From[N(i)])
      OBVIOUS
    <3>1. i \in 1 .. n + 1 /\ ~ (i = Len(s) + 1)
      BY <1>1
    <3> QED
      BY <2>0, <3>1, Zenon
  <2> HIDE DEF N, U
  <2>3. \A i \in 1 .. n : From[next[i]] \in X => From[i] = C[<<i, From[next[i]]>>]
    BY <1>4, <2>2
  <2>4. Follows(n, X, <<>>, next, C, From)
    BY <2>1, <2>3, Zenon DEF Follows
  <2> HIDE DEF n, X
  <2> QED
    BY <1>1, <1>3, <1>5, <2>4, OneChain
<1> QED
  BY <1>6, <1>9, <1>10

\* A code point is made of the bytes from its place on, wherever that lies in the string.
LEMMA Shifted ==
    ASSUME NEW chunk \in Seq(Octets), NEW rest \in Seq(Octets), NEW j \in 1 .. Len(rest)
    PROVE  LET s == chunk \o rest
               k == Len(chunk)
           IN  /\ ValidateUtf8Cp(s, k + j).units = ValidateUtf8Cp(rest, j).units
               /\ ValidateUtf8Cp(s, k + j).next = k + ValidateUtf8Cp(rest, j).next
<1> DEFINE s == chunk \o rest
           k == Len(chunk)
           m == Len(rest)
<1>1. k \in Nat /\ m \in Nat /\ Len(s) = k + m /\ \A i \in 1 .. m : s[k + i] = rest[i]
  BY ConcatProperties
<1>2. s[k + j] = rest[j]
  BY <1>1
<1>3. \A d \in Nat : ByteAfter(s, k + j, d) = ByteAfter(rest, j, d)
  <2> SUFFICES ASSUME NEW d \in Nat PROVE ByteAfter(s, k + j, d) = ByteAfter(rest, j, d)
    OBVIOUS
  <2> HIDE DEF s, k, m
  <2>1. CASE j + d <= m
    <3>1. s[k + (j + d)] = rest[j + d]
      BY <1>1, <2>1
    <3>2. (k + j) + d = k + (j + d) /\ (k + j) + d <= Len(s)
      BY <1>1, <2>1
    <3> QED
      BY <2>1, <3>1, <3>2 DEF ByteAfter, m
  <2>2. CASE ~ (j + d <= m)
    <3>1. ~ ((k + j) + d <= Len(s))
      BY <1>1, <2>2
    <3> QED
      BY <2>2, <3>1 DEF ByteAfter, m
  <2> QED
    BY <2>1, <2>2
<1> HIDE DEF s, k, m
<1> DEFINE l == L1(rest[j])
<1>4. CodePoint(s, k + j, l) = CodePoint(rest, j, l)
  BY <1>2, <1>3, SMTT(30) DEF CodePoint
<1>5. l \in 0 .. 8
  <2>1. rest[j] \in Octets
    BY DEF m
  <2> QED
    BY <2>1, LeadingBits, SMT DEF Octets
<1> HIDE DEF l
<1>6. \A cp : /\ UnitsOf(s, k + j, l, cp).units = UnitsOf(rest, j, l, cp).units
              /\ UnitsOf(s, k + j, l, cp).next = k + UnitsOf(rest, j, l, cp).next
  <2> SUFFICES ASSUME NEW cp
               PROVE  /\ UnitsOf(s, k + j, l, cp).units = UnitsOf(rest, j, l, cp).units
                      /\ UnitsOf(s, k + j, l, cp).next = k + UnitsOf(rest, j, l, cp).next
    OBVIOUS
  <2>1. (\E d \in 1 .. l - 1 : L1(ByteAfter(s, k + j, d)) # 1)
        <=> (\E d \in 1 .. l - 1 : L1(ByteAfter(rest, j, d)) # 1)
    BY <1>3, <1>5
  <2> DEFINE bad == \/ l \in {1, 5, 6, 7, 8} \/ Overlong(l, cp)
                    \/ \E d \in 1 .. l - 1 : L1(ByteAfter(rest, j, d)) # 1
                    \/ cp \in LeadUnits \cup TrailUnits \/ cp >= 1114112
             units == IF cp < 65536 THEN <<cp>>
                      ELSE <<55296 + (cp - 65536) \div 1024, 56320 + (cp % 1024)>>
             step == IF l = 0 THEN 1 ELSE l
  <2>2. /\ UnitsOf(rest, j, l, cp) = IF bad THEN [units |-> Invalid, next |-> j + 1]
                                     ELSE [units |-> units, next |-> j + step]
        /\ UnitsOf(s, k + j, l, cp) = IF bad THEN [units |-> Invalid, next |-> (k + j) + 1]
                                      ELSE [units |-> units, next |-> (k + j) + step]
    BY <2>1, SMT DEF UnitsOf
  <2> HIDE DEF bad, units
  <2> QED
    BY <1>1, <1>5, <2>2
<1> QED
  BY <1>2, <1>4, <1>6 DEF ValidateUtf8Cp, s, k, l

\* A string that begins with a whole code point is that code point and the rest.
LEMMA FirstOff ==
    ASSUME NEW chunk \in Seq(Octets), NEW rest \in Seq(Octets), Len(chunk) > 0,
           ValidateUtf8Cp(chunk \o rest, 1).next = Len(chunk) + 1
    PROVE  Utf8ToUtf16(chunk \o rest)
             = Prefixed(ValidateUtf8Cp(chunk \o rest, 1).units, Utf8ToUtf16(rest))
<1> DEFINE s == chunk \o rest
           k == Len(chunk)
           m == Len(rest)
<1>1. s \in Seq(Octets) /\ Len(s) = k + m /\ k \in Nat /\ m \in Nat
  BY ConcatProperties
<1>2. PICK h : DecodesAs(s, h) /\ Utf8ToUtf16(s) = h[1]
  BY <1>1, Decodes
<1>3. PICK g : DecodesAs(rest, g) /\ Utf8ToUtf16(rest) = g[1]
  BY Decodes
<1> DEFINE Q == {j \in 1 .. m + 1 : h[k + j] = g[j]}
<1>4. ASSUME NEW j \in 1 .. m + 1, \A i \in 1 .. m + 1 : i > j => i \in Q PROVE j \in Q
  <2>1. CASE j = m + 1
    BY <1>1, <1>2, <1>3, <2>1 DEF DecodesAs
  <2>2. CASE j # m + 1
    <3> DEFINE v == ValidateUtf8Cp(rest, j)
    <3>0. j \in 1 .. m /\ k + j \in 1 .. Len(s)
      BY <1>1, <2>2
    <3>1. /\ ValidateUtf8Cp(s, k + j).units = v.units
          /\ ValidateUtf8Cp(s, k + j).next = k + v.next
      BY <3>0, Shifted
    <3>2. v.next \in j + 1 .. m + 1
      BY <3>0, OneCodePoint
    <3>3. v.next \in Q
      <4> HIDE DEF v, Q
      <4> QED
        BY <1>1, <1>4, <3>2
    <3>4. h[k + j] = Prefixed(ValidateUtf8Cp(s, k + j).units, h[ValidateUtf8Cp(s, k + j).next])
      BY <1>2, <3>0 DEF DecodesAs
    <3>5. g[j] = Prefixed(v.units, g[v.next])
      BY <1>3, <3>0 DEF DecodesAs
    <3>6. h[k + v.next] = g[v.next]
      BY <3>3
    <3> HIDE DEF v
    <3> QED
      BY <3>1, <3>4, <3>5, <3>6
  <2> QED
    BY <2>1, <2>2
<1>5. 1 .. m + 1 \subseteq Q
  <2>1. m + 1 \in Nat
    BY <1>1
  <2> DEFINE z == m + 1
  <2>2. \A i \in 1 .. z : (\A j \in 1 .. z : j > i => j \in Q) => i \in Q
    BY <1>4
  <2> HIDE DEF z, Q
  <2>3. 1 .. z \subseteq Q
    BY <2>1, <2>2, DownInduction DEF z
  <2> QED
    BY <2>3 DEF z
<1>6. h[k + 1] = g[1]
  <2>1. 1 \in 1 .. m + 1
    BY <1>1
  <2> QED
    BY <1>5, <2>1
<1>7. h[1] = Prefixed(ValidateUtf8Cp(s, 1).units, h[ValidateUtf8Cp(s, 1).next])
  BY <1>1, <1>2 DEF DecodesAs
<1> QED
  BY <1>2, <1>3, <1>6, <1>7

\* A code point of which every byte is there and that is none of those refused.
IsWhole(s, l, cp) ==
    /\ l \in {0, 2, 3, 4} /\ cp \in Nat /\ L1(s[1]) = l
    /\ \A k \in 1 .. l - 1 : L1(ByteAfter(s, 1, k)) = 1
    /\ CodePoint(s, 1, l) = cp /\ ~ Overlong(l, cp)
    /\ cp \notin LeadUnits \cup TrailUnits /\ cp < 1114112
LEMMA Whole ==
    ASSUME NEW s, NEW l, NEW cp, IsWhole(s, l, cp)
    PROVE  /\ ValidateUtf8Cp(s, 1).next = (IF l = 0 THEN 1 ELSE l) + 1
           /\ ValidateUtf8Cp(s, 1).units
                = IF cp < 65536 THEN <<cp>>
                  ELSE <<55296 + (cp - 65536) \div 1024, 56320 + (cp % 1024)>>
<1> USE DEF IsWhole
<1>1. ValidateUtf8Cp(s, 1) = UnitsOf(s, 1, l, cp)
  BY DEF ValidateUtf8Cp
<1> DEFINE units == IF cp < 65536 THEN <<cp>>
                    ELSE <<55296 + (cp - 65536) \div 1024, 56320 + (cp % 1024)>>
           bad == \/ l \in {1, 5, 6, 7, 8} \/ Overlong(l, cp)
                  \/ \E k \in 1 .. l - 1 : L1(ByteAfter(s, 1, k)) # 1
                  \/ cp \in LeadUnits \cup TrailUnits \/ cp >= 1114112
<1>2. UnitsOf(s, 1, l, cp) = IF bad THEN [units |-> Invalid, next |-> 1 + 1]
                             ELSE [units |-> units, next |-> 1 + (IF l = 0 THEN 1 ELSE l)]
  BY SMT DEF UnitsOf
<1>3. ~ bad
  <2>1. l \notin {1, 5, 6, 7, 8}
    OBVIOUS
  <2>2. ~ (cp >= 1114112)
    BY SMT
  <2> QED
    BY <2>1, <2>2, SMT
<1> HIDE DEF bad, units
<1>4. ValidateUtf8Cp(s, 1) = [units |-> units, next |-> 1 + (IF l = 0 THEN 1 ELSE l)]
  BY <1>1, <1>2, <1>3
<1>5. ValidateUtf8Cp(s, 1).next = (IF l = 0 THEN 1 ELSE l) + 1
  BY <1>4
<1> QED
  BY <1>4, <1>5 DEF units

LEMMA FirstBytes ==
    ASSUME NEW chunk \in Seq(Octets), NEW rest \in Seq(Octets), Len(chunk) > 0
    PROVE  LET s == chunk \o rest
           IN  /\ s[1] = chunk[1]
               /\ Len(chunk) > 1 => ByteAfter(s, 1, 1) = chunk[2]
               /\ Len(chunk) > 2 => ByteAfter(s, 1, 2) = chunk[3]
               /\ Len(chunk) > 3 => ByteAfter(s, 1, 3) = chunk[4]
<1>1. Len(chunk \o rest) = Len(chunk) + Len(rest) /\ Len(chunk) \in Nat /\ Len(rest) \in Nat
      /\ \A i \in 1 .. Len(chunk) : (chunk \o rest)[i] = chunk[i]
  BY ConcatProperties
<1> QED
  BY <1>1 DEF ByteAfter

\* A unit that is not a surrogate, written as UTF-8, is read back.
LEMMA UnitBack ==
    ASSUME NEW code, code \in CodeUnits, code \notin LeadUnits \cup TrailUnits,
           NEW rest \in Seq(Octets)
    PROVE  LET s == Utf8OfUnit(code) \o rest
           IN  /\ ValidateUtf8Cp(s, 1).units = <<code>>
               /\ ValidateUtf8Cp(s, 1).next = Len(Utf8OfUnit(code)) + 1
<1> DEFINE chunk == Utf8OfUnit(code)
           s == chunk \o rest
<1>0. code \in Nat /\ code < 65536 /\ code < 1114112
  BY UnitKinds, SMT
<1>1. chunk \in Seq(Octets) /\ Len(chunk) = UnitRoom(code)
  BY BytesOfUnit
<1>2. CASE code < 128
  <2>1. chunk = <<code>> /\ Len(chunk) = 1
    BY <1>0, <1>2, SMT DEF Utf8OfUnit
  <2> HIDE DEF chunk
  <2>2. s[1] = code
    BY <1>1, <2>1, FirstBytes
  <2>3. code \in Octets
    BY <1>0, <1>2 DEF Octets
  <2> HIDE DEF s
  <2>4. L1(s[1]) = 0
    BY <1>2, <2>2, <2>3, LeadingBits
  <2>5. CodePoint(s, 1, 0) = code /\ ~ Overlong(0, code)
    BY <2>2 DEF CodePoint, Overlong
  <2>6. \A k \in 1 .. 0 - 1 : L1(ByteAfter(s, 1, k)) = 1
    OBVIOUS
  <2>7. /\ ValidateUtf8Cp(s, 1).next = 2
        /\ ValidateUtf8Cp(s, 1).units = IF code < 65536 THEN <<code>>
                ELSE <<55296 + (code - 65536) \div 1024, 56320 + (code % 1024)>>
    <3>1. IsWhole(s, 0, code)
      BY <1>0, <2>4, <2>5, <2>6, SMT DEF IsWhole
    <3> QED
      BY <3>1, Whole, SMT
  <2>8. ValidateUtf8Cp(s, 1).units = <<code>>
    BY <1>0, <2>7, SMT
  <2> QED
    BY <2>1, <2>7, <2>8 DEF s, chunk
<1>3. CASE code >= 128 /\ code < 2048
  <2>1. chunk = <<192 + code \div 64, 128 + Tail6(code)>> /\ Len(chunk) = 2
    BY <1>0, <1>3, SMT DEF Utf8OfUnit
  <2>2. /\ 192 + code \div 64 \in Octets /\ 128 + Tail6(code) \in Octets
        /\ 192 + code \div 64 >= 192 /\ 192 + code \div 64 < 224
        /\ 128 + Tail6(code) >= 128 /\ 128 + Tail6(code) < 192
    BY <1>0, <1>3, SMT DEF Tail6, Octets
  <2> HIDE DEF chunk
  <2>3. s[1] = 192 + code \div 64 /\ ByteAfter(s, 1, 1) = 128 + Tail6(code)
    <3>0. Len(chunk) = 2
      BY <2>1
    <3>1. s[1] = chunk[1] /\ ByteAfter(s, 1, 1) = chunk[2]
      BY <1>1, <3>0, FirstBytes
    <3> QED
      BY <2>1, <3>1
  <2> HIDE DEF s
  <2>4. L1(s[1]) = 2 /\ L1(ByteAfter(s, 1, 1)) = 1
    BY <2>2, <2>3, LeadingBits
  <2>5. CodePoint(s, 1, 2) = code
    <3>1. CodePoint(s, 1, 2) = ((192 + code \div 64) % 32) * 64 + Tail6(128 + Tail6(code))
      BY <2>3 DEF CodePoint
    <3>2. (192 + code \div 64) % 32 = code \div 64
      BY <1>0, <1>3, SMT
    <3>3. Tail6(128 + Tail6(code)) = code % 64
      BY <1>0, SMT DEF Tail6
    <3> QED
      BY <1>0, <3>1, <3>2, <3>3, SMT
  <2>6. ~ Overlong(2, code) /\ \A k \in 1 .. 2 - 1 : L1(ByteAfter(s, 1, k)) = 1
    BY <1>0, <1>3, <2>4, SMT DEF Overlong
  <2>7. /\ ValidateUtf8Cp(s, 1).next = 3
        /\ ValidateUtf8Cp(s, 1).units = IF code < 65536 THEN <<code>>
                ELSE <<55296 + (code - 65536) \div 1024, 56320 + (code % 1024)>>
    <3>1. IsWhole(s, 2, code)
      BY <1>0, <2>4, <2>5, <2>6, SMT DEF IsWhole
    <3> QED
      BY <3>1, Whole, SMT
  <2>8. ValidateUtf8Cp(s, 1).units = <<code>>
    BY <1>0, <2>7, SMTT(30)
  <2> QED
    BY <2>1, <2>7, <2>8, SMTT(30) DEF s, chunk
<1>4. CASE code >= 2048
  <2> DEFINE b1 == 224 + code \div 4096
             b2 == 128 + Tail6(code \div 64)
             b3 == 128 + Tail6(code)
  <2>1. chunk = <<b1, b2, b3>> /\ Len(chunk) = 3
    BY <1>0, <1>4, SMT DEF Utf8OfUnit
  <2>2. /\ b1 \in Octets /\ b2 \in Octets /\ b3 \in Octets
        /\ b1 >= 224 /\ b1 < 240 /\ b2 >= 128 /\ b2 < 192 /\ b3 >= 128 /\ b3 < 192
    BY <1>0, <1>4, SMT DEF Tail6, Octets
  <2>3. b1 % 16 = code \div 4096 /\ Tail6(b2) = (code \div 64) % 64 /\ Tail6(b3) = code % 64
    BY <1>0, <1>4, SMT DEF Tail6
  <2> HIDE DEF chunk, b1, b2, b3
  <2>4. s[1] = b1 /\ ByteAfter(s, 1, 1) = b2 /\ ByteAfter(s, 1, 2) = b3
    <3>0. Len(chunk) = 3
      BY <2>1
    <3>1. s[1] = chunk[1] /\ ByteAfter(s, 1, 1) = chunk[2] /\ ByteAfter(s, 1, 2) = chunk[3]
      <4>1. Len(chunk) > 0 /\ Len(chunk) > 1 /\ Len(chunk) > 2
        BY <3>0
      <4> HIDE DEF s
      <4> QED
        BY <1>1, <4>1, FirstBytes, Zenon DEF s
    <3> QED
      BY <2>1, <3>1
  <2> HIDE DEF s
  <2>5. L1(s[1]) = 3 /\ L1(ByteAfter(s, 1, 1)) = 1 /\ L1(ByteAfter(s, 1, 2)) = 1
    BY <2>2, <2>4, LeadingBits
  <2>6. CodePoint(s, 1, 3) = code
    <3>1. CodePoint(s, 1, 3) = (b1 % 16) * 4096 + Tail6(b2) * 64 + Tail6(b3)
      BY <2>4, SMT DEF CodePoint
    <3> QED
      BY <1>0, <2>3, <3>1, SMTT(30)
  <2>7. ~ Overlong(3, code) /\ \A k \in 1 .. 3 - 1 : L1(ByteAfter(s, 1, k)) = 1
    BY <1>0, <1>4, <2>5, SMT DEF Overlong
  <2>8. /\ ValidateUtf8Cp(s, 1).next = 4
        /\ ValidateUtf8Cp(s, 1).units = IF code < 65536 THEN <<code>>
                ELSE <<55296 + (code - 65536) \div 1024, 56320 + (code % 1024)>>
    <3>1. IsWhole(s, 3, code)
      BY <1>0, <2>5, <2>6, <2>7, SMT DEF IsWhole
    <3> QED
      BY <3>1, Whole, SMT
  <2>9. ValidateUtf8Cp(s, 1).units = <<code>>
    BY <1>0, <2>8, SMT
  <2>10. Len(chunk) = 3
    BY <2>1
  <2> QED
    BY <2>8, <2>9, <2>10, SMT DEF s, chunk
<1> QED
  BY <1>0, <1>2, <1>3, <1>4

\* So is a pair of surrogates.
LEMMA PairBack ==
    ASSUME NEW lead \in LeadUnits, NEW trail \in TrailUnits, NEW rest \in Seq(Octets)
    PROVE  LET s == Utf8OfPair(lead, trail) \o rest
           IN  /\ ValidateUtf8Cp(s, 1).units = <<lead, trail>>
               /\ ValidateUtf8Cp(s, 1).next = Len(Utf8OfPair(lead, trail)) + 1
<1> DEFINE code == 65536 + (lead % 1024) * 1024 + (trail % 1024)
           chunk == Utf8OfPair(lead, trail)
           s == chunk \o rest
           b1 == 240 + code \div 262144
           b2 == 128 + Tail6(code \div 4096)
           b3 == 128 + Tail6(code \div 64)
           b4 == 128 + Tail6(code)
<1>1. /\ lead \in Nat /\ 55296 <= lead /\ lead <= 56319
      /\ trail \in Nat /\ 56320 <= trail /\ trail <= 57343
  BY UnitKinds
<1>2. chunk \in Seq(Octets) /\ Len(chunk) = 4
  BY <1>1, BytesOfPair
<1>3. chunk = <<b1, b2, b3, b4>>
  BY DEF Utf8OfPair
<1>4. lead % 1024 = lead - 55296 /\ trail % 1024 = trail - 56320
  BY <1>1, SMT
<1>5. code \in Nat /\ code >= 65536 /\ code < 1114112
  BY <1>1, <1>4, SMT
<1>6. 55296 + (code - 65536) \div 1024 = lead /\ 56320 + (code % 1024) = trail
  BY <1>1, <1>4, SMT
<1> HIDE DEF code
<1>7. /\ b1 \in Octets /\ b2 \in Octets /\ b3 \in Octets /\ b4 \in Octets
      /\ b1 >= 240 /\ b1 < 248 /\ b2 >= 128 /\ b2 < 192 /\ b3 >= 128 /\ b3 < 192
      /\ b4 >= 128 /\ b4 < 192
  BY <1>5, SMT DEF Tail6, Octets
<1>8. /\ b1 % 8 = code \div 262144 /\ Tail6(b2) = (code \div 4096) % 64
      /\ Tail6(b3) = (code \div 64) % 64 /\ Tail6(b4) = code % 64
  BY <1>5, SMT DEF Tail6
<1> HIDE DEF chunk, b1, b2, b3, b4
<1>9. s[1] = b1 /\ ByteAfter(s, 1, 1) = b2 /\ ByteAfter(s, 1, 2) = b3 /\ ByteAfter(s, 1, 3) = b4
  <2>1. /\ s[1] = chunk[1] /\ ByteAfter(s, 1, 1) = chunk[2]
        /\ ByteAfter(s, 1, 2) = chunk[3] /\ ByteAfter(s, 1, 3) = chunk[4]
    <3>1. Len(chunk) > 0 /\ Len(chunk) > 1 /\ Len(chunk) > 2 /\ Len(chunk) > 3
      BY <1>2
    <3> QED
      BY <1>2, <3>1, FirstBytes, Zenon
  <2> QED
    BY <1>3, <2>1
<1> HIDE DEF s
<1>10. /\ L1(s[1]) = 4 /\ L1(ByteAfter(s, 1, 1)) = 1 /\ L1(ByteAfter(s, 1, 2)) = 1
       /\ L1(ByteAfter(s, 1, 3)) = 1
  BY <1>7, <1>9, LeadingBits
<1>11. CodePoint(s, 1, 4) = code
  <2>1. CodePoint(s, 1, 4) = (b1 % 8) * 262144 + Tail6(b2) * 4096 + Tail6(b3) * 64 + Tail6(b4)
    BY <1>9, SMT DEF CodePoint
  <2>2. (code \div 64) \div 64 = code \div 4096 /\ (code \div 4096) \div 64 = code \div 262144
    BY <1>5, SMT
  <2> DEFINE q1 == code \div 64
             q2 == code \div 4096
             q3 == code \div 262144
  <2>3. q1 \in Nat /\ q2 \in Nat /\ q3 \in Nat
    BY <1>5, SMT
  <2>4. \A x \in Nat : x % 64 = x - 64 * (x \div 64)
    BY SMT
  <2>5. code % 64 = code - 64 * q1
    BY <1>5, SMT
  <2>6. q1 % 64 = q1 - 64 * q2 /\ q2 % 64 = q2 - 64 * q3
    <3> HIDE DEF q1, q2, q3
    <3>1. q1 \div 64 = q2 /\ q2 \div 64 = q3
      BY <2>2 DEF q1, q2, q3
    <3> QED
      BY <2>3, <2>4, <3>1
  <2> DEFINE w == b1 % 8
             x == Tail6(b2)
             y == Tail6(b3)
             z == Tail6(b4)
  <2>7. w = q3 /\ x = q2 - 64 * q3 /\ y = q1 - 64 * q2 /\ z = code - 64 * q1
    <3>1. w = q3 /\ x = q2 % 64 /\ y = q1 % 64 /\ z = code % 64
      BY <1>8
    <3> HIDE DEF q1, q2, q3, w, x, y, z
    <3> QED
      BY <2>5, <2>6, <3>1
  <2>8. CodePoint(s, 1, 4) = w * 262144 + x * 4096 + y * 64 + z
    BY <2>1, SMT
  <2> HIDE DEF q1, q2, q3, w, x, y, z
  <2>9. w \in Int /\ x \in Int /\ y \in Int /\ z \in Int
    BY <1>5, <2>3, <2>7
  <2> QED
    BY <1>5, <2>3, <2>7, <2>8, <2>9, SMT
<1>12. ~ Overlong(4, code) /\ \A k \in 1 .. 4 - 1 : L1(ByteAfter(s, 1, k)) = 1
  BY <1>5, <1>10, SMT DEF Overlong
<1>13. code \notin LeadUnits \cup TrailUnits
  BY <1>5, UnitKinds, SMT
<1>14. /\ ValidateUtf8Cp(s, 1).next = 5
       /\ ValidateUtf8Cp(s, 1).units = IF code < 65536 THEN <<code>>
               ELSE <<55296 + (code - 65536) \div 1024, 56320 + (code % 1024)>>
  <2>1. IsWhole(s, 4, code)
    BY <1>5, <1>10, <1>11, <1>12, <1>13, SMT DEF IsWhole
  <2> QED
    BY <2>1, Whole, SMT
<1>15. ValidateUtf8Cp(s, 1).units = <<lead, trail>>
  BY <1>5, <1>6, <1>14, SMT
<1> QED
  BY <1>2, <1>14, <1>15 DEF s, chunk

\* What becomes of the units of a name: half of a pair without the other is replaced.
SecondHalf(u, i)  == i > 1 /\ PairAt(u, i - 1)
RepairedAt(u, i) ==
    IF u[i] \in LeadUnits \cup TrailUnits /\ ~ PairAt(u, i) /\ ~ SecondHalf(u, i) THEN 65533 ELSE u[i]
Repaired(u) == [i \in 1 .. Len(u) |-> RepairedAt(u, i)]
\* From a place on.
RepairedFrom(u, i) == [k \in 1 .. Len(u) + 1 - i |-> RepairedAt(u, k + i - 1)]

\* What lies at a place that is not the second half of a pair is read back, or its replacement.
LEMMA PlaceBack ==
    ASSUME NEW u \in Seq(CodeUnits), NEW i \in 1 .. Len(u), ~ SecondHalf(u, i),
           NEW rest \in Seq(Octets)
    PROVE  LET s == Utf8Of(u, i) \o rest
           IN  /\ ValidateUtf8Cp(s, 1).units
                    = IF PairAt(u, i) THEN <<u[i], u[i + 1]>> ELSE <<RepairedAt(u, i)>>
               /\ ValidateUtf8Cp(s, 1).next = Len(Utf8Of(u, i)) + 1
               /\ Len(Utf8Of(u, i)) > 0
<1>1. Len(Utf8Of(u, i)) > 0
  <2>1. Len(Utf8Of(u, i)) = RoomOf(u, i) /\ RoomOf(u, i) \in 1 .. 4
    BY BytesOfPlace DEF RoomOf
  <2> QED
    BY <2>1
<1>2. CASE PairAt(u, i)
  <2>1. u[i] \in LeadUnits /\ u[i + 1] \in TrailUnits /\ Utf8Of(u, i) = Utf8OfPair(u[i], u[i + 1])
    BY <1>2 DEF PairAt, Utf8Of
  <2> QED
    BY <1>1, <1>2, <2>1, PairBack
<1>3. CASE ~ PairAt(u, i) /\ u[i] \in LeadUnits \cup TrailUnits
  <2>1. Utf8Of(u, i) = Replacement /\ RepairedAt(u, i) = 65533
    BY <1>3, SMT DEF Utf8Of, RepairedAt
  <2>2. Replacement = Utf8OfUnit(65533)
    BY SMT DEF Replacement, Utf8OfUnit, Tail6
  <2>3. 65533 \in CodeUnits /\ 65533 \notin LeadUnits \cup TrailUnits
    BY SMT DEF CodeUnits, LeadUnits, TrailUnits
  <2> DEFINE code == 65533
  <2>4. code \in CodeUnits /\ code \notin LeadUnits \cup TrailUnits /\ Utf8Of(u, i) = Utf8OfUnit(code)
        /\ RepairedAt(u, i) = code
    BY <2>1, <2>2, <2>3, SMT
  <2> HIDE DEF code
  <2> QED
    BY <1>1, <1>3, <2>4, UnitBack
<1>4. CASE ~ PairAt(u, i) /\ u[i] \notin LeadUnits \cup TrailUnits
  <2>1. Utf8Of(u, i) = Utf8OfUnit(u[i]) /\ RepairedAt(u, i) = u[i]
    BY <1>4, SMT DEF Utf8Of, RepairedAt
  <2>2. u[i] \in CodeUnits
    OBVIOUS
  <2> QED
    BY <1>1, <1>4, <2>1, <2>2, UnitBack
<1> QED
  BY <1>2, <1>3, <1>4

LEMMA NextOpen ==
    ASSUME NEW u \in Seq(CodeUnits), NEW i \in 1 .. Len(u), ~ SecondHalf(u, i)
    PROVE  ~ SecondHalf(u, Behind(u, i))
<1>1. CASE PairAt(u, i)
  <2>1. u[i + 1] \in TrailUnits /\ Behind(u, i) = i + 2
    BY <1>1 DEF PairAt, Behind
  <2>2. u[i + 1] \notin LeadUnits
    BY <2>1, UnitKinds
  <2>3. (i + 2) - 1 = i + 1
    OBVIOUS
  <2> QED
    BY <2>1, <2>2, <2>3 DEF SecondHalf, PairAt
<1>2. CASE ~ PairAt(u, i)
  <2>1. (i + 1) - 1 = i
    OBVIOUS
  <2> QED
    BY <1>2, <2>1 DEF SecondHalf, Behind
<1> QED
  BY <1>1, <1>2

LEMMA RepairedUnit ==
    ASSUME NEW u \in Seq(CodeUnits), NEW i \in 1 .. Len(u)
    PROVE  RepairedAt(u, i) \in Nat /\ (PairAt(u, i) => /\ RepairedAt(u, i) = u[i]
                                                        /\ i + 1 \in 1 .. Len(u)
                                                        /\ RepairedAt(u, i + 1) = u[i + 1])
<1>1. u[i] \in Nat
  BY UnitsOfName
<1>2. RepairedAt(u, i) \in Nat
  BY <1>1, SMT DEF RepairedAt
<1>3. ASSUME PairAt(u, i)
      PROVE  RepairedAt(u, i) = u[i] /\ i + 1 \in 1 .. Len(u) /\ RepairedAt(u, i + 1) = u[i + 1]
  <2>1. RepairedAt(u, i) = u[i]
    BY <1>3, SMT DEF RepairedAt
  <2>2. i + 1 \in 1 .. Len(u)
    BY <1>3 DEF PairAt
  <2>3. SecondHalf(u, i + 1)
    <3>1. (i + 1) - 1 = i /\ i + 1 > 1
      OBVIOUS
    <3> QED
      BY <1>3, <3>1 DEF SecondHalf
  <2>4. RepairedAt(u, i + 1) = u[i + 1]
    BY <2>3, SMT DEF RepairedAt
  <2> QED
    BY <2>1, <2>2, <2>4
<1> QED
  BY <1>2, <1>3

LEMMA RepairedOn ==
    ASSUME NEW u \in Seq(CodeUnits), NEW i \in 1 .. Len(u), ~ SecondHalf(u, i)
    PROVE  RepairedFrom(u, i)
             = Prefixed(IF PairAt(u, i) THEN <<u[i], u[i + 1]>> ELSE <<RepairedAt(u, i)>>,
                        RepairedFrom(u, Behind(u, i)))
<1> DEFINE n == Len(u)
           units == IF PairAt(u, i) THEN <<u[i], u[i + 1]>> ELSE <<RepairedAt(u, i)>>
           b == Behind(u, i)
           t == RepairedFrom(u, b)
<1>1. n \in Nat /\ b \in i + 1 .. n + 1
  BY UnitsOfName
<1>2. \A k \in 1 .. n : RepairedAt(u, k) \in Nat
  BY RepairedUnit
<1>3. t \in Seq(Nat) /\ Len(t) = n + 1 - b /\ \A k \in 1 .. n + 1 - b : t[k] = RepairedAt(u, k + b - 1)
  <2>1. n + 1 - b \in Nat
    BY <1>1
  <2>2. \A k \in 1 .. n + 1 - b : RepairedAt(u, k + b - 1) \in Nat
    <3> SUFFICES ASSUME NEW k \in 1 .. n + 1 - b PROVE RepairedAt(u, k + b - 1) \in Nat
      OBVIOUS
    <3>1. k + b - 1 \in 1 .. n
      BY <1>1
    <3> QED
      BY <1>2, <3>1
  <2> HIDE DEF n, b
  <2> QED
    BY <2>1, <2>2 DEF RepairedFrom, n
<1>4. /\ units \in Seq(Nat) /\ Len(units) = b - i
      /\ \A k \in 1 .. b - i : units[k] = RepairedAt(u, k + i - 1)
  <2>1. CASE PairAt(u, i)
    <3>1. b = i + 2 /\ units = <<u[i], u[i + 1]>> /\ u[i] \in Nat /\ u[i + 1] \in Nat
      BY <2>1, RepairedUnit, UnitsOfName DEF Behind
    <3>2. RepairedAt(u, i) = u[i] /\ RepairedAt(u, i + 1) = u[i + 1]
      BY <2>1, RepairedUnit
    <3>3. \A k \in 1 .. 2 : (k = 1 /\ k + i - 1 = i) \/ (k = 2 /\ k + i - 1 = i + 1)
      OBVIOUS
    <3> HIDE DEF units, b
    <3>4. b - i = 2
      BY <3>1
    <3> QED
      BY <3>1, <3>2, <3>3, <3>4
  <2>2. CASE ~ PairAt(u, i)
    <3>1. b = i + 1 /\ units = <<RepairedAt(u, i)>> /\ RepairedAt(u, i) \in Nat
      BY <2>2, RepairedUnit DEF Behind
    <3>2. \A k \in 1 .. 1 : k = 1 /\ k + i - 1 = i
      OBVIOUS
    <3> HIDE DEF units, b
    <3>3. b - i = 1
      BY <3>1
    <3> QED
      BY <3>1, <3>2, <3>3
  <2> QED
    BY <2>1, <2>2
<1> HIDE DEF units, t, b, n
<1>5. Prefixed(units, t) = units \o t
  <2>1. units # Invalid /\ t # Invalid
    <3>1. \A x \in Seq(Nat) : x # Invalid
      <4> SUFFICES ASSUME NEW x \in Seq(Nat), x = Invalid PROVE FALSE
        OBVIOUS
      <4>1. x[1] = -1 /\ Len(x) = 1
        BY DEF Invalid
      <4>2. \A k \in 1 .. Len(x) : x[k] \in Nat
        BY ElementOfSeq
      <4>3. x[1] \in Nat
        BY <4>1, <4>2
      <4> QED
        BY <4>1, <4>3
    <3> QED
      BY <1>3, <1>4, <3>1
  <2> QED
    BY <2>1 DEF Prefixed
<1>6. units \o t = RepairedFrom(u, i)
  <2> DEFINE q == units \o t
  <2>1. q \in Seq(Nat) /\ Len(q) = n + 1 - i
    <3>1. q \in Seq(Nat) /\ Len(q) = Len(units) + Len(t)
      BY <1>3, <1>4, ConcatProperties
    <3>2. (b - i) + (n + 1 - b) = n + 1 - i
      BY <1>1
    <3> HIDE DEF q
    <3> QED
      BY <1>3, <1>4, <3>1, <3>2
  <2>2. ASSUME NEW k \in 1 .. n + 1 - i PROVE q[k] = RepairedAt(u, k + i - 1)
    <3>1. CASE k <= b - i
      <4>1. k \in 1 .. Len(units)
        BY <1>1, <1>4, <3>1
      <4>2. q[k] = units[k]
        BY <1>3, <1>4, <4>1, ConcatProperties
      <4> QED
        BY <1>1, <1>4, <3>1, <4>2
    <3>2. CASE k > b - i
      <4> DEFINE j == k - (b - i)
      <4>1. j \in 1 .. n + 1 - b /\ k = Len(units) + j /\ j + b - 1 = k + i - 1
        BY <1>1, <1>4, <3>2
      <4>2. q[k] = t[j]
        <5> HIDE DEF j
        <5>1. j \in 1 .. Len(t)
          BY <1>3, <4>1
        <5>2. /\ Len(units) + j \in 1 .. Len(units) + Len(t)
              /\ ~ (Len(units) + j <= Len(units)) /\ (Len(units) + j) - Len(units) = j
          BY <1>3, <1>4, <5>1
        <5>3. \A m \in 1 .. Len(units) + Len(t) :
                  q[m] = IF m <= Len(units) THEN units[m] ELSE t[m - Len(units)]
          BY <1>3, <1>4, ConcatProperties
        <5>4. q[Len(units) + j] = t[j]
          BY <5>2, <5>3
        <5> QED
          BY <4>1, <5>4
      <4> HIDE DEF j
      <4> QED
        BY <1>3, <4>1, <4>2
    <3>3. k <= b - i \/ k > b - i
      BY <1>1
    <3> QED
      BY <3>1, <3>2, <3>3
  <2>3. q = [k \in 1 .. n + 1 - i |-> q[k]]
    <3> HIDE DEF q
    <3>1. q \in [1 .. Len(q) -> Nat]
      BY <2>1, LenProperties
    <3> QED
      BY <2>1, <3>1
  <2> HIDE DEF q
  <2>4. [k \in 1 .. n + 1 - i |-> q[k]] = [k \in 1 .. n + 1 - i |-> RepairedAt(u, k + i - 1)]
    BY <2>2
  <2> QED
    BY <2>3, <2>4 DEF RepairedFrom, q, n
<1> QED
  BY <1>5, <1>6 DEF units, t, b

\* The string made of a name is UTF-8, and is read back as the name, with the halves of pairs
\* that have no other half replaced (unicode.c, smb2_utf16_to_utf8 and smb2_utf8_to_utf16).
THEOREM NameReadBack ==
    ASSUME NEW u \in Seq(CodeUnits)
    PROVE  Utf8ToUtf16(Utf16ToUtf8(u)) = Repaired(u)
<1>1. PICK h : StringsOf(u, h) /\ Utf16ToUtf8(u) = h[1]
  BY Strings
<1> DEFINE n == Len(u) + 1
           Q == {i \in 1 .. n : ~ SecondHalf(u, i) => Utf8ToUtf16(h[i]) = RepairedFrom(u, i)}
<1>2. Len(u) \in Nat /\ n \in Nat
  OBVIOUS
<1>3. ASSUME NEW i \in 1 .. n, \A j \in 1 .. n : j > i => j \in Q PROVE i \in Q
  <2> SUFFICES ASSUME ~ SecondHalf(u, i) PROVE Utf8ToUtf16(h[i]) = RepairedFrom(u, i)
    OBVIOUS
  <2>1. CASE i = n
    <3>1. h[i] = <<>>
      BY <1>1, <2>1 DEF StringsOf
    <3>2. \E g : DecodesAs(<<>>, g) /\ Utf8ToUtf16(<<>>) = g[1]
      <4>1. <<>> \in Seq(Octets)
        OBVIOUS
      <4> QED
        BY <4>1, Decodes
    <3>3. Utf8ToUtf16(<<>>) = <<>>
      BY <3>2 DEF DecodesAs
    <3>4. RepairedFrom(u, n) = <<>>
      BY <1>2 DEF RepairedFrom
    <3> QED
      BY <2>1, <3>1, <3>3, <3>4
  <2>2. CASE i # n
    <3> DEFINE b == Behind(u, i)
               s == Utf8Of(u, i) \o h[b]
               units == IF PairAt(u, i) THEN <<u[i], u[i + 1]>> ELSE <<RepairedAt(u, i)>>
    <3>0. i \in 1 .. Len(u)
      BY <1>2, <2>2
    <3>1. b \in 1 .. n /\ b > i /\ ~ SecondHalf(u, b)
      BY <1>2, <3>0, UnitsOfName, NextOpen
    <3>2. Utf8ToUtf16(h[b]) = RepairedFrom(u, b)
      <4> HIDE DEF b, n
      <4> QED
        BY <1>3, <3>1
    <3>3. h[i] = s /\ h[b] \in Seq(Octets) /\ Utf8Of(u, i) \in Seq(Octets)
      BY <1>1, <3>0, <3>1, BytesOfPlace DEF StringsOf
    <3>4. /\ ValidateUtf8Cp(s, 1).units = units
          /\ ValidateUtf8Cp(s, 1).next = Len(Utf8Of(u, i)) + 1
          /\ Len(Utf8Of(u, i)) > 0
      BY <3>0, <3>3, PlaceBack
    <3>5. Utf8ToUtf16(s) = Prefixed(units, Utf8ToUtf16(h[b]))
      <4> HIDE DEF units
      <4> QED
        BY <3>3, <3>4, FirstOff
    <3>6. RepairedFrom(u, i) = Prefixed(units, RepairedFrom(u, b))
      BY <3>0, RepairedOn
    <3> QED
      BY <3>2, <3>3, <3>5, <3>6
  <2> QED
    BY <2>1, <2>2
<1>4. 1 .. n \subseteq Q
  <2> HIDE DEF n, Q
  <2> QED
    BY <1>2, <1>3, DownInduction
<1>5. 1 \in Q
  <2> HIDE DEF Q
  <2> QED
    BY <1>2, <1>4
<1>6. ~ SecondHalf(u, 1)
  BY DEF SecondHalf
<1>7. RepairedFrom(u, 1) = Repaired(u)
  <2>1. Len(u) + 1 - 1 = Len(u) /\ \A k \in 1 .. Len(u) : k + 1 - 1 = k
    BY <1>2
  <2> QED
    BY <2>1 DEF RepairedFrom, Repaired
<1> QED
  BY <1>1, <1>5, <1>6, <1>7

\* Where a name has just become a string.
Named ==
    stage = "named" => \E units \in Names : asked = Utf16Size(units) /\ got = Utf16ToUtf8(units)

\* The string made of a name that a server chose takes the room reckoned for it and is UTF-8.
THEOREM NamesFit == MessageSpec => []NameFits
<1>1. MessageInit => Named
  BY DEF MessageInit, Named
<1>2. Named /\ [MessageNext]_messageVars => Named'
  <2> SUFFICES ASSUME Named, [MessageNext]_messageVars PROVE Named'
    OBVIOUS
  <2>1. CASE Send
    BY <2>1 DEF Send, Named
  <2>2. CASE ReadFixed
    BY <2>2 DEF ReadFixed, Named
  <2>3. CASE ReadVariable
    BY <2>3 DEF ReadVariable, Named
  <2>4. CASE ReadName
    BY <2>4 DEF ReadName, Named
  <2>5. CASE Call
    BY <2>5 DEF Call, Named
  <2>6. CASE Hear
    BY <2>6 DEF Hear, Named
  <2>7. CASE FreePdu
    BY <2>7 DEF FreePdu, Named
  <2>8. CASE UNCHANGED messageVars
    BY <2>8 DEF messageVars, Named
  <2> QED
    BY <2>1, <2>2, <2>3, <2>4, <2>5, <2>6, <2>7, <2>8 DEF MessageNext
<1>3. Named => NameFits
  <2> SUFFICES ASSUME NEW units \in Names, asked = Utf16Size(units), got = Utf16ToUtf8(units)
               PROVE  Len(got) = asked /\ Utf8ToUtf16(got) # Invalid
    BY DEF Named, NameFits
  <2>1. units \in Seq(CodeUnits)
    BY NamesAreUnits
  <2>2. Len(got) = asked
    BY <2>1, NameTakesItsRoom
  <2>3. Utf8ToUtf16(got) = Repaired(units)
    BY <2>1, NameReadBack
  <2>4. ASSUME Repaired(units) = Invalid PROVE FALSE
    <3>1. DOMAIN Repaired(units) = 1 .. Len(units) /\ DOMAIN Invalid = 1 .. 1
      BY DEF Repaired, Invalid
    <3>2. 1 \in 1 .. Len(units)
      BY <2>4, <3>1
    <3>3. Repaired(units)[1] \in Nat
      BY <2>1, <3>2, RepairedUnit DEF Repaired
    <3> QED
      BY <2>4, <3>3 DEF Invalid
  <2> QED
    BY <2>2, <2>3, <2>4
<1> QED
  BY <1>1, <1>2, <1>3, PTL DEF MessageSpec

(***************************************************************************)
(* Frames: what an encoder lays is what its decoder reads, and the room    *)
(* the decoder asks for is there.                                          *)
(***************************************************************************)
\* Recursion from the start of a sequence.
Forth(n, X, base, C, g) ==
    /\ g \in [1 .. n + 1 -> X] /\ g[1] = base
    /\ \A i \in 1 .. n : g[i + 1] = C[<<i, g[i]>>]
Turns(n, X, base, C) == base \in X /\ C \in [(1 .. n) \X X -> X]

\* A recursion from the start has a solution: one from the end, turned.
LEMMA ForwardExists ==
    ASSUME NEW n \in Nat, NEW X, NEW base, NEW C, Turns(n, X, base, C)
    PROVE  \E g : Forth(n, X, base, C, g)
<1> USE DEF Turns
<1> DEFINE next == [i \in 1 .. n |-> i + 1]
           D == [p \in (1 .. n) \X X |-> C[<<n + 1 - p[1], p[2]>>]]
<1>1. \A i \in 1 .. n : \A x \in X : D[<<i, x>>] = C[<<n + 1 - i, x>>] /\ next[i] = i + 1
  OBVIOUS
<1>2. D \in [(1 .. n) \X X -> X]
  <2>1. \A p \in (1 .. n) \X X : <<n + 1 - p[1], p[2]>> \in (1 .. n) \X X
    OBVIOUS
  <2> QED
    BY <2>1
<1>3. Steps(n, X, base, next, D)
  <2>1. next \in [1 .. n -> 1 .. n + 1] /\ \A i \in 1 .. n : next[i] > i
    OBVIOUS
  <2> HIDE DEF next, D
  <2> QED
    BY <1>2, <2>1 DEF Steps
<1> HIDE DEF next, D
<1>4. PICK h : Chained(n, X, base, next, D, h)
  BY <1>3, ChainExists
<1> DEFINE g == [i \in 1 .. n + 1 |-> h[n + 2 - i]]
<1>5. g \in [1 .. n + 1 -> X] /\ g[1] = base
  BY <1>4 DEF Chained
<1>6. ASSUME NEW i \in 1 .. n PROVE g[i + 1] = C[<<i, g[i]>>]
  <2> DEFINE j == n + 1 - i
  <2>1. j \in 1 .. n /\ n + 1 - j = i /\ n + 2 - (i + 1) = j /\ n + 2 - i = j + 1
    OBVIOUS
  <2>2. h[j] = D[<<j, h[next[j]]>>] /\ h[j + 1] \in X
    BY <1>4, <2>1 DEF Chained
  <2>3. h[j] = C[<<i, h[j + 1]>>]
    <3>1. next[j] = j + 1 /\ D[<<j, h[j + 1]>>] = C[<<n + 1 - j, h[j + 1]>>]
      BY <1>1, <2>1, <2>2
    <3> HIDE DEF j
    <3> QED
      BY <2>1, <2>2, <3>1
  <2>4. g[i + 1] = h[n + 2 - (i + 1)] /\ g[i] = h[n + 2 - i]
    OBVIOUS
  <2> HIDE DEF g, j
  <2> QED
    BY <2>1, <2>3, <2>4
<1> HIDE DEF g
<1> QED
  BY <1>5, <1>6 DEF Forth

Lengths(parts) == Len(parts) \in Nat /\ \A i \in 1 .. Len(parts) : parts[i].len \in Nat

\* The vectors of a message follow one another (init.c:435).
LEMMA PlacesOfParts ==
    ASSUME NEW first \in Nat, NEW parts, Lengths(parts)
    PROVE  LET P == Places(first, parts)
           IN  /\ P[1] = first
               /\ \A i \in 1 .. Len(parts) : P[i + 1] = P[i] + parts[i].len
               /\ \A i \in 1 .. Len(parts) + 1 : P[i] \in Nat /\ P[i] >= first
<1> DEFINE n == Len(parts)
           C == [p \in (1 .. n) \X Nat |-> p[2] + parts[p[1]].len]
           Turn(i, g) == IF i = 1 THEN first ELSE g[i - 1] + parts[i - 1].len
           Solves(g) == g = [i \in 1 .. Len(parts) + 1 |-> Turn(i, g)]
           P == CHOOSE g : Solves(g)
<1>1. n \in Nat /\ \A i \in 1 .. n : parts[i].len \in Nat
  BY DEF Lengths
<1>2. Places(first, parts) = P
  BY DEF Places
<1>3. C \in [(1 .. n) \X Nat -> Nat] /\ \A i \in 1 .. n : \A x \in Nat : C[<<i, x>>] = x + parts[i].len
  <2> HIDE DEF n
  <2> QED
    BY <1>1
<1> HIDE DEF C
<1>4. PICK g \in [1 .. n + 1 -> Nat] : g[1] = first /\ \A i \in 1 .. n : g[i + 1] = C[<<i, g[i]>>]
  <2> DEFINE X == Nat
  <2>1. Turns(n, X, first, C)
    BY <1>3 DEF Turns
  <2>2. \E g : Forth(n, X, first, C, g)
    <3> HIDE DEF n, X
    <3> QED
      BY <1>1, <2>1, ForwardExists
  <2> QED
    BY <2>2 DEF Forth
<1>5. Solves(g)
  <2>1. \A i \in 1 .. n + 1 : g[i] = Turn(i, g)
    <3> SUFFICES ASSUME NEW i \in 1 .. n + 1 PROVE g[i] = Turn(i, g)
      OBVIOUS
    <3>1. CASE i = 1
      BY <3>1, <1>4
    <3>2. CASE i # 1
      <4>1. i - 1 \in 1 .. n /\ (i - 1) + 1 = i
        BY <1>1, <3>2
      <4> HIDE DEF n
      <4>2. g[i - 1] \in Nat /\ g[i] = C[<<i - 1, g[i - 1]>>]
        BY <4>1, <1>4, <1>1
      <4>3. C[<<i - 1, g[i - 1]>>] = g[i - 1] + parts[i - 1].len
        BY <4>1, <4>2, <1>3
      <4> QED
        BY <4>2, <4>3, <3>2
    <3> QED
      BY <3>1, <3>2
  <2> HIDE DEF Turn
  <2> QED
    BY <2>1, <1>1, <1>4
<1>6. Solves(P)
  <2> HIDE DEF Solves
  <2> QED
    BY <1>5
<1> HIDE DEF P
<1>7. P[1] = first /\ \A i \in 1 .. n : P[i + 1] = P[i] + parts[i].len
  <2>1. \A i \in 1 .. n + 1 : P[i] = Turn(i, P)
    BY <1>6
  <2> HIDE DEF n
  <2>2. P[1] = first
    BY <1>1, <2>1
  <2>3. ASSUME NEW i \in 1 .. n PROVE P[i + 1] = P[i] + parts[i].len
    <3>1. i + 1 \in 1 .. n + 1 /\ i + 1 # 1 /\ (i + 1) - 1 = i
      BY <1>1
    <3> QED
      BY <2>1, <3>1
  <2> QED
    BY <2>2, <2>3
<1> DEFINE Q == {k \in 0 .. n : P[k + 1] \in Nat /\ P[k + 1] >= first}
<1>8. 0 .. n \subseteq Q
  <2>1. 0 \in Q
    BY <1>1, <1>7
  <2>2. ASSUME NEW k \in 1 .. n, k - 1 \in Q PROVE k \in Q
    <3>1. (k - 1) + 1 = k
      OBVIOUS
    <3>2. P[k] \in Nat /\ P[k] >= first
      BY <2>2, <3>1
    <3> HIDE DEF n
    <3>3. P[k + 1] = P[k] + parts[k].len /\ parts[k].len \in Nat /\ k \in 0 .. n
      BY <1>1, <1>7
    <3> QED
      BY <3>2, <3>3
  <2> HIDE DEF Q, n
  <2> QED
    BY <1>1, <2>1, <2>2, Induction
<1>9. ASSUME NEW i \in 1 .. n + 1 PROVE P[i] \in Nat /\ P[i] >= first
  <2>1. i - 1 \in 0 .. n /\ (i - 1) + 1 = i
    BY <1>1
  <2> QED
    BY <1>8, <2>1
<1> QED
  BY <1>2, <1>7, <1>9

\* A body of which the fixed part is made of some cells.
LaidBy(b, first, cells) ==
    /\ b.cells = SetUint(first, cells)
    /\ \A p \in b.parts : p.at \in Int /\ p.at >= first
    /\ b # Refused /\ b.total \in Nat

\* A body has the cells of its fixed part, and its parts lie behind that.
LEMMA BodyLaid ==
    ASSUME NEW first \in Nat, NEW cells, NEW parts, Lengths(parts)
    PROVE  LET b == Body(first, cells, parts)
           IN  /\ LaidBy(b, first, cells)
               /\ b.total = Places(first, parts)[Len(parts) + 1]
               /\ b.total >= first
<1> DEFINE b == Body(first, cells, parts)
           P == Places(first, parts)
           n == Len(parts)
<1>1. n \in Nat /\ DOMAIN parts = 1 .. n
  BY DEF Lengths
<1>2. \A i \in 1 .. n + 1 : P[i] \in Nat /\ P[i] >= first
  BY PlacesOfParts
<1>3. b = [cells |-> SetUint(first, cells), parts |-> Laid(first, parts), total |-> P[n + 1]]
  BY DEF Body
<1> HIDE DEF b
<1>4. b # Refused
  <2>1. "cells" \in DOMAIN b /\ "cells" \notin DOMAIN Refused
    BY <1>3 DEF Refused
  <2> QED
    BY <2>1
<1>5. \A p \in Laid(first, parts) : p.at \in Nat /\ p.at >= first
  BY <1>1, <1>2 DEF Laid
<1> HIDE DEF P, n
<1>6. n + 1 \in 1 .. n + 1
  BY <1>1
<1>7. b.cells = SetUint(first, cells) /\ b.parts = Laid(first, parts) /\ b.total = P[n + 1]
  BY <1>3
<1> QED
  BY <1>2, <1>4, <1>5, <1>6, <1>7 DEF LaidBy, P, n, b

\* So has one padded at its end.
LEMMA PaddedLaid ==
    ASSUME NEW first \in Nat, NEW cells, NEW parts, Lengths(parts)
    PROVE  LET b == Padded(Body(first, cells, parts))
           IN  /\ LaidBy(b, first, cells)
               /\ b.total >= Places(first, parts)[Len(parts) + 1]
               /\ b.total >= first
<1> DEFINE a == Body(first, cells, parts)
           b == Padded(a)
<1>1. LaidBy(a, first, cells) /\ a.total = Places(first, parts)[Len(parts) + 1] /\ a.total >= first
  BY BodyLaid
<1>2. a = [cells |-> SetUint(first, cells), parts |-> Laid(first, parts),
           total |-> Places(first, parts)[Len(parts) + 1]]
  BY DEF Body
<1>3. b = [cells |-> a.cells, parts |-> a.parts, total |-> PadTo64bit(a.total)]
  BY <1>1, <1>2 DEF Padded, LaidBy
<1> HIDE DEF a
<1>4. PadTo64bit(a.total) \in Nat /\ PadTo64bit(a.total) >= a.total
  BY <1>1 DEF PadTo64bit, LaidBy
<1> HIDE DEF b
<1>5. b # Refused
  <2>1. "cells" \in DOMAIN b /\ "cells" \notin DOMAIN Refused
    BY <1>3 DEF Refused
  <2> QED
    BY <2>1
<1>6. b.cells = a.cells /\ b.parts = a.parts /\ b.total = PadTo64bit(a.total)
  BY <1>3
<1> QED
  BY <1>1, <1>4, <1>5, <1>6 DEF LaidBy, a, b

\* The others of some cells lie before or behind a place.
Apart(cells, off, width, value) ==
    \A d \in cells : /\ d.at \in Nat /\ d.width \in Nat
                     /\ \/ d.at + d.width <= off \/ off + width <= d.at
                        \/ d = Word(off, width, value)

\* What one cell holds is what is read at its place.
LEMMA FieldRead ==
    ASSUME NEW b, NEW first \in Nat, NEW cells, LaidBy(b, first, cells),
           NEW len \in Nat, len <= first,
           NEW off \in Nat, NEW width \in Nat \ {0}, off + width <= len, NEW value,
           Word(off, width, value) \in cells, Apart(cells, off, width, value)
    PROVE  GetUint(b, len, off, width) = value
<1> DEFINE w == Word(off, width, value)
           Under == {c \in b.cells : c.at < off + width /\ off < c.at + c.width}
<1>1. w.at = off /\ w.width = width /\ w.value = value
  BY DEF Word
<1> HIDE DEF w
<1>2. w \in Under
  BY <1>1 DEF LaidBy, SetUint, w
<1>3. \A c \in Under : c = w
  BY <1>1 DEF LaidBy, SetUint, Apart, w
<1>4. Under = {w}
  BY <1>2, <1>3
<1>5. Cardinality(Under) = 1
  BY <1>4, FS_Singleton
<1>6. ~ \E p \in b.parts : p.at < off + width /\ off < p.at + p.len
  BY DEF LaidBy
<1>7. (CHOOSE c \in Under : TRUE).value = value
  BY <1>1, <1>4
<1>8. ~ (off + width > len) /\ Under # {} /\ \A c \in Under : c.at = off /\ c.width = width
  BY <1>1, <1>4
<1> QED
  BY <1>5, <1>6, <1>7, <1>8 DEF GetUint

Clear(cells, off, width) ==
    \A d \in cells : /\ d.at \in Nat /\ d.width \in Nat
                     /\ d.at + d.width <= off \/ off + width <= d.at

\* Where no cell lies, the bytes are zero.
LEMMA FieldClear ==
    ASSUME NEW b, NEW first \in Nat, NEW cells, LaidBy(b, first, cells),
           NEW len \in Nat, len <= first,
           NEW off \in Nat, NEW width \in Nat \ {0}, off + width <= len, Clear(cells, off, width)
    PROVE  GetUint(b, len, off, width) = 0
<1> DEFINE Under == {c \in b.cells : c.at < off + width /\ off < c.at + c.width}
<1>1. Under = {}
  BY DEF LaidBy, SetUint, Clear
<1>2. ~ \E p \in b.parts : p.at < off + width /\ off < p.at + p.len
  BY DEF LaidBy
<1>3. ~ (off + width > len) /\ Cardinality(Under) # 1
  BY <1>1, FS_EmptySet
<1> QED
  BY <1>1, <1>2, <1>3 DEF GetUint

\* A name has a length in UTF-16.
LEMMA NameLength ==
    ASSUME NEW name \in Bytes
    PROVE  Utf8ToUtf16(name) \in Seq(Int) /\ NameLen(name) \in Nat
<1>1. name \in Seq(Octets)
  BY DEF Bytes
<1>2. PICK h : DecodesAs(name, h) /\ Utf8ToUtf16(name) = h[1]
  BY <1>1, Decodes
<1>3. h[1] \in Seq(Int)
  BY <1>1, <1>2 DEF DecodesAs
<1>4. Utf8ToUtf16(name) \in Seq(Int)
  BY <1>2, <1>3
<1> HIDE DEF Utf8ToUtf16
<1> QED
  BY <1>4 DEF NameLen

\* Where a body with one part ends, and with two.
LEMMA OneEnd ==
    ASSUME NEW first \in Nat, NEW p, p.len \in Nat
    PROVE  Lengths(<<p>>) /\ Places(first, <<p>>)[Len(<<p>>) + 1] = first + p.len
<1> DEFINE s == <<p>>
<1>1. Len(s) = 1 /\ s[1] = p
  OBVIOUS
<1> HIDE DEF s
<1>2. Lengths(s)
  BY <1>1 DEF Lengths
<1>3. /\ Places(first, s)[1] = first
      /\ \A i \in 1 .. Len(s) : Places(first, s)[i + 1] = Places(first, s)[i] + s[i].len
  BY <1>2, PlacesOfParts
<1>4. Places(first, s)[2] = Places(first, s)[1] + s[1].len
  BY <1>1, <1>3
<1> QED
  BY <1>1, <1>2, <1>3, <1>4 DEF s

LEMMA TwoEnd ==
    ASSUME NEW first \in Nat, NEW p, NEW q, p.len \in Nat, q.len \in Nat
    PROVE  Lengths(<<p, q>>) /\ Places(first, <<p, q>>)[Len(<<p, q>>) + 1] = first + p.len + q.len
<1> DEFINE s == <<p, q>>
<1>1. Len(s) = 2 /\ s[1] = p /\ s[2] = q
  OBVIOUS
<1> HIDE DEF s
<1>2. Lengths(s)
  BY <1>1 DEF Lengths
<1>3. /\ Places(first, s)[1] = first
      /\ \A i \in 1 .. Len(s) : Places(first, s)[i + 1] = Places(first, s)[i] + s[i].len
  BY <1>2, PlacesOfParts
<1>4. Places(first, s)[2] = Places(first, s)[1] + s[1].len /\ Places(first, s)[3] = Places(first, s)[2] + s[2].len
  BY <1>1, <1>3
<1> QED
  BY <1>1, <1>2, <1>3, <1>4 DEF s

\* Sequences of one and two parts, however they are put together.
LEMMA OneOrTwo ==
    ASSUME NEW x, NEW y
    PROVE  <<x>> \o <<>> = <<x>> /\ <<x>> \o <<y>> = <<x, y>>
<1> DEFINE S == {x, y}
<1>1. <<x>> \in Seq(S) /\ <<y>> \in Seq(S) /\ <<>> \in Seq(S)
  OBVIOUS
<1>2. Len(<<x>>) = 1 /\ Len(<<y>>) = 1 /\ Len(<<x, y>>) = 2 /\ <<x, y>> \in Seq(S)
  OBVIOUS
<1> HIDE DEF S
<1>3. /\ <<x>> \o <<y>> \in Seq(S) /\ Len(<<x>> \o <<y>>) = 2
      /\ \A i \in 1 .. 2 : (<<x>> \o <<y>>)[i] = <<x, y>>[i]
  BY <1>1, <1>2, ConcatProperties
<1>4. <<x>> \o <<y>> = <<x, y>>
  <2> DEFINE s == <<x>> \o <<y>>
             t == <<x, y>>
  <2>1. s \in Seq(S) /\ t \in Seq(S) /\ Len(s) = Len(t) /\ \A i \in 1 .. Len(s) : s[i] = t[i]
    BY <1>2, <1>3
  <2> HIDE DEF s, t
  <2>2. s = t
    BY <2>1, SeqEqual
  <2> QED
    BY <2>2 DEF s, t
<1> QED
  BY <1>1, <1>4, ConcatEmptySeq

\* Bodies of up to two vectors behind the fixed part.
LEMMA NoParts ==
    ASSUME NEW first \in Nat, NEW cells
    PROVE  LET b == Padded(Body(first, cells, <<>>)) IN LaidBy(b, first, cells) /\ b.total >= first
<1>1. Lengths(<<>>)
  BY DEF Lengths
<1> QED
  BY <1>1, PaddedLaid

LEMMA OnePart ==
    ASSUME NEW first \in Nat, NEW cells, NEW p, p.len \in Nat
    PROVE  LET b == Padded(Body(first, cells, <<p>>))
           IN  LaidBy(b, first, cells) /\ b.total >= first + p.len
<1> DEFINE s == <<p>>
<1>1. Lengths(s) /\ Places(first, s)[Len(s) + 1] = first + p.len
  BY OneEnd
<1> HIDE DEF s
<1>2. LET b == Padded(Body(first, cells, s))
      IN  LaidBy(b, first, cells) /\ b.total >= first + p.len
  BY <1>1, PaddedLaid
<1> QED
  BY <1>2 DEF s

LEMMA TwoParts ==
    ASSUME NEW first \in Nat, NEW cells, NEW p, NEW q, p.len \in Nat, q.len \in Nat
    PROVE  LET b == Padded(Body(first, cells, <<p, q>>))
           IN  LaidBy(b, first, cells) /\ b.total >= first + p.len + q.len
<1> DEFINE s == <<p, q>>
<1>1. Lengths(s) /\ Places(first, s)[Len(s) + 1] = first + p.len + q.len
  BY TwoEnd
<1> HIDE DEF s
<1>2. LET b == Padded(Body(first, cells, s))
      IN  LaidBy(b, first, cells) /\ b.total >= first + p.len + q.len
  BY <1>1, PaddedLaid
<1> QED
  BY <1>2 DEF s

\* Two sequences of parts make one.
LEMMA LengthsOfBoth ==
    ASSUME NEW s, NEW t, NEW S, s \in Seq(S), t \in Seq(S), \A x \in S : x.len \in Nat
    PROVE  Lengths(s \o t)
<1>1. s \o t \in Seq(S)
  BY ConcatProperties
<1> DEFINE u == s \o t
<1> HIDE DEF u
<1>2. u \in Seq(S)
  BY <1>1 DEF u
<1>3. Lengths(u)
  BY <1>2 DEF Lengths
<1> QED
  BY <1>3 DEF u

\* A value at a place of the fixed part, with nothing else there.
Holds(cells, off, width, value) ==
    Word(off, width, value) \in cells /\ Apart(cells, off, width, value)
\* The decoder of the fixed part wants no more than there is.
Roomy(b, fixed, p) == p.n < 0 \/ p.n = 0 \/ (p.n > 0 /\ fixed + p.n <= b.total)

(***************************************************************************)
(* Requests.                                                               *)
(***************************************************************************)
LEMMA TreeConnectRequestFits ==
    ASSUME NEW r, r.path_length \in Nat
    PROVE  LET b == CmdTreeConnectAsync(r) IN Roomy(b, 8, ProcessTreeConnectRequestFixed(b))
<1> DEFINE cells == {Word(0, 2, 9), Word(4, 2, HEADER_SIZE + 8)} \cup
                    Put(r, [flags |-> <<2, 2>>, path_length |-> <<6, 2>>])
           path  == Part(r.path_length, r.path)
           b     == Padded(Body(8, cells, <<path>>))
<1>1. CmdTreeConnectAsync(r) = b
  BY Zenon DEF CmdTreeConnectAsync, EncodeTreeConnectRequest
<1>2. Holds(cells, 6, 2, r.path_length)
  BY DEF Holds, Apart, Word, Put
<1>3. path.len = r.path_length
  BY DEF Part
<1> HIDE DEF cells, path
<1>4. LaidBy(b, 8, cells) /\ b.total >= 8 + r.path_length
  BY <1>3, OnePart
<1> HIDE DEF b
<1>5. GetUint(b, 8, 6, 2) = r.path_length
  BY <1>2, <1>4, FieldRead DEF Holds
<1>6. Roomy(b, 8, ProcessTreeConnectRequestFixed(b))
  BY <1>4, <1>5 DEF ProcessTreeConnectRequestFixed, Get, Reads, Refused, Roomy
<1> QED
  BY <1>1, <1>6

LEMMA SessionSetupRequestFits ==
    ASSUME NEW r, r.security_buffer_length \in Nat
    PROVE  LET b == CmdSessionSetupAsync(r) IN Roomy(b, 24, ProcessSessionSetupRequestFixed(b))
<1> DEFINE cells == {Word(0, 2, 25), Word(12, 2, HEADER_SIZE + 24)} \cup
             Put(r, [flags |-> <<2, 1>>, security_mode |-> <<3, 1>>, capabilities |-> <<4, 4>>,
                     channel |-> <<8, 4>>, security_buffer_length |-> <<14, 2>>,
                     previous_session_id |-> <<16, 8>>])
           blob  == Part(r.security_buffer_length, r.security_buffer)
           b     == Padded(Body(24, cells, <<blob>>))
<1>1. CmdSessionSetupAsync(r) = b
  BY Zenon DEF CmdSessionSetupAsync, EncodeSessionSetupRequest
<1>2. Holds(cells, 14, 2, r.security_buffer_length)
  BY DEF Holds, Apart, Word, Put
<1>3. blob.len = r.security_buffer_length
  BY DEF Part
<1> HIDE DEF cells, blob
<1>4. LaidBy(b, 24, cells) /\ b.total >= 24 + r.security_buffer_length
  BY <1>3, OnePart
<1> HIDE DEF b
<1>5. GetUint(b, 24, 14, 2) = r.security_buffer_length
  BY <1>2, <1>4, FieldRead DEF Holds
<1>6. Get(b, 24, SessionSetupRequestFields).security_buffer_length = r.security_buffer_length
  BY <1>5 DEF Get, SessionSetupRequestFields
<1>7. Roomy(b, 24, ProcessSessionSetupRequestFixed(b))
  BY <1>4, <1>6 DEF ProcessSessionSetupRequestFixed, Reads, Refused, Roomy
<1> QED
  BY <1>1, <1>7

LEMMA NegotiateRequestFits ==
    ASSUME NEW r, NEW c, r.dialect_count \in Nat
    PROVE  LET b == CmdNegotiateAsync(r, c)
           IN  Roomy(b, 36, ProcessNegotiateRequestFixed(b, HEADER_SIZE + b.total))
<1> DEFINE plain == PadTo32bit(36 + 2 * r.dialect_count)
           len   == IF c.smb311 THEN PadTo64bit(plain) ELSE plain
           here  == Part(2 * r.dialect_count, r.dialects)
           gap   == Zeroes(len - 36 - 2 * r.dialect_count)
           cells == {Word(0, 2, 36)} \cup
                 {Word(28, 4, IF c.smb311 THEN len + HEADER_SIZE ELSE 0),
                  Word(32, 2, IF c.smb311 THEN 2 ELSE 0)} \cup
                 Put(r, [dialect_count |-> <<2, 2>>, security_mode |-> <<4, 2>>,
                         capabilities |-> <<8, 4>>, client_guid |-> <<12, 16>>])
           parts == IF c.smb311 THEN <<here, gap>> \o Contexts(c) ELSE <<here, gap>>
           b     == Padded(Body(36, cells, parts))
<1>1. CmdNegotiateAsync(r, c) = b
  BY Zenon DEF CmdNegotiateAsync, EncodeNegotiateRequest
<1>2. /\ Holds(cells, 32, 2, IF c.smb311 THEN 2 ELSE 0)
      /\ Holds(cells, 2, 2, r.dialect_count)
  BY DEF Holds, Apart, Word, Put
<1>3. here.len = 2 * r.dialect_count /\ gap.len \in Nat
  <2>1. plain \in Nat /\ plain >= 36 + 2 * r.dialect_count
    BY DEF PadTo32bit
  <2> HIDE DEF plain
  <2>2. len \in Nat /\ len >= plain
    BY <2>1 DEF PadTo64bit
  <2> HIDE DEF len
  <2> QED
    BY <2>1, <2>2 DEF Part, Zeroes
<1> HIDE DEF cells, here, gap
<1>4. LaidBy(b, 36, cells) /\ (~ c.smb311 => b.total >= 36 + 2 * r.dialect_count)
  <2>1. CASE c.smb311
    <3> DEFINE preauth == EncodePreauthContext(c)
               crypt   == EncodeEncryptionContext
               S       == {here, gap, preauth, crypt}
    <3>1. preauth.len \in Nat /\ crypt.len \in Nat
      BY DEF EncodePreauthContext, EncodeEncryptionContext, Part, PadTo64bit
    <3> HIDE DEF preauth, crypt
    <3>2. <<here, gap>> \in Seq(S) /\ <<preauth, crypt>> \in Seq(S) /\ \A x \in S : x.len \in Nat
      BY <1>3, <3>1
    <3> HIDE DEF S
    <3>3. Lengths(<<here, gap>> \o <<preauth, crypt>>)
      BY <3>2, LengthsOfBoth
    <3>4. Lengths(parts)
      BY <2>1, <3>3 DEF Contexts, preauth, crypt
    <3> HIDE DEF parts
    <3> QED
      BY <2>1, <3>4, PaddedLaid
  <2>2. CASE ~ c.smb311
    <3>1. LaidBy(b, 36, cells) /\ b.total >= 36 + here.len + gap.len
      <4>1. LET two == Padded(Body(36, cells, <<here, gap>>))
            IN  LaidBy(two, 36, cells) /\ two.total >= 36 + here.len + gap.len
        BY <1>3, TwoParts
      <4>2. parts = <<here, gap>>
        BY <2>2
      <4> HIDE DEF parts
      <4> QED
        BY <4>1, <4>2
    <3> HIDE DEF b
    <3> QED
      BY <3>1, <1>3 DEF LaidBy
  <2> QED
    BY <2>1, <2>2
<1> HIDE DEF b
<1>5. GetUint(b, 36, 32, 2) = (IF c.smb311 THEN 2 ELSE 0) /\ GetUint(b, 36, 2, 2) = r.dialect_count
  BY <1>2, <1>4, FieldRead DEF Holds
<1> DEFINE t == Get(b, 36, NegotiateRequestFields)
<1>6. t.negotiate_context_count = (IF c.smb311 THEN 2 ELSE 0) /\ t.dialect_count = r.dialect_count
  BY <1>5 DEF Get, NegotiateRequestFields
<1>7. Roomy(b, 36, ProcessNegotiateRequestFixed(b, HEADER_SIZE + b.total))
  <2> HIDE DEF t
  <2> DEFINE whole  == HEADER_SIZE + b.total
             want == IF t.negotiate_context_count > 0 THEN whole - HEADER_SIZE - 36
                                                      ELSE 2 * t.dialect_count
  <2>1. ProcessNegotiateRequestFixed(b, whole) = IF ~ Sized(b, 36, 36) THEN Refused ELSE Reads(want, t)
    <3> HIDE DEF whole
    <3> QED
      BY Zenon DEF ProcessNegotiateRequestFixed, t
  <2> QED
    BY <1>4, <1>6, <2>1 DEF Reads, Refused, Roomy, LaidBy, HEADER_SIZE
<1> QED
  BY <1>1, <1>7

LEMMA CreateRequestFits ==
    ASSUME NEW r, r.create_context_length \in Nat, r.name \in Bytes, CmdCreateAsync(r) # Refused
    PROVE  Roomy(CmdCreateAsync(r), 56, ProcessCreateRequestFixed(CmdCreateAsync(r)))
<1> DEFINE bytes == NameLen(r.name)
           many  == r.create_context_length
           name_off == PadTo32bit(HEADER_SIZE + 56)
           ctx_off  == IF many = 0 THEN 0
                    ELSE IF bytes = 0 THEN PadTo64bit(4 + name_off) ELSE PadTo64bit(bytes + name_off)
           cells == {Word(0, 2, 57), Word(44, 2, name_off), Word(46, 2, bytes), Word(48, 4, ctx_off)} \cup
                 Put(r, [security_flags |-> <<2, 1>>, requested_oplock_level |-> <<3, 1>>,
                         impersonation_level |-> <<4, 4>>, smb_create_flags |-> <<8, 8>>,
                         desired_access |-> <<24, 4>>, file_attributes |-> <<28, 4>>,
                         share_access |-> <<32, 4>>, create_disposition |-> <<36, 4>>,
                         create_options |-> <<40, 4>>, create_context_length |-> <<52, 4>>])
           name == IF bytes = 0 THEN Zeroes(8) ELSE Part(PadTo64bit(bytes), Turned(Utf8ToUtf16(r.name)))
           context == Part(PadTo64bit(many), r.create_context)
           parts == <<name>> \o (IF many = 0 THEN <<>> ELSE <<context>>)
           b == Padded(Body(56, cells, parts))
<1>0. CmdCreateAsync(r) = b
  <2>1. EncodeCreateRequest(r) # Refused
    BY DEF CmdCreateAsync, Padded
  <2> QED
    BY <2>1, Zenon DEF EncodeCreateRequest, CmdCreateAsync
<1>1. bytes \in Nat /\ many \in Nat
  BY NameLength
<1> HIDE DEF bytes
<1>2. name_off = 120 /\ ctx_off = IF many = 0 THEN 0 ELSE IF bytes = 0 THEN 128 ELSE 120 + PadTo64bit(bytes)
  BY <1>1 DEF PadTo64bit, PadTo32bit, HEADER_SIZE
<1>3. PadTo64bit(bytes) \in Nat /\ PadTo64bit(many) \in Nat /\ (many = 0 => PadTo64bit(many) = 0)
      /\ PadTo64bit(many) >= many /\ PadTo64bit(bytes) >= bytes /\ PadTo64bit(PadTo64bit(bytes)) = PadTo64bit(bytes)
  BY <1>1 DEF PadTo64bit
<1> HIDE DEF name_off, ctx_off
<1>6. /\ Apart(cells, 0, 2, 57) /\ Apart(cells, 44, 2, name_off) /\ Apart(cells, 46, 2, bytes)
      /\ Apart(cells, 48, 4, ctx_off) /\ Apart(cells, 52, 4, many)
  BY DEF Apart, Word, Put
<1>7. /\ Word(0, 2, 57) \in cells /\ Word(44, 2, name_off) \in cells /\ Word(46, 2, bytes) \in cells
      /\ Word(48, 4, ctx_off) \in cells /\ Word(52, 4, many) \in cells
  BY DEF Word, Put
<1>8. /\ Lengths(parts)
      /\ Places(56, parts)[Len(parts) + 1] = 56 + (IF bytes = 0 THEN 8 ELSE PadTo64bit(bytes))
                                                + PadTo64bit(many)
  <2>2. name.len = (IF bytes = 0 THEN 8 ELSE PadTo64bit(bytes)) /\ context.len = PadTo64bit(many)
    BY DEF Part, Zeroes
  <2>3. parts = IF many = 0 THEN <<name>> ELSE <<name, context>>
    <3> HIDE DEF name, context, many
    <3> QED
      BY OneOrTwo
  <2> HIDE DEF cells, parts, name, context, many
  <2> QED
    BY <1>3, <2>2, <2>3, OneEnd, TwoEnd
<1> HIDE DEF cells, parts, many
<1>9. LaidBy(b, 56, cells) /\ b.total >= Places(56, parts)[Len(parts) + 1]
  BY <1>8, PaddedLaid
<1> HIDE DEF b
<1>10. /\ GetUint(b, 56, 0, 2) = 57 /\ GetUint(b, 56, 44, 2) = 120 /\ GetUint(b, 56, 46, 2) = bytes
       /\ GetUint(b, 56, 48, 4) = ctx_off /\ GetUint(b, 56, 52, 4) = many
  BY <1>2, <1>6, <1>7, <1>9, FieldRead
<1>11. Sized(b, 57, 56)
  BY <1>10 DEF Sized, Even
<1>12. Roomy(b, 56, ProcessCreateRequestFixed(b))
  <2> DEFINE t == Get(b, 56, CreateRequestFields)
  <2>1. /\ t.name_offset = 120 /\ t.name_length = bytes /\ t.create_context_offset = ctx_off
        /\ t.create_context_length = many
    BY <1>10 DEF Get, CreateRequestFields
  <2> HIDE DEF t
  <2>2. b.total \in Nat
    BY <1>9 DEF LaidBy
  <2>3. CASE many = 0 /\ bytes = 0
    <3>1. ProcessCreateRequestFixed(b) = Reads(0, t)
      BY <1>11, <2>1, <2>3 DEF ProcessCreateRequestFixed, t
    <3> QED
      BY <3>1 DEF Reads, Roomy
  <2>4. CASE ~ (many = 0 /\ bytes = 0)
    <3> DEFINE more == IF ctx_off > 120 THEN PadTo64bit(ctx_off - 120) ELSE bytes
    <3>1. more \in Nat /\ 56 + many + more <= b.total
      <4>1. CASE many = 0
        BY <4>1, <1>1, <1>2, <1>3, <1>8, <1>9, <2>2, <2>4
      <4>2. CASE many # 0 /\ bytes = 0
        BY <4>2, <1>1, <1>2, <1>3, <1>8, <1>9, <2>2 DEF PadTo64bit
      <4>3. CASE many # 0 /\ bytes # 0
        <5>1. ctx_off - 120 = PadTo64bit(bytes) /\ ctx_off > 120
          BY <1>1, <1>2, <1>3, <4>3
        <5> QED
          BY <4>3, <5>1, <1>1, <1>2, <1>3, <1>8, <1>9, <2>2, SMTT(30)
      <4> QED
        BY <4>1, <4>2, <4>3
    <3>2. ~ (t.name_length > 0 /\ t.name_offset < HEADER_SIZE + 56)
          /\ ~ (t.create_context_length > 0 /\ t.create_context_offset < HEADER_SIZE + 56)
          /\ ~ (t.create_context_length = 0 /\ t.name_length = 0)
      BY <2>1, <2>4, <1>1, <1>2, <1>3 DEF HEADER_SIZE
    <3>3. ProcessCreateRequestFixed(b) =
            Reads(t.name_offset - (HEADER_SIZE + 56) + t.create_context_length +
                  IF t.create_context_offset > t.name_offset
                  THEN PadTo64bit(t.create_context_offset - t.name_offset) ELSE t.name_length, t)
      BY <3>2, <1>11 DEF ProcessCreateRequestFixed, t
    <3>4. ProcessCreateRequestFixed(b).n = many + more
      <4> HIDE DEF more
      <4>1. t.name_offset - (HEADER_SIZE + 56) + t.create_context_length + more = many + more
        BY <3>1, <2>1, <1>1 DEF HEADER_SIZE
      <4>2. ProcessCreateRequestFixed(b) =
              Reads(t.name_offset - (HEADER_SIZE + 56) + t.create_context_length + more, t)
        BY <2>1, <3>3 DEF more
      <4> QED
        BY <4>1, <4>2 DEF Reads
    <3> HIDE DEF more
    <3> QED
      BY <3>1, <3>4, <1>1, <2>2 DEF Roomy
  <2> QED
    BY <2>3, <2>4
<1> QED
  BY <1>0, <1>12

LEMMA WriteRequestFits ==
    ASSUME NEW r, NEW c, r.write_channel_info_length \in Nat, Cut(r, c) \in Nat,
           CmdWriteAsync(r, c) # Refused
    PROVE  LET b == CmdWriteAsync(r, c) IN Roomy(b, 48, ProcessWriteRequestFixed(b))
<1> DEFINE info    == r.write_channel_info_length
           carries == info > 0 /\ r.write_channel_info # NoData
           cells   == {Word(0, 2, 49), Word(2, 2, HEADER_SIZE + 48), Word(4, 4, Cut(r, c)),
                       Word(40, 2, IF carries THEN 48 + HEADER_SIZE ELSE 0)} \cup
                      Put(r, [offset |-> <<8, 8>>, file_id |-> <<16, FD_SIZE>>,
                              channel |-> <<32, 4>>, remaining_bytes |-> <<36, 4>>,
                              write_channel_info_length |-> <<42, 2>>, flags |-> <<44, 4>>])
           channel == Part(PadTo64bit(info), r.write_channel_info)
           parts   == IF carries THEN <<channel>> ELSE <<>>
           a       == Body(48, cells, parts)
           data    == [at |-> PadTo64bit(a.total), len |-> Cut(r, c), data |-> r.buf]
           b       == [a EXCEPT !.total = PadTo64bit(@) + Cut(r, c), !.parts = @ \cup {data}]
<1>1. CmdWriteAsync(r, c) = b
  <2>1. EncodeWriteRequest(r, c) # Refused
    BY DEF CmdWriteAsync
  <2>2. EncodeWriteRequest(r, c) = a
    BY <2>1, Zenon DEF EncodeWriteRequest
  <2> HIDE DEF a
  <2> QED
    BY <2>1, <2>2, Zenon DEF CmdWriteAsync
<1>2. /\ Holds(cells, 4, 4, Cut(r, c)) /\ Holds(cells, 42, 2, info)
      /\ Holds(cells, 40, 2, IF carries THEN 48 + HEADER_SIZE ELSE 0)
  <2> HIDE DEF carries
  <2> QED
    BY DEF Holds, Apart, Word, Put, FD_SIZE
<1>3. channel.len = PadTo64bit(info) /\ channel.len \in Nat /\ channel.len >= info
  BY DEF Part, PadTo64bit
<1> HIDE DEF channel, cells
<1>4. /\ LaidBy(a, 48, cells) /\ a.total >= 48
      /\ carries => a.total >= 48 + PadTo64bit(info)
  <2>1. CASE carries
    <3>1. Lengths(<<channel>>) /\ Places(48, <<channel>>)[Len(<<channel>>) + 1] = 48 + channel.len
      BY <1>3, OneEnd
    <3>2. parts = <<channel>>
      BY <2>1
    <3>3. Lengths(parts) /\ Places(48, parts)[Len(parts) + 1] = 48 + channel.len
      BY <3>1, <3>2
    <3> HIDE DEF parts
    <3>4. LaidBy(a, 48, cells) /\ a.total = Places(48, parts)[Len(parts) + 1] /\ a.total >= 48
      BY <3>3, BodyLaid
    <3> QED
      BY <3>3, <3>4, <1>3
  <2>2. CASE ~ carries
    <3>1. Lengths(parts)
      BY <2>2 DEF Lengths
    <3> QED
      BY <2>2, <3>1, BodyLaid
  <2> QED
    BY <2>1, <2>2
<1>5. DOMAIN a = {"cells", "parts", "total"}
  BY DEF Body
<1> HIDE DEF a, carries
<1>6. PadTo64bit(a.total) \in Nat /\ PadTo64bit(a.total) >= a.total
  BY <1>4 DEF PadTo64bit, LaidBy
<1>7. /\ b.cells = a.cells /\ b.parts = a.parts \cup {data}
      /\ b.total = PadTo64bit(a.total) + Cut(r, c) /\ "cells" \in DOMAIN b
  <2> HIDE DEF data
  <2> QED
    BY <1>5
<1> HIDE DEF b
<1>8. LaidBy(b, 48, cells) /\ b.total = PadTo64bit(a.total) + Cut(r, c)
  <2>1. b # Refused
    <3>1. "cells" \in DOMAIN b /\ "cells" \notin DOMAIN Refused
      BY <1>7 DEF Refused
    <3> QED
      BY <3>1
  <2>2. b.cells = a.cells /\ b.parts = a.parts \cup {data} /\ b.total = PadTo64bit(a.total) + Cut(r, c)
    BY <1>7
  <2>3. data.at = PadTo64bit(a.total)
    OBVIOUS
  <2> HIDE DEF data
  <2> QED
    BY <1>4, <1>6, <2>1, <2>2, <2>3 DEF LaidBy
<1>9. /\ GetUint(b, 48, 4, 4) = Cut(r, c) /\ GetUint(b, 48, 42, 2) = info
      /\ GetUint(b, 48, 40, 2) = IF carries THEN 48 + HEADER_SIZE ELSE 0
  BY <1>2, <1>8, FieldRead DEF Holds
<1> DEFINE t == Get(b, 48, WriteRequestFields)
           lead == IF info = 0 THEN 0 ELSE t.write_channel_info_offset - HEADER_SIZE - 48
<1>10. /\ t.length = Cut(r, c) /\ t.write_channel_info_length = info
       /\ t.write_channel_info_offset = IF carries THEN 48 + HEADER_SIZE ELSE 0
  BY <1>9 DEF Get, WriteRequestFields
<1>11. Roomy(b, 48, ProcessWriteRequestFixed(b))
  <2> HIDE DEF t, info
  <2>1. info \in Nat /\ (carries => info > 0)
    BY DEF info, carries
  <2>2. ProcessWriteRequestFixed(b) =
          IF GetUint(b, 48, 0, 2) > 49 \/ lead < 0 THEN Refused
          ELSE IF t.length > 0 THEN Reads(lead + PadTo64bit(info) + t.length, t)
          ELSE IF info > 0 THEN Reads(lead + info, t)
          ELSE Reads(0, t)
    BY <1>10 DEF ProcessWriteRequestFixed, t
  <2>3. CASE info # 0 /\ ~ carries
    <3>1. lead < 0
      BY <2>3, <1>10 DEF HEADER_SIZE
    <3>2. ProcessWriteRequestFixed(b) = Refused
      BY <2>2, <3>1
    <3> QED
      BY <3>2 DEF Refused, Roomy
  <2>4. CASE info = 0 \/ carries
    <3>1. lead = 0 /\ (info = 0 => PadTo64bit(info) = 0)
      BY <2>4, <1>10, <2>1 DEF HEADER_SIZE, PadTo64bit
    <3> HIDE DEF lead
    <3>2. ProcessWriteRequestFixed(b).n \in {-1, PadTo64bit(info) + Cut(r, c), info, 0}
      BY <2>2, <3>1, <1>10, <2>1, <1>3 DEF Reads, Refused
    <3>3. 48 + PadTo64bit(info) + Cut(r, c) <= b.total
      BY <1>4, <1>6, <1>8, <2>1, <2>4, <3>1, <1>3 DEF LaidBy
    <3> QED
      BY <1>3, <1>8, <2>1, <3>2, <3>3 DEF Roomy, LaidBy
  <2> QED
    BY <2>3, <2>4
<1> QED
  BY <1>1, <1>11

LEMMA LockRequestFits ==
    ASSUME NEW r, Len(r.locks) \in Nat
    PROVE  LET b == CmdLockAsync(r) IN Roomy(b, 48, ProcessLockRequestFixed(b))
<1> DEFINE n     == Len(r.locks)
           lock  == IF n = 0 THEN {} ELSE Put(r.locks[1], LockElement(24))
           cells == {Word(0, 2, 48), Word(2, 2, n),
                     Word(4, 4, r.lock_sequence_number * 2^28 + r.lock_sequence_index)} \cup
                    Put(r, [file_id |-> <<8, FD_SIZE>>]) \cup lock
           rest  == Part(PadTo64bit(24 * n), Tail(r.locks))
           parts == IF n <= 1 THEN <<>> ELSE <<rest>>
           b     == Padded(Body(48, cells, parts))
<1>1. CmdLockAsync(r) = b
  BY Zenon DEF CmdLockAsync, EncodeLockRequest
<1>2. Holds(cells, 2, 2, n)
  <2>1. \A d \in lock : d.at \in Nat /\ d.width \in Nat /\ d.at >= 24
    BY DEF Put, LockElement
  <2> HIDE DEF lock, n
  <2> QED
    BY <2>1 DEF Holds, Apart, Word, Put, FD_SIZE
<1>3. rest.len \in Nat /\ rest.len >= 24 * n
  <2>1. n \in Nat
    OBVIOUS
  <2>2. rest.len = PadTo64bit(24 * n)
    BY DEF Part
  <2> HIDE DEF n, rest
  <2> QED
    BY <2>1, <2>2 DEF PadTo64bit
<1> HIDE DEF cells, rest
<1>4. LaidBy(b, 48, cells) /\ b.total >= 48 /\ (n > 1 => b.total >= 48 + 24 * n)
  <2>1. CASE n <= 1
    BY <2>1, NoParts
  <2>2. CASE ~ (n <= 1)
    <3>1. LaidBy(b, 48, cells) /\ b.total >= 48 + rest.len
      BY <2>2, <1>3, OnePart
    <3> HIDE DEF b
    <3> QED
      BY <1>3, <3>1 DEF LaidBy
  <2> QED
    BY <2>1, <2>2
<1> HIDE DEF b
<1>5. GetUint(b, 48, 2, 2) = n
  BY <1>2, <1>4, FieldRead DEF Holds
<1>6. ProcessLockRequestFixed(b).n = -1 \/ (n >= 1 /\ ProcessLockRequestFixed(b).n = 24 * (n - 1))
  BY <1>5 DEF ProcessLockRequestFixed, Get, Reads, Refused
<1>7. Roomy(b, 48, ProcessLockRequestFixed(b))
  BY <1>4, <1>6 DEF Roomy, LaidBy
<1> QED
  BY <1>1, <1>7

LEMMA QueryDirectoryRequestFits ==
    ASSUME NEW r, r.name \in Bytes, CmdQueryDirectoryAsync(r) # Refused
    PROVE  LET b == CmdQueryDirectoryAsync(r)
           IN  Roomy(b, 32, ProcessQueryDirectoryRequestFixed(b, HEADER_SIZE + b.total))
<1> DEFINE bytes == NameLen(r.name)
           cells == {Word(0, 2, 33), Word(24, 2, HEADER_SIZE + 32), Word(26, 2, NameLen(r.name))} \cup
                  Put(r, [file_information_class |-> <<2, 1>>, flags |-> <<3, 1>>,
                          file_index |-> <<4, 4>>, file_id |-> <<8, FD_SIZE>>,
                          output_buffer_length |-> <<28, 4>>])
           name  == NamePart(r.name)
           b     == Padded(Body(32, cells, <<name>>))
<1>1. CmdQueryDirectoryAsync(r) = b
  <2>1. EncodeQueryDirectoryRequest(r) # Refused
    BY DEF CmdQueryDirectoryAsync, Padded
  <2> QED
    BY <2>1, Zenon DEF EncodeQueryDirectoryRequest, CmdQueryDirectoryAsync
<1>2. bytes \in Nat /\ name.len = bytes
  BY NameLength DEF NamePart, NameLen, Part
<1>3. Holds(cells, 24, 2, HEADER_SIZE + 32) /\ Holds(cells, 26, 2, bytes)
  <2> HIDE DEF NameLen
  <2> QED
    BY DEF Holds, Apart, Word, Put, FD_SIZE
<1> HIDE DEF cells, name, bytes
<1>4. LaidBy(b, 32, cells) /\ b.total >= 32 + bytes
  BY <1>2, OnePart
<1> HIDE DEF b
<1>5. GetUint(b, 32, 24, 2) = HEADER_SIZE + 32 /\ GetUint(b, 32, 26, 2) = bytes
  BY <1>3, <1>4, FieldRead DEF Holds
<1> DEFINE t == Get(b, 32, QueryDirectoryRequestFields)
<1>6. t.file_name_offset = HEADER_SIZE + 32 /\ t.file_name_length = bytes
  BY <1>5 DEF Get, QueryDirectoryRequestFields
<1>7. Roomy(b, 32, ProcessQueryDirectoryRequestFixed(b, HEADER_SIZE + b.total))
  <2> HIDE DEF t
  <2> DEFINE whole  == HEADER_SIZE + b.total
             lead == t.file_name_offset - HEADER_SIZE - 32
             len  == t.file_name_length
  <2>1. ProcessQueryDirectoryRequestFixed(b, whole) =
          IF ~ Sized(b, 33, 32) \/ (len > 0 /\ t.file_name_offset + len > whole % 65536) THEN Refused
          ELSE IF len = 0 THEN Reads(0, t)
          ELSE IF lead < 0 THEN Refused
          ELSE Reads(lead + len, t)
    BY DEF ProcessQueryDirectoryRequestFixed, t
  <2> QED
    BY <1>2, <1>4, <1>6, <2>1 DEF Reads, Refused, Roomy, LaidBy, HEADER_SIZE
<1> QED
  BY <1>1, <1>7

\* A body with a part or without.
LEMMA AtMostOnePart ==
    ASSUME NEW first \in Nat, NEW cells, NEW parts, NEW p, p.len \in Nat,
           parts = <<>> \/ parts = <<p>>
    PROVE  LET b == Padded(Body(first, cells, parts))
           IN  /\ LaidBy(b, first, cells) /\ b.total >= first
               /\ parts = <<p>> => b.total >= first + p.len
<1>1. CASE parts = <<>>
  <2>1. LET b == Padded(Body(first, cells, <<>>)) IN LaidBy(b, first, cells) /\ b.total >= first
    BY NoParts
  <2>2. <<>> # <<p>>
    OBVIOUS
  <2> QED
    BY <1>1, <2>1, <2>2
<1>2. CASE parts = <<p>>
  <2>1. LET b == Padded(Body(first, cells, <<p>>))
        IN  LaidBy(b, first, cells) /\ b.total >= first + p.len
    BY OnePart
  <2> DEFINE b == Padded(Body(first, cells, parts))
  <2>2. LaidBy(b, first, cells) /\ b.total >= first + p.len
    BY <1>2, <2>1
  <2> HIDE DEF b
  <2>3. b.total >= first
    BY <2>2 DEF LaidBy
  <2> QED
    BY <2>2, <2>3 DEF b
<1> QED
  BY <1>1, <1>2

\* How long a structure laid out as a body is.
LEMMA Totals ==
    ASSUME NEW first \in Nat, NEW cells, NEW p, NEW q, p.len \in Nat, q.len \in Nat
    PROVE  /\ Body(first, cells, <<>>).total \in Nat
           /\ Body(first, cells, <<p>>).total \in Nat
           /\ Body(first, cells, <<p, q>>).total \in Nat
<1>1. Lengths(<<>>) /\ Lengths(<<p>>) /\ Lengths(<<p, q>>)
  BY OneEnd, TwoEnd DEF Lengths
<1>2. ASSUME NEW parts, Lengths(parts) PROVE Body(first, cells, parts).total \in Nat
  BY <1>2, BodyLaid DEF LaidBy
<1> QED
  BY <1>1, <1>2

LEMMA IoctlRequestFits ==
    ASSUME NEW r, r.input_count \in Nat
    PROVE  LET b == CmdIoctlAsync(r) IN Roomy(b, 56, ProcessIoctlRequestFixed(b))
<1> DEFINE n     == r.input_count
           cells == {Word(0, 2, 57), Word(24, 4, HEADER_SIZE + 56), Word(32, 4, 0),
                     Word(44, 4, 65535)} \cup
             Put(r, [ctl_code |-> <<4, 4>>, file_id |-> <<8, FD_SIZE>>,
                     input_count |-> <<28, 4>>, flags |-> <<48, 4>>])
           given == Part(r.input_count, r.input)
           parts == IF r.input_count > 0 THEN <<given>> ELSE <<>>
           b     == Padded(Body(56, cells, parts))
<1>1. CmdIoctlAsync(r) = b
  BY DEF CmdIoctlAsync, EncodeIoctlRequest
<1>2. Holds(cells, 24, 4, HEADER_SIZE + 56) /\ Holds(cells, 28, 4, n)
  BY SMT DEF Holds, Apart, Word, Put, FD_SIZE
<1>3. given.len = n /\ (n > 0 => parts = <<given>>) /\ (~ (n > 0) => parts = <<>>)
  BY DEF Part
<1> HIDE DEF cells, given, parts
<1>4. LaidBy(b, 56, cells) /\ b.total >= 56 + n
  <2>1. LaidBy(b, 56, cells) /\ b.total >= 56 /\ (parts = <<given>> => b.total >= 56 + given.len)
    BY <1>3, AtMostOnePart
  <2> HIDE DEF b
  <2> QED
    BY <1>3, <2>1 DEF LaidBy
<1> HIDE DEF b
<1>5. GetUint(b, 56, 24, 4) = HEADER_SIZE + 56 /\ GetUint(b, 56, 28, 4) = n
  BY <1>2, <1>4, FieldRead DEF Holds
<1> DEFINE t == Get(b, 56, IoctlRequestFields)
<1>6. t.input_offset = HEADER_SIZE + 56 /\ t.input_count = n
  BY <1>5 DEF Get, IoctlRequestFields
<1>7. Roomy(b, 56, ProcessIoctlRequestFixed(b))
  <2> HIDE DEF t
  <2>1. ProcessIoctlRequestFixed(b) =
          IF ~ Sized(b, 57, 56) THEN Refused
          ELSE IF t.input_count = 0 THEN Reads(0, t)
          ELSE IF IoctlRequestOffset(t) < 0 THEN Refused
          ELSE Reads(IoctlRequestOffset(t) + t.input_count, t)
    BY DEF ProcessIoctlRequestFixed, t
  <2>2. IoctlRequestOffset(t) = 0
    BY <1>6 DEF IoctlRequestOffset, HEADER_SIZE
  <2> QED
    BY <1>4, <1>6, <2>1, <2>2 DEF Reads, Refused, Roomy, LaidBy
<1> QED
  BY <1>1, <1>7

\* The structures of SET_INFO have a length.
LEMMA SetInfoDataLength ==
    ASSUME NEW r, r.file_info_class \in {"basic", "end_of_file", "rename", "disposition"},
           r.file_info_class = "rename" => r.data.file_name \in Bytes
    PROVE  SetInfoData(r).total \in Nat
<1>1. CASE r.file_info_class = "rename"
  <2> DEFINE rni   == r.data
             cells == {Word(0, 1, rni.replace_if_exist), Word(8, 8, 0), Word(16, 4, NameLen(rni.file_name))}
             name  == Part(NameLen(rni.file_name), Turned(Utf8ToUtf16(rni.file_name)))
             end   == Zeroes(8)
  <2>1. name.len \in Nat /\ end.len \in Nat
    BY <1>1, NameLength DEF Part, Zeroes
  <2>2. SetInfoData(r) = Body(20, cells, <<name, end>>)
    BY <1>1 DEF SetInfoData, EncodeRenameInfo
  <2> HIDE DEF cells, name, end
  <2> QED
    BY <2>1, <2>2, Totals
<1>2. CASE r.file_info_class = "basic"
  <2> DEFINE cells == Put(WithTimes(r.data, TvTimevalToWin),
                 [creation_time |-> <<0, 8>>, last_access_time |-> <<8, 8>>,
                  last_write_time |-> <<16, 8>>, change_time |-> <<24, 8>>,
                  file_attributes |-> <<32, 4>>])
             p == Zeroes(0)
  <2>1. SetInfoData(r) = Body(40, cells, <<>>) /\ p.len \in Nat
    BY <1>2 DEF SetInfoData, EncodeFileBasicInfo, Zeroes, Part
  <2> HIDE DEF cells, p
  <2> QED
    BY <2>1, Totals
<1>3. CASE r.file_info_class \in {"end_of_file", "disposition"}
  <2> DEFINE eof == {Word(0, 8, r.data.end_of_file)}
             del == {Word(0, 1, r.data.delete_pending)}
             p   == Zeroes(0)
  <2>1. (SetInfoData(r) = Body(8, eof, <<>>) \/ SetInfoData(r) = Body(1, del, <<>>)) /\ p.len \in Nat
    BY <1>3 DEF SetInfoData, Zeroes, Part
  <2> HIDE DEF eof, del, p
  <2> QED
    BY <2>1, Totals
<1> QED
  BY <1>1, <1>2, <1>3

LEMMA SetInfoRequestFits ==
    ASSUME NEW r, NEW c, c.passthrough => r.buffer_length \in Nat,
           ~ c.passthrough /\ r.file_info_class = "rename" => r.data.file_name \in Bytes,
           CmdSetInfoAsync(r, c) # Refused
    PROVE  LET b == CmdSetInfoAsync(r, c) IN Roomy(b, 32, ProcessSetInfoRequestFixed(b))
<1> DEFINE b     == CmdSetInfoAsync(r, c)
           made  == EncodeSetInfoRequest(r, c)
           head == {Word(0, 2, 33)} \cup
                Put(r, [info_type |-> <<2, 1>>, file_info_class |-> <<3, 1>>,
                        additional_information |-> <<12, 4>>, file_id |-> <<16, FD_SIZE>>])
           over == {Word(4, 4, r.buffer_length), Word(8, 2, r.buffer_offset)}
           data == SetInfoData(r)
<1>1. b = Padded(made)
  BY Zenon DEF CmdSetInfoAsync
<1>2. made # Refused
  BY <1>1 DEF Padded
<1>3. \A d \in head : d.at \in Nat /\ d.width \in Nat /\ (d.at + d.width <= 4 \/ d.at >= 12)
  BY DEF Put, Word, FD_SIZE
<1> HIDE DEF head
<1> SUFFICES \/ GetUint(b, 32, 4, 4) \in Nat /\ 32 + GetUint(b, 32, 4, 4) <= b.total
             \/ GetUint(b, 32, 4, 4) = 0
  BY DEF ProcessSetInfoRequestFixed, Get, SetInfoRequestFields, Reads, Refused, Roomy
<1>4. CASE c.passthrough /\ r.buffer_length > 0
  <2> DEFINE cells == head \cup {Word(8, 2, HEADER_SIZE + 32)}
             given == Part(r.buffer_length,
                           [r.data EXCEPT !.cells = @ \cup SetUint(r.buffer_length, over)])
  <2>1. made = Body(32, cells, <<given>>)
    BY <1>4 DEF EncodeSetInfoRequest, head
  <2>2. Clear(cells, 4, 4)
    BY <1>3 DEF Clear, Word
  <2>3. given.len \in Nat
    BY <1>4 DEF Part
  <2> HIDE DEF cells, given
  <2>4. LaidBy(b, 32, cells)
    BY <1>1, <2>1, <2>3, OnePart
  <2>5. GetUint(b, 32, 4, 4) = 0
    BY <2>2, <2>4, FieldClear
  <2> QED
    BY <2>5
<1>5. CASE c.passthrough /\ r.buffer_length = 0
  <2> DEFINE cells == head \cup over
  <2>1. made = Body(32, cells, <<>>)
    BY <1>5 DEF EncodeSetInfoRequest, head
  <2>2. Holds(cells, 4, 4, 0)
    BY <1>3, <1>5 DEF Holds, Apart, Word
  <2> HIDE DEF cells
  <2>3. LaidBy(b, 32, cells)
    BY <1>1, <2>1, NoParts
  <2>4. GetUint(b, 32, 4, 4) = 0
    BY <2>2, <2>3, FieldRead DEF Holds
  <2> QED
    BY <2>4
<1>6. CASE ~ c.passthrough
  <2> DEFINE cells == head \cup {Word(4, 4, data.total), Word(8, 2, HEADER_SIZE + 32)}
             given == Part(data.total, data)
             wrong == \/ r.info_type # "file"
                      \/ r.file_info_class \notin {"basic", "end_of_file", "rename", "disposition"}
                      \/ r.file_info_class = "rename" /\ Utf8ToUtf16(r.data.file_name) = Invalid
  <2>1. ~ wrong
    <3>1. wrong => made = Refused
      BY <1>6 DEF EncodeSetInfoRequest
    <3> QED
      BY <1>2, <3>1
  <2>2. made = Body(32, cells, <<given>>)
    BY <1>6, <2>1 DEF EncodeSetInfoRequest, head
  <2>3. data.total \in Nat
    BY <1>6, <2>1, SetInfoDataLength
  <2>4. Holds(cells, 4, 4, data.total)
    <3> HIDE DEF data
    <3> QED
      BY <1>3 DEF Holds, Apart, Word
  <2>5. given.len = data.total
    BY DEF Part
  <2> HIDE DEF cells, given, data
  <2>6. LaidBy(b, 32, cells) /\ b.total >= 32 + given.len
    BY <1>1, <2>2, <2>3, <2>5, OnePart
  <2>7. GetUint(b, 32, 4, 4) = data.total
    BY <2>4, <2>6, FieldRead DEF Holds
  <2> QED
    BY <2>3, <2>5, <2>6, <2>7
<1> QED
  BY <1>4, <1>5, <1>6

LEMMA QueryInfoRequestFits ==
    ASSUME NEW r, r.input_buffer_length \in Nat, CmdQueryInfoAsync(r) # Refused
    PROVE  LET b == CmdQueryInfoAsync(r) IN Roomy(b, 40, ProcessQueryInfoRequestFixed(b))
<1> DEFINE cells == {Word(0, 2, 41), Word(8, 2, HEADER_SIZE + 40)} \cup
                  Put(r, [info_type |-> <<2, 1>>, file_info_class |-> <<3, 1>>,
                          output_buffer_length |-> <<4, 4>>, input_buffer_length |-> <<12, 4>>,
                          additional_information |-> <<16, 4>>, flags |-> <<20, 4>>,
                          file_id |-> <<24, FD_SIZE>>])
           b     == Padded(Body(40, cells, <<>>))
<1>1. CmdQueryInfoAsync(r) = b /\ r.input_buffer_length = 0
  <2>1. EncodeQueryInfoRequest(r) # Refused
    BY DEF CmdQueryInfoAsync, Padded
  <2>2. ~ (r.input_buffer_length > 0)
    BY <2>1 DEF EncodeQueryInfoRequest
  <2>3. CmdQueryInfoAsync(r) = b
    BY <2>2, Zenon DEF CmdQueryInfoAsync, EncodeQueryInfoRequest
  <2> QED
    BY <2>2, <2>3
<1>2. Holds(cells, 12, 4, 0)
  BY <1>1 DEF Holds, Apart, Word, Put, FD_SIZE
<1> HIDE DEF cells
<1>3. LaidBy(b, 40, cells)
  BY NoParts
<1> HIDE DEF b
<1>4. GetUint(b, 40, 12, 4) = 0
  BY <1>2, <1>3, FieldRead DEF Holds
<1>5. Get(b, 40, QueryInfoRequestFields).input_buffer_length = 0
  BY <1>4 DEF Get, QueryInfoRequestFields
<1>6. Roomy(b, 40, ProcessQueryInfoRequestFixed(b))
  BY <1>5 DEF ProcessQueryInfoRequestFixed, Reads, Refused, Roomy
<1> QED
  BY <1>1, <1>6

\* A break says with its size what follows the size.
LEMMA BreakFits ==
    ASSUME NEW size \in {24, 36, 44}, NEW cells, Holds(cells, 0, 2, size)
    PROVE  LET b == Padded(Body(size, cells, <<>>))
           IN  /\ Roomy(b, 2, ProcessOplockBreakFixed(b))
               /\ Roomy(b, 2, ProcessOplockBreakRequestFixed(b))
<1> DEFINE b == Padded(Body(size, cells, <<>>))
<1>1. LaidBy(b, size, cells) /\ b.total >= size
  BY NoParts
<1> HIDE DEF b
<1>2. GetUint(b, 2, 0, 2) = size
  BY <1>1, FieldRead DEF Holds
<1>3. /\ Roomy(b, 2, ProcessOplockBreakFixed(b))
      /\ Roomy(b, 2, ProcessOplockBreakRequestFixed(b))
  BY <1>1, <1>2 DEF ProcessOplockBreakFixed, ProcessOplockBreakRequestFixed, Roomy, Reads, Refused, LaidBy
<1> QED
  BY <1>3 DEF b

\* Both structures of OPLOCK_BREAK are as long as they say.
LEMMA OplockBreaksFit ==
    ASSUME NEW r, NEW b \in {CmdOplockBreakAsync(r), CmdOplockBreakReplyAsync(r),
                             CmdOplockBreakNotificationAsync(r)}
    PROVE  /\ Roomy(b, 2, ProcessOplockBreakFixed(b))
           /\ Roomy(b, 2, ProcessOplockBreakRequestFixed(b))
<1> DEFINE cells == {Word(0, 2, 24)} \cup Put(r, [oplock_level |-> <<2, 1>>, file_id |-> <<8, FD_SIZE>>])
<1>1. b = Padded(Body(24, cells, <<>>))
  BY DEF CmdOplockBreakAsync, CmdOplockBreakReplyAsync, CmdOplockBreakNotificationAsync,
         EncodeOplockBreakAcknowledgement, EncodeOplockBreakReply, EncodeOplockBreakNotification
<1>2. Holds(cells, 0, 2, 24)
  BY DEF Holds, Apart, Word, Put, FD_SIZE
<1> HIDE DEF cells
<1> QED
  BY <1>1, <1>2, BreakFits

LEMMA LeaseBreaksFit ==
    ASSUME NEW r, NEW b \in {CmdLeaseBreakAsync(r), CmdLeaseBreakReplyAsync(r),
                             CmdLeaseBreakNotificationAsync(r)}
    PROVE  /\ Roomy(b, 2, ProcessOplockBreakFixed(b))
           /\ Roomy(b, 2, ProcessOplockBreakRequestFixed(b))
<1> DEFINE ack  == {Word(0, 2, 36), Word(4, 4, r.lease_duration)} \cup Put(r, [lease_key |-> <<8, 16>>])
           back == {Word(0, 2, 36)} \cup
             Put(r, [flags |-> <<4, 4>>, lease_key |-> <<8, 16>>, lease_state |-> <<24, 4>>,
                     lease_duration |-> <<28, 4>>])
           note == {Word(0, 2, 44), Word(4, 4, r.share_mask_hint)} \cup
             Put(r, [new_epoch |-> <<2, 2>>, lease_key |-> <<8, 16>>])
<1>1. \/ b = Padded(Body(36, ack, <<>>)) \/ b = Padded(Body(36, back, <<>>))
      \/ b = Padded(Body(44, note, <<>>))
  BY DEF CmdLeaseBreakAsync, CmdLeaseBreakReplyAsync, CmdLeaseBreakNotificationAsync,
         EncodeLeaseBreakAcknowledgement, EncodeLeaseBreakReply, EncodeLeaseBreakNotification
<1>2. Holds(ack, 0, 2, 36) /\ Holds(back, 0, 2, 36) /\ Holds(note, 0, 2, 44)
  BY DEF Holds, Apart, Word, Put
<1> HIDE DEF ack, back, note
<1> QED
  BY <1>1, <1>2, BreakFits

(***************************************************************************)
(* Replies.                                                                *)
(***************************************************************************)
LEMMA ErrorReplyFits ==
    ASSUME NEW r, r.byte_count \in Nat, r.byte_count <= 8
    PROVE  LET b == CmdErrorReplyAsync(r) IN Roomy(b, 8, ProcessErrorFixed(b))
<1> DEFINE cells == {Word(0, 2, 9)} \cup Put(r, [error_context_count |-> <<2, 1>>,
                                                 byte_count |-> <<4, 4>>])
           made  == Body(9, cells, <<>>)
           b     == Padded(made)
           t     == Get(b, 8, [error_context_count |-> <<2, 1>>, byte_count |-> <<4, 4>>])
<1>1. CmdErrorReplyAsync(r) = b
  BY Zenon DEF CmdErrorReplyAsync, EncodeErrorReply
<1>2. Holds(cells, 4, 4, r.byte_count)
  BY DEF Holds, Apart, Word, Put
<1> HIDE DEF cells
<1>3. LaidBy(b, 9, cells) /\ b.total >= 16
  <2>1. LaidBy(made, 9, cells) /\ made.total >= 9 /\ DOMAIN made = {"cells", "parts", "total"}
    <3>1. Lengths(<<>>)
      BY DEF Lengths
    <3>2. LaidBy(made, 9, cells) /\ made.total >= 9
      BY <3>1, BodyLaid
    <3> QED
      BY <3>2 DEF Body
  <2>2. LaidBy(b, 9, cells)
    BY NoParts
  <2> HIDE DEF made
  <2>3. b = [made EXCEPT !.total = PadTo64bit(@)]
    BY <2>1 DEF Padded, LaidBy
  <2>4. b.total = PadTo64bit(made.total)
    BY <2>1, <2>3
  <2>5. PadTo64bit(made.total) >= 16
    BY <2>1 DEF PadTo64bit, LaidBy
  <2> QED
    BY <2>2, <2>4, <2>5
<1> HIDE DEF b
<1>4. GetUint(b, 8, 4, 4) = r.byte_count
  BY <1>2, <1>3, FieldRead DEF Holds
<1>5. t.byte_count = r.byte_count
  BY <1>4 DEF Get
<1>6. Roomy(b, 8, ProcessErrorFixed(b))
  <2> HIDE DEF t
  <2>1. ProcessErrorFixed(b) = IF Sized(b, 9, 8) THEN Reads(t.byte_count, t) ELSE Refused
    BY Zenon DEF ProcessErrorFixed, t
  <2> QED
    BY <1>3, <1>5, <2>1 DEF Reads, Refused, Roomy, LaidBy
<1> QED
  BY <1>1, <1>6

LEMMA NegotiateReplyFits ==
    ASSUME NEW r, NEW c, r.security_buffer_length \in Nat
    PROVE  LET b == CmdNegotiateReplyAsync(r, c)
           IN  Roomy(b, 64, ProcessNegotiateFixed(b, HEADER_SIZE + b.total))
<1> DEFINE many   == r.security_buffer_length
           seclen == IF r.security_buffer_length > 0 THEN PadTo64bit(64) ELSE 0
           blob   == Part(seclen, r.security_buffer)
           rest   == IF seclen > 0 THEN <<blob>> ELSE <<>>
           cells  == {Word(0, 2, 65), Word(6, 2, IF c.smb311 THEN 2 ELSE 0),
                      Word(56, 2, 64 + HEADER_SIZE), Word(60, 4, 64 + seclen + HEADER_SIZE)} \cup
                 Put(r, [security_mode |-> <<2, 2>>, dialect_revision |-> <<4, 2>>,
                         server_guid |-> <<8, 16>>, capabilities |-> <<24, 4>>,
                         max_transact_size |-> <<28, 4>>, max_read_size |-> <<32, 4>>,
                         max_write_size |-> <<36, 4>>, system_time |-> <<40, 8>>,
                         server_start_time |-> <<48, 8>>,
                         security_buffer_length |-> <<58, 2>>])
           parts  == IF c.smb311 THEN rest \o Contexts(c) ELSE rest
           b      == Padded(Body(64, cells, parts))
           t      == Get(b, 64, NegotiateFields)
<1>1. CmdNegotiateReplyAsync(r, c) = b
  BY Zenon DEF CmdNegotiateReplyAsync, EncodeNegotiateReply
<1>2. Holds(cells, 56, 2, 64 + HEADER_SIZE) /\ Holds(cells, 58, 2, many)
  <2> HIDE DEF seclen
  <2> QED
    BY DEF Holds, Apart, Word, Put
<1>3. blob.len \in Nat
  <2>1. seclen \in {0, 64}
    BY DEF PadTo64bit
  <2> HIDE DEF seclen
  <2> QED
    BY <2>1 DEF Part
<1> HIDE DEF cells, blob
<1>4. LaidBy(b, 64, cells)
  <2> DEFINE preauth == EncodePreauthContext(c)
             crypt   == EncodeEncryptionContext
             S       == {blob, preauth, crypt}
  <2>1. preauth.len \in Nat /\ crypt.len \in Nat
    BY DEF EncodePreauthContext, EncodeEncryptionContext, Part, PadTo64bit
  <2> HIDE DEF preauth, crypt, seclen
  <2>2. rest \in Seq(S) /\ <<preauth, crypt>> \in Seq(S) /\ \A x \in S : x.len \in Nat
    <3>1. <<blob>> \in Seq(S) /\ <<>> \in Seq(S) /\ <<preauth, crypt>> \in Seq(S)
      OBVIOUS
    <3>2. rest = <<blob>> \/ rest = <<>>
      OBVIOUS
    <3>3. \A x \in S : x.len \in Nat
      BY <1>3, <2>1
    <3> HIDE DEF rest, S
    <3> QED
      BY <3>1, <3>2, <3>3
  <2>3. Contexts(c) = <<preauth, crypt>>
    BY DEF Contexts, preauth, crypt
  <2> HIDE DEF S, rest
  <2>4. Lengths(rest \o <<preauth, crypt>>) /\ Lengths(rest)
    <3>1. Lengths(rest \o <<preauth, crypt>>)
      BY <2>2, LengthsOfBoth
    <3>2. Lengths(rest)
      BY <2>2 DEF Lengths
    <3> QED
      BY <3>1, <3>2
  <2>5. Lengths(parts)
    BY <2>3, <2>4
  <2> HIDE DEF parts
  <2> QED
    BY <2>5, PaddedLaid
<1> HIDE DEF b
<1>5. GetUint(b, 64, 56, 2) = 64 + HEADER_SIZE /\ GetUint(b, 64, 58, 2) = many
  BY <1>2, <1>4, FieldRead DEF Holds
<1>6. t.security_buffer_offset = 128 /\ t.security_buffer_length = many
  BY <1>5 DEF Get, NegotiateFields, HEADER_SIZE
<1>7. Roomy(b, 64, ProcessNegotiateFixed(b, HEADER_SIZE + b.total))
  <2> HIDE DEF t, many
  <2> DEFINE whole == HEADER_SIZE + b.total
             off   == t.security_buffer_offset
             len   == t.security_buffer_length
             want  == IF t.dialect_revision >= 311 THEN whole - HEADER_SIZE - 64
                      ELSE off - HEADER_SIZE - 64 + len
  <2>1. ProcessNegotiateFixed(b, whole) =
          IF ~ Sized(b, 65, 64) \/ (len > 0 /\ off + len > whole % 65536) THEN Refused
          ELSE IF len = 0 THEN Reads(0, t)
          ELSE IF off < HEADER_SIZE + 64 THEN Refused
          ELSE Reads(want, t)
    <3> HIDE DEF whole
    <3> QED
      BY DEF ProcessNegotiateFixed, t
  <2>2. whole \in Nat /\ whole = 64 + b.total /\ whole % 65536 <= whole /\ many \in Nat
    BY <1>4 DEF LaidBy, HEADER_SIZE, many
  <2> HIDE DEF whole
  <2>3. ASSUME len > 0, ~ (off + len > whole % 65536) PROVE want > 0 /\ 64 + want <= b.total
    BY <1>4, <1>6, <2>2, <2>3 DEF LaidBy, HEADER_SIZE
  <2> HIDE DEF want
  <2>4. Roomy(b, 64, ProcessNegotiateFixed(b, whole))
    BY <1>4, <1>6, <2>1, <2>2, <2>3 DEF Reads, Refused, Roomy, LaidBy
  <2> QED
    BY <2>4 DEF whole
<1> QED
  BY <1>1, <1>7

LEMMA SessionSetupReplyFits ==
    ASSUME NEW r, r.security_buffer_length \in Nat
    PROVE  LET b == CmdSessionSetupReplyAsync(r)
           IN  Roomy(b, 8, ProcessSessionSetupFixed(b, HEADER_SIZE + b.total))
<1> DEFINE many  == r.security_buffer_length
           cells == {Word(0, 2, 9), Word(4, 2, HEADER_SIZE + 8)} \cup
            Put(r, [session_flags |-> <<2, 2>>, security_buffer_length |-> <<6, 2>>])
           blob  == Part(PadTo32bit(r.security_buffer_length), r.security_buffer)
           b     == Padded(Body(8, cells, <<blob>>))
           t     == Get(b, 8, SessionSetupFields)
<1>1. CmdSessionSetupReplyAsync(r) = b
  BY Zenon DEF CmdSessionSetupReplyAsync, EncodeSessionSetupReply
<1>2. Holds(cells, 4, 2, HEADER_SIZE + 8) /\ Holds(cells, 6, 2, many)
  BY DEF Holds, Apart, Word, Put
<1>3. blob.len \in Nat /\ blob.len >= many
  BY DEF Part, PadTo32bit
<1> HIDE DEF cells, blob
<1>4. LaidBy(b, 8, cells) /\ b.total >= 8 + blob.len
  BY <1>3, OnePart
<1> HIDE DEF b
<1>5. GetUint(b, 8, 4, 2) = HEADER_SIZE + 8 /\ GetUint(b, 8, 6, 2) = many
  BY <1>2, <1>4, FieldRead DEF Holds
<1>6. t.security_buffer_offset = 72 /\ t.security_buffer_length = many
  BY <1>5 DEF Get, SessionSetupFields, HEADER_SIZE
<1>7. Roomy(b, 8, ProcessSessionSetupFixed(b, HEADER_SIZE + b.total))
  <2> HIDE DEF t
  <2> DEFINE whole == HEADER_SIZE + b.total
             off   == t.security_buffer_offset
             len   == t.security_buffer_length
  <2>1. ProcessSessionSetupFixed(b, whole) =
          IF ~ Sized(b, 9, 8) \/ (len > 0 /\ off + len > whole % 65536) THEN Refused
          ELSE IF len = 0 THEN Reads(0, t)
          ELSE IF off < HEADER_SIZE + 8 THEN Refused
          ELSE Reads(off - HEADER_SIZE - 8 + len, t)
    <3> HIDE DEF whole
    <3> QED
      BY DEF ProcessSessionSetupFixed, t
  <2> HIDE DEF whole
  <2>2. Roomy(b, 8, ProcessSessionSetupFixed(b, whole))
    BY <1>3, <1>4, <1>6, <2>1 DEF Reads, Refused, Roomy, LaidBy, HEADER_SIZE
  <2> QED
    BY <2>2 DEF whole
<1> QED
  BY <1>1, <1>7

LEMMA CreateReplyFits ==
    ASSUME NEW r, r.create_context_length \in Nat
    PROVE  LET b == CmdCreateReplyAsync(r) IN Roomy(b, 88, ProcessCreateFixed(b))
<1> DEFINE many    == r.create_context_length
           where   == PadTo64bit(88 + HEADER_SIZE)
           cells   == {Word(0, 2, 89), Word(80, 4, PadTo64bit(88 + HEADER_SIZE))} \cup
             Put(r, [oplock_level |-> <<2, 1>>, flags |-> <<3, 1>>, create_action |-> <<4, 4>>,
                     creation_time |-> <<8, 8>>, last_access_time |-> <<16, 8>>,
                     last_write_time |-> <<24, 8>>, change_time |-> <<32, 8>>,
                     allocation_size |-> <<40, 8>>, end_of_file |-> <<48, 8>>,
                     file_attributes |-> <<56, 4>>, file_id |-> <<64, FD_SIZE>>,
                     create_context_length |-> <<84, 4>>])
           context == Part(PadTo64bit(r.create_context_length), r.create_context)
           parts   == IF r.create_context_length = 0 THEN <<>> ELSE <<context>>
           b       == Padded(Body(88, cells, parts))
           t       == Get(b, 88, CreateFields)
<1>1. CmdCreateReplyAsync(r) = b
  BY Zenon DEF CmdCreateReplyAsync, EncodeCreateReply
<1>2. Holds(cells, 80, 4, where) /\ Holds(cells, 84, 4, many)
  <2> HIDE DEF where
  <2>1. cells = {Word(0, 2, 89), Word(80, 4, where)} \cup
             Put(r, [oplock_level |-> <<2, 1>>, flags |-> <<3, 1>>, create_action |-> <<4, 4>>,
                     creation_time |-> <<8, 8>>, last_access_time |-> <<16, 8>>,
                     last_write_time |-> <<24, 8>>, change_time |-> <<32, 8>>,
                     allocation_size |-> <<40, 8>>, end_of_file |-> <<48, 8>>,
                     file_attributes |-> <<56, 4>>, file_id |-> <<64, FD_SIZE>>,
                     create_context_length |-> <<84, 4>>])
    BY DEF where
  <2> HIDE DEF cells
  <2>2. Word(80, 4, where) \in cells /\ Word(84, 4, many) \in cells
    BY <2>1 DEF Word, Put
  <2>3. Apart(cells, 80, 4, where) /\ Apart(cells, 84, 4, many)
    BY <2>1 DEF Apart, Word, Put, FD_SIZE
  <2> QED
    BY <2>2, <2>3 DEF Holds
<1>3. /\ where = 152 /\ many \in Nat /\ context.len \in Nat /\ context.len >= many
      /\ (many > 0 => parts = <<context>>) /\ (~ (many > 0) => parts = <<>>)
  <2>1. where = 152
    BY DEF PadTo64bit, HEADER_SIZE
  <2>2. many \in Nat /\ context.len = PadTo64bit(many)
    BY DEF Part
  <2>3. PadTo64bit(many) \in Nat /\ PadTo64bit(many) >= many
    BY <2>2 DEF PadTo64bit
  <2> HIDE DEF where, context
  <2> QED
    BY <2>1, <2>2, <2>3
<1> HIDE DEF cells, context, parts, where
<1>4. LaidBy(b, 88, cells) /\ (many > 0 => b.total >= 88 + many)
  <2>1. LaidBy(b, 88, cells) /\ b.total >= 88 /\ (parts = <<context>> => b.total >= 88 + context.len)
    BY <1>3, AtMostOnePart
  <2> HIDE DEF b
  <2> QED
    BY <1>3, <2>1 DEF LaidBy
<1> HIDE DEF b
<1>5. GetUint(b, 88, 80, 4) = 152 /\ GetUint(b, 88, 84, 4) = many
  BY <1>2, <1>3, <1>4, FieldRead DEF Holds
<1>6. t.create_context_offset = 152 /\ t.create_context_length = many
  BY <1>5 DEF Get, CreateFields
<1>7. Roomy(b, 88, ProcessCreateFixed(b))
  <2> HIDE DEF t
  <2>1. ProcessCreateFixed(b) =
          IF ~ Sized(b, 89, 88) THEN Refused
          ELSE IF t.create_context_length = 0 THEN Reads(0, t)
          ELSE IF t.create_context_offset < HEADER_SIZE + 88 THEN Refused
          ELSE Reads(t.create_context_offset - HEADER_SIZE - 88 + t.create_context_length, t)
    BY Zenon DEF ProcessCreateFixed, t
  <2> HIDE DEF many
  <2> QED
    BY <1>3, <1>4, <1>6, <2>1 DEF Reads, Refused, Roomy, LaidBy, HEADER_SIZE
<1> QED
  BY <1>1, <1>7

LEMMA ReadReplyFits ==
    ASSUME NEW r, r.data_length \in Nat
    PROVE  LET b == CmdReadReplyAsync(r) IN Roomy(b, 16, ProcessReadFixed(b))
<1> DEFINE many    == r.data_length
           carries == r.data_length > 0 /\ r.data # NoData
           where   == IF carries THEN 16 + HEADER_SIZE ELSE 0
           cells   == {Word(0, 2, 17), Word(2, 1, where)} \cup
                      Put(r, [data_length |-> <<4, 4>>, data_remaining |-> <<8, 4>>])
           data    == Part(r.data_length, r.data)
           parts   == IF carries THEN <<data>> ELSE <<>>
           b       == Padded(Body(16, cells, parts))
           t       == Get(b, 16, [data_offset |-> <<2, 1>>, data_length |-> <<4, 4>>,
                                  data_remaining |-> <<8, 4>>])
<1>1. CmdReadReplyAsync(r) = b
  BY Zenon DEF CmdReadReplyAsync, EncodeReadReply
<1> HIDE DEF carries
<1>2. Holds(cells, 2, 1, where) /\ Holds(cells, 4, 4, many)
  <2> HIDE DEF where
  <2> QED
    BY DEF Holds, Apart, Word, Put
<1>3. /\ where = (IF carries THEN 80 ELSE 0) /\ data.len = many
      /\ (carries => parts = <<data>>) /\ (~ carries => parts = <<>>)
  BY DEF Part, HEADER_SIZE
<1> HIDE DEF cells, data, parts, where
<1>4. LaidBy(b, 16, cells) /\ (carries => b.total >= 16 + many)
  <2>1. LaidBy(b, 16, cells) /\ b.total >= 16 /\ (parts = <<data>> => b.total >= 16 + data.len)
    BY <1>3, AtMostOnePart
  <2> HIDE DEF b
  <2> QED
    BY <1>3, <2>1 DEF LaidBy
<1> HIDE DEF b
<1>5. GetUint(b, 16, 2, 1) = where /\ GetUint(b, 16, 4, 4) = many
  BY <1>2, <1>4, FieldRead DEF Holds
<1>6. t.data_offset = where /\ t.data_length = many
  BY <1>5 DEF Get
<1>7. Roomy(b, 16, ProcessReadFixed(b))
  <2> HIDE DEF t
  <2>1. ProcessReadFixed(b) =
          IF GetUint(b, 16, 0, 2) > 17 THEN Refused
          ELSE IF t.data_length = 0 THEN Reads(0, t)
          ELSE IF t.data_offset # HEADER_SIZE + 16 THEN Refused
          ELSE Reads(t.data_length, t)
    BY Zenon DEF ProcessReadFixed, t
  <2> QED
    BY <1>3, <1>4, <1>6, <2>1 DEF Reads, Refused, Roomy, LaidBy, HEADER_SIZE
<1> QED
  BY <1>1, <1>7

LEMMA ChangeNotifyReplyFits ==
    ASSUME NEW r, NEW c, r.output_buffer_length \in Nat, CmdChangeNotifyReplyAsync(r, c) # Refused
    PROVE  LET b == CmdChangeNotifyReplyAsync(r, c) IN Roomy(b, 8, ProcessChangeNotifyFixed(b))
<1> DEFINE many    == r.output_buffer_length
           cells   == {Word(0, 2, 9), Word(2, 2, HEADER_SIZE + 32)} \cup
                      Put(r, [output_buffer_length |-> <<4, 4>>])
           changes == Part(r.output_buffer_length, r.output)
           parts   == IF r.output_buffer_length = 0 THEN <<>> ELSE <<changes>>
           b       == Padded(Body(8, cells, parts))
<1>1. CmdChangeNotifyReplyAsync(r, c) = b
  <2>1. EncodeChangeNotifyReply(r, c) # Refused
    BY DEF CmdChangeNotifyReplyAsync, Padded
  <2> QED
    BY <2>1, Zenon DEF CmdChangeNotifyReplyAsync, EncodeChangeNotifyReply
<1>2. Holds(cells, 4, 4, many)
  BY DEF Holds, Apart, Word, Put
<1>3. changes.len = many /\ (many > 0 => parts = <<changes>>) /\ (~ (many > 0) => parts = <<>>)
  BY DEF Part
<1> HIDE DEF cells, changes, parts
<1>4. LaidBy(b, 8, cells) /\ (many > 0 => b.total >= 8 + many)
  BY <1>3, AtMostOnePart
<1> HIDE DEF b
<1>5. GetUint(b, 8, 4, 4) = many
  BY <1>2, <1>4, FieldRead DEF Holds
<1>6. Roomy(b, 8, ProcessChangeNotifyFixed(b))
  BY <1>4, <1>5 DEF ProcessChangeNotifyFixed, Get, Reads, Refused, Roomy
<1> QED
  BY <1>1, <1>6

\* Only a reply with an output and without an input: see Overstated.
LEMMA IoctlReplyFits ==
    ASSUME NEW r, NEW c, r.input_count = 0, r.output_count \in Nat, r.output_count > 0,
           CmdIoctlReplyAsync(r, c) # Refused
    PROVE  LET b == CmdIoctlReplyAsync(r, c) IN Roomy(b, 48, ProcessIoctlFixed(b))
<1> DEFINE output == CASE r.output_count = 0 -> Part(0, NoPart)
                    [] r.output_count > 0 /\ r.ctl_code = VALIDATE_NEGOTIATE_INFO ->
                           Part(24, ValidateNegotiateInfo(r.output))
                    [] OTHER -> Part(r.output_count, r.output)
           where == HEADER_SIZE + 48 + PadTo64bit(r.input_count)
           many  == IF r.output_count = 0 THEN 48 ELSE output.len
           cells == {Word(0, 2, 49), Word(24, 4, HEADER_SIZE + 48), Word(32, 4, where),
                     Word(36, 4, many)} \cup
                    Put(r, [ctl_code |-> <<4, 4>>, file_id |-> <<8, FD_SIZE>>,
                            input_count |-> <<28, 4>>, flags |-> <<40, 4>>])
           parts == IF r.output_count = 0 THEN <<>> ELSE <<output>>
           b     == Padded(Body(48, cells, parts))
           t     == Get(b, 48, IoctlFields)
<1>1. CmdIoctlReplyAsync(r, c) = b
  <2>1. EncodeIoctlReply(r, c) # Refused
    BY DEF CmdIoctlReplyAsync, Padded
  <2> QED
    BY <2>1, Zenon DEF CmdIoctlReplyAsync, EncodeIoctlReply
<1>2. output.len \in Nat
  BY DEF Part
<1> HIDE DEF output
<1>3. where = 112 /\ many = output.len /\ parts = <<output>>
  BY DEF PadTo64bit, HEADER_SIZE
<1> HIDE DEF where, many, parts
<1>4. /\ Holds(cells, 32, 4, where) /\ Holds(cells, 36, 4, many) /\ Holds(cells, 28, 4, 0)
  BY DEF Holds, Apart, Word, Put, FD_SIZE
<1> HIDE DEF cells
<1>5. LaidBy(b, 48, cells) /\ b.total >= 48 + many
  <2>1. LaidBy(b, 48, cells) /\ b.total >= 48 + output.len
    BY <1>2, <1>3, OnePart
  <2> HIDE DEF b
  <2> QED
    BY <1>3, <2>1
<1> HIDE DEF b
<1>6. GetUint(b, 48, 32, 4) = 112 /\ GetUint(b, 48, 36, 4) = many /\ GetUint(b, 48, 28, 4) = 0
  BY <1>3, <1>4, <1>5, FieldRead DEF Holds
<1>7. t.output_offset = 112 /\ t.output_count = many /\ t.input_count = 0
  BY <1>6 DEF Get, IoctlFields
<1>8. Roomy(b, 48, ProcessIoctlFixed(b))
  <2> HIDE DEF t
  <2>1. ProcessIoctlFixed(b) =
          IF ~ Sized(b, 49, 48) THEN Refused
          ELSE IF t.output_count = 0 THEN Reads(0, t)
          ELSE IF IoctlOffset(t) < 0 THEN Refused
          ELSE Reads(IoctlOffset(t) + PadTo64bit(t.input_count) + t.output_count, t)
    BY Zenon DEF ProcessIoctlFixed, t
  <2>2. IoctlOffset(t) = 0 /\ PadTo64bit(t.input_count) = 0
    BY <1>7 DEF IoctlOffset, HEADER_SIZE, PadTo64bit
  <2> QED
    BY <1>2, <1>3, <1>5, <1>7, <2>1, <2>2 DEF Reads, Refused, Roomy, LaidBy
<1> QED
  BY <1>1, <1>8

LEMMA ListingLength ==
    ASSUME NEW class, NEW entries, Len(entries) \in Nat,
           \A i \in 1 .. Len(entries) : entries[i].name \in Bytes
    PROVE  Listing(class, entries).total \in Nat
<1> DEFINE n == Len(entries)
           sizes == [i \in DOMAIN entries |-> Part(EntrySize(class, entries[i]), NoData)]
<1>1. Listing(class, entries).total = Places(0, sizes)[n + 1]
  BY DEF Listing
<1>2. \A i \in 1 .. n : sizes[i].len \in Nat
  <2>1. ASSUME NEW i \in 1 .. n PROVE EntrySize(class, entries[i]) \in Nat
    <3> DEFINE k == EntryHead(class) + NameLen(entries[i].name)
    <3>1. NameLen(entries[i].name) \in Nat
      BY NameLength
    <3>2. k \in Nat
      BY <3>1 DEF EntryHead
    <3> HIDE DEF k
    <3>3. PadTo32bit(k) \in Nat
      BY <3>2 DEF PadTo32bit
    <3> QED
      BY <3>3 DEF EntrySize, k
  <2>2. DOMAIN entries = 1 .. n
    OBVIOUS
  <2> QED
    BY <2>1, <2>2 DEF Part
<1>3. Len(sizes) = n
  OBVIOUS
<1> HIDE DEF sizes
<1>4. Lengths(sizes)
  BY <1>2, <1>3 DEF Lengths
<1> HIDE DEF n
<1>5. n + 1 \in 1 .. Len(sizes) + 1
  BY <1>3 DEF n
<1>6. Places(0, sizes)[n + 1] \in Nat
  BY <1>4, <1>5, PlacesOfParts
<1> QED
  BY <1>1, <1>6 DEF sizes, n

LEMMA QueryDirectoryReplyFits ==
    ASSUME NEW class, NEW r, NEW c,
           IF c.passthrough THEN r.output_buffer_length \in Nat
           ELSE /\ Len(r.entries) \in Nat
                /\ \A i \in 1 .. Len(r.entries) : r.entries[i].name \in Bytes,
           CmdQueryDirectoryReplyAsync(class, r, c) # Refused
    PROVE  LET b == CmdQueryDirectoryReplyAsync(class, r, c)
           IN  Roomy(b, 8, ProcessQueryDirectoryFixed(b, HEADER_SIZE + b.total))
<1> DEFINE extent == IF c.passthrough THEN r.output_buffer_length ELSE Listing(class, r.entries).total
           room  == IF c.passthrough THEN extent ELSE PadTo32bit(extent)
           cells == {Word(0, 2, 9), Word(2, 2, 8 + HEADER_SIZE), Word(4, 4, extent)}
           made  == EncodeQueryDirectoryReply(class, r, c)
           b     == Padded(made)
           t     == Get(b, 8, [output_buffer_offset |-> <<2, 2>>, output_buffer_length |-> <<4, 4>>])
<1>1. CmdQueryDirectoryReplyAsync(class, r, c) = b /\ made # Refused
  BY DEF CmdQueryDirectoryReplyAsync, Padded
<1>2. PICK listing : made = Body(8, cells, IF extent = 0 THEN <<>> ELSE <<Part(room, listing)>>)
  <2>1. CASE c.passthrough
    BY <2>1, Zenon DEF EncodeQueryDirectoryReply
  <2>2. CASE ~ c.passthrough
    BY <1>1, <2>2, Zenon DEF EncodeQueryDirectoryReply
  <2> QED
    BY <2>1, <2>2
<1> DEFINE found == Part(room, listing)
           parts == IF extent = 0 THEN <<>> ELSE <<found>>
<1>3. extent \in Nat
  <2>1. CASE c.passthrough
    BY <2>1
  <2>2. CASE ~ c.passthrough
    BY <2>2, ListingLength
  <2> QED
    BY <2>1, <2>2
<1> HIDE DEF extent, made
<1>4. Holds(cells, 2, 2, 72) /\ Holds(cells, 4, 4, extent)
  BY DEF Holds, Apart, Word, HEADER_SIZE
<1>5. found.len \in Nat /\ found.len >= extent
  BY <1>3 DEF Part, PadTo32bit, found, room
<1>6. (extent > 0 => parts = <<found>>) /\ (~ (extent > 0) => parts = <<>>)
  BY <1>3
<1> HIDE DEF cells, found, parts
<1>7. LaidBy(b, 8, cells) /\ (extent > 0 => b.total >= 8 + extent)
  <2> DEFINE d == Padded(Body(8, cells, parts))
  <2>1. LaidBy(d, 8, cells) /\ (parts = <<found>> => d.total >= 8 + found.len)
    BY <1>5, <1>6, AtMostOnePart
  <2>2. b = d
    BY <1>2 DEF parts, found
  <2> HIDE DEF b, d
  <2> QED
    BY <1>3, <1>5, <1>6, <2>1, <2>2 DEF LaidBy
<1> HIDE DEF b
<1>8. GetUint(b, 8, 2, 2) = 72 /\ GetUint(b, 8, 4, 4) = extent
  BY <1>4, <1>7, FieldRead DEF Holds
<1>9. t.output_buffer_offset = 72 /\ t.output_buffer_length = extent
  BY <1>8 DEF Get
<1>10. Roomy(b, 8, ProcessQueryDirectoryFixed(b, HEADER_SIZE + b.total))
  <2> HIDE DEF t
  <2> DEFINE whole == HEADER_SIZE + b.total
             lead  == t.output_buffer_offset - HEADER_SIZE - 8
             len   == t.output_buffer_length
  <2>1. ProcessQueryDirectoryFixed(b, whole) =
          IF ~ Sized(b, 9, 8) \/ (len > 0 /\ t.output_buffer_offset + len > whole) THEN Refused
          ELSE IF len = 0 THEN Reads(0, t)
          ELSE IF lead < 0 THEN Refused
          ELSE Reads(lead + len, t)
    <3> HIDE DEF whole
    <3> QED
      BY DEF ProcessQueryDirectoryFixed, t
  <2> HIDE DEF whole
  <2>2. Roomy(b, 8, ProcessQueryDirectoryFixed(b, whole))
    BY <1>3, <1>7, <1>9, <2>1 DEF Reads, Refused, Roomy, LaidBy, HEADER_SIZE
  <2> QED
    BY <2>2 DEF whole
<1> QED
  BY <1>1, <1>10

\* A structure laid out as a body has some bytes.
Extended(made) == made.total \in Nat \ {0}

LEMMA BodyExtended ==
    ASSUME NEW first \in Nat \ {0}, NEW cells
    PROVE  /\ Extended(Body(first, cells, <<>>))
           /\ \A p : p.len \in Nat => Extended(Body(first, cells, <<p>>))
<1>1. ASSUME NEW parts, Lengths(parts) PROVE Extended(Body(first, cells, parts))
  <2> DEFINE b == Body(first, cells, parts)
  <2>1. LaidBy(b, first, cells) /\ b.total >= first
    BY <1>1, BodyLaid
  <2> HIDE DEF b
  <2>2. b.total \in Nat \ {0}
    BY <2>1 DEF LaidBy
  <2> QED
    BY <2>2 DEF Extended, b
<1>2. Lengths(<<>>) /\ \A p : p.len \in Nat => Lengths(<<p>>)
  <2>1. ASSUME NEW p, p.len \in Nat PROVE Lengths(<<p>>)
    BY <2>1, OneEnd
  <2>2. Lengths(<<>>)
    BY DEF Lengths
  <2> QED
    BY <2>1, <2>2
<1> QED
  BY <1>1, <1>2

\* A name has some bytes, or none.
LEMMA NameParts ==
    ASSUME NEW name \in Bytes
    PROVE  NamePart(name).len \in Nat
BY NameLength DEF NamePart, NameLen, Part

\* So has a list of streams with one stream or more.
LEMMA StreamInfoExtended ==
    ASSUME NEW fs, InfoLengths("stream", fs)
    PROVE  Extended(EncodeFileStreamInfo(fs))
<1> DEFINE n == Len(fs)
           size(i) == 24 + 2 * fs[i].stream_name_length
           parts == [i \in DOMAIN fs |-> Part(PadTo64bit(size(i)), NoData)]
           P == Places(0, parts)
<1>1. n \in Nat \ {0} /\ \A i \in 1 .. n : fs[i].stream_name_length \in Nat
  BY DEF InfoLengths
<1>2. EncodeFileStreamInfo(fs).total = P[n] + size(n)
  BY DEF EncodeFileStreamInfo
<1>3. DOMAIN fs = 1 .. n
  BY <1>1
<1>4. \A i \in 1 .. n : size(i) \in Nat /\ size(i) > 0 /\ PadTo64bit(size(i)) \in Nat
  <2> SUFFICES ASSUME NEW i \in 1 .. n PROVE size(i) \in Nat /\ size(i) > 0 /\ PadTo64bit(size(i)) \in Nat
    OBVIOUS
  <2>1. size(i) \in Nat /\ size(i) > 0
    BY <1>1
  <2> HIDE DEF size
  <2> QED
    BY <2>1 DEF PadTo64bit
<1> HIDE DEF size, n
<1>5. Len(parts) = n /\ \A i \in 1 .. n : parts[i].len = PadTo64bit(size(i))
  <2>1. \A i \in 1 .. n : parts[i] = Part(PadTo64bit(size(i)), NoData)
    BY <1>3
  <2>2. Len(parts) = n
    BY <1>1, <1>3
  <2> HIDE DEF parts
  <2> QED
    BY <2>1, <2>2 DEF Part
<1> HIDE DEF parts
<1>6. Lengths(parts)
  BY <1>1, <1>4, <1>5 DEF Lengths
<1>7. P[n] \in Nat
  <2>1. n \in 1 .. Len(parts) + 1
    BY <1>1, <1>5
  <2> QED
    BY <1>6, <2>1, PlacesOfParts
<1>8. size(n) \in Nat /\ size(n) > 0
  BY <1>1, <1>4
<1> HIDE DEF P
<1> QED
  BY <1>2, <1>7, <1>8 DEF Extended

\* So has the information of every class the encoder knows.
LEMMA InfoExtended ==
    ASSUME NEW class \in KnownClasses, NEW fs, InfoLengths(class, fs)
    PROVE  Extended(EncodeInfo(class, fs))
<1> DEFINE made == EncodeInfo(class, fs)
<1>1. CASE class = "stream"
  BY <1>1, StreamInfoExtended DEF EncodeInfo
<1>2. CASE class \in {"basic", "standard", "position", "network_open", "fs_size", "fs_device",
                      "fs_control", "fs_full_size", "fs_object_id", "fs_sector_size"}
  <2>1. \E first \in Nat \ {0} : \E cells : made = Body(first, cells, <<>>)
    <3>1. class = "basic" => \E cells : made = Body(40, cells, <<>>)
      BY DEF EncodeInfo, EncodeFileBasicInfo
    <3>2. class = "standard" => \E cells : made = Body(24, cells, <<>>)
      BY DEF EncodeInfo, EncodeFileStandardInfo
    <3>3. class = "position" => \E cells : made = Body(8, cells, <<>>)
      BY DEF EncodeInfo, EncodeFilePositionInfo
    <3>4. class = "network_open" => \E cells : made = Body(56, cells, <<>>)
      BY DEF EncodeInfo, EncodeFileNetworkOpenInfo
    <3>5. class = "fs_size" => \E cells : made = Body(24, cells, <<>>)
      BY DEF EncodeInfo, EncodeFileFsSizeInfo
    <3>6. class = "fs_device" => \E cells : made = Body(8, cells, <<>>)
      BY DEF EncodeInfo, EncodeFileFsDeviceInfo
    <3>7. class = "fs_control" => \E cells : made = Body(44, cells, <<>>)
      BY DEF EncodeInfo, EncodeFileFsControlInfo
    <3>8. class = "fs_full_size" => \E cells : made = Body(32, cells, <<>>)
      BY DEF EncodeInfo, EncodeFileFsFullSizeInfo
    <3>9. class = "fs_object_id" => \E cells : made = Body(64, cells, <<>>)
      BY DEF EncodeInfo, EncodeFileFsObjectIdInfo
    <3>10. class = "fs_sector_size" => \E cells : made = Body(28, cells, <<>>)
      BY DEF EncodeInfo, EncodeFileFsSectorSizeInfo
    <3> HIDE DEF made
    <3>11. \A k \in {8, 24, 28, 32, 40, 44, 56, 64} : k \in Nat \ {0}
      OBVIOUS
    <3> QED
      BY <1>2, <3>1, <3>2, <3>3, <3>4, <3>5, <3>6, <3>7, <3>8, <3>9, <3>10, <3>11
  <2> HIDE DEF made
  <2>2. Extended(made)
    BY <2>1, BodyExtended
  <2> QED
    BY <2>2 DEF made
<1>3. CASE class \in {"all", "fs_volume", "fs_attribute", "normalized_name"}
  <2>1. \E first \in Nat \ {0} : \E cells, p : p.len \in Nat /\ made = Body(first, cells, <<p>>)
    <3>1. class = "all" => fs.name \in Bytes /\ \E cells : made = Body(100, cells, <<NamePart(fs.name)>>)
      BY ZenonT(40) DEF EncodeInfo, EncodeFileAllInfo, InfoLengths
    <3>2. class = "fs_volume" =>
            fs.volume_label \in Bytes /\ \E cells : made = Body(18, cells, <<NamePart(fs.volume_label)>>)
      BY DEF EncodeInfo, EncodeFileFsVolumeInfo, InfoLengths
    <3>3. class = "fs_attribute" =>
            fs.filesystem_name \in Bytes
            /\ \E cells : made = Body(12, cells, <<NamePart(fs.filesystem_name)>>)
      BY DEF EncodeInfo, EncodeFileFsAttributeInfo, InfoLengths
    <3>4. class = "normalized_name" =>
            \E cells, p : p.len \in Nat /\ made = Body(4, cells, <<p>>)
      <4> SUFFICES ASSUME class = "normalized_name"
                   PROVE  \E cells, p : p.len \in Nat /\ made = Body(4, cells, <<p>>)
        OBVIOUS
      <4> DEFINE len   == IF fs.file_name_length < NameLen(fs.name) THEN NameLen(fs.name)
                          ELSE fs.file_name_length
                 units == Utf8ToUtf16(fs.name) \o [i \in 1 .. (len - NameLen(fs.name)) \div 2 |-> 0]
                 p     == Part(len, units)
                 cells == {Word(0, 4, len)}
      <4>1. made = Body(4, cells, <<p>>)
        BY DEF EncodeInfo, EncodeFileNormalizedNameInfo
      <4>2. fs.file_name_length \in Nat /\ NameLen(fs.name) \in Nat
        <5>1. fs.file_name_length \in Nat /\ fs.name \in Bytes
          BY DEF InfoLengths
        <5> QED
          BY <5>1, NameLength
      <4>3. len \in Nat
        BY <4>2
      <4> HIDE DEF made, len, units
      <4>4. p.len \in Nat
        BY <4>3 DEF Part
      <4> HIDE DEF p, cells
      <4> QED
        BY <4>1, <4>4
    <3> HIDE DEF made
    <3>5. \A k \in {4, 12, 18, 100} : k \in Nat \ {0}
      OBVIOUS
    <3> QED
      BY <1>3, <3>1, <3>2, <3>3, <3>4, <3>5, NameParts, ZenonT(40)
  <2> HIDE DEF made
  <2>2. Extended(made)
    BY <2>1, BodyExtended
  <2> QED
    BY <2>2 DEF made
<1> QED
  BY <1>1, <1>2, <1>3 DEF KnownClasses

LEMMA QueryInfoReplyFits ==
    ASSUME NEW class, NEW room, NEW data, NEW c, NEW next_command,
           data # NoData => room \in Nat /\ InfoLengths(class, data)
    PROVE  LET b == CmdQueryInfoReplyAsync(class, room, data, c)
           IN  Roomy(b, 8, ProcessQueryInfoFixed(b, HEADER_SIZE + b.total, next_command))
<1> DEFINE b    == CmdQueryInfoReplyAsync(class, room, data, c)
           made == EncodeQueryInfoReply(class, room, data, c)
           blob == EncodeInfo(class, data)
           t    == Get(b, 8, [output_buffer_offset |-> <<2, 2>>, output_buffer_length |-> <<4, 4>>])
<1>1. b = Padded(made) /\ made = EncodeInfoReply(room, data, blob, c)
  BY Zenon DEF CmdQueryInfoReplyAsync, EncodeQueryInfoReply
<1> HIDE DEF blob, made, b
<1>2. \E where, many \in Nat : \E p :
        LET cells == {Word(0, 2, 9), Word(2, 2, where), Word(4, 4, many)}
        IN  p.len \in Nat /\ made \in {Body(8, cells, <<>>), Body(8, cells, <<p>>)}
  <2>1. CASE data = NoData
    <3> DEFINE p == Part(0, NoPart)
    <3>1. p.len \in Nat
      BY DEF Part
    <3>2. made = Body(8, {Word(0, 2, 9), Word(2, 2, 0), Word(4, 4, 0)}, <<>>)
      BY <1>1, <2>1 DEF EncodeInfoReply
    <3> HIDE DEF p
    <3> QED
      BY <3>1, <3>2
  <2>2. CASE data # NoData /\ blob # NoPart
    <3> DEFINE len == IF blob.total > room THEN room ELSE blob.total
               p   == Part(PadTo64bit(len), blob)
    <3>1. class \in KnownClasses
      BY <2>2 DEF blob, EncodeInfo, KnownClasses
    <3>2. blob.total \in Nat /\ room \in Nat
      BY <2>2, <3>1, InfoExtended DEF Extended, blob
    <3>3. len \in Nat
      BY <3>2
    <3>4. made = Body(8, {Word(0, 2, 9), Word(2, 2, 8 + HEADER_SIZE), Word(4, 4, len)}, <<p>>)
      BY <1>1, <2>2 DEF EncodeInfoReply
    <3> HIDE DEF len
    <3>5. p.len \in Nat
      BY <3>3 DEF Part, PadTo64bit
    <3> HIDE DEF p
    <3>6. 8 + HEADER_SIZE \in Nat
      BY DEF HEADER_SIZE
    <3> QED
      BY <3>3, <3>4, <3>5, <3>6
  <2>3. CASE data # NoData /\ ~ (blob # NoPart)
    <3> DEFINE p == IF c.passthrough THEN Part(PadTo64bit(data.total), data) ELSE Part(0, NoPart)
    <3>1. class \notin KnownClasses
      <4> SUFFICES ASSUME class \in KnownClasses PROVE FALSE
        OBVIOUS
      <4>1. blob.total # 0
        BY <2>3, InfoExtended DEF Extended, blob
      <4>2. NoPart.total = 0
        BY DEF NoPart
      <4> QED
        BY <2>3, <4>1, <4>2
    <3>2. data.total \in Nat
      BY <2>3, <3>1 DEF InfoLengths
    <3>3. made = Body(8, {Word(0, 2, 9), Word(2, 2, 8 + HEADER_SIZE), Word(4, 4, data.total)}, <<p>>)
      BY <1>1, <2>3 DEF EncodeInfoReply
    <3>4. p.len \in Nat
      <4>1. PadTo64bit(data.total) \in Nat
        BY <3>2 DEF PadTo64bit
      <4> QED
        BY <4>1 DEF Part
    <3> HIDE DEF p
    <3>5. 8 + HEADER_SIZE \in Nat
      BY DEF HEADER_SIZE
    <3> QED
      BY <3>2, <3>3, <3>4, <3>5
  <2> QED
    BY <2>1, <2>2, <2>3
<1>3. PICK where \in Nat, many \in Nat : \E p :
        LET cells == {Word(0, 2, 9), Word(2, 2, where), Word(4, 4, many)}
        IN  p.len \in Nat /\ made \in {Body(8, cells, <<>>), Body(8, cells, <<p>>)}
  BY <1>2
<1> DEFINE cells == {Word(0, 2, 9), Word(2, 2, where), Word(4, 4, many)}
<1>4. Holds(cells, 2, 2, where) /\ Holds(cells, 4, 4, many)
  BY DEF Holds, Apart, Word
<1>5. PICK p : p.len \in Nat /\ (made = Body(8, cells, <<>>) \/ made = Body(8, cells, <<p>>))
  BY <1>3
<1> HIDE DEF cells
<1>6. LaidBy(b, 8, cells)
  BY <1>1, <1>5, NoParts, OnePart
<1>7. GetUint(b, 8, 2, 2) = where /\ GetUint(b, 8, 4, 4) = many
  BY <1>4, <1>6, FieldRead DEF Holds
<1>8. t.output_buffer_offset = where /\ t.output_buffer_length = many
  BY <1>7 DEF Get
<1> DEFINE whole == HEADER_SIZE + b.total
           opl   == t.output_buffer_offset + t.output_buffer_length
<1>9. Roomy(b, 8, ProcessQueryInfoFixed(b, whole, next_command))
  <2> HIDE DEF t
  <2>1. ProcessQueryInfoFixed(b, whole, next_command) =
          IF ~ Sized(b, 9, 8) THEN Refused
          ELSE IF t.output_buffer_length = 0 THEN Reads(0, t)
          ELSE IF \/ opl > whole \/ (next_command > 0 /\ opl > next_command)
                  \/ t.output_buffer_offset < HEADER_SIZE + 8 THEN Refused
          ELSE Reads(opl - HEADER_SIZE - 8, t)
    <3> HIDE DEF whole
    <3> QED
      BY DEF ProcessQueryInfoFixed, t
  <2>2. ~ (opl > whole) => 8 + (opl - HEADER_SIZE - 8) <= b.total
    BY <1>6, <1>8 DEF LaidBy, HEADER_SIZE
  <2>3. t.output_buffer_length # 0 /\ ~ (t.output_buffer_offset < HEADER_SIZE + 8)
          => opl - HEADER_SIZE - 8 > 0
    BY <1>8 DEF HEADER_SIZE
  <2> HIDE DEF whole, opl
  <2> QED
    BY <2>1, <2>2, <2>3 DEF Reads, Refused, Roomy
<1> QED
  BY <1>9 DEF b

(***************************************************************************)
(* The header, and every command.                                          *)
(***************************************************************************)
\* The receiver knows which command it was, and whether it went well.
LEMMA HeaderRead ==
    ASSUME NEW h
    PROVE  LET d == DecodeHeader(EncodeHeader(h)) IN d.command = h.command /\ d.status = h.status
<1> DEFINE ids   == IF h.flags = "async" THEN Put(h, AsyncFields) ELSE Put(h, SyncFields)
           cells == Put(h, [struct_size |-> <<4, 2>>, credit_charge |-> <<6, 2>>,
                              status |-> <<8, 4>>, command |-> <<12, 2>>,
                              credit_request_response |-> <<14, 2>>, flags |-> <<16, 4>>,
                              next_command |-> <<20, 4>>, message_id |-> <<24, 8>>,
                              session_id |-> <<40, 8>>]) \cup ids
           b == Body(64, cells, <<>>)
           t == Get(b, 64, HeaderFields)
<1>1. EncodeHeader(h) = b
  BY Zenon DEF EncodeHeader, HEADER_SIZE
<1>2. \A x \in ids : x.at \in Nat /\ x.width \in Nat /\ x.at >= 32
  BY DEF Put, AsyncFields, SyncFields
<1> HIDE DEF ids
<1>3. Holds(cells, 8, 4, h.status) /\ Holds(cells, 12, 2, h.command)
  BY <1>2 DEF Holds, Apart, Word, Put
<1> HIDE DEF cells
<1>4. LaidBy(b, 64, cells)
  <2>1. Lengths(<<>>)
    BY DEF Lengths
  <2> QED
    BY <2>1, BodyLaid
<1> HIDE DEF b
<1>5. GetUint(b, 64, 8, 4) = h.status /\ GetUint(b, 64, 12, 2) = h.command
  BY <1>3, <1>4, FieldRead DEF Holds
<1>6. /\ t.status = h.status /\ t.command = h.command
      /\ "status" \in DOMAIN t /\ "command" \in DOMAIN t
  BY <1>5 DEF Get, HeaderFields
<1> HIDE DEF t
<1>7. PICK u : DecodeHeader(b) = [f \in DOMAIN t \cup DOMAIN u |-> IF f \in DOMAIN t THEN t[f] ELSE u[f]]
  BY DEF DecodeHeader, t, HEADER_SIZE
<1> QED
  BY <1>1, <1>6, <1>7

\* What there is to know of a message's lengths.
WellSized(m) ==
    /\ m.cmd \in Commands /\ m.kind \in {"request", "reply"}
    /\ m.kind = "request" => RequestsFit(m) /\ RequestLengths(m)
    /\ m.kind = "reply"   => ReplyLengths(m)

\* It holds too of a read or write of what can be paid for.
LEMMA AskedWellSized ==
    ASSUME NEW k \in DOMAIN Messages, NEW given \in Messages[k]
    PROVE  WellSized(Asks(given))
<1>1. WellSized(given) /\ ("count" \in DOMAIN given => CountsFit(given))
  BY MessagesAreOfSizes DEF WellSized
<1>2. CASE "count" \in DOMAIN given
  <2> DEFINE m == Asks(given)
             n == Clamp(given.count, given.ctx)
  <2>1. CountsFit(given) /\ RequestsFit(given) /\ RequestLengths(given)
    BY <1>1, <1>2 DEF WellSized, CountsFit
  <2>2. Chargeable(n)
    BY <2>1, Clamped DEF CountsFit, RequestsFit
  <2>3. /\ m.rec.length = n /\ m.ctx = given.ctx /\ m.cmd = given.cmd /\ m.kind = given.kind
    BY <1>2, <2>1, AskedOf
  <2>4. m.cmd = "write" => m.rec.write_channel_info_length = given.rec.write_channel_info_length
    <3>1. /\ m = [given EXCEPT !.rec = [given.rec EXCEPT !.length = n]]
          /\ "rec" \in DOMAIN given
      BY <1>2, <2>1 DEF Asks, CountsFit
    <3>2. m.cmd = "write" => "write_channel_info_length" \in DOMAIN given.rec
      BY <2>1, <2>3 DEF CountsFit
    <3> HIDE DEF n, m
    <3> QED
      BY <3>1, <3>2
  <2>5. m.cmd \in {"read", "write"} /\ m.kind = "request"
    BY <2>1, <2>3 DEF CountsFit
  <2> HIDE DEF n, m
  <2>6. RequestsFit(m)
    BY <2>1, <2>2, <2>3, <2>5 DEF RequestsFit
  <2>7. RequestLengths(m)
    BY <2>1, <2>3, <2>4, <2>5 DEF RequestLengths
  <2> QED
    BY <2>3, <2>5, <2>6, <2>7 DEF WellSized, Commands, m
<1>3. CASE "count" \notin DOMAIN given
  BY <1>1, <1>3 DEF Asks
<1> QED
  BY <1>2, <1>3

\* Every request's decoder asks for no more than its encoder laid.
LEMMA RequestFits ==
    ASSUME NEW m, WellSized(m), m.kind = "request", Request(m) # Refused,
           NEW h, h.command = m.cmd, NEW c
    PROVE  LET b == Request(m)
           IN  Roomy(b, GetFixedRequestSize(h), ProcessRequestPayloadFixed(h, b, HEADER_SIZE + b.total, c))
<1> DEFINE b == Request(m)
           p == ProcessRequestPayloadFixed(h, b, HEADER_SIZE + b.total, c)
           goal == Roomy(b, GetFixedRequestSize(h), p)
<1>1. m.cmd \in Commands /\ RequestsFit(m) /\ RequestLengths(m)
  BY DEF WellSized
<1>2. CASE m.cmd = "negotiate"
  <2>1. b = CmdNegotiateAsync(m.rec, m.ctx) /\ GetFixedRequestSize(h) = 36
        /\ p = ProcessNegotiateRequestFixed(b, HEADER_SIZE + b.total)
    BY <1>2 DEF Request, GetFixedRequestSize, ProcessRequestPayloadFixed
  <2> QED
    BY <1>1, <1>2, <2>1, NegotiateRequestFits DEF RequestLengths
<1>3. CASE m.cmd = "session_setup"
  <2>1. b = CmdSessionSetupAsync(m.rec) /\ GetFixedRequestSize(h) = 24
        /\ p = ProcessSessionSetupRequestFixed(b)
    BY <1>3 DEF Request, GetFixedRequestSize, ProcessRequestPayloadFixed
  <2> QED
    BY <1>1, <1>3, <2>1, SessionSetupRequestFits DEF RequestLengths
<1>4. CASE m.cmd = "tree_connect"
  <2>1. b = CmdTreeConnectAsync(m.rec) /\ GetFixedRequestSize(h) = 8
        /\ p = ProcessTreeConnectRequestFixed(b)
    BY <1>4 DEF Request, GetFixedRequestSize, ProcessRequestPayloadFixed
  <2> QED
    BY <1>1, <1>4, <2>1, TreeConnectRequestFits DEF RequestLengths
<1>5. CASE m.cmd = "create"
  <2>1. b = CmdCreateAsync(m.rec) /\ GetFixedRequestSize(h) = 56
        /\ p = ProcessCreateRequestFixed(b)
    BY <1>5 DEF Request, GetFixedRequestSize, ProcessRequestPayloadFixed
  <2> QED
    BY <1>1, <1>5, <2>1, CreateRequestFits DEF RequestLengths
<1>6. CASE m.cmd = "write"
  <2>1. b = CmdWriteAsync(m.rec, m.ctx) /\ GetFixedRequestSize(h) = 48
        /\ p = ProcessWriteRequestFixed(b)
    BY <1>6 DEF Request, GetFixedRequestSize, ProcessRequestPayloadFixed
  <2>2. Cut(m.rec, m.ctx) \in Nat
    BY <1>1, <1>6 DEF RequestsFit, Chargeable, Cut
  <2> QED
    BY <1>1, <1>6, <2>1, <2>2, WriteRequestFits DEF RequestLengths
<1>7. CASE m.cmd = "lock"
  <2>1. b = CmdLockAsync(m.rec) /\ GetFixedRequestSize(h) = 48
        /\ p = ProcessLockRequestFixed(b)
    BY <1>7 DEF Request, GetFixedRequestSize, ProcessRequestPayloadFixed
  <2> QED
    BY <1>1, <1>7, <2>1, LockRequestFits DEF RequestLengths
<1>8. CASE m.cmd = "query_directory"
  <2>1. b = CmdQueryDirectoryAsync(m.rec) /\ GetFixedRequestSize(h) = 32
        /\ p = ProcessQueryDirectoryRequestFixed(b, HEADER_SIZE + b.total)
    BY <1>8 DEF Request, GetFixedRequestSize, ProcessRequestPayloadFixed
  <2> QED
    BY <1>1, <1>8, <2>1, QueryDirectoryRequestFits DEF RequestLengths
<1>9. CASE m.cmd = "query_info"
  <2>1. b = CmdQueryInfoAsync(m.rec) /\ GetFixedRequestSize(h) = 40
        /\ p = ProcessQueryInfoRequestFixed(b)
    BY <1>9 DEF Request, GetFixedRequestSize, ProcessRequestPayloadFixed
  <2> QED
    BY <1>1, <1>9, <2>1, QueryInfoRequestFits DEF RequestLengths
<1>10. CASE m.cmd = "set_info"
  <2>1. b = CmdSetInfoAsync(m.rec, m.ctx) /\ GetFixedRequestSize(h) = 32
        /\ p = ProcessSetInfoRequestFixed(b)
    BY <1>10 DEF Request, GetFixedRequestSize, ProcessRequestPayloadFixed
  <2> QED
    BY <1>1, <1>10, <2>1, SetInfoRequestFits DEF RequestLengths
<1>11. CASE m.cmd = "ioctl"
  <2>1. b = CmdIoctlAsync(m.rec) /\ GetFixedRequestSize(h) = 56
        /\ p = ProcessIoctlRequestFixed(b)
    BY <1>11 DEF Request, GetFixedRequestSize, ProcessRequestPayloadFixed
  <2> QED
    BY <1>1, <1>11, <2>1, IoctlRequestFits DEF RequestLengths
<1>12. CASE m.cmd = "oplock_break"
  <2>1. b \in {CmdLeaseBreakAsync(m.rec), CmdOplockBreakAsync(m.rec)} /\ GetFixedRequestSize(h) = 2
        /\ p = ProcessOplockBreakRequestFixed(b)
    BY <1>12 DEF Request, GetFixedRequestSize, ProcessRequestPayloadFixed
  <2> HIDE DEF b, p
  <2>2. Roomy(b, 2, p)
    BY <2>1, OplockBreaksFit, LeaseBreaksFit
  <2> QED
    BY <2>1, <2>2 DEF b, p
<1>13. CASE m.cmd \in {"logoff", "tree_disconnect", "close", "flush", "read", "echo", "change_notify"}
  <2>1. p \in {ProcessLogoffRequestFixed(b), ProcessTreeDisconnectRequestFixed(b),
               ProcessCloseRequestFixed(b), ProcessFlushRequestFixed(b),
               ProcessReadRequestFixed(b, c.max_read_size), ProcessEchoRequestFixed(b),
               ProcessChangeNotifyRequestFixed(b)}
    <3> HIDE DEF b
    <3> QED
      BY <1>13 DEF ProcessRequestPayloadFixed
  <2> HIDE DEF b, p
  <2>2. p.n \in {0, -1}
    BY <2>1 DEF ProcessLogoffRequestFixed, ProcessTreeDisconnectRequestFixed, ProcessCloseRequestFixed,
                ProcessFlushRequestFixed, ProcessReadRequestFixed, ProcessEchoRequestFixed,
                ProcessChangeNotifyRequestFixed, BareFixed, Reads, Refused
  <2>3. Roomy(b, GetFixedRequestSize(h), p)
    BY <2>2 DEF Roomy
  <2> QED
    BY <2>3 DEF b, p
<1> QED
  BY <1>1, <1>2, <1>3, <1>4, <1>5, <1>6, <1>7, <1>8, <1>9, <1>10, <1>11, <1>12, <1>13 DEF Commands

\* So does every reply's, but for those of Overstated.
LEMMA ReplyFits ==
    ASSUME NEW m, WellSized(m), m.kind = "reply", ~ Overstated(m), Reply(m) # Refused,
           NEW h, h.command = m.cmd, h.status = m.status, NEW c
    PROVE  LET b == Reply(m)
           IN  Roomy(b, GetFixedReplySize(h), ProcessReplyPayloadFixed(h, b, HEADER_SIZE + b.total, c))
<1> DEFINE b == Reply(m)
           p == ProcessReplyPayloadFixed(h, b, HEADER_SIZE + b.total, c)
<1>1. m.cmd \in Commands /\ ReplyLengths(m)
  BY DEF WellSized
<1>2. CASE m.status = "error"
  <2>1. b = CmdErrorReplyAsync(m.rec) /\ GetFixedReplySize(h) = 8 /\ p = ProcessErrorFixed(b)
    BY <1>2 DEF Reply, GetFixedReplySize, ProcessReplyPayloadFixed, IsErrorResponse
  <2>2. m.rec.byte_count \in Nat /\ m.rec.byte_count <= 8
    BY <1>1, <1>2 DEF ReplyLengths, Overstated
  <2> QED
    BY <2>1, <2>2, ErrorReplyFits
<1>3. CASE m.status # "error"
  <2>1. ~ IsErrorResponse(h)
    BY <1>1, <1>3 DEF ReplyLengths, IsErrorResponse
  <2>2. CASE m.cmd = "negotiate"
    <3>1. b = CmdNegotiateReplyAsync(m.rec, m.ctx) /\ GetFixedReplySize(h) = 64
          /\ p = ProcessNegotiateFixed(b, HEADER_SIZE + b.total)
      BY <1>3, <2>1, <2>2 DEF Reply, GetFixedReplySize, ProcessReplyPayloadFixed
    <3> QED
      BY <1>1, <1>3, <2>2, <3>1, NegotiateReplyFits DEF ReplyLengths
  <2>3. CASE m.cmd = "session_setup"
    <3>1. b = CmdSessionSetupReplyAsync(m.rec) /\ GetFixedReplySize(h) = 8
          /\ p = ProcessSessionSetupFixed(b, HEADER_SIZE + b.total)
      BY <1>3, <2>1, <2>3 DEF Reply, GetFixedReplySize, ProcessReplyPayloadFixed
    <3> QED
      BY <1>1, <1>3, <2>3, <3>1, SessionSetupReplyFits DEF ReplyLengths
  <2>4. CASE m.cmd = "create"
    <3>1. b = CmdCreateReplyAsync(m.rec) /\ GetFixedReplySize(h) = 88 /\ p = ProcessCreateFixed(b)
      BY <1>3, <2>1, <2>4 DEF Reply, GetFixedReplySize, ProcessReplyPayloadFixed
    <3> QED
      BY <1>1, <1>3, <2>4, <3>1, CreateReplyFits DEF ReplyLengths
  <2>5. CASE m.cmd = "read"
    <3>1. b = CmdReadReplyAsync(m.rec) /\ GetFixedReplySize(h) = 16 /\ p = ProcessReadFixed(b)
      BY <1>3, <2>1, <2>5 DEF Reply, GetFixedReplySize, ProcessReplyPayloadFixed
    <3> QED
      BY <1>1, <1>3, <2>5, <3>1, ReadReplyFits DEF ReplyLengths
  <2>6. CASE m.cmd = "change_notify"
    <3>1. b = CmdChangeNotifyReplyAsync(m.rec, m.ctx) /\ GetFixedReplySize(h) = 8
          /\ p = ProcessChangeNotifyFixed(b)
      BY <1>3, <2>1, <2>6 DEF Reply, GetFixedReplySize, ProcessReplyPayloadFixed
    <3> QED
      BY <1>1, <1>3, <2>6, <3>1, ChangeNotifyReplyFits DEF ReplyLengths
  <2>7. CASE m.cmd = "ioctl"
    <3>1. b = CmdIoctlReplyAsync(m.rec, m.ctx) /\ GetFixedReplySize(h) = 48 /\ p = ProcessIoctlFixed(b)
      BY <1>3, <2>1, <2>7 DEF Reply, GetFixedReplySize, ProcessReplyPayloadFixed
    <3>2. m.rec.input_count = 0 /\ m.rec.output_count \in Nat /\ m.rec.output_count > 0
      BY <1>1, <1>3, <2>7 DEF ReplyLengths, Overstated
    <3> QED
      BY <3>1, <3>2, IoctlReplyFits
  <2>8. CASE m.cmd = "query_directory"
    <3>1. b = CmdQueryDirectoryReplyAsync(m.ctx.class, m.rec, m.ctx)
          /\ GetFixedReplySize(h) = 8
          /\ p = ProcessQueryDirectoryFixed(b, HEADER_SIZE + b.total)
      BY <1>3, <2>1, <2>8 DEF Reply, GetFixedReplySize, ProcessReplyPayloadFixed
    <3> QED
      BY <1>1, <1>3, <2>8, <3>1, QueryDirectoryReplyFits DEF ReplyLengths
  <2>9. CASE m.cmd = "query_info"
    <3>1. b = CmdQueryInfoReplyAsync(m.ctx.class, m.ctx.room, m.rec.data, m.ctx)
          /\ GetFixedReplySize(h) = 8
          /\ p = ProcessQueryInfoFixed(b, HEADER_SIZE + b.total, c.next_command)
      BY <1>3, <2>1, <2>9 DEF Reply, GetFixedReplySize, ProcessReplyPayloadFixed
    <3>2. m.rec.data # NoData => m.ctx.room \in Nat /\ InfoLengths(m.ctx.class, m.rec.data)
      BY <1>1, <1>3, <2>9 DEF ReplyLengths
    <3>3. Roomy(b, 8, ProcessQueryInfoFixed(b, HEADER_SIZE + b.total, c.next_command))
      <4> HIDE DEF b
      <4> QED
        BY <3>1, <3>2, QueryInfoReplyFits
    <3> QED
      BY <3>1, <3>3
  <2>10. CASE m.cmd = "oplock_break"
    <3>1. b \in {CmdOplockBreakReplyAsync(m.rec), CmdOplockBreakNotificationAsync(m.rec),
                 CmdLeaseBreakReplyAsync(m.rec), CmdLeaseBreakNotificationAsync(m.rec)}
      <4>1. m.form \in BreakForms
        BY <1>1, <2>10 DEF ReplyLengths
      <4> QED
        BY <1>3, <2>10, <4>1 DEF Reply, BreakForms
    <3>2. GetFixedReplySize(h) = 2 /\ p = ProcessOplockBreakFixed(b)
      BY <2>1, <2>10 DEF GetFixedReplySize, ProcessReplyPayloadFixed
    <3> HIDE DEF b, p
    <3>3. Roomy(b, 2, p)
      BY <3>1, <3>2, OplockBreaksFit, LeaseBreaksFit
    <3> QED
      BY <3>2, <3>3 DEF b, p
  <2>11. CASE m.cmd \in {"logoff", "tree_connect", "tree_disconnect", "close", "flush", "write",
                         "echo", "lock", "set_info"}
    <3>1. p \in {ProcessLogoffFixed(b), ProcessTreeConnectFixed(b), ProcessTreeDisconnectFixed(b),
                 ProcessCloseFixed(b), ProcessFlushFixed(b), ProcessWriteFixed(b),
                 ProcessEchoFixed(b), ProcessLockFixed(b), ProcessSetInfoFixed(b)}
      <4> HIDE DEF b
      <4> QED
        BY <2>1, <2>11 DEF ProcessReplyPayloadFixed
    <3> HIDE DEF b, p
    <3>2. p.n \in {0, -1}
      BY <3>1 DEF ProcessLogoffFixed, ProcessTreeConnectFixed, ProcessTreeDisconnectFixed,
                  ProcessCloseFixed, ProcessFlushFixed, ProcessWriteFixed, ProcessEchoFixed,
                  ProcessLockFixed, ProcessSetInfoFixed, BareFixed, Reads, Refused
    <3>3. Roomy(b, GetFixedReplySize(h), p)
      BY <3>2 DEF Roomy
    <3> QED
      BY <3>3 DEF b, p
  <2> QED
    BY <1>1, <2>2, <2>3, <2>4, <2>5, <2>6, <2>7, <2>8, <2>9, <2>10, <2>11 DEF Commands
<1> QED
  BY <1>2, <1>3

\* What the decoder of the fixed part asked for is what the message sent says.
AskedOnce ==
    stage = "fixed" =>
        /\ header = DecodeHeader(EncodeHeader(AllocatePdu(message)))
        /\ asked = ProcessPayloadFixed(message, header, body, Spl).n
        /\ ~ (asked < 0) /\ asked # 0

\* The length of the variable part, which the decoder of every command's fixed part takes from
\* the frame, leads nowhere past the end of the frame (socket.c:642).
THEOREM FramesFit == MessageSpec => []FitsFrame
<1>1. MessageInit => AskedOnce
  BY DEF MessageInit, AskedOnce
<1>2. OnItsWay /\ AskedOnce /\ [MessageNext]_messageVars => AskedOnce'
  <2> SUFFICES ASSUME OnItsWay, AskedOnce, [MessageNext]_messageVars PROVE AskedOnce'
    OBVIOUS
  <2>1. CASE Send
    BY <2>1 DEF Send, AskedOnce
  <2>2. CASE ReadFixed
    <3>1. header' = DecodeHeader(header) /\ message' = message /\ body' = body /\ stage = "sent"
      BY <2>2 DEF ReadFixed
    <3>2. header = EncodeHeader(AllocatePdu(message))
      BY <3>1 DEF OnItsWay
    <3>3. PICK r : /\ r = ProcessPayloadFixed(message, header', body, Spl) /\ asked' = r.n
                   /\ stage' = IF r.n < 0 THEN "rejected" ELSE IF r.n = 0 THEN "done" ELSE "fixed"
      BY <2>2 DEF ReadFixed
    <3>4. stage' = "fixed" => ~ (asked' < 0) /\ asked' # 0
      BY <3>3
    <3>5. asked' = ProcessPayloadFixed(message, header', body, Spl).n
      BY <3>3
    <3>6. header' = DecodeHeader(EncodeHeader(AllocatePdu(message)))
      BY <3>1, <3>2
    <3>7. Spl' = Spl
      BY <3>1 DEF Spl
    <3>8. AskedOnce' = (stage' = "fixed" =>
              /\ header' = DecodeHeader(EncodeHeader(AllocatePdu(message')))
              /\ asked' = ProcessPayloadFixed(message', header', body', Spl').n
              /\ ~ (asked' < 0) /\ asked' # 0)
      BY DEF AskedOnce
    <3> QED
      BY <3>1, <3>4, <3>5, <3>6, <3>7, <3>8
  <2>3. CASE ReadVariable
    BY <2>3 DEF ReadVariable, AskedOnce
  <2>4. CASE ReadName
    BY <2>4 DEF ReadName, AskedOnce
  <2>5. CASE Call
    BY <2>5 DEF Call, AskedOnce
  <2>6. CASE Hear
    BY <2>6 DEF Hear, AskedOnce
  <2>7. CASE FreePdu
    BY <2>7 DEF FreePdu, AskedOnce
  <2>8. CASE UNCHANGED messageVars
    BY <2>8 DEF messageVars, AskedOnce, Spl
  <2> QED
    BY <2>1, <2>2, <2>3, <2>4, <2>5, <2>6, <2>7, <2>8 DEF MessageNext
<1>3. OnItsWay /\ AskedOnce => FitsFrame
  <2> SUFFICES ASSUME OnItsWay, AskedOnce, stage = "fixed", ~ Overstated(message)
               PROVE  GetFixedSize(message, header) + asked <= body.total
    BY DEF FitsFrame
  <2>1. PICK k \in DOMAIN Messages : \E given \in Messages[k] : message = Asks(given)
    BY DEF OnItsWay
  <2>2. PICK given \in Messages[k] : message = Asks(given)
    BY <2>1
  <2>3. WellSized(message) /\ body = Encoded(message) /\ body # Refused
    BY <2>2, AskedWellSized DEF OnItsWay
  <2> DEFINE sent == AllocatePdu(message)
             p    == ProcessPayloadFixed(message, header, body, Spl)
  <2>4. sent.command = message.cmd /\ sent.status = message.status
    BY DEF AllocatePdu
  <2> HIDE DEF sent
  <2>5. header = DecodeHeader(EncodeHeader(sent))
    BY DEF AskedOnce, sent
  <2>6. header.command = message.cmd /\ header.status = message.status
    BY <2>4, <2>5, HeaderRead
  <2>7. Roomy(body, GetFixedSize(message, header), p)
    <3>1. CASE message.kind = "request"
      <4>1. body = Request(message) /\ GetFixedSize(message, header) = GetFixedRequestSize(header)
            /\ p = ProcessRequestPayloadFixed(header, body, HEADER_SIZE + body.total, Receiver(message))
        BY <2>3, <3>1 DEF Encoded, GetFixedSize, ProcessPayloadFixed, Spl
      <4> QED
        BY <2>3, <2>6, <3>1, <4>1, RequestFits
    <3>2. CASE message.kind = "reply"
      <4>1. body = Reply(message) /\ GetFixedSize(message, header) = GetFixedReplySize(header)
            /\ p = ProcessReplyPayloadFixed(header, body, HEADER_SIZE + body.total, Receiver(message))
        BY <2>3, <3>2 DEF Encoded, GetFixedSize, ProcessPayloadFixed, Spl
      <4> QED
        BY <2>3, <2>6, <3>2, <4>1, ReplyFits
    <3> QED
      BY <2>3, <3>1, <3>2 DEF WellSized
  <2>8. asked = p.n /\ ~ (asked < 0) /\ asked # 0
    BY DEF AskedOnce
  <2> HIDE DEF p
  <2> QED
    BY <2>7, <2>8 DEF Roomy
<1> QED
  BY <1>1, <1>2, <1>3, MessageWay, PTL DEF MessageSpec
=============================================================================
