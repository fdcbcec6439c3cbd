---------------------------- MODULE Smb2Receive ----------------------------
(***************************************************************************)
(* The receive path of libsmb2: smb2_read_data() as a machine over bytes,  *)
(* with the transform header of encrypted frames (lib/socket.c,            *)
(* lib/smb3-seal.c).                                                       *)
(*                                                                         *)
(* A frame is the NetBIOS length and one or more responses chained by      *)
(* next_command; it arrives in pieces of any size. Bytes are counted, not  *)
(* kept: a response is where the server put it, and a header looked for    *)
(* anywhere else is garbage. Callbacks, queues, the order of a compound's  *)
(* replies and break notifications are Smb2Pdu's.                          *)
(***************************************************************************)
EXTENDS Integers

CONSTANTS
    SPL_SIZE, Hdr, Trfm,  \* sizes: the NetBIOS length, an SMB2 header, a transform header
    Ids, Unknown,    \* the message ids waited for at first, and one nobody waits for
    Frames,          \* the frames the server may send
    MaxFrames        \* bound: frames in a behaviour

\* reply[i] starts at start[i] of the frame's body, which ends at start[n + 1].
\* setup: a response to NEGOTIATE, which is never signed, or SESSION_SETUP;
\* encrypts: a response to TREE_CONNECT whose share asks for encryption.
WellFormed(f) ==
    /\ f.sealed \in BOOLEAN /\ f.n \in Nat \ {0}
    /\ f.start \in [1 .. f.n + 1 -> Nat] /\ f.start[1] = 0
    /\ \A i, j \in 1 .. f.n + 1 : i < j => f.start[i] < f.start[j]
    /\ \A i \in 1 .. f.n :
         LET r == f.reply[i]
         IN /\ r.fixed \in Nat \ {0} /\ r.variable \in Nat /\ r.pad \in Nat
            /\ r.id \in Ids \cup {Unknown}
            /\ r.pending \in BOOLEAN /\ r.setup \in BOOLEAN /\ r.encrypts \in BOOLEAN
            /\ ~ (r.setup /\ r.encrypts)
            /\ r.signature \in {"none", "good", "bad"}
            /\ f.start[i + 1] = f.start[i] + Hdr + r.fixed + r.variable + r.pad

ASSUME ReceiveConstants ==
    /\ SPL_SIZE \in Nat \ {0} /\ Hdr \in Nat \ {0} /\ Trfm \in 1 .. Hdr
    /\ Unknown \notin Ids
    /\ \A f \in Frames : WellFormed(f)
    /\ MaxFrames \in Nat

VARIABLES
    seal, sign,   \* smb2->seal and smb2->sign: what the session was set up for
    waiting,      \* the wait queue
    frame,        \* the frame on the wire, or the last one
    at,           \* bytes of it read from the socket
    frames,       \* frames sent
    phase,        \* "reading", "idle" (back in the application) or "failed"
    recv,         \* recv_state: what is read next
    done, total,  \* in.num_done, in.total_size
    spl,          \* smb2->spl
    hdr,          \* smb2->hdr: the response whose header was decoded last, 0 for none
    payload,      \* payload_offset
    enc, encPos,  \* whether the decrypted copy of the frame is being read, and how far
    signFrom,     \* where the vector after iov_offset starts: what a signature is computed from
    resumed,      \* history: the worker came back in the middle of this frame
    heard,        \* history: responses of this frame that were called back
    skipped,      \* history: the response of this frame that was skipped with all behind it
    reason        \* why the context failed

session == <<seal, sign>>
wire    == <<frame, at, frames>>
input   == <<recv, done, total>>
history == <<resumed, heard, skipped>>
vars    == <<session, waiting, wire, phase, input, spl, hdr, payload, enc, encPos,
             signFrom, history, reason>>

NoFrame == [sealed |-> FALSE, n |-> 0]

Content(f) == f.start[f.n + 1]
Wire(f) == Content(f) + (IF f.sealed THEN Trfm ELSE 0)   \* what the NetBIOS length says
Size(f) == SPL_SIZE + Wire(f)

TypeOK ==
    /\ seal \in BOOLEAN /\ sign \in BOOLEAN
    /\ waiting \subseteq Ids
    /\ frame \in Frames \cup {NoFrame} /\ at \in Nat /\ frames \in 0 .. MaxFrames
    /\ phase \in {"reading", "idle", "failed"}
    /\ recv \in {"spl", "header", "trfm", "fixed", "variable", "pad", "unknown"}
    /\ done \in Nat /\ total \in Nat /\ done <= total
    /\ spl \in Nat /\ hdr \in 0 .. frame.n /\ payload \in Nat
    /\ enc \in BOOLEAN /\ encPos \in Nat /\ signFrom \in Nat
    /\ resumed \in BOOLEAN /\ heard \subseteq 1 .. frame.n /\ skipped \in 0 .. frame.n
    /\ reason \in {"none", "policy", "signature", "closed"}

Init ==
    /\ seal \in BOOLEAN /\ sign \in BOOLEAN /\ ~ (seal /\ sign)
    /\ waiting = Ids
    /\ frame = NoFrame /\ at = 0 /\ frames = 0
    /\ phase = "idle" /\ recv = "spl" /\ done = 0 /\ total = SPL_SIZE
    /\ spl = 0 /\ hdr = 0 /\ payload = 0 /\ enc = FALSE /\ encPos = 0 /\ signFrom = SPL_SIZE
    /\ resumed = FALSE /\ heard = {} /\ skipped = 0 /\ reason = "none"

-----------------------------------------------------------------------------
(* The server and the socket *)

\* Nothing of a frame is pending: the length of the next one is due.
Between == recv = "spl" /\ done = 0 /\ ~ enc

\* Bytes of the frame are still to come.
InFrame == frame # NoFrame /\ at < Size(frame)

\* A server encrypts only for a session that is set up for it.
ServerSends(f) ==
    /\ Between /\ ~ InFrame /\ phase \in {"reading", "idle"} /\ frames < MaxFrames
    /\ f.sealed => seal
    /\ frame' = f /\ at' = 0 /\ frames' = frames + 1
    /\ hdr' = 0 /\ resumed' = FALSE /\ heard' = {} /\ skipped' = 0
    /\ UNCHANGED <<session, waiting, phase, input, spl, payload, enc, encPos, signFrom, reason>>

Due == phase = "reading" /\ done < total
Got == phase = "reading" /\ done = total

\* readv() returns some of the bytes asked for.
ReadSome ==
    /\ Due /\ ~ enc /\ InFrame
    /\ \E c \in 1 .. total - done :
         /\ at + c <= Size(frame)
         /\ done' = done + c /\ at' = at + c
    /\ UNCHANGED <<session, waiting, frame, frames, phase, recv, total, spl, hdr, payload, enc,
                   encPos, signFrom, history, reason>>

\* EAGAIN: back to the application, the frame's rest still to come.
WouldBlock ==
    /\ Due /\ ~ enc
    /\ phase' = "idle"
    /\ UNCHANGED <<session, waiting, wire, input, spl, hdr, payload, enc, encPos, signFrom,
                   history, reason>>

\* The next call of smb2_read_from_socket(); iov_offset is a local of smb2_read_data().
Resume ==
    /\ phase = "idle"
    /\ phase' = "reading" /\ resumed' = (resumed \/ ~ Between)
    /\ signFrom' = SPL_SIZE
    /\ UNCHANGED <<session, waiting, wire, input, spl, hdr, payload, enc, encPos, heard, skipped,
                   reason>>

\* smb2_readv_from_buf() takes what is asked for from the decrypted copy.
ReadBuf ==
    /\ Due /\ enc
    /\ LET c == IF total - done < spl - encPos THEN total - done ELSE spl - encPos
       IN /\ done' = done + c /\ encPos' = encPos + c
          /\ IF c = 0 THEN phase' = "failed" /\ reason' = "closed"
                      ELSE UNCHANGED <<phase, reason>>
    /\ UNCHANGED <<session, waiting, wire, recv, total, spl, hdr, payload, enc, signFrom, history>>

-----------------------------------------------------------------------------
(* smb2_read_data(): what is done when the bytes of a state are in *)

\* The frame is finished: num_done = 0, and the next length is due.
Restart ==
    /\ recv' = "spl" /\ done' = 0 /\ total' = SPL_SIZE /\ enc' = FALSE /\ signFrom' = SPL_SIZE
    /\ UNCHANGED <<phase, reason>>

GiveUp(why) ==
    /\ phase' = "failed" /\ reason' = why
    /\ UNCHANGED <<input, enc, signFrom>>

SplRead ==
    /\ Got /\ recv = "spl"
    /\ spl' = Wire(frame)
    /\ recv' = "header" /\ total' = total + Hdr
    /\ UNCHANGED <<session, waiting, wire, phase, done, hdr, payload, enc, encPos, signFrom, history,
                   reason>>

\* A transform header is shorter than the header read in its place: what was
\* read too much is the start of the encrypted part.
Transform ==
    /\ Got /\ recv = "header" /\ ~ enc /\ frame.sealed
    /\ recv' = "trfm" /\ total' = total - (Hdr - Trfm) + (spl - Trfm)
    /\ UNCHANGED <<session, waiting, wire, phase, done, spl, hdr, payload, enc, encPos, signFrom,
                   history, reason>>

\* smb3_decrypt_pdu() reads the frame's body again, from memory.
Decrypt ==
    /\ Got /\ recv = "trfm"
    /\ enc' = TRUE /\ encPos' = 0 /\ spl' = Content(frame)
    /\ recv' = "header" /\ done' = 0 /\ total' = Hdr /\ signFrom' = Hdr
    /\ UNCHANGED <<session, waiting, wire, phase, hdr, payload, history, reason>>

\* Where in the frame's body reading has got to.
Pos == IF enc THEN encPos ELSE at - SPL_SIZE

HeaderIn == Got /\ recv = "header" /\ ~ (frame.sealed /\ ~ enc)

\* Mutation: the length of the whole frame, read or not, is taken for what is left.
RestWhole == spl

\* Mutation: the bytes of the length are forgotten.
RestOfCopy == spl - done

\* What is left of the frame after what was read of it.
Rest == spl + (IF enc THEN 0 ELSE SPL_SIZE) - done

\* Neither an interim response nor one to an unknown id is for anybody: the
\* frame's rest is skipped with it.
Skipped(i, state) ==
    /\ recv' = state /\ total' = total + Rest
    /\ skipped' = i
    /\ UNCHANGED waiting

Decode(i) ==
    /\ HeaderIn /\ frame.start[i] + Hdr = Pos
    /\ hdr' = i /\ payload' = done
    /\ LET r == frame.reply[i]
       IN IF r.pending THEN Skipped(i, "pad")
          ELSE IF r.id \notin waiting THEN Skipped(i, "unknown")
          ELSE /\ waiting' = waiting \ {r.id}
               /\ recv' = "fixed" /\ total' = total + r.fixed
               /\ UNCHANGED skipped
    /\ UNCHANGED <<session, wire, phase, done, spl, enc, encPos, signFrom, resumed, heard, reason>>

Response == frame.reply[hdr]

\* Mutation: the offset of the next response is not looked at.
NextCommandIgnored == 0

NextCommand == IF hdr < frame.n THEN frame.start[hdr + 1] - frame.start[hdr] ELSE 0

\* Mutation: the padding ends with the frame, chained or not.
PaddingOfFrame == Rest

Padding == IF NextCommand # 0 THEN NextCommand - (Hdr + done - payload) ELSE Rest

\* The share's flag turns encryption on as soon as the response is decoded.
FixedRead ==
    /\ Got /\ recv = "fixed"
    /\ seal' = (seal \/ Response.encrypts)
    /\ IF Response.variable > 0
         THEN recv' = "variable" /\ total' = total + Response.variable
         ELSE recv' = "pad" /\ total' = total + Padding
    /\ UNCHANGED <<sign, waiting, wire, phase, done, spl, hdr, payload, enc, encPos, signFrom,
                   history, reason>>

VariableRead ==
    /\ Got /\ recv = "variable"
    /\ recv' = "pad" /\ total' = total + Padding
    /\ UNCHANGED <<session, waiting, wire, phase, done, spl, hdr, payload, enc, encPos, signFrom,
                   history, reason>>

UnknownRead ==
    /\ Got /\ recv = "unknown"
    /\ Restart
    /\ UNCHANGED <<session, waiting, wire, spl, hdr, payload, encPos, history>>

\* Mutation: an unencrypted reply is taken in a session that is to be encrypted.
PolicyOfSigning(r) == ~ enc /\ ~ r.setup /\ sign /\ ~ r.pending /\ r.signature = "none"

\* The local patch: the protection the session was set up for is asked of every
\* response but those that set it up.
Unprotected(r) ==
    ~ enc /\ ~ r.setup /\ (seal \/ (sign /\ ~ r.pending /\ r.signature = "none"))

\* A signature is computed from signFrom to the end of what was read.
WrongSignature(r) ==
    /\ sign /\ r.signature # "none" /\ ~ r.setup
    /\ ~ (r.signature = "good" /\ signFrom = payload - Hdr)

\* Mutation: where the next response starts is not recorded.
ChainUnrecorded ==
    /\ recv' = "header" /\ total' = total + Hdr
    /\ UNCHANGED <<phase, done, enc, signFrom, reason>>

\* The next response of the chain.
Chain ==
    /\ recv' = "header" /\ total' = total + Hdr /\ signFrom' = done
    /\ UNCHANGED <<phase, done, enc, reason>>

\* The response is complete, padding and all: the callback of its command runs.
Finished ==
    /\ Got /\ recv = "pad"
    /\ IF Unprotected(Response) THEN GiveUp("policy") /\ UNCHANGED heard
       ELSE IF Response.pending THEN Restart /\ UNCHANGED heard
       ELSE IF WrongSignature(Response) THEN GiveUp("signature") /\ UNCHANGED heard
       ELSE /\ heard' = heard \cup {hdr}
            /\ IF NextCommand # 0 THEN Chain ELSE Restart
    /\ UNCHANGED <<session, waiting, wire, spl, hdr, payload, encPos, resumed, skipped>>

-----------------------------------------------------------------------------

Server == \E f \in Frames : ServerSends(f)

Reader == \/ ReadSome \/ ReadBuf \/ SplRead \/ Transform \/ Decrypt
          \/ (\E i \in 1 .. frame.n : Decode(i))
          \/ FixedRead \/ VariableRead \/ UnknownRead \/ Finished

Stopped == phase = "failed" \/ (Between /\ ~ InFrame /\ frames = MaxFrames)

Done == Stopped /\ UNCHANGED vars

Next == Server \/ Reader \/ WouldBlock \/ Resume \/ Done

Spec == Init /\ [][Next]_vars

\* The worker comes back to the socket, and the bytes of a frame all arrive.
FairSpec == Spec /\ WF_vars(Resume) /\ SF_vars(Reader)

-----------------------------------------------------------------------------
(* Properties *)

\* However the bytes arrive, a header is looked for only where a response starts,
\* never more is asked for than the frame holds (else the next frame would be
\* eaten, or waited for), and a frame is over when all of it was read.
Aligned ==
    /\ HeaderIn => \E i \in 1 .. frame.n : Pos = frame.start[i] + Hdr
    /\ recv # "spl" => total - done <= IF enc THEN spl - encPos ELSE Size(frame) - at
    /\ recv = "spl" /\ done = 0 => at \in {0} \cup (IF frame = NoFrame THEN {} ELSE {Size(frame)})

\* A response is handed over when exactly its bytes were read, padding included:
\* in a chain, in the last place and in a decrypted copy alike.
ReplyWhole ==
    Got /\ recv = "pad" /\ ~ Response.pending => Pos = frame.start[hdr + 1]

\* Behind a frame that was read, a command whose response it held is no longer
\* waiting, unless that response came behind one that was skipped.
NothingSkipped ==
    frame # NoFrame /\ Between /\ ~ InFrame /\ phase # "failed" =>
        \A i \in 1 .. frame.n :
            ~ frame.reply[i].pending /\ frame.reply[i].id \in waiting => 0 < skipped /\ skipped < i

\* The receive policy (README.md, "Local patch to lib/socket.c"): no response but
\* those that set the session up reaches its callback without the session's protection.
Protected ==
    [][\A i \in heard' \ heard :
         \/ frame.reply[i].setup
         \/ /\ seal => frame.sealed
            /\ sign /\ ~ frame.sealed => frame.reply[i].signature = "good"]_vars

\* A response with a good signature is refused only when it is chained behind
\* another and the worker left the frame in between.
RefusalsExplained ==
    reason = "signature" => Response.signature = "bad" \/ (hdr > 1 /\ resumed)

\* The comment at iov_offset: "Record at which iov we ended in this loop so we
\* know where to start in the next". A good signature is never found wrong.
GenuineAccepted == reason = "signature" => Response.signature = "bad"

\* Every frame is read to its end, or the connection fails: no frame is waited for for ever.
EveryFrameEnds == InFrame ~> (Between /\ ~ InFrame) \/ phase = "failed"
=============================================================================
