----------------------------- MODULE MCReceive -----------------------------
(***************************************************************************)
(* Smb2Receive on frames of one and two responses of a few shapes.         *)
(***************************************************************************)
EXTENDS Smb2Receive, FiniteSetsExt

Plain == [id |-> 1, fixed |-> 1, variable |-> 0, pad |-> 0, pending |-> FALSE, setup |-> FALSE,
          encrypts |-> FALSE, signature |-> "good"]

Shapes == {Plain,
           [Plain EXCEPT !.id = 2, !.variable = 1, !.pad = 1],
           [Plain EXCEPT !.id = 2, !.pad = 1, !.signature = "bad"],
           [Plain EXCEPT !.pending = TRUE, !.pad = 1],
           [Plain EXCEPT !.id = Unknown, !.signature = "none"],
           [Plain EXCEPT !.setup = TRUE, !.signature = "none"],
           [Plain EXCEPT !.id = 2, !.encrypts = TRUE]}

Length(r) == Hdr + r.fixed + r.variable + r.pad

Frame(replies, n, sealed) ==
    [sealed |-> sealed, n |-> n, reply |-> replies,
     start |-> [i \in 1 .. n + 1 |-> MapThenSumSet(LAMBDA j : Length(replies[j]), 1 .. i - 1)]]

FramesOf(n) == {Frame(replies, n, sealed) : replies \in [1 .. n -> Shapes], sealed \in BOOLEAN}

AllFrames == FramesOf(1) \cup FramesOf(2)
=============================================================================
