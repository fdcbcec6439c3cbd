-------------------------- MODULE GuardedTransfer --------------------------
(***************************************************************************)
(* SMBTransport's operations that read the share: list, download, range,   *)
(* and mkdir. Each first opens the directories above its path one by one,  *)
(* by name, refuses one that is a link and keeps the handle, which denies  *)
(* others the deletion and the renaming of that directory. Another client  *)
(* of the share meanwhile puts links in the place of what nobody holds and *)
(* rewrites the file when it may.                                          *)
(*                                                                         *)
(* A command is one step with the server, between two of which the other   *)
(* client acts; it may also fail (refusal, lost connection, deadline,      *)
(* cancel), and then the connection is closed with all its handles.        *)
(***************************************************************************)
EXTENDS Naturals, Sequences

CONSTANTS
    Depth,       \* directories above the last component
    Size,        \* the file's size, in the pieces a READ may return
    MaxVersions, \* bound: rewritings of the file
    MaxOps       \* bound: operations on one connection

ASSUME TransferConstants ==
    /\ Depth \in Nat \ {0} /\ Size \in Nat /\ MaxVersions \in Nat /\ MaxOps \in Nat \ {0}

Dirs == 1 .. Depth
Leaf == Depth + 1

VARIABLES
    tree,      \* what is at each component of the path: "dir", "link", "file", "none"
    version,   \* of the file
    writer,    \* the other client has the file open for writing
    connected, \* the connection to the server is up
    held,      \* heldDirectories: what each handle is on, <<component, kind, inside>>
    kept,      \* handles that an operation left open when it threw
    op,        \* the running operation
    pc, at,    \* its next step; the component being opened
    handle,    \* the handle it opened last
    expected,  \* the version the caller saw in the listing, 0 when it gave none
    validated, \* the version that stat reported
    received,  \* the pieces passed to the caller: <<inside, version>>
    outcome,   \* of the operation
    made,      \* history: where mkdir created a directory
    count      \* history: operations started

vars == <<tree, version, writer, connected, held, kept, op, pc, at, handle, expected,
          validated, received, outcome, made, count>>

others == <<tree, version, writer>>
None   == <<0, "none", TRUE>>

\* The server resolves a name through the links on its way: what is found behind one lies
\* outside the tree and can be anything.
Inside(i) == \A j \in Dirs : j < i => tree[j] = "dir"
Behind == {"dir", "link", "file", "none"}
Found(i)  == IF Inside(i) THEN {<<i, tree[i], TRUE>>} ELSE {<<i, k, FALSE>> : k \in Behind}

Handles == {held[n] : n \in 1 .. Len(held)} \cup kept \cup {handle}

(***************************************************************************)
(* The other client. A directory with an open handle that shares only      *)
(* reading is neither renamed nor deleted, nor is one above it.            *)
(***************************************************************************)
Denied(i) == \E h \in Handles : h[3] /\ h[1] >= i /\ h[2] # "none"

PlantLink(i) ==
    /\ tree[i] \in {"dir", "file"} /\ ~ Denied(i) /\ (i = Leaf => ~ writer)
    /\ tree' = [tree EXCEPT ![i] = "link"]
    /\ UNCHANGED <<version, writer, connected, held, kept, op, pc, at, handle, expected,
                   validated, received, outcome, made, count>>

PutBack(i) ==
    /\ tree[i] = "link" /\ ~ Denied(i)
    /\ tree' = [tree EXCEPT ![i] = IF i = Leaf THEN "file" ELSE "dir"]
    /\ UNCHANGED <<version, writer, connected, held, kept, op, pc, at, handle, expected,
                   validated, received, outcome, made, count>>

OpenForWriting ==
    /\ ~ writer /\ tree[Leaf] = "file" /\ ~ Denied(Leaf)
    /\ writer' = TRUE
    /\ UNCHANGED <<tree, version, connected, held, kept, op, pc, at, handle, expected,
                   validated, received, outcome, made, count>>

Rewrite ==
    /\ writer /\ version < MaxVersions
    /\ version' = version + 1 /\ writer' \in BOOLEAN
    /\ UNCHANGED <<tree, connected, held, kept, op, pc, at, handle, expected, validated,
                   received, outcome, made, count>>

(***************************************************************************)
(* The operation.                                                          *)
(***************************************************************************)
Ops == {"list", "mkdir", "download", "range"}

\* guardAncestors: list also guards the directory it lists.
GuardedTo(o) == IF o = "list" THEN Leaf ELSE Depth

Start(o) ==
    /\ op = "none" /\ connected /\ count < MaxOps
    /\ op' = o /\ pc' = "open" /\ at' = 1 /\ handle' = None
    /\ count' = count + 1 /\ outcome' = "none" /\ received' = <<>> /\ validated' = 0
    /\ expected' \in IF o = "range" THEN {version} ELSE {0, version}
    /\ UNCHANGED <<others, connected, held, kept, made>>

Ends(result) == op' = "none" /\ pc' = "idle" /\ outcome' = result

\* A guard of the operation's own throws: the connection and its handles stay.
Throws(result) ==
    /\ Ends(result)
    /\ kept' = kept \cup {handle} /\ handle' = None
    /\ UNCHANGED <<others, connected, held, at, expected, validated, received, made, count>>

\* command() throws: close() destroys the context.
Fails ==
    /\ op # "none"
    /\ Ends("failed")
    /\ connected' = FALSE /\ held' = <<>> /\ kept' = {} /\ handle' = None
    /\ UNCHANGED <<others, at, expected, validated, received, made, count>>

\* checkCancellation before a command or between two: the context stays.
Cancelled == op # "none" /\ Throws("cancelled")

Step(next) ==
    /\ op # "none" /\ pc' = next
    /\ UNCHANGED <<others, connected, op, expected, outcome, count>>

\* A directory is opened itself, not what it links to, sharing only reading; the open of
\* something that is not there, or is not a directory, fails the command.
OpenAncestor ==
    /\ pc = "open" /\ at <= GuardedTo(op)
    /\ \E f \in Found(at) :
         /\ f[2] \in {"dir", "link"} /\ handle' = f
    /\ Step("stat")
    /\ UNCHANGED <<held, kept, at, validated, received, made>>

\* The handle joins heldDirectories, which keeps it open until close().
RetainedNone(h) == held
Retained(h) == Append(held, h)

HoldAnything ==
    /\ pc = "stat"
    /\ held' = Retained(handle) /\ handle' = None /\ at' = at + 1
    /\ Step("open")
    /\ UNCHANGED <<kept, validated, received, made>>
HoldAncestor ==
    /\ pc = "stat" /\ handle[2] = "dir"
    /\ held' = Retained(handle) /\ handle' = None /\ at' = at + 1
    /\ Step("open")
    /\ UNCHANGED <<kept, validated, received, made>>

RefuseAncestor == pc = "stat" /\ handle[2] # "dir" /\ Throws("invalid")

\* list: every entry that is not a link, read with the directory of the last guard.
List ==
    /\ op = "list" /\ pc = "open" /\ at > GuardedTo(op)
    /\ \E f \in Found(Leaf) :
         /\ f[2] = "dir"
         /\ received' = <<<<f[3], version>>>>
    /\ Ends("done")
    /\ UNCHANGED <<others, connected, held, kept, at, handle, expected, validated, made, count>>

\* mkdir: an exclusive create of a directory, whose handle is closed.
Mkdir ==
    /\ op = "mkdir" /\ pc = "open" /\ at > GuardedTo(op)
    /\ \E f \in Found(Leaf) :
         /\ f[2] = "none"
         /\ made' = made \cup {f[3]}
         /\ IF f[3] THEN tree' = [tree EXCEPT ![Leaf] = "dir"] ELSE UNCHANGED tree
    /\ Ends("done")
    /\ UNCHANGED <<version, writer, connected, held, kept, at, handle, expected, validated,
                   received, count>>

OpenFile ==
    /\ op \in {"download", "range"} /\ pc = "open" /\ at > GuardedTo(op)
    /\ \E f \in Found(Leaf) :
         /\ f[2] \in {"file", "link"} /\ (f[3] => ~ writer)
         /\ handle' = f
    /\ Step("validate")
    /\ UNCHANGED <<held, kept, at, validated, received, made>>

\* stat and validate: a regular file of the size and time the caller expects. Each version has
\* a size or a time of its own.
ValidAnyway(h, v) == h[2] = "file"
Valid(h, v) == h[2] = "file" /\ expected \in {0, v}

Validate ==
    /\ pc = "validate"
    /\ \E v \in IF handle[3] THEN {version} ELSE 1 .. MaxVersions :
         \/ Valid(handle, v) /\ validated' = v /\ Step("read")
              /\ UNCHANGED <<held, kept, at, handle, received, made>>
         \/ ~ Valid(handle, v) /\ Throws("invalid")

\* The READ is answered with at least one piece and at most what is left.
Read ==
    /\ pc = "read" /\ Len(received) < Size
    /\ \E n \in 1 .. Size - Len(received) :
         received' = received \o [i \in 1 .. n |-> <<handle[3], IF handle[3] THEN version
                                                                ELSE validated>>]
    /\ Step("read")
    /\ UNCHANGED <<held, kept, at, handle, validated, made>>

\* The READ returned nothing before the end, or the caller could not store the data.
ReadReopens ==
    /\ pc = "read" /\ Step("open")
    /\ UNCHANGED <<held, kept, at, handle, validated, received, made>>
ReadFails == pc = "read" /\ Throws("failed")

CloseFile ==
    /\ pc = "read" /\ Len(received) = Size
    /\ Ends("done") /\ handle' = None
    /\ UNCHANGED <<others, connected, held, kept, at, expected, validated, received, made, count>>

\* The owner of the transport closes it between operations.
Close ==
    /\ op = "none" /\ connected
    /\ connected' = FALSE /\ held' = <<>> /\ kept' = {}
    /\ UNCHANGED <<others, op, pc, at, handle, expected, validated, received, outcome, made,
                   count>>

Init ==
    /\ tree \in [1 .. Leaf -> {"dir", "link", "file", "none"}]
    /\ \A i \in Dirs : tree[i] \in {"dir", "link"}
    /\ version = 1 /\ writer = FALSE /\ connected = TRUE
    /\ held = <<>> /\ kept = {} /\ op = "none" /\ pc = "idle" /\ at = 1 /\ handle = None
    /\ expected = 0 /\ validated = 0 /\ received = <<>> /\ outcome = "none"
    /\ made = {} /\ count = 0

Client == \/ OpenAncestor \/ HoldAncestor \/ RefuseAncestor \/ List \/ Mkdir \/ OpenFile
          \/ Validate \/ Read \/ ReadFails \/ CloseFile \/ Fails \/ Cancelled

Next ==
    \/ Client \/ Close
    \/ \E o \in Ops : Start(o)
    \/ \E i \in 1 .. Leaf : PlantLink(i) \/ PutBack(i)
    \/ OpenForWriting \/ Rewrite

\* command() returns or throws by its deadline, and the worker goes on.
Spec == Init /\ [][Next]_vars /\ WF_vars(Client)

(***************************************************************************)
(* Properties.                                                             *)
(***************************************************************************)
TypeOK ==
    /\ tree \in [1 .. Leaf -> {"dir", "link", "file", "none"}]
    /\ version \in 1 .. MaxVersions /\ writer \in BOOLEAN /\ connected \in BOOLEAN
    /\ op \in Ops \cup {"none"} /\ at \in 1 .. Leaf + 1
    /\ outcome \in {"none", "done", "invalid", "cancelled", "failed"}
    /\ validated \in 0 .. MaxVersions /\ made \subseteq BOOLEAN

\* What the caller is given, and what it makes, lies in the tree it named: no link on the path
\* is followed, whenever the other client plants it.
InsideOnly ==
    /\ \A n \in 1 .. Len(received) : received[n][1]
    /\ made \subseteq {TRUE}

\* A download or range that succeeds hands over the whole of one version of the file, the one
\* the caller had seen if it named one; rewriting starts after it or fails it.
Whole ==
    op = "none" /\ outcome = "done" /\ validated # 0 =>
        /\ received = [n \in 1 .. Size |-> <<TRUE, validated>>]
        /\ expected \in {0, validated}

\* The directories above the file stay real directories from their guard to the operation's
\* end, and as long as the connection keeps them.
GuardsHold == \A n \in 1 .. Len(held) :
    /\ held[n][3] /\ tree[held[n][1]] = "dir"
    /\ \A j \in 1 .. held[n][1] : \E m \in 1 .. n : held[m][1] = j

\* Every operation ends.
OpEnds == op # "none" ~> op = "none"
=============================================================================
