----------------------------- MODULE SmbUpload -----------------------------
(***************************************************************************)
(* SMBTransport.upload(): one upload to one path, and the cleanup of an    *)
(* upload that failed or was cancelled (SMBTransport.swift).               *)
(*                                                                         *)
(* The worker sees the server only through commands. A command sends a     *)
(* request and waits, and may stop waiting at any moment: the user's       *)
(* cancel is sampled, its deadline passes, the connection is lost. What it *)
(* sent may be carried out all the same, until the server notices that the *)
(* connection is gone and closes its handles. Other clients use the same   *)
(* name meanwhile.                                                         *)
(***************************************************************************)
EXTENDS Naturals

CONSTANTS
    Size,       \* the file's size in write requests
    MaxTries,   \* bound: openings of the file for deletion that fit in cleanupTimeout
    Others      \* what other clients may do with the name: "create", "delete", "read", "link"

ASSUME UploadConstants ==
    /\ Size \in Nat /\ MaxTries \in Nat \ {0}
    /\ Others \subseteq {"create", "delete", "read", "link"}

Conn == {"upload", "cleanup"}     \* the upload's connection and the cleanup's

VARIABLES
    pc,          \* where the worker is
    outcome,     \* what upload() returned or threw
    made,        \* the exclusive create returned: the file is the upload's to remove
    offset,      \* chunks whose write was acknowledged
    tries,       \* openings for deletion
    obstructed,  \* the cleanup gave up
    cancelled,   \* the user's cancel
    sent, reply, \* the request and the reply under way on each connection
    closed,      \* connections the worker closed
    linked,      \* connections the server still serves
    entry,       \* what is at the path: nothing, the upload's file or another client's
    written,     \* chunks in the upload's file
    holding,     \* connections with a handle on the entry
    reader,      \* another client's handle on it, sharing or denying deletion
    doomed,      \* who marked it for deletion on its last close
    removed      \* history: what the cleanup deleted

worker == <<pc, outcome, made, offset, tries, obstructed>>
wire   == <<sent, reply, closed, linked>>
name   == <<entry, written, holding, reader, doomed, removed>>
vars   == <<worker, cancelled, wire, name>>

Uploading == {"guard", "create", "creating", "write", "writing", "flushing", "closing", "check"}
Cleaning  == {"cleanup", "delete", "deleting", "dispose", "disposing", "release", "releasing"}

TypeOK ==
    /\ pc \in Uploading \cup Cleaning \cup {"ended"}
    /\ outcome \in {"none", "done", "exists", "failed", "cancelled"}
    /\ made \in BOOLEAN /\ obstructed \in BOOLEAN /\ cancelled \in BOOLEAN
    /\ offset \in 0 .. Size /\ tries \in 0 .. MaxTries
    /\ sent \in [Conn -> {"none", "create", "write", "flush", "close", "open", "dispose"}]
    /\ reply \in [Conn -> {"none", "ok", "short", "link", "exists", "directory", "gone",
                           "sharing", "error"}]
    /\ closed \subseteq Conn /\ linked \subseteq Conn /\ holding \subseteq Conn
    /\ entry \in {"none", "mine", "other", "link", "folder"}
    /\ written \in 0 .. Size
    /\ reader \in {"none", "shares", "denies"}
    /\ doomed \in {"no", "cleanup", "other"}
    /\ removed \subseteq {"mine", "other", "link", "folder"}

Init ==
    /\ pc = "guard" /\ outcome = "none" /\ made = FALSE /\ offset = 0 /\ tries = 0
    /\ obstructed = FALSE /\ cancelled = FALSE
    /\ sent = [c \in Conn |-> "none"] /\ reply = [c \in Conn |-> "none"]
    /\ closed = {} /\ linked = {"upload"}
    /\ entry \in {"none", "other", "link", "folder"}
    /\ written = 0 /\ holding = {} /\ reader = "none" /\ doomed = "no" /\ removed = {}

-----------------------------------------------------------------------------
(* The server, and the other clients of the name *)

\* Handles change to h and r, the deletion mark to d; the last close deletes.
Handles(h, r, d) ==
    /\ holding' = h /\ reader' = r
    /\ IF h = {} /\ r = "none" /\ d # "no"
         THEN /\ entry' = "none" /\ doomed' = "no"
              /\ removed' = IF d = "cleanup" THEN removed \cup {entry} ELSE removed
         ELSE doomed' = d /\ UNCHANGED <<entry, removed>>

Answer(c, r) ==
    /\ sent' = [sent EXCEPT ![c] = "none"]
    /\ reply' = [reply EXCEPT ![c] = r]
    /\ UNCHANGED <<worker, cancelled, closed, linked>>

Asked(c, op) == c \in linked /\ sent[c] = op

ServeCreate ==
    /\ Asked("upload", "create")
    /\ \/ /\ entry = "none"
          /\ entry' = "mine" /\ holding' = {"upload"}
          /\ Answer("upload", "ok")
          /\ UNCHANGED <<written, reader, doomed, removed>>
       \/ /\ entry # "none"
          /\ \E r \in IF entry = "folder" THEN {"exists", "directory"} ELSE {"exists", "error"} :
                 Answer("upload", r)
          /\ UNCHANGED name

ServeWrite ==
    /\ Asked("upload", "write")
    /\ \/ written' = written + 1 /\ Answer("upload", "ok")
       \/ written' = written /\ Answer("upload", "short")
    /\ UNCHANGED <<entry, holding, reader, doomed, removed>>

ServeFlush == Asked("upload", "flush") /\ Answer("upload", "ok") /\ UNCHANGED name

ServeClose(c) ==
    /\ Asked(c, "close")
    /\ Handles(holding \ {c}, reader, doomed)
    /\ Answer(c, "ok")
    /\ UNCHANGED written

\* CREATE with DELETE access and FILE_OPEN, on what is not a directory, opening a link itself.
ServeOpen ==
    /\ Asked("cleanup", "open")
    /\ LET refusal == IF entry = "none" THEN "gone"
                      ELSE IF entry = "folder" THEN "directory"
                      ELSE IF doomed # "no" THEN "gone"
                      ELSE IF "upload" \in holding \/ reader = "denies" THEN "sharing"
                      ELSE "none"
       IN IF refusal = "none"
            THEN /\ Answer("cleanup", IF entry = "link" THEN "link" ELSE "ok")
                 /\ holding' = holding \cup {"cleanup"}
            ELSE Answer("cleanup", refusal) /\ UNCHANGED holding
    /\ UNCHANGED <<entry, written, reader, doomed, removed>>

ServeDispose ==
    /\ Asked("cleanup", "dispose")
    /\ Handles(holding, reader, "cleanup")
    /\ Answer("cleanup", "ok")
    /\ UNCHANGED written

\* Any request may be refused, for lack of rights, space or memory.
ServeRefusal(c) ==
    /\ c \in linked /\ sent[c] \notin {"none", "close"}
    /\ Answer(c, "error")
    /\ UNCHANGED name

\* The server notices that a connection is gone, closed by the worker or lost.
Drop(c) ==
    /\ c \in linked
    /\ linked' = linked \ {c}
    /\ sent' = [sent EXCEPT ![c] = "none"]
    /\ Handles(holding \ {c}, reader, doomed)
    /\ UNCHANGED <<worker, cancelled, reply, closed, written>>

Server == \/ ServeCreate \/ ServeWrite \/ ServeFlush \/ ServeOpen \/ ServeDispose
          \/ \E c \in Conn : ServeClose(c) \/ ServeRefusal(c)

OtherCreates ==
    /\ "create" \in Others /\ entry = "none"
    /\ entry' \in {"other"} \cup (Others \cap {"link"})
    /\ UNCHANGED <<worker, cancelled, wire, written, holding, reader, doomed, removed>>

\* The upload's handle shares no deletion.
OtherDeletes ==
    /\ "delete" \in Others /\ entry # "none" /\ doomed = "no"
    /\ "upload" \notin holding /\ reader # "denies"
    /\ Handles(holding, reader, "other")
    /\ UNCHANGED <<worker, cancelled, wire, written>>

OtherReads ==
    /\ "read" \in Others /\ entry \in {"mine", "other"}
    /\ \/ /\ reader = "none" /\ doomed = "no"
          /\ reader' \in {"shares", "denies"}
          /\ "cleanup" \in holding => reader' = "shares"
          /\ UNCHANGED <<entry, holding, doomed, removed>>
       \/ /\ reader # "none"
          /\ Handles(holding, "none", doomed)
    /\ UNCHANGED <<worker, cancelled, wire, written>>

-----------------------------------------------------------------------------
(* The upload *)

UserCancels == ~ cancelled /\ cancelled' = TRUE /\ UNCHANGED <<worker, wire, name>>

\* command(): the user's cancel is sampled before the request is sent.
Send(c, op) ==
    /\ c = "upload" => ~ cancelled
    /\ sent' = [sent EXCEPT ![c] = op]
    /\ reply' = [reply EXCEPT ![c] = "none"]
    /\ UNCHANGED <<closed, linked>>

Step(from, to) == pc = from /\ pc' = to

\* guardAncestors() holds every directory above the path.
Guarded ==
    /\ Step("guard", "create")
    /\ UNCHANGED <<outcome, made, offset, tries, obstructed, cancelled, wire, name>>

Create ==
    /\ Step("create", "creating") /\ Send("upload", "create")
    /\ UNCHANGED <<outcome, made, offset, tries, obstructed, cancelled, name>>

Created ==
    /\ Step("creating", "write") /\ reply["upload"] = "ok"
    /\ made' = TRUE
    /\ UNCHANGED <<outcome, offset, tries, obstructed, cancelled, wire, name>>

\* The name is taken: nothing was created. Samba's answer for a folder is read
\* as Windows' is (uploadCreateFailure).
NameTaken ==
    /\ Step("creating", "ended") /\ reply["upload"] \in {"exists", "directory"}
    /\ outcome' = "exists" /\ closed' = closed \cup {"upload"}
    /\ UNCHANGED <<made, offset, tries, obstructed, cancelled, sent, reply, linked, name>>

\* Mutation: the chunk that ends the file is not recognised.
WriteOn ==
    /\ Step("write", "writing") /\ Send("upload", "write")
    /\ UNCHANGED <<outcome, made, offset, tries, obstructed, cancelled, name>>

Write ==
    /\ Step("write", "writing") /\ offset < Size /\ Send("upload", "write")
    /\ UNCHANGED <<outcome, made, offset, tries, obstructed, cancelled, name>>

\* Mutation: the number of bytes written is not compared.
WroteShort ==
    /\ Step("writing", "write") /\ reply["upload"] \in {"ok", "short"}
    /\ offset' = offset + 1
    /\ UNCHANGED <<outcome, made, tries, obstructed, cancelled, wire, name>>

Wrote ==
    /\ Step("writing", "write") /\ reply["upload"] = "ok"
    /\ offset' = offset + 1
    /\ UNCHANGED <<outcome, made, tries, obstructed, cancelled, wire, name>>

Flush ==
    /\ Step("write", "flushing") /\ offset = Size /\ Send("upload", "flush")
    /\ UNCHANGED <<outcome, made, offset, tries, obstructed, cancelled, name>>

Close ==
    /\ Step("flushing", "closing") /\ reply["upload"] = "ok" /\ Send("upload", "close")
    /\ UNCHANGED <<outcome, made, offset, tries, obstructed, cancelled, name>>

Closed ==
    /\ Step("closing", "check") /\ reply["upload"] = "ok"
    /\ UNCHANGED <<outcome, made, offset, tries, obstructed, cancelled, wire, name>>

Finish ==
    /\ Step("check", "ended") /\ ~ cancelled
    /\ outcome' = "done"
    /\ UNCHANGED <<made, offset, tries, obstructed, cancelled, wire, name>>

\* Any command may fail, at once or while it waits; so may the caller's read()
\* and the last sampling of the cancel. Before the create returned, the failure
\* is outside the upload's catch and nothing is cleaned up; a path that is
\* refused for itself, and a cancel sampled at the head of the create's
\* command(), do not even close the connection.
Stop(next) ==
    /\ pc \in Uploading
    /\ pc' = next
    /\ outcome' \in IF cancelled THEN {"cancelled", "failed"} ELSE {"failed"}
    /\ closed' \in {closed \cup {"upload"}} \cup
          (IF pc = "guard" \/ (pc = "create" /\ outcome' = "cancelled") THEN {closed} ELSE {})
    /\ UNCHANGED <<made, offset, tries, obstructed, cancelled, sent, reply, linked, name>>

\* Mutation: the create is inside the catch that cleans up.
FailCleaning == Stop("cleanup")

Fail == Stop(IF made THEN "cleanup" ELSE "ended")

-----------------------------------------------------------------------------
(* The cleanup: removeInterruptedUpload(), on a connection of its own that    *)
(* ignores the user's cancel.                                                 *)

\* A fresh SMBTransport, and guardAncestors() on it.
Reconnect ==
    /\ Step("cleanup", "delete")
    /\ linked' = linked \cup {"cleanup"}
    /\ UNCHANGED <<outcome, made, offset, tries, obstructed, cancelled, sent, reply, closed, name>>

OpenForDelete ==
    /\ Step("delete", "deleting") /\ Send("cleanup", "open")
    /\ UNCHANGED <<outcome, made, offset, tries, obstructed, cancelled, name>>

\* Mutation: the attributes of what was opened are not looked at.
OpenedAnything ==
    /\ Step("deleting", "disposing") /\ reply["cleanup"] \in {"ok", "link"}
    /\ Send("cleanup", "dispose")
    /\ UNCHANGED <<outcome, made, offset, tries, obstructed, cancelled, name>>

Opened ==
    /\ Step("deleting", "disposing") /\ reply["cleanup"] = "ok"
    /\ Send("cleanup", "dispose")
    /\ UNCHANGED <<outcome, made, offset, tries, obstructed, cancelled, name>>

\* A link is refused; its handle is closed on the way out.
OpenedLink ==
    /\ Step("deleting", "releasing") /\ reply["cleanup"] = "link"
    /\ Send("cleanup", "close")
    /\ obstructed' = TRUE
    /\ UNCHANGED <<outcome, made, offset, tries, cancelled, name>>

Leave(refused) ==
    /\ pc' = "ended" /\ closed' = closed \cup {"cleanup"}
    /\ obstructed' = (obstructed \/ refused)
    /\ UNCHANGED <<outcome, made, offset, tries, cancelled, sent, reply, linked, name>>

AlreadyGone == pc = "deleting" /\ reply["cleanup"] = "gone" /\ Leave(FALSE)

\* Mutation: a sharing violation ends the cleanup as if there were nothing to remove.
BusyIsGone == pc = "deleting" /\ reply["cleanup"] = "sharing" /\ Leave(FALSE)

\* Mutation: the opening is retried without a deadline.
BusyForEver ==
    /\ Step("deleting", "delete") /\ reply["cleanup"] = "sharing"
    /\ UNCHANGED <<outcome, made, offset, tries, obstructed, cancelled, wire, name>>

\* The interrupted handle, or a reader, still holds the file: try again while there is time.
Busy ==
    /\ Step("deleting", "delete") /\ reply["cleanup"] = "sharing"
    /\ tries + 1 < MaxTries /\ tries' = tries + 1
    /\ UNCHANGED <<outcome, made, offset, obstructed, cancelled, wire, name>>

\* Marked or not, the handle is closed: that deletes the file.
Disposed ==
    /\ Step("disposing", "releasing") /\ reply["cleanup"] \in {"ok", "error"}
    /\ Send("cleanup", "close")
    /\ obstructed' = (obstructed \/ reply["cleanup"] = "error")
    /\ UNCHANGED <<outcome, made, offset, tries, cancelled, name>>

\* Whatever became of that CLOSE: the connection is closed behind it.
Released == pc = "releasing" /\ Leave(FALSE)

\* No connection, no right to the file, or out of time.
GiveUp == pc \in Cleaning \ {"releasing"} /\ Leave(TRUE)

-----------------------------------------------------------------------------

Upload  == \/ Guarded \/ Create \/ Created \/ NameTaken \/ Write \/ Wrote \/ Flush
           \/ Close \/ Closed \/ Finish \/ Fail
Cleanup == \/ Reconnect \/ OpenForDelete \/ Opened \/ OpenedLink \/ AlreadyGone \/ Busy
           \/ Disposed \/ Released \/ GiveUp
Clients == OtherCreates \/ OtherDeletes \/ OtherReads
Network == \E c \in Conn : Drop(c)

Returned == pc = "ended" /\ UNCHANGED vars

Next == Upload \/ Cleanup \/ UserCancels \/ Server \/ Clients \/ Network \/ Returned

Spec == Init /\ [][Next]_vars

(* command() polls with a timeout under a deadline, so the worker always     *)
(* moves on; the server notices a closed connection sooner or later.         *)
FairSpec ==
    /\ Spec
    /\ WF_vars(Upload \/ Cleanup)
    /\ \A c \in Conn : WF_vars(c \in closed /\ Drop(c))

-----------------------------------------------------------------------------
(* Properties *)

Failed == pc = "ended" /\ outcome \in {"failed", "cancelled"}

\* upload() returns normally only for a file the server holds whole, whatever
\* the server answered to a write and wherever the cancel fell.
DoneIsWhole == outcome = "done" => written = Size

\* The cleanup deletes nothing unless this upload's own create had returned: a
\* name that was taken, or whose create is not known to have succeeded, is left
\* alone, whatever other clients do with it.
OnlyAfterCreating == removed # {} => made

\* What other clients put at the name meanwhile may be deleted, a link never.
LinksSpared == "link" \notin removed /\ "folder" \notin removed

\* An upload that failed after its create returned leaves no file of its own,
\* unless the cleanup was itself refused or ran out of time.
CleanedUp == Failed /\ made /\ ~ obstructed => entry # "mine" \/ doomed # "no"

\* The same of every upload that fails, as the code says of itself
\* (SMBTransport.swift: "A cancelled or failed upload leaves no partial file under its name").
NoPartialLeft == Failed /\ ~ obstructed => entry # "mine" \/ doomed # "no"

\* The caller, who holds the repository's mutex, gets an answer however the
\* server, the network and other clients behave.
Ends == <>(pc = "ended")
=============================================================================
