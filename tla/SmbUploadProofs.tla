-------------------------- MODULE SmbUploadProofs --------------------------
(***************************************************************************)
(* For a file of any size, any number of attempts at its removal and any   *)
(* other clients: an upload that succeeds is whole, and what a cleanup     *)
(* deletes is a file, of an upload whose create had returned.              *)
(***************************************************************************)
EXTENDS SmbUpload, TLAPS

Requests == {"none", "create", "write", "flush", "close", "open", "dispose"}
Replies  == {"none", "ok", "short", "link", "exists", "directory", "gone", "sharing", "error"}
Entries  == {"none", "mine", "other", "link", "folder"}

\* What the variables hold.
Typed ==
    /\ pc \in Uploading \cup Cleaning \cup {"ended"}
    /\ sent \in [Conn -> Requests] /\ reply \in [Conn -> Replies]
    /\ offset \in Nat /\ written \in Nat
    /\ holding \subseteq Conn /\ entry \in Entries

\* While the upload is under way, and once it is done, the server has written what was
\* acknowledged, but for the chunk of which the answer has not been looked at.
Chunks ==
    /\ pc \in Uploading => outcome = "none"
    /\ pc \in Cleaning => outcome # "done"
    /\ pc \in Uploading \/ outcome = "done" =>
         IF pc = "writing"
         THEN /\ sent["upload"] \in {"none", "write"}
              /\ sent["upload"] = "write" => reply["upload"] = "none"
              /\ written = IF reply["upload"] = "ok" THEN offset + 1 ELSE offset
         ELSE sent["upload"] # "write" /\ written = offset
    /\ pc \in {"flushing", "closing", "check"} \/ outcome = "done" => offset = Size

\* The cleanup's request to delete, and its knowledge that it has opened a file, come with the
\* handle, which keeps the file in its place.
Grip ==
    /\ pc \in Uploading \cup {"cleanup", "delete", "deleting"} =>
         sent["cleanup"] \in {"none", "open"}
    /\ /\ "cleanup" \in linked
       /\ sent["cleanup"] = "dispose" \/ (pc = "deleting" /\ reply["cleanup"] = "ok")
       => "cleanup" \in holding /\ entry \in {"mine", "other"}

\* Only a cleanup after the upload's own create marks or deletes, and only files.
Marks ==
    /\ pc \in Cleaning \/ sent["cleanup"] = "dispose" => made
    /\ doomed = "cleanup" => made /\ entry \in {"mine", "other"}
    /\ removed # {} => made
    /\ removed \subseteq {"mine", "other"}

\* The upload's own file is gone, or somebody has marked it for deletion.
Settled == entry # "mine" \/ doomed # "no"

\* The file is created once, before the create returns; what tells the cleanup that there is
\* nothing left to do was true when the server said it, and stays so.
Removal ==
    /\ pc \in {"guard", "create", "creating"} => ~ made
    /\ sent["upload"] = "create" => reply["upload"] = "none" /\ ~ made
    /\ pc = "disposing" => sent["cleanup"] \in {"none", "dispose"}
    /\ /\ made
       /\ \/ pc = "deleting" /\ reply["cleanup"] = "gone"
          \/ pc = "disposing" /\ reply["cleanup"] = "ok"
          \/ (pc = "releasing" \/ Failed) /\ ~ obstructed
       => Settled

IInv == Typed /\ Chunks /\ Grip /\ Marks /\ Removal

USE UploadConstants

\* Initially nothing is sent, written, held or deleted.
LEMMA Initially == Init => IInv
<1>. SUFFICES ASSUME Init PROVE IInv OBVIOUS
<1>. USE DEF Conn, Uploading, Cleaning
<1>1. Typed BY DEF Init, Typed, Requests, Replies, Entries
<1>2. Chunks BY DEF Init, Chunks
<1>3. Grip BY DEF Init, Grip
<1>4. Marks BY DEF Init, Marks
<1>5. Removal BY DEF Init, Removal, Failed
<1>. QED BY <1>1, <1>2, <1>3, <1>4, <1>5 DEF IInv

\* Requests and replies are of their kinds.
LEMMA TypedKeeps == ASSUME IInv, [Next]_vars PROVE Typed'
<1>. USE DEF Conn, Uploading, Cleaning, worker, wire, name
<1>1. CASE ServeCreate
  <2>1. PICK r \in {"ok", "exists", "directory", "error"} : Answer("upload", r)
    BY <1>1 DEF ServeCreate
  <2>2. sent' \in [Conn -> Requests] /\ reply' \in [Conn -> Replies]
    BY <2>1 DEF Answer, IInv, Typed, Requests, Replies
  <2>3. entry' \in Entries /\ holding' \subseteq Conn /\ written' = written
    BY <1>1 DEF ServeCreate, IInv, Typed, Entries
  <2>. QED BY <2>1, <2>2, <2>3 DEF Answer, IInv, Typed
<1>2. CASE ServeWrite
  <2>1. PICK r \in {"ok", "short"} : Answer("upload", r)
    BY <1>2 DEF ServeWrite
  <2>2. sent' \in [Conn -> Requests] /\ reply' \in [Conn -> Replies]
    BY <2>1 DEF Answer, IInv, Typed, Requests, Replies
  <2>3. written' \in Nat
    <3>1. written' = written + 1 \/ written' = written BY <1>2, Zenon DEF ServeWrite
    <3>. QED BY <3>1 DEF IInv, Typed
  <2>4. entry' = entry /\ holding' = holding /\ pc' = pc /\ offset' = offset
    BY <1>2, <2>1 DEF ServeWrite, Answer
  <2>. QED BY <2>2, <2>3, <2>4 DEF IInv, Typed
<1>3. CASE ServeFlush
  BY <1>3 DEF ServeFlush, Asked, Answer, IInv, Typed, Requests, Replies, Entries
<1>4. CASE ServeOpen
  BY <1>4, ZenonT(60) DEF ServeOpen, Asked, Answer, IInv, Typed, Requests, Replies, Entries
<1>5. CASE ServeDispose
  BY <1>5 DEF ServeDispose, Asked, Answer, Handles, IInv, Typed, Requests, Replies, Entries
<1>6. ASSUME NEW c \in Conn, ServeClose(c) PROVE Typed'
  BY <1>6 DEF ServeClose, Asked, Answer, Handles, IInv, Typed, Requests, Replies, Entries
<1>7. ASSUME NEW c \in Conn, ServeRefusal(c) PROVE Typed'
  BY <1>7 DEF ServeRefusal, Answer, IInv, Typed, Requests, Replies, Entries
<1>8. ASSUME NEW c \in Conn, Drop(c) PROVE Typed'
  BY <1>8 DEF Drop, Handles, IInv, Typed, Requests, Replies, Entries
<1>9. CASE OtherCreates
  BY <1>9 DEF OtherCreates, IInv, Typed, Requests, Replies, Entries
<1>10. CASE OtherDeletes
  BY <1>10 DEF OtherDeletes, Handles, IInv, Typed, Requests, Replies, Entries
<1>11. CASE OtherReads
  BY <1>11 DEF OtherReads, Handles, IInv, Typed, Requests, Replies, Entries
<1>12. CASE UserCancels
  BY <1>12 DEF UserCancels, IInv, Typed, Requests, Replies, Entries
<1>13. CASE Guarded
  BY <1>13 DEF Guarded, Step, IInv, Typed, Requests, Replies, Entries
<1>14. CASE Create
  BY <1>14 DEF Create, Step, Send, IInv, Typed, Requests, Replies, Entries
<1>15. CASE Created
  BY <1>15 DEF Created, Step, IInv, Typed, Requests, Replies, Entries
<1>16. CASE NameTaken
  BY <1>16 DEF NameTaken, Step, IInv, Typed, Requests, Replies, Entries
<1>17. CASE Write
  BY <1>17 DEF Write, Step, Send, IInv, Typed, Requests, Replies, Entries
<1>18. CASE Wrote
  BY <1>18 DEF Wrote, Step, IInv, Typed, Requests, Replies, Entries
<1>19. CASE Flush
  BY <1>19 DEF Flush, Step, Send, IInv, Typed, Requests, Replies, Entries
<1>20. CASE Close
  BY <1>20 DEF Close, Step, Send, IInv, Typed, Requests, Replies, Entries
<1>21. CASE Closed
  BY <1>21 DEF Closed, Step, IInv, Typed, Requests, Replies, Entries
<1>22. CASE Finish
  BY <1>22 DEF Finish, Step, IInv, Typed, Requests, Replies, Entries
<1>23. CASE Fail
  BY <1>23 DEF Fail, Stop, IInv, Typed, Requests, Replies, Entries
<1>24. CASE Reconnect
  BY <1>24 DEF Reconnect, Step, IInv, Typed, Requests, Replies, Entries
<1>25. CASE OpenForDelete
  BY <1>25 DEF OpenForDelete, Step, Send, IInv, Typed, Requests, Replies, Entries
<1>26. CASE Opened
  BY <1>26 DEF Opened, Step, Send, IInv, Typed, Requests, Replies, Entries
<1>27. CASE OpenedLink
  BY <1>27 DEF OpenedLink, Step, Send, IInv, Typed, Requests, Replies, Entries
<1>28. CASE AlreadyGone
  BY <1>28 DEF AlreadyGone, Leave, IInv, Typed, Requests, Replies, Entries
<1>29. CASE Busy
  BY <1>29 DEF Busy, Step, IInv, Typed, Requests, Replies, Entries
<1>30. CASE Disposed
  BY <1>30 DEF Disposed, Step, Send, IInv, Typed, Requests, Replies, Entries
<1>31. CASE Released
  BY <1>31 DEF Released, Leave, IInv, Typed, Requests, Replies, Entries
<1>32. CASE GiveUp
  BY <1>32 DEF GiveUp, Leave, IInv, Typed, Requests, Replies, Entries
<1>33. CASE UNCHANGED vars
  BY <1>33 DEF vars, IInv, Typed, Requests, Replies, Entries
<1>. QED BY <1>1, <1>2, <1>3, <1>4, <1>5, <1>6, <1>7, <1>8, <1>9, <1>10, <1>11, <1>12, <1>13,
            <1>14, <1>15, <1>16, <1>17, <1>18, <1>19, <1>20, <1>21, <1>22, <1>23, <1>24, <1>25,
            <1>26, <1>27, <1>28, <1>29, <1>30, <1>31, <1>32, <1>33 DEF Next, Upload, Cleanup,
            Server, Clients, Network, Returned

\* A chunk is counted once, after it was written.
LEMMA ChunksKeep == ASSUME IInv, [Next]_vars PROVE Chunks'
<1>. USE DEF Conn, Uploading, Cleaning, worker, wire, name
<1>1. CASE ServeCreate
  BY <1>1 DEF ServeCreate, Asked, Answer, IInv, Typed, Chunks, Requests
<1>2. CASE ServeWrite
  BY <1>2 DEF ServeWrite, Asked, Answer, IInv, Typed, Chunks, Requests
<1>3. CASE ServeFlush
  BY <1>3 DEF ServeFlush, Asked, Answer, IInv, Typed, Chunks, Requests
<1>4. CASE ServeOpen
  BY <1>4 DEF ServeOpen, Asked, Answer, IInv, Typed, Chunks, Requests
<1>5. CASE ServeDispose
  BY <1>5 DEF ServeDispose, Asked, Answer, Handles, IInv, Typed, Chunks, Requests
<1>6. ASSUME NEW c \in Conn, ServeClose(c) PROVE Chunks'
  BY <1>6 DEF ServeClose, Asked, Answer, Handles, IInv, Typed, Chunks, Requests
<1>7. ASSUME NEW c \in Conn, ServeRefusal(c) PROVE Chunks'
  BY <1>7 DEF ServeRefusal, Answer, IInv, Typed, Chunks, Requests
<1>8. ASSUME NEW c \in Conn, Drop(c) PROVE Chunks'
  BY <1>8 DEF Drop, Handles, IInv, Typed, Chunks, Requests
<1>9. CASE OtherCreates
  BY <1>9 DEF OtherCreates, IInv, Typed, Chunks, Requests
<1>10. CASE OtherDeletes
  BY <1>10 DEF OtherDeletes, Handles, IInv, Typed, Chunks, Requests
<1>11. CASE OtherReads
  BY <1>11 DEF OtherReads, Handles, IInv, Typed, Chunks, Requests
<1>12. CASE UserCancels
  BY <1>12 DEF UserCancels, IInv, Typed, Chunks, Requests
<1>13. CASE Guarded
  BY <1>13 DEF Guarded, Step, IInv, Typed, Chunks, Requests
<1>14. CASE Create
  BY <1>14 DEF Create, Step, Send, IInv, Typed, Chunks, Requests
<1>15. CASE Created
  BY <1>15 DEF Created, Step, IInv, Typed, Chunks, Requests
<1>16. CASE NameTaken
  BY <1>16 DEF NameTaken, Step, IInv, Typed, Chunks, Requests
<1>17. CASE Write
  BY <1>17 DEF Write, Step, Send, IInv, Typed, Chunks, Requests
<1>18. CASE Wrote
  BY <1>18 DEF Wrote, Step, IInv, Typed, Chunks, Requests
<1>19. CASE Flush
  BY <1>19 DEF Flush, Step, Send, IInv, Typed, Chunks, Requests
<1>20. CASE Close
  BY <1>20 DEF Close, Step, Send, IInv, Typed, Chunks, Requests
<1>21. CASE Closed
  BY <1>21 DEF Closed, Step, IInv, Typed, Chunks, Requests
<1>22. CASE Finish
  BY <1>22 DEF Finish, Step, IInv, Typed, Chunks, Requests
<1>23. CASE Fail
  BY <1>23 DEF Fail, Stop, IInv, Typed, Chunks, Requests
<1>24. CASE Reconnect
  BY <1>24 DEF Reconnect, Step, IInv, Typed, Chunks, Requests
<1>25. CASE OpenForDelete
  BY <1>25 DEF OpenForDelete, Step, Send, IInv, Typed, Chunks, Requests
<1>26. CASE Opened
  BY <1>26 DEF Opened, Step, Send, IInv, Typed, Chunks, Requests
<1>27. CASE OpenedLink
  BY <1>27 DEF OpenedLink, Step, Send, IInv, Typed, Chunks, Requests
<1>28. CASE AlreadyGone
  BY <1>28 DEF AlreadyGone, Leave, IInv, Typed, Chunks, Requests
<1>29. CASE Busy
  BY <1>29 DEF Busy, Step, IInv, Typed, Chunks, Requests
<1>30. CASE Disposed
  BY <1>30 DEF Disposed, Step, Send, IInv, Typed, Chunks, Requests
<1>31. CASE Released
  BY <1>31 DEF Released, Leave, IInv, Typed, Chunks, Requests
<1>32. CASE GiveUp
  BY <1>32 DEF GiveUp, Leave, IInv, Typed, Chunks, Requests
<1>33. CASE UNCHANGED vars
  BY <1>33 DEF vars, IInv, Typed, Chunks, Requests
<1>. QED BY <1>1, <1>2, <1>3, <1>4, <1>5, <1>6, <1>7, <1>8, <1>9, <1>10, <1>11, <1>12, <1>13,
            <1>14, <1>15, <1>16, <1>17, <1>18, <1>19, <1>20, <1>21, <1>22, <1>23, <1>24, <1>25,
            <1>26, <1>27, <1>28, <1>29, <1>30, <1>31, <1>32, <1>33 DEF Next, Upload, Cleanup,
            Server, Clients, Network, Returned

\* What the cleanup opened stays at the name until it is closed.
LEMMA GripKeeps == ASSUME IInv, [Next]_vars PROVE Grip'
<1>. USE DEF Conn, Uploading, Cleaning, worker, wire, name
<1>1. CASE ServeCreate
  BY <1>1 DEF ServeCreate, Asked, Answer, IInv, Typed, Grip, Requests, Entries
<1>2. CASE ServeWrite
  BY <1>2 DEF ServeWrite, Asked, Answer, IInv, Typed, Grip, Requests, Entries
<1>3. CASE ServeFlush
  BY <1>3 DEF ServeFlush, Asked, Answer, IInv, Typed, Grip, Requests, Entries
<1>4. CASE ServeOpen
  BY <1>4 DEF ServeOpen, Asked, Answer, IInv, Typed, Grip, Requests, Entries
<1>5. CASE ServeDispose
  BY <1>5 DEF ServeDispose, Asked, Answer, Handles, IInv, Typed, Grip, Requests, Entries
<1>6. ASSUME NEW c \in Conn, ServeClose(c) PROVE Grip'
  BY <1>6 DEF ServeClose, Asked, Answer, Handles, IInv, Typed, Grip, Requests, Entries
<1>7. ASSUME NEW c \in Conn, ServeRefusal(c) PROVE Grip'
  BY <1>7 DEF ServeRefusal, Answer, IInv, Typed, Grip, Requests, Entries
<1>8. ASSUME NEW c \in Conn, Drop(c) PROVE Grip'
  BY <1>8 DEF Drop, Handles, IInv, Typed, Grip, Requests, Entries
<1>9. CASE OtherCreates
  BY <1>9 DEF OtherCreates, IInv, Typed, Grip, Requests, Entries
<1>10. CASE OtherDeletes
  BY <1>10 DEF OtherDeletes, Handles, IInv, Typed, Grip, Requests, Entries
<1>11. CASE OtherReads
  BY <1>11 DEF OtherReads, Handles, IInv, Typed, Grip, Requests, Entries
<1>12. CASE UserCancels
  BY <1>12 DEF UserCancels, IInv, Typed, Grip, Requests, Entries
<1>13. CASE Guarded
  BY <1>13 DEF Guarded, Step, IInv, Typed, Grip, Requests, Entries
<1>14. CASE Create
  BY <1>14 DEF Create, Step, Send, IInv, Typed, Grip, Requests, Entries
<1>15. CASE Created
  BY <1>15 DEF Created, Step, IInv, Typed, Grip, Requests, Entries
<1>16. CASE NameTaken
  BY <1>16 DEF NameTaken, Step, IInv, Typed, Grip, Requests, Entries
<1>17. CASE Write
  BY <1>17 DEF Write, Step, Send, IInv, Typed, Grip, Requests, Entries
<1>18. CASE Wrote
  BY <1>18 DEF Wrote, Step, IInv, Typed, Grip, Requests, Entries
<1>19. CASE Flush
  BY <1>19 DEF Flush, Step, Send, IInv, Typed, Grip, Requests, Entries
<1>20. CASE Close
  BY <1>20 DEF Close, Step, Send, IInv, Typed, Grip, Requests, Entries
<1>21. CASE Closed
  BY <1>21 DEF Closed, Step, IInv, Typed, Grip, Requests, Entries
<1>22. CASE Finish
  BY <1>22 DEF Finish, Step, IInv, Typed, Grip, Requests, Entries
<1>23. CASE Fail
  BY <1>23 DEF Fail, Stop, IInv, Typed, Grip, Requests, Entries
<1>24. CASE Reconnect
  BY <1>24 DEF Reconnect, Step, IInv, Typed, Grip, Requests, Entries
<1>25. CASE OpenForDelete
  BY <1>25 DEF OpenForDelete, Step, Send, IInv, Typed, Grip, Requests, Entries
<1>26. CASE Opened
  BY <1>26 DEF Opened, Step, Send, IInv, Typed, Grip, Requests, Entries
<1>27. CASE OpenedLink
  BY <1>27 DEF OpenedLink, Step, Send, IInv, Typed, Grip, Requests, Entries
<1>28. CASE AlreadyGone
  BY <1>28 DEF AlreadyGone, Leave, IInv, Typed, Grip, Requests, Entries
<1>29. CASE Busy
  BY <1>29 DEF Busy, Step, IInv, Typed, Grip, Requests, Entries
<1>30. CASE Disposed
  BY <1>30 DEF Disposed, Step, Send, IInv, Typed, Grip, Requests, Entries
<1>31. CASE Released
  BY <1>31 DEF Released, Leave, IInv, Typed, Grip, Requests, Entries
<1>32. CASE GiveUp
  BY <1>32 DEF GiveUp, Leave, IInv, Typed, Grip, Requests, Entries
<1>33. CASE UNCHANGED vars
  BY <1>33 DEF vars, IInv, Typed, Grip, Requests, Entries
<1>. QED BY <1>1, <1>2, <1>3, <1>4, <1>5, <1>6, <1>7, <1>8, <1>9, <1>10, <1>11, <1>12, <1>13,
            <1>14, <1>15, <1>16, <1>17, <1>18, <1>19, <1>20, <1>21, <1>22, <1>23, <1>24, <1>25,
            <1>26, <1>27, <1>28, <1>29, <1>30, <1>31, <1>32, <1>33 DEF Next, Upload, Cleanup,
            Server, Clients, Network, Returned

\* A mark of the cleanup's is set with the handle, and the entry does not change under it.
LEMMA MarksKeep == ASSUME IInv, [Next]_vars PROVE Marks'
<1>. USE DEF Conn, Uploading, Cleaning, worker, wire, name
<1>1. CASE ServeCreate
  BY <1>1, ZenonT(60) DEF ServeCreate, Asked, Answer, IInv, Typed, Chunks, Grip, Marks, Entries
<1>2. CASE ServeWrite
  BY <1>2 DEF ServeWrite, Asked, Answer, IInv, Typed, Chunks, Grip, Marks, Entries
<1>3. CASE ServeFlush
  BY <1>3 DEF ServeFlush, Asked, Answer, IInv, Typed, Chunks, Grip, Marks, Entries
<1>4. CASE ServeOpen
  BY <1>4 DEF ServeOpen, Asked, Answer, IInv, Typed, Chunks, Grip, Marks, Entries
<1>5. CASE ServeDispose
  BY <1>5 DEF ServeDispose, Asked, Answer, Handles, IInv, Typed, Chunks, Grip, Marks, Entries
<1>6. ASSUME NEW c \in Conn, ServeClose(c) PROVE Marks'
  BY <1>6 DEF ServeClose, Asked, Answer, Handles, IInv, Typed, Chunks, Grip, Marks, Entries
<1>7. ASSUME NEW c \in Conn, ServeRefusal(c) PROVE Marks'
  BY <1>7 DEF ServeRefusal, Answer, IInv, Typed, Chunks, Grip, Marks, Entries
<1>8. ASSUME NEW c \in Conn, Drop(c) PROVE Marks'
  BY <1>8 DEF Drop, Handles, IInv, Typed, Chunks, Grip, Marks, Entries
<1>9. CASE OtherCreates
  BY <1>9 DEF OtherCreates, IInv, Typed, Chunks, Grip, Marks, Entries
<1>10. CASE OtherDeletes
  BY <1>10 DEF OtherDeletes, Handles, IInv, Typed, Chunks, Grip, Marks, Entries
<1>11. CASE OtherReads
  BY <1>11 DEF OtherReads, Handles, IInv, Typed, Chunks, Grip, Marks, Entries
<1>12. CASE UserCancels
  BY <1>12 DEF UserCancels, IInv, Typed, Chunks, Grip, Marks, Entries
<1>13. CASE Guarded
  BY <1>13 DEF Guarded, Step, IInv, Typed, Chunks, Grip, Marks, Entries
<1>14. CASE Create
  BY <1>14 DEF Create, Step, Send, IInv, Typed, Chunks, Grip, Marks, Entries
<1>15. CASE Created
  BY <1>15 DEF Created, Step, IInv, Typed, Chunks, Grip, Marks, Entries
<1>16. CASE NameTaken
  BY <1>16 DEF NameTaken, Step, IInv, Typed, Chunks, Grip, Marks, Entries
<1>17. CASE Write
  BY <1>17 DEF Write, Step, Send, IInv, Typed, Chunks, Grip, Marks, Entries
<1>18. CASE Wrote
  BY <1>18 DEF Wrote, Step, IInv, Typed, Chunks, Grip, Marks, Entries
<1>19. CASE Flush
  BY <1>19 DEF Flush, Step, Send, IInv, Typed, Chunks, Grip, Marks, Entries
<1>20. CASE Close
  BY <1>20 DEF Close, Step, Send, IInv, Typed, Chunks, Grip, Marks, Entries
<1>21. CASE Closed
  BY <1>21 DEF Closed, Step, IInv, Typed, Chunks, Grip, Marks, Entries
<1>22. CASE Finish
  BY <1>22 DEF Finish, Step, IInv, Typed, Chunks, Grip, Marks, Entries
<1>23. CASE Fail
  BY <1>23 DEF Fail, Stop, IInv, Typed, Chunks, Grip, Marks, Entries
<1>24. CASE Reconnect
  BY <1>24 DEF Reconnect, Step, IInv, Typed, Chunks, Grip, Marks, Entries
<1>25. CASE OpenForDelete
  BY <1>25 DEF OpenForDelete, Step, Send, IInv, Typed, Chunks, Grip, Marks, Entries
<1>26. CASE Opened
  BY <1>26 DEF Opened, Step, Send, IInv, Typed, Chunks, Grip, Marks, Entries
<1>27. CASE OpenedLink
  BY <1>27 DEF OpenedLink, Step, Send, IInv, Typed, Chunks, Grip, Marks, Entries
<1>28. CASE AlreadyGone
  BY <1>28 DEF AlreadyGone, Leave, IInv, Typed, Chunks, Grip, Marks, Entries
<1>29. CASE Busy
  BY <1>29 DEF Busy, Step, IInv, Typed, Chunks, Grip, Marks, Entries
<1>30. CASE Disposed
  BY <1>30 DEF Disposed, Step, Send, IInv, Typed, Chunks, Grip, Marks, Entries
<1>31. CASE Released
  BY <1>31 DEF Released, Leave, IInv, Typed, Chunks, Grip, Marks, Entries
<1>32. CASE GiveUp
  BY <1>32 DEF GiveUp, Leave, IInv, Typed, Chunks, Grip, Marks, Entries
<1>33. CASE UNCHANGED vars
  BY <1>33 DEF vars, IInv, Typed, Chunks, Grip, Marks, Entries
<1>. QED BY <1>1, <1>2, <1>3, <1>4, <1>5, <1>6, <1>7, <1>8, <1>9, <1>10, <1>11, <1>12, <1>13,
            <1>14, <1>15, <1>16, <1>17, <1>18, <1>19, <1>20, <1>21, <1>22, <1>23, <1>24, <1>25,
            <1>26, <1>27, <1>28, <1>29, <1>30, <1>31, <1>32, <1>33 DEF Next, Upload, Cleanup,
            Server, Clients, Network, Returned

\* Once the upload's file is gone or marked, nothing brings it back.
LEMMA RemovalKeeps == ASSUME IInv, [Next]_vars PROVE Removal'
<1>. USE DEF Conn, Uploading, Cleaning, worker, wire, name
<1>1. CASE ServeCreate
  BY <1>1 DEF ServeCreate, Asked, Answer, IInv, Typed, Grip, Removal, Settled, Failed
<1>2. CASE ServeWrite
  BY <1>2 DEF ServeWrite, Asked, Answer, IInv, Typed, Grip, Removal, Settled, Failed
<1>3. CASE ServeFlush
  BY <1>3 DEF ServeFlush, Asked, Answer, IInv, Typed, Grip, Removal, Settled, Failed
<1>4. CASE ServeOpen
  BY <1>4 DEF ServeOpen, Asked, Answer, IInv, Typed, Grip, Removal, Settled, Failed
<1>5. CASE ServeDispose
  BY <1>5 DEF ServeDispose, Asked, Answer, Handles, IInv, Typed, Grip, Removal, Settled, Failed
<1>6. ASSUME NEW c \in Conn, ServeClose(c) PROVE Removal'
  BY <1>6 DEF ServeClose, Asked, Answer, Handles, IInv, Typed, Grip, Removal, Settled, Failed
<1>7. ASSUME NEW c \in Conn, ServeRefusal(c) PROVE Removal'
  BY <1>7 DEF ServeRefusal, Answer, IInv, Typed, Grip, Removal, Settled, Failed
<1>8. ASSUME NEW c \in Conn, Drop(c) PROVE Removal'
  BY <1>8 DEF Drop, Handles, IInv, Typed, Grip, Removal, Settled, Failed
<1>9. CASE OtherCreates
  BY <1>9 DEF OtherCreates, IInv, Typed, Grip, Removal, Settled, Failed
<1>10. CASE OtherDeletes
  BY <1>10 DEF OtherDeletes, Handles, IInv, Typed, Grip, Removal, Settled, Failed
<1>11. CASE OtherReads
  BY <1>11 DEF OtherReads, Handles, IInv, Typed, Grip, Removal, Settled, Failed
<1>12. CASE UserCancels
  BY <1>12 DEF UserCancels, IInv, Typed, Grip, Removal, Settled, Failed
<1>13. CASE Guarded
  BY <1>13 DEF Guarded, Step, IInv, Typed, Grip, Removal, Settled, Failed
<1>14. CASE Create
  BY <1>14 DEF Create, Step, Send, IInv, Typed, Grip, Removal, Settled, Failed
<1>15. CASE Created
  BY <1>15 DEF Created, Step, IInv, Typed, Grip, Removal, Settled, Failed
<1>16. CASE NameTaken
  BY <1>16 DEF NameTaken, Step, IInv, Typed, Grip, Removal, Settled, Failed
<1>17. CASE Write
  BY <1>17 DEF Write, Step, Send, IInv, Typed, Grip, Removal, Settled, Failed
<1>18. CASE Wrote
  BY <1>18 DEF Wrote, Step, IInv, Typed, Grip, Removal, Settled, Failed
<1>19. CASE Flush
  BY <1>19 DEF Flush, Step, Send, IInv, Typed, Grip, Removal, Settled, Failed
<1>20. CASE Close
  BY <1>20 DEF Close, Step, Send, IInv, Typed, Grip, Removal, Settled, Failed
<1>21. CASE Closed
  BY <1>21 DEF Closed, Step, IInv, Typed, Grip, Removal, Settled, Failed
<1>22. CASE Finish
  BY <1>22 DEF Finish, Step, IInv, Typed, Grip, Removal, Settled, Failed
<1>23. CASE Fail
  BY <1>23 DEF Fail, Stop, IInv, Typed, Grip, Removal, Settled, Failed
<1>24. CASE Reconnect
  BY <1>24 DEF Reconnect, Step, IInv, Typed, Grip, Removal, Settled, Failed
<1>25. CASE OpenForDelete
  BY <1>25 DEF OpenForDelete, Step, Send, IInv, Typed, Grip, Removal, Settled, Failed
<1>26. CASE Opened
  BY <1>26 DEF Opened, Step, Send, IInv, Typed, Grip, Removal, Settled, Failed
<1>27. CASE OpenedLink
  BY <1>27 DEF OpenedLink, Step, Send, IInv, Typed, Grip, Removal, Settled, Failed
<1>28. CASE AlreadyGone
  BY <1>28 DEF AlreadyGone, Leave, IInv, Typed, Grip, Removal, Settled, Failed
<1>29. CASE Busy
  BY <1>29 DEF Busy, Step, IInv, Typed, Grip, Removal, Settled, Failed
<1>30. CASE Disposed
  BY <1>30 DEF Disposed, Step, Send, IInv, Typed, Grip, Removal, Settled, Failed
<1>31. CASE Released
  BY <1>31 DEF Released, Leave, IInv, Typed, Grip, Removal, Settled, Failed
<1>32. CASE GiveUp
  BY <1>32 DEF GiveUp, Leave, IInv, Typed, Grip, Removal, Settled, Failed
<1>33. CASE UNCHANGED vars
  BY <1>33 DEF vars, IInv, Typed, Grip, Removal, Settled, Failed
<1>. QED BY <1>1, <1>2, <1>3, <1>4, <1>5, <1>6, <1>7, <1>8, <1>9, <1>10, <1>11, <1>12, <1>13,
            <1>14, <1>15, <1>16, <1>17, <1>18, <1>19, <1>20, <1>21, <1>22, <1>23, <1>24, <1>25,
            <1>26, <1>27, <1>28, <1>29, <1>30, <1>31, <1>32, <1>33 DEF Next, Upload, Cleanup,
            Server, Clients, Network, Returned

LEMMA NextKeeps == ASSUME IInv, [Next]_vars PROVE IInv'
BY TypedKeeps, ChunksKeep, GripKeeps, MarksKeep, RemovalKeeps DEF IInv

\* The inductive invariant: what the worker knows of the file and of its own handle.
THEOREM Invariant == Spec => []IInv
<1>1. Init => IInv BY Initially
<1>2. IInv /\ [Next]_vars => IInv' BY NextKeeps
<1>. QED BY <1>1, <1>2, PTL DEF Spec

\* upload() returns normally only for a file that the server holds whole (upload, write).
THEOREM FinishedIsWhole == Spec => []DoneIsWhole
<1>1. IInv => DoneIsWhole BY DEF IInv, Chunks, DoneIsWhole, Uploading
<1>. QED BY <1>1, Invariant, PTL

\* A cleanup never deletes a link or a folder, whatever other clients put at the name
\* (removeInterruptedUpload).
THEOREM LinksAreSpared == Spec => []LinksSpared
<1>1. IInv => LinksSpared BY DEF IInv, Marks, LinksSpared
<1>. QED BY <1>1, Invariant, PTL

\* A cleanup deletes nothing unless the upload's own create had returned.
THEOREM CleanupAfterCreate == Spec => []OnlyAfterCreating
<1>1. IInv => OnlyAfterCreating BY DEF IInv, Marks, OnlyAfterCreating
<1>. QED BY <1>1, Invariant, PTL

\* An upload that failed after its create had returned leaves no file of its own, unless the
\* cleanup was itself refused or ran out of time.
THEOREM FailureIsCleanedUp == Spec => []CleanedUp
<1>1. IInv => CleanedUp BY DEF IInv, Removal, Settled, CleanedUp, Failed
<1>. QED BY <1>1, Invariant, PTL
=============================================================================
