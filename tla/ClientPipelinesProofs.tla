----------------------- MODULE ClientPipelinesProofs -----------------------
(* Proofs about the client operations of libsmb2.c, for every number of    *)
(* operations in flight, of handles, of starts and of batches of a listing. *)
EXTENDS ClientPipelines, TLAPS

-----------------------------------------------------------------------------
(* The inductive invariant: what is known of one operation, whatever the   *)
(* others do, and what the operations on one handle know of each other.     *)

Status == {"OK", "EOF", "NO_MORE", "MALFORMED", "SHUTDOWN"} \cup Refusal

\* The operations that keep their callback in the smb2fh, and those on a handle.
InHandle == {"open", "close", "fsync"}
OnFh     == InHandle \cup {"read", "write", "fstat", "ftruncate"}

Names == OnFh \cup Compounds \cup {"none", "opendir", "share_enum", "echo", "disconnect"}

Callbacks == Creates \cup Closes
    \cup {"query_cb", "smb2_bind_cb", "dcerpc_call_cb", "disconnect_cb_1", "disconnect_cb_2",
          "fsync_cb", "read_cb", "write_cb", "fstat_cb_1", "ftrunc_cb_1", "echo_cb",
          "getinfo_cb_2", "trunc_cb_2", "rename_cb_2", "readlink_cb_2"}

Operation == [name : Names, queue : Seq(Callbacks), sent : BOOLEAN, recorded : Status,
              data : {"none", "live", "given", "freed", "leaked"}, told : Seq(Results),
              fh : Handle \cup {NoHandle}, listed : Seq(Nat), dropped : BOOLEAN,
              refused : BOOLEAN, created : Status \cup {"none"}, failure : Status,
              closed : Status, batches : Nat]

\* The requests an operation may still have in flight.
Stages(name) ==
    CASE name = "opendir"    -> {<<"opendir_cb">>, <<"query_cb">>, <<"od_close_cb">>}
      [] name = "share_enum" -> {<<"smb2_open_cb">>, <<"smb2_bind_cb">>, <<"dcerpc_call_cb">>}
      [] name = "disconnect" -> {<<"disconnect_cb_1">>, <<"disconnect_cb_2">>}
      [] name = "echo"       -> {<<"echo_cb">>}
      [] name = "unlink"     -> {<<"create_cb_1", "create_cb_2">>, <<"create_cb_2">>}
      [] name = "mkdir"      -> {<<"create_cb_1", "create_cb_2">>, <<"create_cb_2">>}
      [] name = "stat"       -> {<<"getinfo_cb_1", "getinfo_cb_2", "getinfo_cb_3">>,
                                 <<"getinfo_cb_2", "getinfo_cb_3">>, <<"getinfo_cb_3">>}
      [] name = "truncate"   -> {<<"trunc_cb_1", "trunc_cb_2", "trunc_cb_3">>,
                                 <<"trunc_cb_2", "trunc_cb_3">>, <<"trunc_cb_3">>}
      [] name = "rename"     -> {<<"rename_cb_1", "rename_cb_2", "rename_cb_3">>,
                                 <<"rename_cb_2", "rename_cb_3">>, <<"rename_cb_3">>}
      [] name = "readlink"   -> {<<"readlink_cb_1", "readlink_cb_2", "readlink_cb_3">>,
                                 <<"readlink_cb_2", "readlink_cb_3">>, <<"readlink_cb_3">>}
      [] name = "open"       -> {<<"open_cb">>}
      [] name = "close"      -> {<<"close_cb">>}
      [] name = "fsync"      -> {<<"fsync_cb">>}
      [] name = "read"       -> {<<"read_cb">>}
      [] name = "write"      -> {<<"write_cb">>}
      [] name = "fstat"      -> {<<"fstat_cb_1">>}
      [] name = "ftruncate"  -> {<<"ftrunc_cb_1">>}
      [] OTHER               -> {}

\* The callbacks whose request is the first of an operation.
First == Creates \cup {"close_cb", "fsync_cb", "read_cb", "write_cb", "fstat_cb_1",
                       "ftrunc_cb_1", "echo_cb", "disconnect_cb_1"}

Newest(n) == [i \in 1 .. n |-> n + 1 - i]

\* The record of a compound holds its first status that is not a success, and one that would be
\* told as 0 follows no failed CREATE.
CreateRecorded(o) ==
    /\ o.recorded \in {"OK", "EOF", "SHUTDOWN"} \cup Refusal
    /\ o.recorded \in {"OK", "EOF"} => o.created \in {"OK", "EOF"}
FailureRecorded(o) == o.recorded = o.failure /\ CreateRecorded(o)

\* While a request is in flight the caller has heard nothing and the record is alive.
InFlight(o) ==
    /\ o.queue \in Stages(o.name)
    /\ o.told = <<>> /\ ~ o.dropped /\ ~ o.refused
    /\ o.data = IF o.name \in InHandle THEN "none" ELSE "live"
    /\ o.fh \in Handle <=> o.name \in OnFh
    /\ o.listed = Newest(o.batches)
    /\ IF Head(o.queue) \in First
         THEN o.created = "none" /\ o.failure = "OK" /\ o.recorded = "OK"
         ELSE /\ o.created # "none"
              /\ o.name \in {"opendir", "share_enum"} => o.created \in {"OK", "EOF"}
              /\ o.name \in {"stat", "truncate", "rename"} => FailureRecorded(o)
              /\ o.name = "readlink" => CreateRecorded(o)

\* No failed CREATE lies under a success, but the one an END_OF_FILE hides.
Excused(o) ==
    o.created \in {"OK", "EOF"} \/ (o.name \in {"unlink", "mkdir"} /\ o.closed = "EOF")

\* Afterwards it has heard one result, unless the compound was dropped unsent.
Ended(o) ==
    /\ o.queue = <<>>
    /\ o.name # "none" /\ ~ o.refused => Len(o.told) = IF o.dropped THEN 0 ELSE 1
    /\ o.data = "live" => o.dropped
    /\ o.told # <<>> /\ ~ o.refused =>
         /\ o.name \in {"stat", "truncate", "rename"} => o.told[1] = Errno(o.failure)
         /\ o.told[1] = "OK" /\ o.name # "disconnect" => Excused(o)
    /\ o.name = "opendir" /\ o.data = "given" => o.listed = Newest(o.batches)

Sound(o) == o \in Operation /\ (InFlight(o) \/ Ended(o))

\* An open directory handle is never left behind by a listing handed to the caller.
DirectoryClosed == \A k \in Slot :
    ops[k].name = "opendir" /\ ops[k].data = "given" => k \notin opened

\* An open has its handle for itself, and so has a close.
HandleOwned == \A k \in Slot : Pending(k) /\ ops[k].fh \in Handle =>
    /\ handles[ops[k].fh] = IF ops[k].name = "open" THEN "allocated" ELSE "open"
    /\ ops[k].name \in {"open", "close"} =>
         \A j \in Slot : Pending(j) /\ ops[j].fh = ops[k].fh => j = k

Inv ==
    /\ context \in {"open", "closing", "gone", "crashed"} /\ connected \in BOOLEAN
    /\ ops \in [Slot -> Operation] /\ \A k \in Slot : Sound(ops[k])
    /\ handles \in [Handle -> {"none", "allocated", "open", "freed"}]
    /\ frees \in [Handle -> Nat]
    /\ opened \subseteq Slot \cup Handle \cup {Pipe}
    /\ context = "gone" => \A k \in Slot : ~ Pending(k)
    /\ DirectoryClosed /\ HandleOwned /\ HandlesFreedOnce

-----------------------------------------------------------------------------
(* What the steps of a callback do to the record of its operation *)

LEMMA Single == ASSUME NEW S, NEW x \in S PROVE <<x>> \in Seq(S)
OBVIOUS

LEMMA AnsweredIs ==
    ASSUME NEW o \in Operation, NEW s \in Status, o.queue # <<>>
    PROVE  /\ Answered(o, s) \in Operation
           /\ Answered(o, s).queue = Tail(o.queue)
           /\ Answered(o, s).created = IF o.created = "none" THEN s ELSE o.created
           /\ Answered(o, s).failure =
                IF o.failure = "OK" THEN s ELSE o.failure
           /\ Answered(o, s).closed = IF Head(o.queue) = "create_cb_2" THEN s ELSE o.closed
           /\ Answered(o, s).batches =
                IF Head(o.queue) = "query_cb" /\ s = "OK" THEN o.batches + 1 ELSE o.batches
           /\ Answered(o, s).name = o.name /\ Answered(o, s).told = o.told
           /\ Answered(o, s).dropped = o.dropped /\ Answered(o, s).refused = o.refused
           /\ Answered(o, s).data = o.data /\ Answered(o, s).fh = o.fh
           /\ Answered(o, s).listed = o.listed /\ Answered(o, s).recorded = o.recorded
           /\ Answered(o, s).sent = o.sent
<1>1. Tail(o.queue) \in Seq(Callbacks)
  BY DEF Operation
<1>2. o.batches + 1 \in Nat
  BY DEF Operation
<1> QED
  BY <1>1, <1>2 DEF Operation, Answered

LEMMA TellIs ==
    ASSUME NEW o \in Operation, NEW r \in Results
    PROVE  /\ Tell(o, r) \in Operation
           /\ Tell(o, r).told = Append(o.told, r) /\ Tell(o, r).data = "freed"
           /\ Tell(o, r).name = o.name /\ Tell(o, r).queue = o.queue
           /\ Tell(o, r).dropped = o.dropped /\ Tell(o, r).refused = o.refused
           /\ Tell(o, r).fh = o.fh /\ Tell(o, r).sent = o.sent
           /\ Tell(o, r).listed = o.listed /\ Tell(o, r).batches = o.batches
           /\ Tell(o, r).recorded = o.recorded /\ Tell(o, r).failure = o.failure
           /\ Tell(o, r).created = o.created /\ Tell(o, r).closed = o.closed
<1>1. Append(o.told, r) \in Seq(Results)
  BY DEF Operation
<1> QED
  BY <1>1 DEF Operation, Tell

LEMMA AskIs ==
    ASSUME NEW o \in Operation, NEW cb \in Callbacks
    PROVE  /\ Ask(o, cb) \in Operation
           /\ Ask(o, cb).queue = <<cb>> /\ Ask(o, cb).sent = FALSE
           /\ Ask(o, cb).name = o.name /\ Ask(o, cb).told = o.told
           /\ Ask(o, cb).data = o.data /\ Ask(o, cb).dropped = o.dropped
           /\ Ask(o, cb).refused = o.refused /\ Ask(o, cb).fh = o.fh
           /\ Ask(o, cb).listed = o.listed /\ Ask(o, cb).batches = o.batches
           /\ Ask(o, cb).recorded = o.recorded /\ Ask(o, cb).failure = o.failure
           /\ Ask(o, cb).created = o.created
<1>1. <<cb>> \in Seq(Callbacks)
  BY Single
<1> QED
  BY <1>1 DEF Operation, Ask

LEMMA RecordIs ==
    ASSUME NEW o \in Operation, NEW s \in Status
    PROVE  /\ Record(o, s) \in Operation
           /\ Record(o, s).recorded = Merged(o.recorded, s)
           /\ Record(o, s).name = o.name /\ Record(o, s).queue = o.queue
           /\ Record(o, s).told = o.told /\ Record(o, s).data = o.data
           /\ Record(o, s).dropped = o.dropped /\ Record(o, s).refused = o.refused
           /\ Record(o, s).fh = o.fh /\ Record(o, s).sent = o.sent
           /\ Record(o, s).listed = o.listed /\ Record(o, s).batches = o.batches
           /\ Record(o, s).failure = o.failure /\ Record(o, s).created = o.created
<1>1. Merged(o.recorded, s) \in Status
  BY DEF Operation, Merged
<1> QED
  BY <1>1 DEF Operation, Record

\* SMB2_LIST_ADD in front of the batches that are there.
LEMMA DecodeDirentsIs ==
    ASSUME NEW o \in Operation, NEW b \in Nat, o.listed = Newest(b)
    PROVE  /\ DecodeDirents(o) \in Operation
           /\ DecodeDirents(o).listed = Newest(b + 1)
           /\ DecodeDirents(o).name = o.name /\ DecodeDirents(o).queue = o.queue
           /\ DecodeDirents(o).told = o.told /\ DecodeDirents(o).data = o.data
           /\ DecodeDirents(o).dropped = o.dropped /\ DecodeDirents(o).refused = o.refused
           /\ DecodeDirents(o).fh = o.fh /\ DecodeDirents(o).sent = o.sent
           /\ DecodeDirents(o).recorded = o.recorded /\ DecodeDirents(o).batches = o.batches
           /\ DecodeDirents(o).failure = o.failure /\ DecodeDirents(o).created = o.created
<1>1. o.listed \in Seq(Nat) /\ Len(o.listed) = b
  BY DEF Operation, Newest
<1> DEFINE l == <<b + 1>> \o o.listed
<1>2. l \in Seq(Nat) /\ Len(l) = b + 1
  BY <1>1
<1>3. l = Newest(b + 1)
  <2>1. \A i \in 1 .. b + 1 : l[i] = IF i = 1 THEN b + 1 ELSE o.listed[i - 1]
    BY <1>1
  <2>2. \A i \in 1 .. b + 1 : l[i] = b + 2 - i
    BY <2>1 DEF Newest
  <2>3. l = [i \in 1 .. b + 1 |-> l[i]]
    BY <1>2
  <2> QED
    BY <2>2, <2>3 DEF Newest
<1> QED
  BY <1>1, <1>2, <1>3 DEF Operation, DecodeDirents

-----------------------------------------------------------------------------
(* One callback *)

\* Callback() runs the callback of the answered request.
LEMMA CallbackOf ==
    ASSUME NEW o, NEW s, NEW built
    PROVE
           /\ Head(o.queue) = "opendir_cb"       => Callback(o, s, built) = OpendirCb(Answered(o, s), s, built)
           /\ Head(o.queue) = "query_cb"         => Callback(o, s, built) = QueryCb(Answered(o, s), s, built)
           /\ Head(o.queue) = "od_close_cb"      => Callback(o, s, built) = OdCloseCb(Answered(o, s), s)
           /\ Head(o.queue) = "open_cb"          => Callback(o, s, built) = OpenCb(Answered(o, s), s)
           /\ Head(o.queue) = "close_cb"         => Callback(o, s, built) = CloseCb(Answered(o, s), s)
           /\ Head(o.queue) = "fsync_cb"         => Callback(o, s, built) = FsyncCb(Answered(o, s), s)
           /\ Head(o.queue) = "read_cb"          => Callback(o, s, built) = ReadCb(Answered(o, s), s)
           /\ Head(o.queue) = "write_cb"         => Callback(o, s, built) = WriteCb(Answered(o, s), s)
           /\ Head(o.queue) = "fstat_cb_1"       => Callback(o, s, built) = FstatCb1(Answered(o, s), s)
           /\ Head(o.queue) = "ftrunc_cb_1"      => Callback(o, s, built) = FtruncCb1(Answered(o, s), s)
           /\ Head(o.queue) = "echo_cb"          => Callback(o, s, built) = EchoCb(Answered(o, s), s)
           /\ Head(o.queue) = "create_cb_1"      => Callback(o, s, built) = CreateCb1(Answered(o, s), s)
           /\ Head(o.queue) = "create_cb_2"      => Callback(o, s, built) = CreateCb2(Answered(o, s), s)
           /\ Head(o.queue) = "getinfo_cb_1"     => Callback(o, s, built) = GetinfoCb1(Answered(o, s), s)
           /\ Head(o.queue) = "getinfo_cb_2"     => Callback(o, s, built) = GetinfoCb2(Answered(o, s), s)
           /\ Head(o.queue) = "getinfo_cb_3"     => Callback(o, s, built) = GetinfoCb3(Answered(o, s), s)
           /\ Head(o.queue) = "trunc_cb_1"       => Callback(o, s, built) = TruncCb1(Answered(o, s), s)
           /\ Head(o.queue) = "trunc_cb_2"       => Callback(o, s, built) = TruncCb2(Answered(o, s), s)
           /\ Head(o.queue) = "trunc_cb_3"       => Callback(o, s, built) = TruncCb3(Answered(o, s), s)
           /\ Head(o.queue) = "rename_cb_1"      => Callback(o, s, built) = RenameCb1(Answered(o, s), s)
           /\ Head(o.queue) = "rename_cb_2"      => Callback(o, s, built) = RenameCb2(Answered(o, s), s)
           /\ Head(o.queue) = "rename_cb_3"      => Callback(o, s, built) = RenameCb3(Answered(o, s), s)
           /\ Head(o.queue) = "readlink_cb_1"    => Callback(o, s, built) = ReadlinkCb1(Answered(o, s), s)
           /\ Head(o.queue) = "readlink_cb_2"    => Callback(o, s, built) = ReadlinkCb2(Answered(o, s), s)
           /\ Head(o.queue) = "readlink_cb_3"    => Callback(o, s, built) = ReadlinkCb3(Answered(o, s), s)
           /\ Head(o.queue) = "disconnect_cb_1"  => Callback(o, s, built) = DisconnectCb1(Answered(o, s), s, built)
           /\ Head(o.queue) = "disconnect_cb_2"  => Callback(o, s, built) = DisconnectCb2(Answered(o, s), s)
           /\ Head(o.queue) = "smb2_open_cb"     => Callback(o, s, built) = SmbOpenCb(Answered(o, s), s, built)
           /\ Head(o.queue) = "smb2_bind_cb"     => Callback(o, s, built) = SmbBindCb(Answered(o, s), s, built)
           /\ Head(o.queue) = "dcerpc_call_cb"   => Callback(o, s, built) = DcerpcCallCb(Answered(o, s), s, built)
BY DEF Callback

LEMMA Chains ==
    ASSUME NEW x, NEW y, NEW z
    PROVE  /\ Head(<<x>>) = x /\ Tail(<<x>>) = <<>> /\ Len(<<x>>) = 1 /\ <<x>> # <<>>
           /\ Head(<<x, y>>) = x /\ Tail(<<x, y>>) = <<y>> /\ Len(<<x, y>>) = 2 /\ <<x, y>> # <<>>
           /\ Head(<<x, y, z>>) = x /\ Tail(<<x, y, z>>) = <<y, z>> /\ Len(<<x, y, z>>) = 3
           /\ <<x, y, z>> # <<>>
OBVIOUS

LEMMA StagesOf ==
    ASSUME NEW name, NEW q \in Stages(name)
    PROVE  \/ name = "opendir" /\ q \in {<<"opendir_cb">>, <<"query_cb">>, <<"od_close_cb">>}
           \/ /\ name = "share_enum"
              /\ q \in {<<"smb2_open_cb">>, <<"smb2_bind_cb">>, <<"dcerpc_call_cb">>}
           \/ name = "disconnect" /\ q \in {<<"disconnect_cb_1">>, <<"disconnect_cb_2">>}
           \/ /\ name \in {"unlink", "mkdir"}
              /\ q \in {<<"create_cb_1", "create_cb_2">>, <<"create_cb_2">>}
           \/ /\ name = "stat"
              /\ q \in {<<"getinfo_cb_1", "getinfo_cb_2", "getinfo_cb_3">>,
                        <<"getinfo_cb_2", "getinfo_cb_3">>, <<"getinfo_cb_3">>}
           \/ /\ name = "truncate"
              /\ q \in {<<"trunc_cb_1", "trunc_cb_2", "trunc_cb_3">>,
                        <<"trunc_cb_2", "trunc_cb_3">>, <<"trunc_cb_3">>}
           \/ /\ name = "rename"
              /\ q \in {<<"rename_cb_1", "rename_cb_2", "rename_cb_3">>,
                        <<"rename_cb_2", "rename_cb_3">>, <<"rename_cb_3">>}
           \/ /\ name = "readlink"
              /\ q \in {<<"readlink_cb_1", "readlink_cb_2", "readlink_cb_3">>,
                        <<"readlink_cb_2", "readlink_cb_3">>, <<"readlink_cb_3">>}
           \/ name = "echo" /\ q = <<"echo_cb">>
           \/ name = "open" /\ q = <<"open_cb">>
           \/ name = "close" /\ q = <<"close_cb">>
           \/ name = "fsync" /\ q = <<"fsync_cb">>
           \/ name = "read" /\ q = <<"read_cb">>
           \/ name = "write" /\ q = <<"write_cb">>
           \/ name = "fstat" /\ q = <<"fstat_cb_1">>
           \/ name = "ftruncate" /\ q = <<"ftrunc_cb_1">>
BY DEF Stages

\* The statuses that may come for the head request: what a server answers, and the shutdown.
Answerable(o, s) ==
    /\ s = "NO_MORE" => Head(o.queue) = "query_cb"
    /\ s = "MALFORMED" => Head(o.queue) \in {"query_cb", "smb2_bind_cb", "dcerpc_call_cb"}
    /\ o.name \in Compounds /\ Head(o.queue) \notin Creates /\ o.created # "OK" =>
         s \in Refusal \cup {"EOF", "SHUTDOWN"}

\* What a callback makes of the operation o when its head request ends with s.
After(o, s, c) ==
    /\ Sound(c) /\ c.name = o.name /\ c.fh = o.fh
    /\ o.name \in OnFh => c.queue = <<>>
    /\ Len(o.queue) > 1 => c.told = <<>> /\ ~ c.refused
    /\ c.name = "opendir" /\ c.data = "given" => Head(o.queue) = "od_close_cb" /\ s = "OK"

\* The last callback tells the caller a result that fits what was answered.
LEMMA TellSound ==
    ASSUME NEW o \in Operation, InFlight(o), NEW s \in Status, NEW r \in Results,
           Len(o.queue) = 1, Tail(o.queue) = <<>>, o.name # "none",
           o.name \in {"stat", "truncate", "rename"} => r = Errno(Answered(o, s).failure),
           r = "OK" /\ o.name # "disconnect" => Excused(Answered(o, s))
    PROVE  After(o, s, Tell(Answered(o, s), r))
<1> DEFINE a == Answered(o, s)
           c == Tell(a, r)
<1>1. o.queue # <<>>
  <2>1. Len(<<>>) = 0 /\ 0 # 1
    OBVIOUS
  <2> QED
    BY <2>1, Zenon
<1>2. /\ a \in Operation /\ a.queue = <<>> /\ a.name = o.name /\ a.told = <<>> /\ ~ a.dropped
      /\ a.fh = o.fh /\ ~ a.refused
  <2>1. o.told = <<>> /\ ~ o.dropped /\ ~ o.refused
    BY DEF InFlight
  <2>2. a.told = <<>> /\ ~ a.dropped /\ ~ a.refused
    BY <1>1, <2>1, AnsweredIs
  <2> QED
    BY <1>1, <2>2, AnsweredIs
<1>3. /\ c \in Operation /\ c.queue = <<>> /\ c.told = Append(<<>>, r) /\ c.data = "freed"
      /\ c.name = o.name /\ ~ c.dropped /\ ~ c.refused /\ c.fh = o.fh
      /\ c.failure = a.failure /\ c.created = a.created /\ c.closed = a.closed
  BY <1>2, TellIs
<1>4. c.told # <<>> /\ Len(c.told) = 1 /\ c.told[1] = r
  BY <1>3
<1> HIDE DEF c, a
<1>5. r = "OK" /\ o.name # "disconnect" => Excused(c)
  BY <1>2, <1>3 DEF Excused, a
<1>6. Ended(c)
  BY <1>3, <1>4, <1>5 DEF Ended, a
<1> QED
  BY <1>3, <1>6 DEF After, Sound, c, a

\* open_cb, close_cb and fsync_cb tell through the handle.
LEMMA HandleToldSound ==
    ASSUME NEW o \in Operation, InFlight(o), NEW s \in Status, o.name \in InHandle,
           Tail(o.queue) = <<>>, Len(o.queue) = 1, s \notin {"NO_MORE", "MALFORMED"},
           Head(o.queue) \in First
    PROVE  After(o, s, [Answered(o, s) EXCEPT !.told = Append(@, Errno(s))])
<1> DEFINE a == Answered(o, s)
           c == [a EXCEPT !.told = Append(@, Errno(s))]
<1>1. o.queue # <<>> /\ Errno(s) \in Results
  BY DEF Errno, Status, Results
<1>2. /\ a \in Operation /\ a.queue = <<>> /\ a.name = o.name /\ a.told = <<>> /\ ~ a.dropped
      /\ a.fh = o.fh /\ ~ a.refused /\ a.created = s /\ a.data = "none"
  <2>1. /\ o.told = <<>> /\ ~ o.dropped /\ ~ o.refused
        /\ o.created = "none" /\ o.data = "none"
    BY DEF InFlight
  <2>2. a.created = s /\ a.data = "none"
    BY <1>1, <2>1, AnsweredIs
  <2>3. a.told = <<>> /\ ~ a.dropped /\ ~ a.refused
    BY <1>1, <2>1, AnsweredIs
  <2> QED
    BY <1>1, <2>2, <2>3, AnsweredIs
<1> HIDE DEF a
<1>3. Append(a.told, Errno(s)) \in Seq(Results)
  BY <1>1, <1>2
<1>4. /\ c \in Operation /\ c.queue = <<>> /\ c.told = Append(<<>>, Errno(s)) /\ c.data = "none"
      /\ c.name = o.name /\ ~ c.dropped /\ ~ c.refused /\ c.fh = o.fh /\ c.created = s
  BY <1>2, <1>3 DEF Operation
<1> HIDE DEF c
<1>5. c.told # <<>> /\ Len(c.told) = 1 /\ c.told[1] = Errno(s)
  BY <1>4
<1>6. Ended(c)
  BY <1>4, <1>5 DEF Ended, Excused, Errno, InHandle
<1> QED
  BY <1>4, <1>5, <1>6 DEF After, Sound, c, a, InHandle

\* A request before the last of a compound is answered, and its status recorded or not.
LEMMA StageSound ==
    ASSUME NEW o \in Operation, InFlight(o), NEW s \in Status, NEW c \in Operation,
           o.name \in Compounds, Len(o.queue) > 1, Tail(o.queue) \in Stages(o.name),
           Head(Tail(o.queue)) \notin First, Tail(o.queue) # <<>>,
           c.queue = Tail(o.queue), c.name = o.name, c.told = o.told, c.data = o.data,
           c.dropped = o.dropped, c.refused = o.refused, c.fh = o.fh, c.listed = o.listed,
           c.batches = o.batches, c.created # "none",
           o.name \in {"stat", "truncate", "rename"} => FailureRecorded(c),
           o.name = "readlink" => CreateRecorded(c)
    PROVE  After(o, s, c)
<1>1. InFlight(c)
  BY DEF InFlight, Compounds
<1>2. o.name \notin OnFh /\ o.name # "opendir"
  BY DEF Compounds, OnFh, InHandle
<1> QED
  BY <1>1, <1>2 DEF After, Sound, InFlight

\* A callback asks for the next command of the operation.
LEMMA AskSound ==
    ASSUME NEW o \in Operation, InFlight(o), NEW s \in Status, NEW a \in Operation,
           NEW cb \in Callbacks, <<cb>> \in Stages(o.name), cb \notin First,
           o.name \in {"opendir", "share_enum", "disconnect"}, Len(o.queue) = 1,
           a.name = o.name, a.told = o.told, a.data = o.data,
           a.dropped = o.dropped, a.refused = o.refused, a.fh = o.fh,
           a.listed = Newest(a.batches), a.created # "none",
           o.name \in {"opendir", "share_enum"} => a.created \in {"OK", "EOF"}
    PROVE  After(o, s, Ask(a, cb))
<1> DEFINE c == Ask(a, cb)
<1>1. /\ c \in Operation /\ c.queue = <<cb>> /\ c.name = o.name /\ c.told = o.told
      /\ c.data = o.data /\ c.dropped = o.dropped /\ c.refused = o.refused /\ c.fh = o.fh
      /\ c.listed = Newest(c.batches) /\ c.created = a.created
  BY AskIs
<1> HIDE DEF c
<1>2. Head(<<cb>>) = cb /\ <<cb>> # <<>>
  OBVIOUS
<1>3. InFlight(c)
  BY <1>1, <1>2 DEF InFlight
<1>4. o.name \notin OnFh
  BY DEF OnFh, InHandle
<1>5. c.data # "given"
  BY <1>3 DEF InFlight
<1> QED
  BY <1>1, <1>3, <1>4, <1>5 DEF After, Sound, c

\* What is needed of a command that is the only one of its operation.
LEMMA AloneSound ==
    ASSUME NEW o \in Operation, InFlight(o), NEW s \in Status, Answerable(o, s),
           Head(o.queue) \in First, Tail(o.queue) = <<>>, Len(o.queue) = 1,
           o.name \in {"echo", "read", "write", "fstat", "ftruncate"},
           NEW r \in Results, r = "OK" => s \in {"OK", "EOF"}
    PROVE  After(o, s, Tell(Answered(o, s), r))
<1>1. o.queue # <<>>
  <2>1. Len(<<>>) = 0 /\ 0 # 1
    OBVIOUS
  <2> QED
    BY <2>1, Zenon
<1>2. Answered(o, s).created = s
  BY <1>1, AnsweredIs DEF InFlight
<1>3. r = "OK" => Excused(Answered(o, s))
  BY <1>2 DEF Excused
<1> QED
  BY <1>3, TellSound

LEMMA SingleSound ==
    ASSUME NEW o \in Operation, InFlight(o), NEW s \in Status, Answerable(o, s),
           NEW built \in BOOLEAN,
           o.name \in OnFh \cup {"echo"}
    PROVE  After(o, s, Callback(o, s, built))
<1> DEFINE a == Answered(o, s)
<1>1. ASSUME NEW cb \in First, o.queue = <<cb>>
      PROVE  /\ Head(o.queue) = cb /\ Tail(o.queue) = <<>> /\ Len(o.queue) = 1
             /\ Head(o.queue) \in First
  BY <1>1
<1>2. s # "NO_MORE" /\ s # "MALFORMED" => Errno(s) \in Results
  BY DEF Errno, Status, Results
<1>3. Errno(s) = "OK" => s \in {"OK", "EOF"}
  BY DEF Errno
<1> USE DEF First, Creates
<1>4. CASE o.name = "open"
  <2>1. o.queue = <<"open_cb">>
    BY <1>4, StagesOf DEF InFlight
  <2>2. Head(o.queue) = "open_cb"
    BY <1>1, <2>1
  <2>3. Callback(o, s, built) = OpenCb(a, s)
    BY <2>2, CallbackOf
  <2> QED
    BY <1>1, <1>4, <2>1, <2>2, <2>3, HandleToldSound DEF OpenCb, InHandle, Answerable
<1>5. CASE o.name = "close"
  <2>1. o.queue = <<"close_cb">>
    BY <1>5, StagesOf DEF InFlight
  <2>2. Head(o.queue) = "close_cb"
    BY <1>1, <2>1
  <2>3. Callback(o, s, built) = CloseCb(a, s)
    BY <2>2, CallbackOf
  <2> QED
    BY <1>1, <1>5, <2>1, <2>2, <2>3, HandleToldSound DEF CloseCb, InHandle, Answerable
<1>6. CASE o.name = "fsync"
  <2>1. o.queue = <<"fsync_cb">>
    BY <1>6, StagesOf DEF InFlight
  <2>2. Head(o.queue) = "fsync_cb"
    BY <1>1, <2>1
  <2>3. Callback(o, s, built) = FsyncCb(a, s)
    BY <2>2, CallbackOf
  <2> QED
    BY <1>1, <1>6, <2>1, <2>2, <2>3, HandleToldSound DEF FsyncCb, InHandle, Answerable
<1>7. CASE o.name = "echo"
  <2>1. o.queue = <<"echo_cb">>
    BY <1>7, StagesOf DEF InFlight
  <2>2. Head(o.queue) = "echo_cb"
    BY <1>1, <2>1
  <2>3. Callback(o, s, built) = Tell(a, Errno(s))
    BY <2>2, CallbackOf DEF EchoCb
  <2> QED
    BY <1>1, <1>2, <1>3, <1>7, <2>1, <2>2, <2>3, AloneSound DEF Answerable
<1>8. CASE o.name = "read"
  <2>1. o.queue = <<"read_cb">>
    BY <1>8, StagesOf DEF InFlight
  <2>2. Head(o.queue) = "read_cb"
    BY <1>1, <2>1
  <2>3. Callback(o, s, built) = Tell(a, Errno(s))
    BY <2>2, CallbackOf DEF ReadCb
  <2> QED
    BY <1>1, <1>2, <1>3, <1>8, <2>1, <2>2, <2>3, AloneSound DEF Answerable
<1>9. CASE o.name = "write"
  <2>1. o.queue = <<"write_cb">>
    BY <1>9, StagesOf DEF InFlight
  <2>2. Head(o.queue) = "write_cb"
    BY <1>1, <2>1
  <2>3. Callback(o, s, built) = Tell(a, Errno(s))
    BY <2>2, CallbackOf DEF WriteCb
  <2> QED
    BY <1>1, <1>2, <1>3, <1>9, <2>1, <2>2, <2>3, AloneSound DEF Answerable
<1>10. CASE o.name = "fstat"
  <2>1. o.queue = <<"fstat_cb_1">>
    BY <1>10, StagesOf DEF InFlight
  <2>2. Head(o.queue) = "fstat_cb_1"
    BY <1>1, <2>1
  <2>3. Callback(o, s, built) = Tell(a, Errno(s))
    BY <2>2, CallbackOf DEF FstatCb1
  <2> QED
    BY <1>1, <1>2, <1>3, <1>10, <2>1, <2>2, <2>3, AloneSound DEF Answerable
<1>11. CASE o.name = "ftruncate"
  <2>1. o.queue = <<"ftrunc_cb_1">>
    BY <1>11, StagesOf DEF InFlight
  <2>2. Head(o.queue) = "ftrunc_cb_1"
    BY <1>1, <2>1
  <2>3. Callback(o, s, built) = Tell(a, Errno(s))
    BY <2>2, CallbackOf DEF FtruncCb1
  <2> QED
    BY <1>1, <1>2, <1>3, <1>11, <2>1, <2>2, <2>3, AloneSound DEF Answerable
<1> QED
  BY <1>4, <1>5, <1>6, <1>7, <1>8, <1>9, <1>10, <1>11 DEF OnFh, InHandle

\* stat, truncate and rename: a status is recorded and the compound goes on.
LEMMA RecordingSound ==
    ASSUME NEW o \in Operation, InFlight(o), NEW s \in {"OK", "EOF", "SHUTDOWN"} \cup Refusal,
           o.name \in {"stat", "truncate", "rename"},
           Len(o.queue) > 1, o.queue # <<>>, Tail(o.queue) \in Stages(o.name),
           Head(Tail(o.queue)) \notin First, Tail(o.queue) # <<>>,
           Head(o.queue) # "query_cb"
    PROVE  After(o, s, Record(Answered(o, s), s))
<1> DEFINE a == Answered(o, s)
           c == Record(a, s)
<1>1. s \in Status /\ s # "none"
  BY DEF Status, Refusal
<1>2. /\ a \in Operation /\ a.recorded = o.recorded
      /\ a.created = (IF o.created = "none" THEN s ELSE o.created)
      /\ a.failure = (IF o.failure = "OK" THEN s ELSE o.failure)
      /\ a.batches = o.batches
  BY <1>1, AnsweredIs
<1>3. /\ c \in Operation /\ c.recorded = Merged(o.recorded, s)
      /\ c.created = a.created /\ c.failure = a.failure
  BY <1>1, <1>2, RecordIs
<1>4. /\ c.queue = Tail(o.queue) /\ c.name = o.name /\ c.told = o.told /\ c.data = o.data
      /\ c.fh = o.fh /\ c.listed = o.listed /\ c.batches = o.batches
  BY <1>1, <1>2, AnsweredIs, RecordIs
<1>5. c.dropped = o.dropped /\ c.refused = o.refused
  BY <1>1, <1>2, AnsweredIs, RecordIs
<1>6. o.created # "none" => FailureRecorded(o)
  BY DEF InFlight
<1>7. o.created = "none" => o.recorded = "OK" /\ o.failure = "OK"
  BY DEF InFlight
<1>8. c.created # "none" /\ FailureRecorded(c)
  BY <1>1, <1>2, <1>3, <1>6, <1>7 DEF Merged, FailureRecorded, CreateRecorded
<1> HIDE DEF c
<1>9. o.name \in Compounds /\ o.name # "readlink"
  BY DEF Compounds
<1> QED
  BY <1>1, <1>3, <1>4, <1>5, <1>8, <1>9, StageSound DEF c

\* and at its end the first failure is told.
LEMMA MergedTold ==
    ASSUME NEW o \in Operation, InFlight(o), NEW s \in {"OK", "EOF", "SHUTDOWN"} \cup Refusal,
           o.name \in {"stat", "truncate", "rename"},
           Len(o.queue) = 1, o.queue # <<>>, Tail(o.queue) = <<>>, Head(o.queue) \notin First
    PROVE  After(o, s, Tell(Answered(o, s), Errno(Merged(Answered(o, s).recorded, s))))
<1> DEFINE a == Answered(o, s)
           r == Errno(Merged(a.recorded, s))
<1>1. s \in Status /\ s # "none"
  BY DEF Status, Refusal
<1>2. /\ a.recorded = o.recorded
      /\ a.created = (IF o.created = "none" THEN s ELSE o.created)
      /\ a.failure = (IF o.failure = "OK" THEN s ELSE o.failure)
  BY <1>1, AnsweredIs
<1>3. o.created # "none" /\ FailureRecorded(o)
  BY DEF InFlight
<1>4. r = Errno(a.failure) /\ (r = "OK" => a.created \in {"OK", "EOF"})
  BY <1>1, <1>2, <1>3 DEF Merged, Errno, FailureRecorded, CreateRecorded, Refusal
<1>5. r \in Results
  BY <1>1, <1>2, <1>3, <1>4 DEF Results, Errno, FailureRecorded, CreateRecorded
<1> HIDE DEF r, a
<1>6. o.name # "none" /\ (r = "OK" => Excused(a))
  BY <1>4 DEF Excused
<1>7. After(o, s, Tell(Answered(o, s), r))
  BY <1>1, <1>4, <1>5, <1>6, TellSound DEF a
<1> QED
  BY <1>7 DEF r, a

LEMMA StatSound ==
    ASSUME NEW o \in Operation, InFlight(o), NEW s \in Status, Answerable(o, s),
           NEW built \in BOOLEAN, o.name = "stat"
    PROVE  After(o, s, Callback(o, s, built))
<1> USE DEF First, Creates, Compounds
<1>1. CASE o.queue = <<"getinfo_cb_1", "getinfo_cb_2", "getinfo_cb_3">>
  <2>1. /\ Head(o.queue) = "getinfo_cb_1" /\ Len(o.queue) > 1 /\ o.queue # <<>>
        /\ Tail(o.queue) = <<"getinfo_cb_2", "getinfo_cb_3">>
    BY <1>1, Chains
  <2>2. /\ Tail(o.queue) \in Stages(o.name) /\ Tail(o.queue) # <<>>
        /\ Head(Tail(o.queue)) = "getinfo_cb_2"
    <3>1. Tail(o.queue) \in Stages(o.name)
      BY <2>1 DEF Stages
    <3>2. <<"getinfo_cb_2", "getinfo_cb_3">> # <<>> /\ Head(<<"getinfo_cb_2", "getinfo_cb_3">>) = "getinfo_cb_2"
      OBVIOUS
    <3> QED
      BY <2>1, <3>1, <3>2
  <2>3. s \in {"OK", "EOF", "SHUTDOWN"} \cup Refusal
    BY <2>1 DEF Answerable, Status
  <2>4. Callback(o, s, built) = Record(Answered(o, s), s)
    BY <2>1, CallbackOf DEF GetinfoCb1
  <2> QED
    BY <2>1, <2>2, <2>3, <2>4, RecordingSound
<1>2. CASE o.queue = <<"getinfo_cb_2", "getinfo_cb_3">>
  <2>1. /\ Head(o.queue) = "getinfo_cb_2" /\ Len(o.queue) > 1 /\ o.queue # <<>>
        /\ Tail(o.queue) = <<"getinfo_cb_3">>
    BY <1>2, Chains
  <2>2. /\ Tail(o.queue) \in Stages(o.name) /\ Tail(o.queue) # <<>>
        /\ Head(Tail(o.queue)) = "getinfo_cb_3"
    <3>1. Tail(o.queue) \in Stages(o.name)
      BY <2>1 DEF Stages
    <3>2. <<"getinfo_cb_3">> # <<>> /\ Head(<<"getinfo_cb_3">>) = "getinfo_cb_3"
      OBVIOUS
    <3> QED
      BY <2>1, <3>1, <3>2
  <2>3. s \in {"OK", "EOF", "SHUTDOWN"} \cup Refusal
    BY <2>1 DEF Answerable, Status
  <2>4. Callback(o, s, built) = Record(Answered(o, s), s)
    BY <2>1, CallbackOf DEF GetinfoCb2
  <2> QED
    BY <2>1, <2>2, <2>3, <2>4, RecordingSound
<1>3. CASE o.queue = <<"getinfo_cb_3">>
  <2>1. /\ Head(o.queue) = "getinfo_cb_3" /\ Len(o.queue) = 1 /\ o.queue # <<>>
        /\ Tail(o.queue) = <<>>
    BY <1>3, Chains
  <2>2. s \in {"OK", "EOF", "SHUTDOWN"} \cup Refusal
    BY <2>1 DEF Answerable, Status
  <2>3. Callback(o, s, built) = Tell(Answered(o, s), Errno(Merged(Answered(o, s).recorded, s)))
    BY <2>1, CallbackOf DEF GetinfoCb3
  <2> QED
    BY <2>1, <2>2, <2>3, MergedTold
<1> QED
  BY <1>1, <1>2, <1>3, StagesOf DEF InFlight

LEMMA TruncateSound ==
    ASSUME NEW o \in Operation, InFlight(o), NEW s \in Status, Answerable(o, s),
           NEW built \in BOOLEAN, o.name = "truncate"
    PROVE  After(o, s, Callback(o, s, built))
<1> USE DEF First, Creates, Compounds
<1>1. CASE o.queue = <<"trunc_cb_1", "trunc_cb_2", "trunc_cb_3">>
  <2>1. /\ Head(o.queue) = "trunc_cb_1" /\ Len(o.queue) > 1 /\ o.queue # <<>>
        /\ Tail(o.queue) = <<"trunc_cb_2", "trunc_cb_3">>
    BY <1>1, Chains
  <2>2. /\ Tail(o.queue) \in Stages(o.name) /\ Tail(o.queue) # <<>>
        /\ Head(Tail(o.queue)) = "trunc_cb_2"
    <3>1. Tail(o.queue) \in Stages(o.name)
      BY <2>1 DEF Stages
    <3>2. <<"trunc_cb_2", "trunc_cb_3">> # <<>> /\ Head(<<"trunc_cb_2", "trunc_cb_3">>) = "trunc_cb_2"
      OBVIOUS
    <3> QED
      BY <2>1, <3>1, <3>2
  <2>3. s \in {"OK", "EOF", "SHUTDOWN"} \cup Refusal
    BY <2>1 DEF Answerable, Status
  <2>4. Callback(o, s, built) = Record(Answered(o, s), s)
    BY <2>1, CallbackOf DEF TruncCb1
  <2> QED
    BY <2>1, <2>2, <2>3, <2>4, RecordingSound
<1>2. CASE o.queue = <<"trunc_cb_2", "trunc_cb_3">>
  <2>1. /\ Head(o.queue) = "trunc_cb_2" /\ Len(o.queue) > 1 /\ o.queue # <<>>
        /\ Tail(o.queue) = <<"trunc_cb_3">>
    BY <1>2, Chains
  <2>2. /\ Tail(o.queue) \in Stages(o.name) /\ Tail(o.queue) # <<>>
        /\ Head(Tail(o.queue)) = "trunc_cb_3"
    <3>1. Tail(o.queue) \in Stages(o.name)
      BY <2>1 DEF Stages
    <3>2. <<"trunc_cb_3">> # <<>> /\ Head(<<"trunc_cb_3">>) = "trunc_cb_3"
      OBVIOUS
    <3> QED
      BY <2>1, <3>1, <3>2
  <2>3. s \in {"OK", "EOF", "SHUTDOWN"} \cup Refusal
    BY <2>1 DEF Answerable, Status
  <2>4. Callback(o, s, built) = Record(Answered(o, s), s)
    BY <2>1, CallbackOf DEF TruncCb2
  <2> QED
    BY <2>1, <2>2, <2>3, <2>4, RecordingSound
<1>3. CASE o.queue = <<"trunc_cb_3">>
  <2>1. /\ Head(o.queue) = "trunc_cb_3" /\ Len(o.queue) = 1 /\ o.queue # <<>>
        /\ Tail(o.queue) = <<>>
    BY <1>3, Chains
  <2>2. s \in {"OK", "EOF", "SHUTDOWN"} \cup Refusal
    BY <2>1 DEF Answerable, Status
  <2>3. Callback(o, s, built) = Tell(Answered(o, s), Errno(Merged(Answered(o, s).recorded, s)))
    BY <2>1, CallbackOf DEF TruncCb3
  <2> QED
    BY <2>1, <2>2, <2>3, MergedTold
<1> QED
  BY <1>1, <1>2, <1>3, StagesOf DEF InFlight

LEMMA RenameSound ==
    ASSUME NEW o \in Operation, InFlight(o), NEW s \in Status, Answerable(o, s),
           NEW built \in BOOLEAN, o.name = "rename"
    PROVE  After(o, s, Callback(o, s, built))
<1> USE DEF First, Creates, Compounds
<1>1. CASE o.queue = <<"rename_cb_1", "rename_cb_2", "rename_cb_3">>
  <2>1. /\ Head(o.queue) = "rename_cb_1" /\ Len(o.queue) > 1 /\ o.queue # <<>>
        /\ Tail(o.queue) = <<"rename_cb_2", "rename_cb_3">>
    BY <1>1, Chains
  <2>2. /\ Tail(o.queue) \in Stages(o.name) /\ Tail(o.queue) # <<>>
        /\ Head(Tail(o.queue)) = "rename_cb_2"
    <3>1. Tail(o.queue) \in Stages(o.name)
      BY <2>1 DEF Stages
    <3>2. <<"rename_cb_2", "rename_cb_3">> # <<>> /\ Head(<<"rename_cb_2", "rename_cb_3">>) = "rename_cb_2"
      OBVIOUS
    <3> QED
      BY <2>1, <3>1, <3>2
  <2>3. s \in {"OK", "EOF", "SHUTDOWN"} \cup Refusal
    BY <2>1 DEF Answerable, Status
  <2>4. Callback(o, s, built) = Record(Answered(o, s), s)
    BY <2>1, CallbackOf DEF RenameCb1
  <2> QED
    BY <2>1, <2>2, <2>3, <2>4, RecordingSound
<1>2. CASE o.queue = <<"rename_cb_2", "rename_cb_3">>
  <2>1. /\ Head(o.queue) = "rename_cb_2" /\ Len(o.queue) > 1 /\ o.queue # <<>>
        /\ Tail(o.queue) = <<"rename_cb_3">>
    BY <1>2, Chains
  <2>2. /\ Tail(o.queue) \in Stages(o.name) /\ Tail(o.queue) # <<>>
        /\ Head(Tail(o.queue)) = "rename_cb_3"
    <3>1. Tail(o.queue) \in Stages(o.name)
      BY <2>1 DEF Stages
    <3>2. <<"rename_cb_3">> # <<>> /\ Head(<<"rename_cb_3">>) = "rename_cb_3"
      OBVIOUS
    <3> QED
      BY <2>1, <3>1, <3>2
  <2>3. s \in {"OK", "EOF", "SHUTDOWN"} \cup Refusal
    BY <2>1 DEF Answerable, Status
  <2>4. Callback(o, s, built) = Record(Answered(o, s), s)
    BY <2>1, CallbackOf DEF RenameCb2
  <2> QED
    BY <2>1, <2>2, <2>3, <2>4, RecordingSound
<1>3. CASE o.queue = <<"rename_cb_3">>
  <2>1. /\ Head(o.queue) = "rename_cb_3" /\ Len(o.queue) = 1 /\ o.queue # <<>>
        /\ Tail(o.queue) = <<>>
    BY <1>3, Chains
  <2>2. s \in {"OK", "EOF", "SHUTDOWN"} \cup Refusal
    BY <2>1 DEF Answerable, Status
  <2>3. Callback(o, s, built) = Tell(Answered(o, s), Errno(Merged(Answered(o, s).recorded, s)))
    BY <2>1, CallbackOf DEF RenameCb3
  <2> QED
    BY <2>1, <2>2, <2>3, MergedTold
<1> QED
  BY <1>1, <1>2, <1>3, StagesOf DEF InFlight

LEMMA CreateSound ==
    ASSUME NEW o \in Operation, InFlight(o), NEW s \in Status, Answerable(o, s),
           NEW built \in BOOLEAN, o.name \in {"unlink", "mkdir"}
    PROVE  After(o, s, Callback(o, s, built))
<1> DEFINE a == Answered(o, s)
<1> USE DEF First, Creates, Compounds
<1>1. CASE o.queue = <<"create_cb_1", "create_cb_2">>
  <2>1. /\ Head(o.queue) = "create_cb_1" /\ Len(o.queue) > 1 /\ o.queue # <<>>
        /\ Tail(o.queue) = <<"create_cb_2">>
    BY <1>1, Chains
  <2>2. Tail(o.queue) \in Stages(o.name)
    BY <2>1 DEF Stages
  <2>3. <<"create_cb_2">> # <<>> /\ Head(<<"create_cb_2">>) = "create_cb_2"
    OBVIOUS
  <2>4. Callback(o, s, built) = a
    BY <2>1, CallbackOf DEF CreateCb1
  <2>5. /\ a \in Operation /\ a.created # "none" /\ a.queue = Tail(o.queue) /\ a.name = o.name
        /\ a.told = o.told /\ a.data = o.data /\ a.dropped = o.dropped /\ a.refused = o.refused
        /\ a.fh = o.fh /\ a.listed = o.listed /\ a.batches = o.batches
    BY <2>1, AnsweredIs DEF Status, Refusal
  <2> HIDE DEF a
  <2> QED
    BY <2>1, <2>2, <2>3, <2>4, <2>5, StageSound
<1>2. CASE o.queue = <<"create_cb_2">>
  <2>1. /\ Head(o.queue) = "create_cb_2" /\ Len(o.queue) = 1 /\ o.queue # <<>>
        /\ Tail(o.queue) = <<>>
    BY <1>2, Chains
  <2>2. /\ s \in {"OK", "EOF", "SHUTDOWN"} \cup Refusal
        /\ s = "OK" => o.created = "OK"
    BY <2>1 DEF Answerable, Status, Refusal
  <2>3. Callback(o, s, built) = Tell(a, Errno(s))
    BY <2>1, CallbackOf DEF CreateCb2
  <2>4. Errno(s) \in Results /\ (Errno(s) = "OK" => s \in {"OK", "EOF"})
    BY <2>2 DEF Errno, Results, Refusal
  <2>5. /\ a.created = (IF o.created = "none" THEN s ELSE o.created)
        /\ a.closed = s /\ a.name = o.name
    BY <2>1, AnsweredIs
  <2>6. Errno(s) = "OK" => Excused(a)
    <3> HIDE DEF a
    <3> QED
      BY <2>2, <2>4, <2>5 DEF Excused
  <2> HIDE DEF a
  <2>7. After(o, s, Tell(Answered(o, s), Errno(s)))
    BY <2>1, <2>4, <2>6, TellSound DEF a
  <2> QED
    BY <2>3, <2>7 DEF a
<1> QED
  BY <1>1, <1>2, StagesOf DEF InFlight

LEMMA ReadlinkSound ==
    ASSUME NEW o \in Operation, InFlight(o), NEW s \in Status, Answerable(o, s),
           NEW built \in BOOLEAN, o.name = "readlink"
    PROVE  After(o, s, Callback(o, s, built))
<1> DEFINE a == Answered(o, s)
<1> USE DEF First, Creates, Compounds
<1>1. CASE o.queue = <<"readlink_cb_1", "readlink_cb_2", "readlink_cb_3">>
  <2> DEFINE c == [a EXCEPT !.recorded = s]
  <2>1. /\ Head(o.queue) = "readlink_cb_1" /\ Len(o.queue) > 1 /\ o.queue # <<>>
        /\ Tail(o.queue) = <<"readlink_cb_2", "readlink_cb_3">>
    BY <1>1, Chains
  <2>2. Tail(o.queue) \in Stages(o.name)
    BY <2>1 DEF Stages
  <2>3. /\ <<"readlink_cb_2", "readlink_cb_3">> # <<>>
        /\ Head(<<"readlink_cb_2", "readlink_cb_3">>) = "readlink_cb_2"
    OBVIOUS
  <2>4. Callback(o, s, built) = c
    BY <2>1, CallbackOf DEF ReadlinkCb1
  <2>5. /\ a \in Operation /\ a.created = s /\ a.queue = Tail(o.queue) /\ a.name = o.name
        /\ a.told = o.told /\ a.data = o.data /\ a.dropped = o.dropped /\ a.refused = o.refused
        /\ a.fh = o.fh /\ a.listed = o.listed /\ a.batches = o.batches
    BY <2>1, AnsweredIs DEF InFlight
  <2>6. /\ c \in Operation /\ c.created = s /\ c.queue = Tail(o.queue) /\ c.name = o.name
        /\ c.told = o.told /\ c.data = o.data /\ c.dropped = o.dropped /\ c.refused = o.refused
        /\ c.fh = o.fh /\ c.listed = o.listed /\ c.batches = o.batches /\ c.recorded = s
    <3> HIDE DEF a
    <3> QED
      BY <2>5 DEF Operation
  <2>7. s # "none" /\ CreateRecorded(c)
    <3> HIDE DEF c
    <3> QED
      BY <2>1, <2>6 DEF Status, Refusal, CreateRecorded, Answerable
  <2> HIDE DEF c, a
  <2> QED
    BY <2>1, <2>2, <2>3, <2>4, <2>6, <2>7, StageSound
<1>2. CASE o.queue = <<"readlink_cb_2", "readlink_cb_3">>
  <2> DEFINE c == Record(a, s)
  <2>1. /\ Head(o.queue) = "readlink_cb_2" /\ Len(o.queue) > 1 /\ o.queue # <<>>
        /\ Tail(o.queue) = <<"readlink_cb_3">>
    BY <1>2, Chains
  <2>2. Tail(o.queue) \in Stages(o.name)
    BY <2>1 DEF Stages
  <2>3. <<"readlink_cb_3">> # <<>> /\ Head(<<"readlink_cb_3">>) = "readlink_cb_3"
    OBVIOUS
  <2>4. Callback(o, s, built) = c
    BY <2>1, CallbackOf DEF ReadlinkCb2
  <2>5. o.created # "none" /\ CreateRecorded(o)
    BY <2>1 DEF InFlight
  <2>6. /\ a \in Operation /\ a.created = o.created /\ a.queue = Tail(o.queue) /\ a.name = o.name
        /\ a.told = o.told /\ a.data = o.data /\ a.dropped = o.dropped /\ a.refused = o.refused
        /\ a.fh = o.fh /\ a.listed = o.listed /\ a.batches = o.batches /\ a.recorded = o.recorded
    BY <2>1, <2>5, AnsweredIs
  <2>7. /\ c \in Operation /\ c.created = o.created /\ c.queue = Tail(o.queue) /\ c.name = o.name
        /\ c.told = o.told /\ c.data = o.data /\ c.dropped = o.dropped /\ c.refused = o.refused
        /\ c.fh = o.fh /\ c.listed = o.listed /\ c.batches = o.batches
        /\ c.recorded = Merged(o.recorded, s)
    <3> HIDE DEF a
    <3> QED
      BY <2>6, RecordIs
  <2>8. CreateRecorded(c)
    <3> HIDE DEF c
    <3>1. s \in {"OK", "EOF", "SHUTDOWN"} \cup Refusal
      BY <2>1 DEF Answerable, Status
    <3> QED
      BY <2>5, <2>7, <3>1 DEF Merged, CreateRecorded
  <2> HIDE DEF c, a
  <2> QED
    BY <2>1, <2>2, <2>3, <2>4, <2>5, <2>7, <2>8, StageSound
<1>3. CASE o.queue = <<"readlink_cb_3">>
  <2>1. /\ Head(o.queue) = "readlink_cb_3" /\ Len(o.queue) = 1 /\ o.queue # <<>>
        /\ Tail(o.queue) = <<>>
    BY <1>3, Chains
  <2>2. o.created # "none" /\ CreateRecorded(o)
    BY <2>1 DEF InFlight
  <2>3. a.created = o.created /\ a.recorded = o.recorded
    BY <2>1, <2>2, AnsweredIs
  <2>4. Callback(o, s, built) = Tell(a, Errno(o.recorded))
    BY <2>1, <2>3, CallbackOf DEF ReadlinkCb3
  <2>5. Errno(o.recorded) \in Results /\ (Errno(o.recorded) = "OK" => Excused(a))
    BY <2>2, <2>3 DEF CreateRecorded, Excused, Errno, Results, Refusal
  <2> HIDE DEF a
  <2>6. After(o, s, Tell(Answered(o, s), Errno(o.recorded)))
    BY <2>1, <2>2, <2>3, <2>5, TellSound DEF a, CreateRecorded
  <2> QED
    BY <2>4, <2>6 DEF a
<1> QED
  BY <1>1, <1>2, <1>3, StagesOf DEF InFlight

LEMMA OpendirSound ==
    ASSUME NEW o \in Operation, InFlight(o), NEW s \in Status, Answerable(o, s),
           NEW built \in BOOLEAN, o.name = "opendir"
    PROVE  After(o, s, Callback(o, s, built))
<1> DEFINE a == Answered(o, s)
<1> USE DEF First, Creates
<1>1. CASE o.queue = <<"opendir_cb">>
  <2>1. /\ Head(o.queue) = "opendir_cb" /\ Len(o.queue) = 1 /\ o.queue # <<>>
        /\ Tail(o.queue) = <<>>
    BY <1>1, Chains
  <2>2. Callback(o, s, built) = OpendirCb(a, s, built)
    BY <2>1, CallbackOf
  <2>3. /\ a \in Operation /\ a.name = o.name /\ a.told = o.told /\ a.data = o.data
        /\ a.dropped = o.dropped /\ a.refused = o.refused /\ a.fh = o.fh
        /\ a.listed = Newest(a.batches) /\ a.created = s
    BY <2>1, AnsweredIs DEF InFlight
  <2>4. CASE s = "OK" /\ built
    <3>1. Callback(o, s, built) = Ask(a, "query_cb")
      BY <2>2, <2>4 DEF OpendirCb
    <3>2. <<"query_cb">> \in Stages(o.name)
      BY DEF Stages
    <3> HIDE DEF a
    <3> QED
      BY <2>1, <2>3, <2>4, <3>1, <3>2, AskSound DEF Callbacks
  <2>5. CASE ~ (s = "OK" /\ built)
    <3> DEFINE r == IF s = "OK" THEN "NOMEM" ELSE Errno(s)
    <3>1. Callback(o, s, built) = Tell(a, r)
      BY <2>2, <2>5 DEF OpendirCb
    <3>2. r \in Results /\ (r = "OK" => s = "EOF")
      BY <2>1 DEF Answerable, Errno, Results, Status, Refusal
    <3> HIDE DEF a, r
    <3>3. r = "OK" => Excused(a)
      BY <2>3, <3>2 DEF Excused
    <3>4. After(o, s, Tell(Answered(o, s), r))
      BY <2>1, <3>2, <3>3, TellSound DEF a
    <3> QED
      BY <3>1, <3>4 DEF a
  <2> QED
    BY <2>4, <2>5
<1>2. CASE o.queue = <<"query_cb">>
  <2>1. /\ Head(o.queue) = "query_cb" /\ Len(o.queue) = 1 /\ o.queue # <<>>
        /\ Tail(o.queue) = <<>>
    BY <1>2, Chains
  <2>2. Callback(o, s, built) = QueryCb(a, s, built)
    BY <2>1, CallbackOf
  <2>3. /\ a \in Operation /\ a.name = o.name /\ a.told = o.told /\ a.data = o.data
        /\ a.fh = o.fh /\ a.created \in {"OK", "EOF"} /\ a.listed = Newest(o.batches)
        /\ a.batches = IF s = "OK" THEN o.batches + 1 ELSE o.batches
    BY <2>1, AnsweredIs DEF InFlight
  <2>4. a.dropped = o.dropped /\ a.refused = o.refused
    BY <2>1, AnsweredIs
  <2>5. o.batches \in Nat
    BY DEF Operation
  <2>6. CASE s = "OK" /\ built
    <3> DEFINE d == DecodeDirents(a)
    <3>1. Callback(o, s, built) = Ask(d, "query_cb")
      BY <2>2, <2>6 DEF QueryCb
    <3>2. <<"query_cb">> \in Stages(o.name)
      BY DEF Stages
    <3> HIDE DEF a
    <3>3. /\ d \in Operation /\ d.name = o.name /\ d.told = o.told /\ d.data = o.data
          /\ d.fh = o.fh /\ d.created \in {"OK", "EOF"} /\ d.listed = Newest(d.batches)
      BY <2>3, <2>5, <2>6, DecodeDirentsIs
    <3>4. d.dropped = o.dropped /\ d.refused = o.refused
      BY <2>3, <2>4, <2>5, <2>6, DecodeDirentsIs
    <3> HIDE DEF d
    <3> QED
      BY <2>1, <3>1, <3>2, <3>3, <3>4, AskSound DEF Callbacks
  <2>7. CASE s = "NO_MORE" /\ built
    <3>1. Callback(o, s, built) = Ask(a, "od_close_cb")
      BY <2>2, <2>7 DEF QueryCb
    <3>2. <<"od_close_cb">> \in Stages(o.name)
      BY DEF Stages
    <3> HIDE DEF a
    <3> QED
      <4>1. a.listed = Newest(a.batches) /\ a.created # "none"
        BY <2>3, <2>7
      <4>2. After(o, s, Ask(a, "od_close_cb"))
        BY <2>1, <2>3, <2>4, <3>2, <4>1, AskSound DEF Callbacks, Closes
      <4> QED
        BY <3>1, <4>2
  <2>8. CASE ~ built \/ s \notin {"OK", "NO_MORE"}
    <3> DEFINE r == IF s \in {"OK", "NO_MORE", "MALFORMED"} THEN "NOMEM" ELSE Errno(s)
    <3>1. Callback(o, s, built) = Tell(a, r)
      BY <2>2, <2>8 DEF QueryCb
    <3>2. r \in Results
      BY <2>1 DEF Answerable, Errno, Results, Status, Refusal
    <3> HIDE DEF a, r
    <3>3. Excused(a)
      BY <2>3 DEF Excused
    <3>4. After(o, s, Tell(Answered(o, s), r))
      BY <2>1, <3>2, <3>3, TellSound DEF a
    <3> QED
      BY <3>1, <3>4 DEF a
  <2> QED
    BY <2>6, <2>7, <2>8
<1>3. CASE o.queue = <<"od_close_cb">>
  <2>1. /\ Head(o.queue) = "od_close_cb" /\ Len(o.queue) = 1 /\ o.queue # <<>>
        /\ Tail(o.queue) = <<>>
    BY <1>3, Chains
  <2>2. Callback(o, s, built) = OdCloseCb(a, s)
    BY <2>1, CallbackOf
  <2>3. s \in {"OK", "EOF", "SHUTDOWN"} \cup Refusal
    BY <2>1 DEF Answerable, Status
  <2>4. CASE s = "OK"
    <3> DEFINE c == [a EXCEPT !.told = Append(@, "OK"), !.data = "given"]
    <3>1. Callback(o, s, built) = c
      BY <2>2, <2>4 DEF OdCloseCb
    <3>2. /\ a \in Operation /\ a.queue = <<>> /\ a.name = "opendir" /\ a.told = <<>>
          /\ a.fh = o.fh /\ a.created \in {"OK", "EOF"} /\ a.listed = Newest(a.batches)
      <4>1. o.created \in {"OK", "EOF"} /\ o.told = <<>> /\ o.listed = Newest(o.batches)
        BY <2>1 DEF InFlight
      <4>2. a.listed = Newest(a.batches) /\ a.created \in {"OK", "EOF"}
        BY <2>1, <4>1, AnsweredIs
      <4> QED
        BY <2>1, <4>1, <4>2, AnsweredIs
    <3>3. ~ a.dropped /\ ~ a.refused
      <4>1. ~ o.dropped /\ ~ o.refused
        BY DEF InFlight
      <4> QED
        BY <2>1, <4>1, AnsweredIs
    <3> HIDE DEF a
    <3>4. Append(a.told, "OK") \in Seq(Results)
      <4>1. "OK" \in Results
        BY DEF Results
      <4> QED
        BY <3>2, <4>1
    <3>5. /\ c \in Operation /\ c.queue = <<>> /\ c.name = "opendir" /\ c.data = "given"
          /\ c.told = Append(<<>>, "OK") /\ c.fh = o.fh /\ c.created \in {"OK", "EOF"}
          /\ c.listed = Newest(c.batches) /\ ~ c.dropped /\ ~ c.refused
      BY <3>2, <3>3, <3>4 DEF Operation
    <3> HIDE DEF c
    <3>6. Len(c.told) = 1 /\ c.told[1] = "OK"
      BY <3>5
    <3>7. Ended(c)
      BY <3>5, <3>6 DEF Ended, Excused
    <3> QED
      BY <2>1, <2>4, <3>1, <3>5, <3>7 DEF After, Sound
  <2>5. CASE s # "OK"
    <3>1. Callback(o, s, built) = Tell(a, Errno(s))
      BY <2>2, <2>5 DEF OdCloseCb
    <3>2. Errno(s) \in Results
      BY <2>3, <2>5 DEF Errno, Results, Refusal
    <3>3. o.created \in {"OK", "EOF"}
      BY <2>1 DEF InFlight
    <3>4. a.created = o.created
      BY <2>1, <3>3, AnsweredIs
    <3> HIDE DEF a
    <3>5. Excused(a)
      BY <3>3, <3>4 DEF Excused
    <3>6. After(o, s, Tell(Answered(o, s), Errno(s)))
      BY <2>1, <3>2, <3>5, TellSound DEF a
    <3> QED
      BY <3>1, <3>6 DEF a
  <2> QED
    BY <2>4, <2>5
<1> QED
  BY <1>1, <1>2, <1>3, StagesOf DEF InFlight

LEMMA ShareEnumSound ==
    ASSUME NEW o \in Operation, InFlight(o), NEW s \in Status, Answerable(o, s),
           NEW built \in BOOLEAN, o.name = "share_enum"
    PROVE  After(o, s, Callback(o, s, built))
<1> DEFINE a == Answered(o, s)
<1> USE DEF First, Creates
<1>1. CASE o.queue = <<"smb2_open_cb">>
  <2>1. /\ Head(o.queue) = "smb2_open_cb" /\ Len(o.queue) = 1 /\ o.queue # <<>>
        /\ Tail(o.queue) = <<>>
    BY <1>1, Chains
  <2>2. Callback(o, s, built) = SmbOpenCb(a, s, built)
    BY <2>1, CallbackOf
  <2>3. /\ a \in Operation /\ a.name = o.name /\ a.told = o.told /\ a.data = o.data
        /\ a.dropped = o.dropped /\ a.refused = o.refused /\ a.fh = o.fh
        /\ a.listed = Newest(a.batches) /\ a.created = s
    BY <2>1, AnsweredIs DEF InFlight
  <2>4. CASE s = "OK" /\ built
    <3>1. Callback(o, s, built) = Ask(a, "smb2_bind_cb")
      BY <2>2, <2>4 DEF SmbOpenCb
    <3>2. <<"smb2_bind_cb">> \in Stages(o.name)
      BY DEF Stages
    <3> HIDE DEF a
    <3> QED
      BY <2>1, <2>3, <2>4, <3>1, <3>2, AskSound DEF Callbacks
  <2>5. CASE s = "EOF" /\ built
    <3>1. Callback(o, s, built) = Ask(a, "dcerpc_call_cb")
      BY <2>2, <2>5 DEF SmbOpenCb
    <3>2. <<"dcerpc_call_cb">> \in Stages(o.name)
      BY DEF Stages
    <3> HIDE DEF a
    <3> QED
      BY <2>1, <2>3, <2>5, <3>1, <3>2, AskSound DEF Callbacks
  <2>6. CASE ~ (s \in {"OK", "EOF"} /\ built)
    <3> DEFINE r == IF Errno(s) = "OK" THEN "NOMEM" ELSE Errno(s)
    <3>1. Callback(o, s, built) = Tell(a, r)
      BY <2>2, <2>6 DEF SmbOpenCb
    <3>2. r \in Results /\ r # "OK"
      BY <2>1 DEF Answerable, Errno, Results, Status, Refusal
    <3> HIDE DEF a, r
    <3>3. After(o, s, Tell(Answered(o, s), r))
      BY <2>1, <3>2, TellSound
    <3> QED
      BY <3>1, <3>3 DEF a
  <2> QED
    BY <2>4, <2>5, <2>6
<1>2. CASE o.queue = <<"smb2_bind_cb">>
  <2>1. /\ Head(o.queue) = "smb2_bind_cb" /\ Len(o.queue) = 1 /\ o.queue # <<>>
        /\ Tail(o.queue) = <<>>
    BY <1>2, Chains
  <2>2. Callback(o, s, built) = SmbBindCb(a, s, built)
    BY <2>1, CallbackOf
  <2>3. /\ a \in Operation /\ a.name = o.name /\ a.told = o.told /\ a.data = o.data
        /\ a.dropped = o.dropped /\ a.refused = o.refused /\ a.fh = o.fh
        /\ a.listed = Newest(a.batches) /\ a.created \in {"OK", "EOF"}
    BY <2>1, AnsweredIs DEF InFlight
  <2>4. CASE Errno(s) = "OK" /\ built
    <3>1. Callback(o, s, built) = Ask(a, "dcerpc_call_cb")
      BY <2>2, <2>4 DEF SmbBindCb
    <3>2. <<"dcerpc_call_cb">> \in Stages(o.name)
      BY DEF Stages
    <3> HIDE DEF a
    <3> QED
      BY <2>1, <2>3, <2>4, <3>1, <3>2, AskSound DEF Callbacks
  <2>5. CASE ~ (Errno(s) = "OK" /\ built)
    <3> DEFINE r == IF Errno(s) = "OK" THEN "NOMEM"
                    ELSE IF s = "MALFORMED" THEN "INVAL" ELSE Errno(s)
    <3>1. Callback(o, s, built) = Tell(a, r)
      BY <2>2, <2>5 DEF SmbBindCb
    <3>2. r \in Results
      BY <2>1 DEF Answerable, Errno, Results, Status, Refusal
    <3> HIDE DEF a, r
    <3>3. Excused(a)
      BY <2>3 DEF Excused
    <3>4. After(o, s, Tell(Answered(o, s), r))
      BY <2>1, <3>2, <3>3, TellSound DEF a
    <3> QED
      BY <3>1, <3>4 DEF a
  <2> QED
    BY <2>4, <2>5
<1>3. CASE o.queue = <<"dcerpc_call_cb">>
  <2>1. /\ Head(o.queue) = "dcerpc_call_cb" /\ Len(o.queue) = 1 /\ o.queue # <<>>
        /\ Tail(o.queue) = <<>>
    BY <1>3, Chains
  <2> DEFINE r == IF s = "OK" /\ ~ built THEN "NOMEM"
                  ELSE IF s = "MALFORMED" THEN "INVAL" ELSE Errno(s)
  <2>2. Callback(o, s, built) = Tell(a, r)
    BY <2>1, CallbackOf DEF DcerpcCallCb
  <2>3. a.created \in {"OK", "EOF"}
    BY <2>1, AnsweredIs DEF InFlight
  <2>4. r \in Results
    BY <2>1 DEF Answerable, Errno, Results, Status, Refusal
  <2> HIDE DEF a, r
  <2>5. Excused(a)
    BY <2>3 DEF Excused
  <2>6. After(o, s, Tell(Answered(o, s), r))
    BY <2>1, <2>4, <2>5, TellSound DEF a
  <2> QED
    BY <2>2, <2>6 DEF a
<1> QED
  BY <1>1, <1>2, <1>3, StagesOf DEF InFlight

LEMMA DisconnectSound ==
    ASSUME NEW o \in Operation, InFlight(o), NEW s \in Status, Answerable(o, s),
           NEW built \in BOOLEAN, o.name = "disconnect"
    PROVE  After(o, s, Callback(o, s, built))
<1> DEFINE a == Answered(o, s)
<1> USE DEF First, Creates
<1>1. "NOMEM" \in Results /\ "OK" \in Results
  BY DEF Results
<1>2. CASE o.queue = <<"disconnect_cb_1">>
  <2>1. /\ Head(o.queue) = "disconnect_cb_1" /\ Len(o.queue) = 1 /\ o.queue # <<>>
        /\ Tail(o.queue) = <<>>
    BY <1>2, Chains
  <2>2. Callback(o, s, built) = DisconnectCb1(a, s, built)
    BY <2>1, CallbackOf
  <2>3. /\ a \in Operation /\ a.name = o.name /\ a.told = o.told /\ a.data = o.data
        /\ a.dropped = o.dropped /\ a.refused = o.refused /\ a.fh = o.fh
        /\ a.listed = Newest(a.batches) /\ a.created = s
    BY <2>1, AnsweredIs DEF InFlight
  <2>4. CASE s = "OK" /\ built
    <3>1. Callback(o, s, built) = Ask(a, "disconnect_cb_2")
      BY <2>2, <2>4 DEF DisconnectCb1
    <3>2. <<"disconnect_cb_2">> \in Stages(o.name)
      BY DEF Stages
    <3> HIDE DEF a
    <3> QED
      BY <2>1, <2>3, <2>4, <3>1, <3>2, AskSound DEF Callbacks
  <2>5. CASE ~ (s = "OK" /\ built)
    <3>1. Callback(o, s, built) = Tell(a, "NOMEM")
      BY <2>2, <2>5 DEF DisconnectCb1
    <3>2. After(o, s, Tell(Answered(o, s), "NOMEM"))
      BY <1>1, <2>1, TellSound
    <3> QED
      BY <3>1, <3>2
  <2> QED
    BY <2>4, <2>5
<1>3. CASE o.queue = <<"disconnect_cb_2">>
  <2>1. /\ Head(o.queue) = "disconnect_cb_2" /\ Len(o.queue) = 1 /\ o.queue # <<>>
        /\ Tail(o.queue) = <<>>
    BY <1>3, Chains
  <2>2. Callback(o, s, built) = Tell(a, "OK")
    BY <2>1, CallbackOf DEF DisconnectCb2
  <2>3. After(o, s, Tell(Answered(o, s), "OK"))
    BY <1>1, <2>1, TellSound
  <2> QED
    BY <2>2, <2>3
<1> QED
  BY <1>2, <1>3, StagesOf DEF InFlight

\* Whatever the head request is answered, its callback leaves the operation in order.
LEMMA CallbackSound ==
    ASSUME NEW o \in Operation, InFlight(o), NEW s \in Status, Answerable(o, s),
           NEW built \in BOOLEAN
    PROVE  After(o, s, Callback(o, s, built))
<1>1. \/ o.name \in OnFh \cup {"echo"} \/ o.name \in {"unlink", "mkdir"}
      \/ o.name \in {"stat", "truncate", "rename", "readlink", "opendir", "share_enum", "disconnect"}
  BY StagesOf DEF InFlight, OnFh, InHandle
<1> QED
  BY <1>1, SingleSound, CreateSound, StatSound, TruncateSound, RenameSound, ReadlinkSound,
     OpendirSound, ShareEnumSound, DisconnectSound

-----------------------------------------------------------------------------
(* The steps *)

LEMMA IdleIs ==
    /\ Idle \in Operation /\ Idle.told = <<>> /\ ~ Idle.dropped /\ ~ Idle.refused
    /\ Idle.created = "none" /\ Idle.failure = "OK" /\ Idle.recorded = "OK"
    /\ Idle.listed = <<>> /\ Idle.batches = 0 /\ Idle.queue = <<>> /\ Idle.name = "none"
    /\ Idle.data = "none" /\ Idle.fh = NoHandle
<1>1. <<>> \in Seq(Results) /\ <<>> \in Seq(Nat) /\ "OK" \in Status /\ "none" \in Names
      /\ <<>> \in Seq(Callbacks)
  BY DEF Status, Names
<1> QED
  BY <1>1 DEF Operation, Idle

\* An operation that starts: nothing was answered yet.
LEMMA Started ==
    ASSUME NEW k \in Slot, NEW name \in Names \ {"none"}, NEW chain \in Stages(name),
           NEW h \in Handle \cup {NoHandle}, h \in Handle <=> name \in OnFh,
           chain \in Seq(Callbacks), Head(chain) \in First, ops \in [Slot -> Operation],
           Queue(k, name, chain, h)
    PROVE  /\ context = "open" /\ ~ Pending(k) /\ UNCHANGED <<context, connected, opened, frees>>
           /\ ops' \in [Slot -> Operation] /\ InFlight(ops'[k])
           /\ ops'[k].fh = h /\ ops'[k].name = name /\ ops'[k].queue = chain
           /\ ops'[k].told = <<>> /\ \A j \in Slot \ {k} : ops'[j] = ops[j]
<1> DEFINE d == IF name \in {"open", "close", "fsync"} THEN "none" ELSE "live"
           o == [Idle EXCEPT !.name = name, !.queue = chain, !.fh = h, !.data = d]
<1>3. d \in {"none", "live", "given", "freed", "leaked"}
  OBVIOUS
<1>4. ops' = [ops EXCEPT ![k] = o]
  BY DEF Queue
<1>5. /\ o \in Operation /\ o.queue = chain /\ o.name = name /\ o.told = <<>> /\ o.data = d
      /\ ~ o.dropped /\ ~ o.refused /\ o.fh = h /\ o.created = "none" /\ o.failure = "OK"
      /\ o.recorded = "OK" /\ o.listed = <<>> /\ o.batches = 0
  <2> HIDE DEF d
  <2> QED
    BY IdleIs, <1>3 DEF Operation
<1> HIDE DEF o
<1>6. Newest(0) = <<>>
  BY DEF Newest
<1>7. o.listed = Newest(o.batches)
  BY <1>5, <1>6
<1>8. InFlight(o)
  BY <1>5, <1>7 DEF InFlight, InHandle
<1> QED
  BY <1>4, <1>5, <1>8 DEF Queue, Pending

\* What Started() leaves to be shown of the handles.
LEMMA StartSound ==
    ASSUME Inv, NEW k \in Slot, context = "open", ~ Pending(k),
           UNCHANGED <<context, connected, opened, frees>>,
           ops' \in [Slot -> Operation], InFlight(ops'[k]), ops'[k].told = <<>>,
           \A j \in Slot \ {k} : ops'[j] = ops[j],
           handles' \in [Handle -> {"none", "allocated", "open", "freed"}],
           \A h \in Handle : handles'[h] \in {"open", "freed"} <=> handles[h] \in {"open", "freed"},
           \A h \in Handle : handles[h] \in {"open", "freed"} => handles'[h] = handles[h],
           HandleOwned'
    PROVE  Inv'
<1>1. \A j \in Slot : Sound(ops'[j])
  BY DEF Inv, Sound
<1>2. DirectoryClosed'
  <2> SUFFICES ASSUME NEW j \in Slot, ops'[j].name = "opendir", ops'[j].data = "given"
               PROVE  j \notin opened'
    BY DEF DirectoryClosed
  <2>1. j # k
    BY DEF InFlight
  <2> QED
    BY <2>1 DEF Inv, DirectoryClosed
<1>3. HandlesFreedOnce'
  <2>1. \A h \in Handle : frees'[h] = IF handles'[h] = "freed" THEN 1 ELSE 0
    BY DEF Inv, HandlesFreedOnce
  <2>2. \A h \in Handle : handles'[h] = "open" => h \in opened'
    BY DEF Inv, HandlesFreedOnce
  <2> QED
    BY <2>1, <2>2 DEF HandlesFreedOnce
<1> QED
  BY <1>1, <1>2, <1>3 DEF Inv

LEMMA OnPathSound ==
    ASSUME Inv, NEW k \in Slot, NEW name \in Names \ {"none"}, NEW chain \in Stages(name),
           name \notin OnFh, chain \in Seq(Callbacks), Head(chain) \in First,
           OnPath(k, name, chain)
    PROVE  Inv'
<1>1. NoHandle \notin Handle /\ ops \in [Slot -> Operation]
  BY PipelineConstants DEF PipelineConstants, Inv
<1>2. Queue(k, name, chain, NoHandle) /\ handles' = handles
  BY DEF OnPath
<1>3. /\ context = "open" /\ ~ Pending(k) /\ UNCHANGED <<context, connected, opened, frees>>
      /\ ops' \in [Slot -> Operation] /\ InFlight(ops'[k])
      /\ ops'[k].fh = NoHandle /\ ops'[k].told = <<>>
      /\ \A j \in Slot \ {k} : ops'[j] = ops[j]
  BY <1>1, <1>2, Started
<1>4. HandleOwned'
  <2> SUFFICES ASSUME NEW j \in Slot, Pending(j)', ops'[j].fh \in Handle
               PROVE  /\ handles'[ops'[j].fh] = IF ops'[j].name = "open" THEN "allocated" ELSE "open"
                      /\ ops'[j].name \in {"open", "close"} =>
                           \A i \in Slot : Pending(i)' /\ ops'[i].fh = ops'[j].fh => i = j
    BY DEF HandleOwned
  <2>1. j # k /\ ops'[j] = ops[j] /\ Pending(j)
    BY <1>1, <1>3 DEF Pending
  <2>2. /\ handles[ops[j].fh] = IF ops[j].name = "open" THEN "allocated" ELSE "open"
        /\ ops[j].name \in {"open", "close"} =>
             \A i \in Slot : Pending(i) /\ ops[i].fh = ops[j].fh => i = j
    BY <2>1 DEF Inv, HandleOwned
  <2>3. ASSUME NEW i \in Slot, Pending(i)', ops'[i].fh = ops'[j].fh
        PROVE  Pending(i) /\ ops[i].fh = ops[j].fh
    <3>1. i # k
      BY <1>1, <1>3, <2>3
    <3> QED
      BY <1>3, <2>1, <2>3, <3>1 DEF Pending
  <2> QED
    BY <1>2, <2>1, <2>2, <2>3
<1> QED
  BY <1>2, <1>3, <1>4, StartSound DEF Inv

LEMMA OnHandleSound ==
    ASSUME Inv, NEW k \in Slot, NEW h \in Handle, NEW name \in OnFh \ {"open"},
           NEW chain \in Stages(name),
           chain \in Seq(Callbacks), Head(chain) \in First, OnHandle(k, name, chain, h),
           \A j \in Slot : Pending(j) /\ ops[j].fh = h => ops[j].name # "close",
           name = "close" => ~ Busy(h)
    PROVE  Inv'
<1>1. ops \in [Slot -> Operation] /\ name \in Names \ {"none"}
  BY DEF Inv, Names, OnFh, InHandle
<1>2. Queue(k, name, chain, h) /\ handles' = handles /\ handles[h] = "open"
  BY DEF OnHandle
<1>3. /\ context = "open" /\ ~ Pending(k) /\ UNCHANGED <<context, connected, opened, frees>>
      /\ ops' \in [Slot -> Operation] /\ InFlight(ops'[k])
      /\ ops'[k].fh = h /\ ops'[k].name = name /\ ops'[k].told = <<>>
      /\ \A j \in Slot \ {k} : ops'[j] = ops[j]
  BY <1>1, <1>2, Started
<1>4. \A j \in Slot : Pending(j) /\ ops[j].fh = h => ops[j].name # "open" /\ name # "close"
  BY <1>2 DEF Inv, HandleOwned, Busy, Pending
<1>5. HandleOwned'
  <2> SUFFICES ASSUME NEW j \in Slot, Pending(j)', ops'[j].fh \in Handle
               PROVE  /\ handles'[ops'[j].fh] = IF ops'[j].name = "open" THEN "allocated" ELSE "open"
                      /\ ops'[j].name \in {"open", "close"} =>
                           \A i \in Slot : Pending(i)' /\ ops'[i].fh = ops'[j].fh => i = j
    BY DEF HandleOwned
  <2>1. CASE j = k
    BY <2>1, <1>2, <1>3, <1>4 DEF Inv, HandleOwned, Pending
  <2>2. CASE j # k
    <3>1. ops'[j] = ops[j] /\ Pending(j)
      BY <2>2, <1>3 DEF Pending
    <3>2. ops[j].fh = h => ops[j].name \notin {"open", "close"}
      BY <1>4, <3>1
    <3> QED
      BY <1>2, <1>3, <3>1, <3>2 DEF Inv, HandleOwned, Pending
  <2> QED
    BY <2>1, <2>2
<1> QED
  BY <1>2, <1>3, <1>5, StartSound DEF Inv

LEMMA OpenSound == ASSUME Inv, NEW k \in Slot, NEW h \in Handle, Open(k, h) PROVE Inv'
<1>1. /\ ops \in [Slot -> Operation] /\ "open" \in Names \ {"none"} /\ "open" \in OnFh
      /\ <<"open_cb">> \in Stages("open") /\ "open_cb" \in Callbacks /\ "open_cb" \in First
  BY DEF Inv, Names, OnFh, InHandle, Stages, Callbacks, First, Creates
<1>2. <<"open_cb">> \in Seq(Callbacks) /\ Head(<<"open_cb">>) \in First
  BY <1>1
<1>3. /\ Queue(k, "open", <<"open_cb">>, h) /\ handles[h] = "none"
      /\ handles' = [handles EXCEPT ![h] = "allocated"]
  BY DEF Open
<1>4. /\ context = "open" /\ ~ Pending(k) /\ UNCHANGED <<context, connected, opened, frees>>
      /\ ops' \in [Slot -> Operation] /\ InFlight(ops'[k])
      /\ ops'[k].fh = h /\ ops'[k].name = "open" /\ ops'[k].told = <<>>
      /\ \A j \in Slot \ {k} : ops'[j] = ops[j]
  BY <1>1, <1>2, <1>3, Started
<1>5. \A j \in Slot : Pending(j) => ops[j].fh # h
  BY <1>3 DEF Inv, HandleOwned
<1>6. /\ handles' \in [Handle -> {"none", "allocated", "open", "freed"}]
      /\ handles'[h] = "allocated" /\ \A g \in Handle \ {h} : handles'[g] = handles[g]
  BY <1>3 DEF Inv
<1>7. HandleOwned'
  <2> SUFFICES ASSUME NEW j \in Slot, Pending(j)', ops'[j].fh \in Handle
               PROVE  /\ handles'[ops'[j].fh] = IF ops'[j].name = "open" THEN "allocated" ELSE "open"
                      /\ ops'[j].name \in {"open", "close"} =>
                           \A i \in Slot : Pending(i)' /\ ops'[i].fh = ops'[j].fh => i = j
    BY DEF HandleOwned
  <2>1. CASE j = k
    BY <2>1, <1>4, <1>5, <1>6 DEF Pending
  <2>2. CASE j # k
    <3>1. ops'[j] = ops[j] /\ Pending(j) /\ ops[j].fh # h
      BY <2>2, <1>4, <1>5 DEF Pending
    <3>2. handles'[ops[j].fh] = handles[ops[j].fh]
      BY <3>1, <1>6
    <3> QED
      BY <3>1, <3>2, <1>4, <1>5 DEF Inv, HandleOwned, Pending
  <2> QED
    BY <2>1, <2>2
<1> QED
  BY <1>3, <1>4, <1>6, <1>7, StartSound

\* What an answered request does to the handles.
FreesAfter(cb, s, f) ==
    [h \in Handle |-> frees[h] + IF f = h /\ FreesHandle(cb, s) THEN 1 ELSE 0]

\* A handle that is open after it was open before and not closed, or is the one opened.
StayOpen(cb, s, f) == \A h \in Handle : handles'[h] = "open" =>
    \/ handles[h] = "open" /\ ~ (cb = "close_cb" /\ h = f)
    \/ cb = "open_cb" /\ s = "OK" /\ h = f

LEMMA HandlesStep ==
    ASSUME Inv, NEW k \in Slot, Pending(k), InFlight(ops[k]), NEW s, NEW cb,
           cb = Head(ops[k].queue), NEW c \in Operation,
           ops' = [ops EXCEPT ![k] = c], c.fh = ops[k].fh, c.name = ops[k].name,
           ops[k].name \in OnFh => c.queue = <<>>,
           handles' = HandlesAfter(cb, s, ops[k].fh),
           frees' = FreesAfter(cb, s, ops[k].fh)
    PROVE  /\ HandleOwned'
           /\ handles' \in [Handle -> {"none", "allocated", "open", "freed"}]
           /\ frees' \in [Handle -> Nat]
           /\ \A h \in Handle : frees'[h] = IF handles'[h] = "freed" THEN 1 ELSE 0
           /\ StayOpen(cb, s, ops[k].fh)
<1> DEFINE f == ops[k].fh
<1>1. /\ cb = "open_cb" => ops[k].name = "open"
      /\ cb = "close_cb" => ops[k].name = "close"
      /\ ops[k].name = "open" => cb = "open_cb"
      /\ ops[k].name = "close" => cb = "close_cb"
  BY StagesOf, Chains DEF InFlight
<1>2. f \in Handle <=> ops[k].name \in OnFh
  BY DEF InFlight
<1>3. /\ ops'[k] = c /\ \A j \in Slot \ {k} : ops'[j] = ops[j]
  BY DEF Inv
<1>4. CASE cb \in {"open_cb", "close_cb"}
  <2>1. f \in Handle /\ ops[k].name \in {"open", "close"} /\ c.queue = <<>>
    BY <1>1, <1>2, <1>4 DEF OnFh, InHandle
  <2>2. handles[f] \in {"allocated", "open"} /\ \A j \in Slot : Pending(j) /\ ops[j].fh = f => j = k
    BY <2>1 DEF Inv, HandleOwned
  <2>3. handles' = [handles EXCEPT ![f] = IF FreesHandle(cb, s) THEN "freed" ELSE "open"]
    BY <1>4 DEF HandlesAfter, FreesHandle
  <2>4. /\ handles' \in [Handle -> {"none", "allocated", "open", "freed"}]
        /\ handles'[f] = IF FreesHandle(cb, s) THEN "freed" ELSE "open"
        /\ \A h \in Handle \ {f} : handles'[h] = handles[h]
    BY <2>1, <2>3 DEF Inv
  <2>5. /\ frees' \in [Handle -> Nat]
        /\ \A h \in Handle : frees'[h] = IF handles'[h] = "freed" THEN 1 ELSE 0
    BY <2>1, <2>2, <2>4 DEF Inv, HandlesFreedOnce, FreesAfter
  <2>6. HandleOwned'
    <3> SUFFICES ASSUME NEW j \in Slot, Pending(j)', ops'[j].fh \in Handle
                 PROVE  /\ handles'[ops'[j].fh] = IF ops'[j].name = "open" THEN "allocated" ELSE "open"
                        /\ ops'[j].name \in {"open", "close"} =>
                             \A i \in Slot : Pending(i)' /\ ops'[i].fh = ops'[j].fh => i = j
      BY DEF HandleOwned
    <3>1. j # k
      BY <1>3, <2>1 DEF Pending
    <3>2. ops'[j] = ops[j] /\ Pending(j) /\ ops[j].fh # f
      BY <1>3, <2>2, <3>1 DEF Pending
    <3>3. handles'[ops[j].fh] = handles[ops[j].fh]
      BY <2>4, <3>2
    <3>4. ASSUME NEW i \in Slot, Pending(i)', ops'[i].fh = ops'[j].fh PROVE Pending(i) /\ ops[i].fh = ops[j].fh
      BY <1>3, <2>1, <3>2, <3>4 DEF Pending
    <3> QED
      BY <3>2, <3>3, <3>4 DEF Inv, HandleOwned
  <2> QED
    BY <1>4, <2>1, <2>2, <2>4, <2>5, <2>6 DEF FreesHandle, StayOpen
<1>5. CASE cb \notin {"open_cb", "close_cb"}
  <2>1. handles' = handles /\ ~ FreesHandle(cb, s)
    BY <1>5 DEF HandlesAfter, FreesHandle
  <2>2. /\ frees' = frees /\ frees' \in [Handle -> Nat]
        /\ \A h \in Handle : frees'[h] = IF handles'[h] = "freed" THEN 1 ELSE 0
    BY <2>1 DEF Inv, HandlesFreedOnce, FreesAfter
  <2>3. HandleOwned'
    <3> SUFFICES ASSUME NEW j \in Slot, Pending(j)', ops'[j].fh \in Handle
                 PROVE  /\ handles'[ops'[j].fh] = IF ops'[j].name = "open" THEN "allocated" ELSE "open"
                        /\ ops'[j].name \in {"open", "close"} =>
                             \A i \in Slot : Pending(i)' /\ ops'[i].fh = ops'[j].fh => i = j
      BY DEF HandleOwned
    <3>1. j # k
      BY <1>2, <1>3 DEF Pending
    <3>2. ops'[j] = ops[j] /\ Pending(j)
      BY <1>3, <3>1 DEF Pending
    <3>3. ASSUME NEW i \in Slot, Pending(i)', ops'[i].fh = ops'[j].fh PROVE Pending(i) /\ ops[i].fh = ops[j].fh
      BY <1>2, <1>3, <3>2, <3>3 DEF Pending
    <3> QED
      BY <2>1, <3>2, <3>3 DEF Inv, HandleOwned
  <2> QED
    BY <1>5, <2>1, <2>2, <2>3 DEF Inv, StayOpen
<1> QED
  BY <1>4, <1>5

LEMMA AnswerableOf ==
    ASSUME NEW k \in Slot, InFlight(ops[k]), NEW s \in Answers(k)
    PROVE  s \in Status /\ Answerable(ops[k], s)
<1> DEFINE cb == Head(ops[k].queue)
<1>1. CASE cb = "query_cb"
  <2>1. ops[k].name = "opendir"
    BY <1>1, StagesOf, Chains DEF InFlight
  <2>2. s \in Refusal \cup {"NO_MORE", "EOF", "OK", "MALFORMED"}
    BY <1>1 DEF Answers
  <2> QED
    BY <1>1, <2>1, <2>2 DEF Answerable, Status, Compounds, Refusal
<1>2. CASE cb \in {"smb2_bind_cb", "dcerpc_call_cb"}
  <2>1. ops[k].name = "share_enum"
    BY <1>2, StagesOf, Chains DEF InFlight
  <2>2. s \in Refusal \cup {"OK", "EOF", "MALFORMED"}
    BY <1>2 DEF Answers
  <2> QED
    BY <1>2, <2>1, <2>2 DEF Answerable, Status, Compounds, Refusal
<1>3. CASE cb \notin {"query_cb", "smb2_bind_cb", "dcerpc_call_cb"}
  <2>1. CASE ops[k].name \in Compounds /\ cb \notin Creates /\ ops[k].created # "OK"
    BY <1>3, <2>1 DEF Answers, Answerable, Status, Refusal
  <2>2. CASE ~ (ops[k].name \in Compounds /\ cb \notin Creates /\ ops[k].created # "OK")
    BY <1>3, <2>2 DEF Answers, Answerable, Status, Refusal
  <2> QED
    BY <2>1, <2>2
<1> QED
  BY <1>1, <1>2, <1>3

LEMMA ReplySound == ASSUME Inv, NEW k \in Slot, Reply(k) PROVE Inv'
<1> DEFINE o  == ops[k]
           cb == Head(o.queue)
<1>1. InFlight(o) /\ o \in Operation /\ Pending(k) /\ context = "open"
  BY DEF Inv, Sound, Ended, Reply, Pending
<1>2. PICK s \in Answers(k), built \in BOOLEAN :
         /\ ops' = [ops EXCEPT ![k] = Callback(o, s, built)]
         /\ handles' = HandlesAfter(cb, s, o.fh)
         /\ frees' = FreesAfter(cb, s, o.fh)
         /\ opened' = (IF s = "OK" /\ cb \in Creates THEN opened \cup {Key(k)}
                       ELSE IF s = "OK" /\ cb \in Closes THEN opened \ {Key(k)} ELSE opened)
         /\ connected' = (cb # "disconnect_cb_2")
  BY DEF Reply, FreesAfter
<1> DEFINE c == Callback(o, s, built)
<1>3. After(o, s, c)
  BY <1>1, AnswerableOf, CallbackSound
<1> HIDE DEF c
<1>4. /\ Sound(c) /\ c \in Operation /\ c.name = o.name /\ c.fh = o.fh
      /\ o.name \in OnFh => c.queue = <<>>
      /\ c.name = "opendir" /\ c.data = "given" => cb = "od_close_cb" /\ s = "OK"
  BY <1>3 DEF After, Sound
<1>5. /\ ops' \in [Slot -> Operation] /\ ops'[k] = c /\ ops' = [ops EXCEPT ![k] = c]
      /\ \A j \in Slot \ {k} : ops'[j] = ops[j]
  BY <1>2, <1>4 DEF Inv, c
<1>6. \A j \in Slot : Sound(ops'[j])
  BY <1>4, <1>5 DEF Inv
<1>7. /\ HandleOwned'
      /\ handles' \in [Handle -> {"none", "allocated", "open", "freed"}]
      /\ frees' \in [Handle -> Nat]
      /\ \A h \in Handle : frees'[h] = IF handles'[h] = "freed" THEN 1 ELSE 0
      /\ StayOpen(cb, s, o.fh)
  <2>1. /\ c \in Operation /\ ops' = [ops EXCEPT ![k] = c] /\ c.fh = ops[k].fh
        /\ c.name = ops[k].name /\ (ops[k].name \in OnFh => c.queue = <<>>)
    BY <1>4, <1>5
  <2>2. Pending(k) /\ InFlight(ops[k])
    BY <1>1
  <2>3. handles' = HandlesAfter(cb, s, ops[k].fh) /\ frees' = FreesAfter(cb, s, ops[k].fh)
    BY <1>2
  <2>4. cb = Head(ops[k].queue)
    OBVIOUS
  <2> HIDE DEF cb, o
  <2>5. HandleOwned'
    BY <2>1, <2>2, <2>3, <2>4, HandlesStep
  <2>6. /\ handles' \in [Handle -> {"none", "allocated", "open", "freed"}]
        /\ frees' \in [Handle -> Nat]
    BY <2>1, <2>2, <2>3, <2>4, HandlesStep
  <2>7. \A h \in Handle : frees'[h] = IF handles'[h] = "freed" THEN 1 ELSE 0
    BY <2>1, <2>2, <2>3, <2>4, HandlesStep
  <2>8. StayOpen(cb, s, ops[k].fh)
    BY <2>1, <2>2, <2>3, <2>4, HandlesStep
  <2> QED
    BY <2>5, <2>6, <2>7, <2>8 DEF o
<1>8. Key(k) \in Slot \cup Handle \cup {Pipe} /\ (Key(k) \in Slot => Key(k) = k)
  BY <1>1, PipelineConstants DEF Key, Operation, PipelineConstants
<1>9. opened' \subseteq Slot \cup Handle \cup {Pipe}
  BY <1>2, <1>8 DEF Inv
<1>10. DirectoryClosed'
  <2> SUFFICES ASSUME NEW j \in Slot, ops'[j].name = "opendir", ops'[j].data = "given"
               PROVE  j \notin opened'
    BY DEF DirectoryClosed
  <2>1. CASE j = k
    <3>1. cb = "od_close_cb" /\ s = "OK" /\ o.name = "opendir"
      BY <1>4, <1>5, <2>1
    <3>2. o.fh = NoHandle
      BY <1>1, <3>1 DEF InFlight, Operation, OnFh, InHandle
    <3>3. Key(k) = k
      BY <3>1, <3>2 DEF Key
    <3> QED
      BY <1>2, <2>1, <3>1, <3>3 DEF Creates, Closes
  <2>2. CASE j # k
    <3>1. j \notin opened /\ j # Key(k)
      BY <1>5, <1>8, <2>2 DEF Inv, DirectoryClosed
    <3> QED
      BY <1>2, <3>1
  <2> QED
    BY <2>1, <2>2
<1>11. HandlesFreedOnce'
  <2>1. ASSUME NEW h \in Handle, handles'[h] = "open" PROVE h \in opened'
    <3>1. CASE handles[h] = "open" /\ ~ (cb = "close_cb" /\ h = o.fh)
      <4>1. h \in opened
        BY <1>1, <3>1 DEF Inv, HandlesFreedOnce
      <4>2. CASE Key(k) = h
        <5>1. o.fh = h
          BY <4>2, PipelineConstants DEF Key, PipelineConstants
        <5>2. cb \notin Closes
          <6>1. o.name \in OnFh
            BY <1>1, <5>1 DEF InFlight
          <6>2. cb # "close_cb"
            BY <3>1, <5>1
          <6> QED
            BY <1>1, <6>1, <6>2, StagesOf, Chains DEF InFlight, OnFh, InHandle, Closes
        <5> QED
          BY <1>2, <4>1, <5>2
      <4>3. CASE Key(k) # h
        BY <1>2, <4>1, <4>3
      <4> QED
        BY <4>2, <4>3
    <3>2. CASE cb = "open_cb" /\ s = "OK" /\ h = o.fh
      <4>1. Key(k) = h
        BY <3>2, PipelineConstants DEF Key, PipelineConstants
      <4> QED
        BY <1>2, <3>2, <4>1 DEF Creates
    <3> QED
      BY <1>7, <2>1, <3>1, <3>2 DEF StayOpen
  <2> QED
    BY <1>1, <1>7, <2>1 DEF HandlesFreedOnce, Reply
<1>12. context' = context /\ connected' \in BOOLEAN
  BY <1>2 DEF Reply
<1> QED
  BY <1>1, <1>5, <1>6, <1>7, <1>9, <1>10, <1>11, <1>12 DEF Inv

LEMMA DrainSound == ASSUME Inv, NEW k \in Slot, Drain(k) PROVE Inv'
<1> DEFINE o  == ops[k]
           cb == Head(o.queue)
           a  == Callback(o, "SHUTDOWN", TRUE)
           c  == IF ~ o.sent /\ Len(o.queue) > 1 THEN [a EXCEPT !.queue = <<>>, !.dropped = TRUE] ELSE a
<1>1. InFlight(o) /\ o \in Operation /\ Pending(k) /\ context = "closing"
  BY DEF Inv, Sound, Ended, Drain, Pending
<1>2. /\ ops' = [ops EXCEPT ![k] = c]
      /\ handles' = HandlesAfter(cb, "SHUTDOWN", o.fh)
      /\ frees' = FreesAfter(cb, "SHUTDOWN", o.fh)
      /\ UNCHANGED <<context, connected, opened>>
  BY DEF Drain, FreesAfter
<1>3. After(o, "SHUTDOWN", a)
  <2>1. "SHUTDOWN" \in Status /\ Answerable(o, "SHUTDOWN")
    BY DEF Status, Answerable
  <2> QED
    BY <1>1, <2>1, CallbackSound
<1> HIDE DEF a
<1>4. /\ Sound(c) /\ c.name = o.name /\ c.fh = o.fh
      /\ o.name \in OnFh => c.queue = <<>>
      /\ ~ (c.name = "opendir" /\ c.data = "given")
  <2>1. CASE ~ o.sent /\ Len(o.queue) > 1
    <3>1. /\ a \in Operation /\ a.told = <<>> /\ a.name = o.name /\ a.fh = o.fh
          /\ ~ (a.name = "opendir" /\ a.data = "given")
      BY <1>3, <2>1 DEF After, Sound
    <3>2. <<>> \in Seq(Callbacks)
      OBVIOUS
    <3>3. /\ c \in Operation /\ c.queue = <<>> /\ c.dropped /\ c.told = <<>> /\ c.name = o.name
          /\ c.fh = o.fh /\ ~ (c.name = "opendir" /\ c.data = "given")
      BY <2>1, <3>1, <3>2 DEF Operation
    <3> HIDE DEF c
    <3>4. Len(<<>>) = 0
      OBVIOUS
    <3>5. Ended(c)
      BY <3>3, <3>4 DEF Ended
    <3> QED
      BY <3>3, <3>4, <3>5 DEF Sound
  <2>2. CASE ~ (~ o.sent /\ Len(o.queue) > 1)
    BY <1>3, <2>2 DEF After
  <2> QED
    BY <2>1, <2>2
<1> HIDE DEF c
<1>5. /\ ops' \in [Slot -> Operation] /\ ops'[k] = c /\ c \in Operation
      /\ \A j \in Slot \ {k} : ops'[j] = ops[j]
  BY <1>2, <1>4 DEF Inv, Sound
<1>6. \A j \in Slot : Sound(ops'[j])
  BY <1>4, <1>5 DEF Inv
<1>7. /\ HandleOwned'
      /\ handles' \in [Handle -> {"none", "allocated", "open", "freed"}]
      /\ frees' \in [Handle -> Nat]
      /\ \A h \in Handle : frees'[h] = IF handles'[h] = "freed" THEN 1 ELSE 0
  <2>1. /\ c \in Operation /\ ops' = [ops EXCEPT ![k] = c] /\ c.fh = ops[k].fh
        /\ c.name = ops[k].name /\ (ops[k].name \in OnFh => c.queue = <<>>)
    BY <1>2, <1>4, <1>5
  <2>2. Pending(k) /\ InFlight(ops[k])
    BY <1>1
  <2>3. /\ handles' = HandlesAfter(cb, "SHUTDOWN", ops[k].fh)
        /\ frees' = FreesAfter(cb, "SHUTDOWN", ops[k].fh)
    BY <1>2
  <2>4. cb = Head(ops[k].queue)
    OBVIOUS
  <2> HIDE DEF cb, o
  <2>5. HandleOwned'
    BY <2>1, <2>2, <2>3, <2>4, HandlesStep
  <2>6. /\ handles' \in [Handle -> {"none", "allocated", "open", "freed"}]
        /\ frees' \in [Handle -> Nat]
    BY <2>1, <2>2, <2>3, <2>4, HandlesStep
  <2>7. \A h \in Handle : frees'[h] = IF handles'[h] = "freed" THEN 1 ELSE 0
    BY <2>1, <2>2, <2>3, <2>4, HandlesStep
  <2> QED
    BY <2>5, <2>6, <2>7
<1>8. DirectoryClosed'
  BY <1>2, <1>4, <1>5 DEF Inv, DirectoryClosed
<1>9. HandlesFreedOnce'
  BY <1>1, <1>2, <1>7 DEF HandlesFreedOnce
<1> QED
  BY <1>1, <1>2, <1>5, <1>6, <1>7, <1>8, <1>9 DEF Inv

\* Steps that touch one operation and no handle.
LEMMA QuietSound ==
    ASSUME Inv, NEW k \in Slot, NEW c \in Operation, ops' = [ops EXCEPT ![k] = c], Sound(c),
           UNCHANGED <<context, connected, handles, frees, opened>>,
           \/ c.queue = <<>>
           \/ c.queue = ops[k].queue /\ c.fh = ops[k].fh /\ c.name = ops[k].name,
           c.name = "opendir" /\ c.data = "given" => ops[k].name = c.name /\ ops[k].data = c.data
    PROVE  Inv'
<1>1. /\ ops' \in [Slot -> Operation] /\ ops'[k] = c
      /\ \A j \in Slot \ {k} : ops'[j] = ops[j]
  BY DEF Inv
<1>2. \A j \in Slot : Sound(ops'[j])
  BY <1>1 DEF Inv
<1>3. \A j \in Slot : Pending(j)' =>
        Pending(j) /\ ops'[j].fh = ops[j].fh /\ ops'[j].name = ops[j].name
  BY <1>1 DEF Pending
<1>4. HandleOwned'
  <2> SUFFICES ASSUME NEW j \in Slot, Pending(j)', ops'[j].fh \in Handle
               PROVE  /\ handles'[ops'[j].fh] = IF ops'[j].name = "open" THEN "allocated" ELSE "open"
                      /\ ops'[j].name \in {"open", "close"} =>
                           \A i \in Slot : Pending(i)' /\ ops'[i].fh = ops'[j].fh => i = j
    BY DEF HandleOwned
  <2> QED
    BY <1>3 DEF Inv, HandleOwned
<1>5. DirectoryClosed'
  BY <1>1 DEF Inv, DirectoryClosed
<1>6. HandlesFreedOnce'
  BY DEF Inv, HandlesFreedOnce
<1> QED
  BY <1>1, <1>2, <1>3, <1>4, <1>5, <1>6 DEF Inv

LEMMA ClosedirSound == ASSUME Inv, NEW k \in Slot, Closedir(k) PROVE Inv'
<1> DEFINE o == ops[k]
           c == [o EXCEPT !.data = "freed"]
<1>1. o \in Operation /\ o.data = "given" /\ Ended(o)
  BY DEF Inv, Sound, Closedir, InFlight
<1>2. ops' = [ops EXCEPT ![k] = c]
  BY <1>1 DEF Closedir, Inv, Operation
<1> HIDE DEF o
<1>3. /\ c \in Operation /\ c.data = "freed" /\ c.queue = o.queue /\ c.name = o.name
      /\ c.told = o.told /\ c.fh = o.fh /\ c.created = o.created /\ c.failure = o.failure
      /\ c.closed = o.closed /\ c.listed = o.listed /\ c.batches = o.batches
  BY <1>1 DEF Operation
<1>4. c.dropped = o.dropped /\ c.refused = o.refused
  BY <1>1 DEF Operation
<1> HIDE DEF c
<1>5. Ended(c)
  BY <1>1, <1>3, <1>4 DEF Ended, Excused
<1> QED
  BY <1>2, <1>3, <1>5, QuietSound DEF o, Closedir, Sound

LEMMA WriteSound == ASSUME Inv, NEW k \in Slot, Write(k) PROVE Inv'
<1> DEFINE o == ops[k]
           c == [o EXCEPT !.sent = TRUE]
<1>1. o \in Operation /\ InFlight(o)
  BY DEF Inv, Sound, Write, Ended
<1>2. ops' = [ops EXCEPT ![k] = c]
  BY <1>1 DEF Write, Inv, Operation
<1> HIDE DEF o
<1>3. /\ c \in Operation /\ c.data = o.data /\ c.queue = o.queue /\ c.name = o.name
      /\ c.told = o.told /\ c.fh = o.fh /\ c.created = o.created /\ c.failure = o.failure
      /\ c.listed = o.listed /\ c.batches = o.batches /\ c.recorded = o.recorded
  BY <1>1 DEF Operation
<1>4. c.dropped = o.dropped /\ c.refused = o.refused
  BY <1>1 DEF Operation
<1> HIDE DEF c
<1>5. InFlight(c)
  BY <1>1, <1>3, <1>4 DEF InFlight, FailureRecorded, CreateRecorded
<1> QED
  BY <1>2, <1>3, <1>5, QuietSound DEF o, Write, Sound

LEMMA UnbuiltSound ==
    ASSUME Inv, NEW k \in Slot, NEW name \in Compounds \cup {"ftruncate", "read", "write"},
           Unbuilt(k, name)
    PROVE  Inv'
<1>1. PICK at \in 1 .. LastOf(name) :
        /\ ops' = [ops EXCEPT ![k] = [Idle EXCEPT
                     !.name = name, !.refused = TRUE,
                     !.data = IF Leaks(name, at) THEN "leaked" ELSE "freed",
                     !.told = IF TellsToo(name, at) THEN <<"NOMEM">> ELSE <<>>]]
        /\ UNCHANGED <<context, connected, handles, frees, opened>>
  BY DEF Unbuilt
<1> DEFINE d == IF Leaks(name, at) THEN "leaked" ELSE "freed"
           t == IF TellsToo(name, at) THEN <<"NOMEM">> ELSE <<>>
           c == [Idle EXCEPT !.name = name, !.refused = TRUE, !.data = d, !.told = t]
<1>2. d \in {"leaked", "freed"} /\ t \in Seq(Results) /\ name \in Names /\ name # "opendir"
  <2>1. <<>> \in Seq(Results) /\ "NOMEM" \in Results
    BY DEF Results
  <2>2. <<"NOMEM">> \in Seq(Results)
    BY <2>1
  <2> QED
    BY <2>1, <2>2 DEF Names, Compounds, OnFh, InHandle
<1>3. Idle \in Operation /\ Idle.queue = <<>>
  BY IdleIs
<1>4. ops' = [ops EXCEPT ![k] = c]
  BY <1>1
<1> HIDE DEF d, t
<1>5. /\ c \in Operation /\ c.queue = <<>> /\ c.refused /\ c.name = name /\ c.data = d
  BY <1>2, <1>3 DEF Operation
<1> HIDE DEF c
<1>6. Ended(c)
  BY <1>2, <1>5 DEF Ended
<1> QED
  BY <1>1, <1>2, <1>4, <1>5, <1>6, QuietSound DEF Sound

LEMMA StartOnPathSound == ASSUME Inv, NEW k \in Slot, StartOnPath(k) PROVE Inv'
<1>1. /\ <<"opendir_cb">> \in Seq(Callbacks) /\ <<"create_cb_1", "create_cb_2">> \in Seq(Callbacks)
      /\ <<"getinfo_cb_1", "getinfo_cb_2", "getinfo_cb_3">> \in Seq(Callbacks)
      /\ <<"trunc_cb_1", "trunc_cb_2", "trunc_cb_3">> \in Seq(Callbacks)
      /\ <<"rename_cb_1", "rename_cb_2", "rename_cb_3">> \in Seq(Callbacks)
      /\ <<"readlink_cb_1", "readlink_cb_2", "readlink_cb_3">> \in Seq(Callbacks)
      /\ <<"smb2_open_cb">> \in Seq(Callbacks) /\ <<"echo_cb">> \in Seq(Callbacks)
      /\ <<"disconnect_cb_1">> \in Seq(Callbacks)
  BY DEF Callbacks, Creates, Closes
<1>2. CASE Opendir(k)
  <2>1. /\ <<"opendir_cb">> \in Stages("opendir")
        /\ <<"opendir_cb">> \in Seq(Callbacks)
    BY <1>1 DEF Stages
  <2>2. Head(<<"opendir_cb">>) = "opendir_cb"
    OBVIOUS
  <2>3. Head(<<"opendir_cb">>) \in First /\ "opendir" \in Names \ {"none"} /\ "opendir" \notin OnFh
    BY <2>2 DEF First, Creates, Names, Compounds, OnFh, InHandle
  <2> QED
    BY <1>2, <2>1, <2>3, OnPathSound DEF Opendir
<1>3. CASE Unlink(k)
  <2>1. /\ <<"create_cb_1", "create_cb_2">> \in Stages("unlink")
        /\ <<"create_cb_1", "create_cb_2">> \in Seq(Callbacks)
    BY <1>1 DEF Stages
  <2>2. Head(<<"create_cb_1", "create_cb_2">>) = "create_cb_1"
    OBVIOUS
  <2>3. Head(<<"create_cb_1", "create_cb_2">>) \in First /\ "unlink" \in Names \ {"none"} /\ "unlink" \notin OnFh
    BY <2>2 DEF First, Creates, Names, Compounds, OnFh, InHandle
  <2> QED
    BY <1>3, <2>1, <2>3, OnPathSound DEF Unlink
<1>4. CASE Mkdir(k)
  <2>1. /\ <<"create_cb_1", "create_cb_2">> \in Stages("mkdir")
        /\ <<"create_cb_1", "create_cb_2">> \in Seq(Callbacks)
    BY <1>1 DEF Stages
  <2>2. Head(<<"create_cb_1", "create_cb_2">>) = "create_cb_1"
    OBVIOUS
  <2>3. Head(<<"create_cb_1", "create_cb_2">>) \in First /\ "mkdir" \in Names \ {"none"} /\ "mkdir" \notin OnFh
    BY <2>2 DEF First, Creates, Names, Compounds, OnFh, InHandle
  <2> QED
    BY <1>4, <2>1, <2>3, OnPathSound DEF Mkdir
<1>5. CASE Getinfo(k)
  <2>1. /\ <<"getinfo_cb_1", "getinfo_cb_2", "getinfo_cb_3">> \in Stages("stat")
        /\ <<"getinfo_cb_1", "getinfo_cb_2", "getinfo_cb_3">> \in Seq(Callbacks)
    BY <1>1 DEF Stages
  <2>2. Head(<<"getinfo_cb_1", "getinfo_cb_2", "getinfo_cb_3">>) = "getinfo_cb_1"
    OBVIOUS
  <2>3. Head(<<"getinfo_cb_1", "getinfo_cb_2", "getinfo_cb_3">>) \in First /\ "stat" \in Names \ {"none"} /\ "stat" \notin OnFh
    BY <2>2 DEF First, Creates, Names, Compounds, OnFh, InHandle
  <2> QED
    BY <1>5, <2>1, <2>3, OnPathSound DEF Getinfo
<1>6. CASE Truncate(k)
  <2>1. /\ <<"trunc_cb_1", "trunc_cb_2", "trunc_cb_3">> \in Stages("truncate")
        /\ <<"trunc_cb_1", "trunc_cb_2", "trunc_cb_3">> \in Seq(Callbacks)
    BY <1>1 DEF Stages
  <2>2. Head(<<"trunc_cb_1", "trunc_cb_2", "trunc_cb_3">>) = "trunc_cb_1"
    OBVIOUS
  <2>3. Head(<<"trunc_cb_1", "trunc_cb_2", "trunc_cb_3">>) \in First /\ "truncate" \in Names \ {"none"} /\ "truncate" \notin OnFh
    BY <2>2 DEF First, Creates, Names, Compounds, OnFh, InHandle
  <2> QED
    BY <1>6, <2>1, <2>3, OnPathSound DEF Truncate
<1>7. CASE Rename(k)
  <2>1. /\ <<"rename_cb_1", "rename_cb_2", "rename_cb_3">> \in Stages("rename")
        /\ <<"rename_cb_1", "rename_cb_2", "rename_cb_3">> \in Seq(Callbacks)
    BY <1>1 DEF Stages
  <2>2. Head(<<"rename_cb_1", "rename_cb_2", "rename_cb_3">>) = "rename_cb_1"
    OBVIOUS
  <2>3. Head(<<"rename_cb_1", "rename_cb_2", "rename_cb_3">>) \in First /\ "rename" \in Names \ {"none"} /\ "rename" \notin OnFh
    BY <2>2 DEF First, Creates, Names, Compounds, OnFh, InHandle
  <2> QED
    BY <1>7, <2>1, <2>3, OnPathSound DEF Rename
<1>8. CASE Readlink(k)
  <2>1. /\ <<"readlink_cb_1", "readlink_cb_2", "readlink_cb_3">> \in Stages("readlink")
        /\ <<"readlink_cb_1", "readlink_cb_2", "readlink_cb_3">> \in Seq(Callbacks)
    BY <1>1 DEF Stages
  <2>2. Head(<<"readlink_cb_1", "readlink_cb_2", "readlink_cb_3">>) = "readlink_cb_1"
    OBVIOUS
  <2>3. Head(<<"readlink_cb_1", "readlink_cb_2", "readlink_cb_3">>) \in First /\ "readlink" \in Names \ {"none"} /\ "readlink" \notin OnFh
    BY <2>2 DEF First, Creates, Names, Compounds, OnFh, InHandle
  <2> QED
    BY <1>8, <2>1, <2>3, OnPathSound DEF Readlink
<1>9. CASE ShareEnum(k)
  <2>1. /\ <<"smb2_open_cb">> \in Stages("share_enum")
        /\ <<"smb2_open_cb">> \in Seq(Callbacks)
    BY <1>1 DEF Stages
  <2>2. Head(<<"smb2_open_cb">>) = "smb2_open_cb"
    OBVIOUS
  <2>3. Head(<<"smb2_open_cb">>) \in First /\ "share_enum" \in Names \ {"none"} /\ "share_enum" \notin OnFh
    BY <2>2 DEF First, Creates, Names, Compounds, OnFh, InHandle
  <2> QED
    BY <1>9, <2>1, <2>3, OnPathSound DEF ShareEnum
<1>10. CASE Echo(k)
  <2>1. /\ <<"echo_cb">> \in Stages("echo")
        /\ <<"echo_cb">> \in Seq(Callbacks)
    BY <1>1 DEF Stages
  <2>2. Head(<<"echo_cb">>) = "echo_cb"
    OBVIOUS
  <2>3. Head(<<"echo_cb">>) \in First /\ "echo" \in Names \ {"none"} /\ "echo" \notin OnFh
    BY <2>2 DEF First, Creates, Names, Compounds, OnFh, InHandle
  <2> QED
    BY <1>10, <2>1, <2>3, OnPathSound DEF Echo
<1>11. CASE Disconnect(k)
  <2>1. /\ <<"disconnect_cb_1">> \in Stages("disconnect")
        /\ <<"disconnect_cb_1">> \in Seq(Callbacks)
    BY <1>1 DEF Stages
  <2>2. Head(<<"disconnect_cb_1">>) = "disconnect_cb_1"
    OBVIOUS
  <2>3. Head(<<"disconnect_cb_1">>) \in First /\ "disconnect" \in Names \ {"none"} /\ "disconnect" \notin OnFh
    BY <2>2 DEF First, Creates, Names, Compounds, OnFh, InHandle
  <2> QED
    BY <1>11, <2>1, <2>3, OnPathSound DEF Disconnect
<1> QED
  BY <1>2, <1>3, <1>4, <1>5, <1>6, <1>7, <1>8, <1>9, <1>10, <1>11 DEF StartOnPath

LEMMA StartOnHandleSound ==
    ASSUME Inv, NEW k \in Slot, NEW h \in Handle, StartOnHandle(k, h) PROVE Inv'
<1>1. /\ <<"close_cb">> \in Seq(Callbacks) /\ <<"fsync_cb">> \in Seq(Callbacks)
      /\ <<"read_cb">> \in Seq(Callbacks) /\ <<"write_cb">> \in Seq(Callbacks)
      /\ <<"fstat_cb_1">> \in Seq(Callbacks) /\ <<"ftrunc_cb_1">> \in Seq(Callbacks)
  BY DEF Callbacks, Closes
\* Nobody uses a handle that is being closed.
<1>2. ASSUME ~ Closing(h), NEW j \in Slot, Pending(j), ops[j].fh = h PROVE ops[j].name # "close"
  <2>1. InFlight(ops[j])
    BY <1>2 DEF Inv, Sound, Ended, Pending
  <2>2. ops[j].name = "close" => ops[j].queue = <<"close_cb">>
    BY <2>1, StagesOf DEF InFlight
  <2> QED
    BY <1>2, <2>2 DEF Closing
<1>3. CASE Close(k, h)
  <2>1. <<"close_cb">> \in Stages("close") /\ <<"close_cb">> \in Seq(Callbacks) /\ Head(<<"close_cb">>) \in First
    BY <1>1 DEF Stages, First
  <2>2. "close" \in OnFh \ {"open"}
    BY DEF OnFh, InHandle
  <2>3. \A j \in Slot : Pending(j) /\ ops[j].fh = h => ops[j].name # "close"
    BY <1>3 DEF Close, Busy, Pending
  <2>4. OnHandle(k, "close", <<"close_cb">>, h)
    BY <1>3 DEF Close
  <2> QED
    BY <1>3, <2>1, <2>2, <2>3, <2>4, OnHandleSound DEF Close
<1>4. CASE Fsync(k, h)
  <2>1. <<"fsync_cb">> \in Stages("fsync") /\ <<"fsync_cb">> \in Seq(Callbacks) /\ Head(<<"fsync_cb">>) \in First
    BY <1>1 DEF Stages, First
  <2>2. "fsync" \in OnFh \ {"open"}
    BY DEF OnFh, InHandle
  <2>3. \A j \in Slot : Pending(j) /\ ops[j].fh = h => ops[j].name # "close"
    BY <1>4 DEF Fsync, Owned, Pending
  <2>4. OnHandle(k, "fsync", <<"fsync_cb">>, h)
    BY <1>4 DEF Fsync
  <2> QED
    BY <2>1, <2>2, <2>3, <2>4, OnHandleSound
<1>5. CASE Pread(k, h)
  <2>1. <<"read_cb">> \in Stages("read") /\ <<"read_cb">> \in Seq(Callbacks) /\ Head(<<"read_cb">>) \in First
    BY <1>1 DEF Stages, First
  <2>2. "read" \in OnFh \ {"open"}
    BY DEF OnFh, InHandle
  <2>3. \A j \in Slot : Pending(j) /\ ops[j].fh = h => ops[j].name # "close"
    BY <1>2, <1>5 DEF Pread
  <2>4. OnHandle(k, "read", <<"read_cb">>, h)
    BY <1>5 DEF Pread
  <2> QED
    BY <2>1, <2>2, <2>3, <2>4, OnHandleSound
<1>6. CASE Pwrite(k, h)
  <2>1. <<"write_cb">> \in Stages("write") /\ <<"write_cb">> \in Seq(Callbacks) /\ Head(<<"write_cb">>) \in First
    BY <1>1 DEF Stages, First
  <2>2. "write" \in OnFh \ {"open"}
    BY DEF OnFh, InHandle
  <2>3. \A j \in Slot : Pending(j) /\ ops[j].fh = h => ops[j].name # "close"
    BY <1>2, <1>6 DEF Pwrite
  <2>4. OnHandle(k, "write", <<"write_cb">>, h)
    BY <1>6 DEF Pwrite
  <2> QED
    BY <2>1, <2>2, <2>3, <2>4, OnHandleSound
<1>7. CASE Fstat(k, h)
  <2>1. <<"fstat_cb_1">> \in Stages("fstat") /\ <<"fstat_cb_1">> \in Seq(Callbacks) /\ Head(<<"fstat_cb_1">>) \in First
    BY <1>1 DEF Stages, First
  <2>2. "fstat" \in OnFh \ {"open"}
    BY DEF OnFh, InHandle
  <2>3. \A j \in Slot : Pending(j) /\ ops[j].fh = h => ops[j].name # "close"
    BY <1>2, <1>7 DEF Fstat
  <2>4. OnHandle(k, "fstat", <<"fstat_cb_1">>, h)
    BY <1>7 DEF Fstat
  <2> QED
    BY <2>1, <2>2, <2>3, <2>4, OnHandleSound
<1>8. CASE Ftruncate(k, h)
  <2>1. <<"ftrunc_cb_1">> \in Stages("ftruncate") /\ <<"ftrunc_cb_1">> \in Seq(Callbacks) /\ Head(<<"ftrunc_cb_1">>) \in First
    BY <1>1 DEF Stages, First
  <2>2. "ftruncate" \in OnFh \ {"open"}
    BY DEF OnFh, InHandle
  <2>3. \A j \in Slot : Pending(j) /\ ops[j].fh = h => ops[j].name # "close"
    BY <1>2, <1>8 DEF Ftruncate
  <2>4. OnHandle(k, "ftruncate", <<"ftrunc_cb_1">>, h)
    BY <1>8 DEF Ftruncate
  <2> QED
    BY <2>1, <2>2, <2>3, <2>4, OnHandleSound
<1>9. CASE Open(k, h)
  BY <1>9, OpenSound
<1> QED
  BY <1>3, <1>4, <1>5, <1>6, <1>7, <1>8, <1>9 DEF StartOnHandle

LEMMA CrashSound == ASSUME Inv, NEW k \in Slot, Crash(k) PROVE Inv'
<1>1. context' = "crashed" /\ UNCHANGED <<connected, ops, handles, frees, opened>>
  BY DEF Crash
<1>2. HandleOwned'
  BY <1>1 DEF Inv, HandleOwned, Pending
<1>3. DirectoryClosed' /\ HandlesFreedOnce'
  BY <1>1 DEF Inv, DirectoryClosed, HandlesFreedOnce
<1> QED
  BY <1>1, <1>2, <1>3 DEF Inv

LEMMA DestroySound == ASSUME Inv, Destroy PROVE Inv'
<1>1. /\ context' = "closing" /\ connected' = FALSE /\ opened' = {}
      /\ UNCHANGED <<ops, handles, frees>>
  BY DEF Destroy
<1>2. HandleOwned'
  BY <1>1 DEF Inv, HandleOwned, Pending
<1>3. DirectoryClosed' /\ HandlesFreedOnce'
  BY <1>1 DEF Inv, DirectoryClosed, HandlesFreedOnce
<1> QED
  BY <1>1, <1>2, <1>3 DEF Inv

LEMMA FreeOpenHandlesSound == ASSUME Inv, FreeOpenHandles PROVE Inv'
<1>1. /\ context' = "gone" /\ UNCHANGED <<connected, ops, opened>>
      /\ \A k \in Slot : ~ Pending(k)
      /\ handles' = [h \in Handle |-> IF handles[h] \in {"allocated", "open"} THEN "freed"
                                      ELSE handles[h]]
      /\ frees' = [h \in Handle |-> frees[h] + IF handles[h] \in {"allocated", "open"} THEN 1 ELSE 0]
  BY DEF FreeOpenHandles, Pending
<1>2. /\ handles' \in [Handle -> {"none", "freed"}] /\ frees' \in [Handle -> Nat]
      /\ \A h \in Handle : frees'[h] = IF handles'[h] = "freed" THEN 1 ELSE 0
  BY <1>1 DEF Inv, HandlesFreedOnce
<1>3. HandleOwned' /\ DirectoryClosed'
  BY <1>1 DEF Inv, HandleOwned, DirectoryClosed, Pending
<1>4. HandlesFreedOnce'
  BY <1>1, <1>2 DEF HandlesFreedOnce
<1>5. handles' \in [Handle -> {"none", "allocated", "open", "freed"}]
  BY <1>2
<1> QED
  BY <1>1, <1>2, <1>3, <1>4, <1>5 DEF Inv, Pending

\* The invariant is inductive: every operation is in order by itself, and the
\* handles are owned, whatever the operations and the destruction interleave.
LEMMA Inductive == Spec => []Inv
<1>1. Init => Inv
  <2> SUFFICES ASSUME Init PROVE Inv
    OBVIOUS
  <2>1. \A k \in Slot : ops[k] = Idle
    BY DEF Init
  <2>2. Sound(Idle)
    BY IdleIs DEF Sound, Ended
  <2>3. ops \in [Slot -> Operation] /\ \A k \in Slot : Sound(ops[k]) /\ ~ Pending(k)
    BY <2>1, <2>2, IdleIs DEF Init, Pending
  <2>4. HandleOwned /\ HandlesFreedOnce
    BY <2>3 DEF Init, HandleOwned, HandlesFreedOnce
  <2>5. DirectoryClosed
    BY <2>1, IdleIs DEF DirectoryClosed
  <2> QED
    BY <2>3, <2>4, <2>5 DEF Init, Inv
<1>2. Inv /\ [Next]_vars => Inv'
  <2> SUFFICES ASSUME Inv, [Next]_vars PROVE Inv'
    OBVIOUS
  <2>1. ASSUME NEW k \in Slot, StartOnPath(k) PROVE Inv'
    BY <2>1, StartOnPathSound
  <2>2. ASSUME NEW k \in Slot, Closedir(k) PROVE Inv'
    BY <2>2, ClosedirSound
  <2>3. ASSUME NEW k \in Slot, Write(k) PROVE Inv'
    BY <2>3, WriteSound
  <2>4. ASSUME NEW k \in Slot, Reply(k) PROVE Inv'
    BY <2>4, ReplySound
  <2>5. ASSUME NEW k \in Slot, Drain(k) PROVE Inv'
    BY <2>5, DrainSound
  <2>6. ASSUME NEW k \in Slot, NEW h \in Handle, StartOnHandle(k, h) PROVE Inv'
    BY <2>6, StartOnHandleSound
  <2>7. ASSUME NEW k \in Slot, NEW name \in Compounds \cup {"ftruncate", "read", "write"},
               Unbuilt(k, name)
        PROVE  Inv'
    BY <2>7, UnbuiltSound
  <2>8. CASE Destroy
    BY <2>8, DestroySound
  <2>9. CASE FreeOpenHandles
    BY <2>9, FreeOpenHandlesSound
  <2>10. ASSUME NEW k \in Slot, Crash(k) PROVE Inv'
    BY <2>10, CrashSound
  <2>11. CASE UNCHANGED vars
    BY <2>11 DEF vars, Inv, Pending, HandleOwned, DirectoryClosed, HandlesFreedOnce
  <2> QED
    BY <2>1, <2>2, <2>3, <2>4, <2>5, <2>6, <2>7, <2>8, <2>9, <2>10, <2>11 DEF Next
<1> QED
  BY <1>1, <1>2, PTL DEF Spec

-----------------------------------------------------------------------------
(* The theorems *)

\* The variables keep their types.
THEOREM TypeCorrect == Spec => []TypeOK
<1>1. Inv => TypeOK
  BY DEF Inv, TypeOK, Operation
<1> QED
  BY <1>1, Inductive, PTL

\* Every callback chain ends with the caller told once: an operation whose
\* commands were all answered has told one result, an operation in flight none,
\* in every interleaving of any number of operations with the destruction of
\* the context; only a compound that was dropped unsent is never told.
THEOREM CallerToldOnce == Spec => []ToldOnce
<1>1. Inv => ToldOnce
  <2> SUFFICES ASSUME Inv, NEW k \in Slot, ~ ops[k].refused /\ ops[k].name # "none"
               PROVE  Len(ops[k].told) = IF Pending(k) \/ ops[k].dropped THEN 0 ELSE 1
    BY DEF ToldOnce
  <2>1. CASE InFlight(ops[k])
    <3>1. Pending(k) /\ Len(<<>>) = 0
      BY <2>1, StagesOf, Chains DEF InFlight, Pending
    <3> QED
      BY <2>1, <3>1 DEF InFlight
  <2>2. CASE Ended(ops[k])
    BY <2>2 DEF Ended, Pending
  <2> QED
    BY <2>1, <2>2 DEF Inv, Sound
<1> QED
  BY <1>1, Inductive, PTL

\* No callback finds its record freed and no record outlives its operation: it
\* is alive exactly as long as a request that carries it is queued.
THEOREM RecordOutlivesItsRequests == Spec => []RecordLives
<1>1. Inv => RecordLives
  <2> SUFFICES ASSUME Inv, NEW k \in Slot,
                      ops[k].data # "none" /\ ~ ops[k].refused /\ ~ ops[k].dropped
               PROVE  Pending(k) <=> ops[k].data = "live"
    BY DEF RecordLives
  <2>1. CASE InFlight(ops[k])
    BY <2>1, StagesOf, Chains DEF InFlight, Pending
  <2>2. CASE Ended(ops[k])
    BY <2>2 DEF Ended, Pending
  <2> QED
    BY <2>1, <2>2 DEF Inv, Sound
<1> QED
  BY <1>1, Inductive, PTL

\* stat, truncate and rename tell the first status of their commands that is not a success, and
\* no operation tells a success over a CREATE that failed, but where an END_OF_FILE hides it.
THEOREM FirstFailureTold == Spec => []FirstFailureReported
<1>1. Inv => FirstFailureReported
  BY DEF Inv, Sound, InFlight, Ended, Excused, FirstFailureReported
<1> QED
  BY <1>1, Inductive, PTL

\* However many QUERY_DIRECTORY replies a listing takes and whatever runs
\* beside it, a listing handed to the caller holds them all and its handle is closed.
THEOREM ListingComplete == Spec => []ListingWhole
<1>1. Inv => ListingWhole
  <2> SUFFICES ASSUME Inv, NEW k \in Slot, ops[k].name = "opendir", ops[k].data = "given"
               PROVE  /\ ops[k].listed = [i \in 1 .. ops[k].batches |-> ops[k].batches + 1 - i]
                      /\ k \notin opened
    BY DEF ListingWhole
  <2>1. Ended(ops[k])
    BY DEF Inv, Sound, InFlight
  <2>2. ops[k].listed = Newest(ops[k].batches)
    BY <2>1 DEF Ended
  <2>3. k \notin opened
    BY DEF Inv, DirectoryClosed
  <2> QED
    BY <2>2, <2>3 DEF Newest
<1> QED
  BY <1>1, Inductive, PTL

\* No smb2fh is freed twice or kept: by its failed open, by its close or with the
\* context, once; and the caller's open handles are open at the server.
THEOREM HandleFreedOnce == Spec => []HandlesFreedOnce
<1>1. Inv => HandlesFreedOnce
  BY DEF Inv
<1> QED
  BY <1>1, Inductive, PTL
=============================================================================
