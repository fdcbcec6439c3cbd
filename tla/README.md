# Verification of NativeSMB

NativeSMB is a bounded SMB2/3 client: a Swift adapter (`Sources/NativeSMB`) over a vendored
and patched libsmb2 (`Sources/CSMB`). These modules model its control: who queues, calls back
and frees a request, how the bytes of a response are told apart, how libsmb2's operations turn
several commands into one result, how an upload cleans up after itself, how a download stays in
the tree and of one version, how a server's name is resolved and its addresses are tried; and the
layout of every message, by what its encoder writes and its decoder reads. TLC checks the models
on small instances; TLAPS proves the theorems listed below for every value of the constants.

Paths are relative to `Sources/NativeSMB` and `Sources/CSMB/lib` (and `include`).

## The system

One worker thread owns a `SMBTransport`, and with it one libsmb2 context at a time. It runs one
command after the other: `command()` starts it with a `smb2_*_async` call, then polls with a
50 ms timeout and calls `smb2_service_fd` until the callback has run, the deadline has passed or
the user's cancel (a lock-protected flag, the only thing another thread touches) is sampled. Any
failure of `command()` destroys the context, which runs every pending callback.

| Component | State | Operations | Talks to |
|---|---|---|---|
| Request engine (`pdu.c`, `socket.c`, `init.c`) | out queue, wait queue, PDU being received, credits, per-PDU timeout and compound links | queue, write, match a reply, call back, time out, free, destroy | server (bytes), every pipeline of `libsmb2.c` (callbacks) |
| Upload and cleanup (`SMBTransport.swift` 139–168, 209–318) | offset, whether the create returned, a second transport | guard the ancestors, exclusive create, write, flush, close; open for deletion, mark, close, retry | server's file, other clients |
| Connecting (`SMBTransport.swift` 33–91, 457–470; `libsmb2.c` 562–1097) | addresses left, deadlines, last failure, negotiated dialect, signing and sealing | next address, negotiate, session setup, tree connect, policy check | name resolution, server, `command()` |
| Name resolution (`SMBNameResolution.swift`) | addresses per family, settled families, first-address time | receive an answer, decide, slice of poll | dns_sd |
| `command()` and `Reply` (`SMBTransport.swift` 368–443) | a retained `Reply`, a deadline | start, poll, service, fail | request engine |
| Browsing, download, range, mkdir, share list | open handle, offset, directory entries | loops over `command()` | server |
| Receive framing (`socket.c` 340–900) | `recv_state`, `spl`, the input vectors | header, fixed, variable, padding, transform, compound | request engine |
| Connecting sockets (`socket.c` 137–161, 965–980, 1162–1313) | addrinfo list, array of connecting sockets | start next, win, fail, close | request engine |
| libsmb2 pipelines (`libsmb2.c`) | per-operation callback data, directory entries, open-handle list | open, opendir, stat, unlink, rename, disconnect, notify | request engine |
| Synchronous wrappers (`sync.c`) | a result cell, a PDU to free | `wait_for_reply` | request engine |
| Tree ids, active contexts, open handles | an array, a process-wide list, a list | push, select, add, remove | pipelines |
| Codecs (`smb2-cmd-*.c`, `smb2-data-*.c`, `dcerpc*.c`) | none across calls, except DCE/RPC contexts | encode, decode | framing |
| Signing, sealing, authentication, digests | keys, preauthentication hash | sign, verify, seal, authenticate | handshake, framing |

What is hard here, and what would make each part wrong:

* **Request engine.** The server chooses the order of replies, may duplicate, delay or withhold
  them, and grants the credits without which the queue stands still. Callbacks queue further
  commands while a queue is being walked. A PDU is on a queue, in `smb2->pdu`, behind a
  compound's head, or on the stack, and each of reply, timeout, destruction and the caller may
  free it. Right means: one callback per command, nothing used after it was freed, nothing lost,
  frames written whole, nothing waiting for ever once there is a timeout.
* **Receive framing.** The bytes come in pieces of any size; a frame may be encrypted, hold
  several responses, or hold responses for nobody. Where the next header is follows from four
  lengths of three layers. Right means: headers are looked for where responses start, a
  callback gets its whole response and only with the session's protection, and every frame ends.
* **Pipelines.** Thirty callbacks share records that one of them must free; a compound has three
  statuses and one result; destruction enters each of them at any point. Right means: the caller
  hears one result, the first failure, after the last command; no record is used after its end.
* **Synchronous wrappers.** A call may give up while its operation runs on. Right means: the late
  callback finds a record that is still there, or does not look for it, and no call returns the
  result of another.
* **Upload.** A cancel or a lost connection may fall between the server's doing something and
  the worker's hearing of it, and other clients use the same name. Right means: a successful
  upload is whole, a failed one leaves no file of its own and removes nobody else's, and the
  caller (who holds a mutex) gets an answer.
* **Downloads and directories.** Between two commands another client may put a link in the place
  of a directory that was looked at, or rewrite the file. Right means: nothing outside the tree
  is read or made, and a file is handed over in one version or not at all.
* **Connecting.** A wrong password must not be tried on every address; other failures must
  be. libsmb2's failure codes are ambiguous and its recorded status outlives commands. Right
  means: rejection is final and reported, a silent address leaves time for the others, and what
  was promised about identity and encryption holds.
* **Name resolution.** Two queries answer in batches, withdraw, fail and stay silent. Right
  means: no answer is lost, the grace period and the deadline are kept, both families are used.
* **Codecs.** Offsets are counted from the header or from the body, names are padded or not,
  lengths are compared at sixteen bits. Right means: what one side encodes the other side
  decodes, from inside the frame, at a price in credits that covers it.

The full list of hazards, each at its line with the properties that watch it, is in
`PROJECT.json`.

## Modules

| Module | Models | Proofs |
|---|---|---|
| `Smb2Pdu` | the request engine | `Smb2PduProofs` |
| `CommandContract` | abstract: what a context owes a caller | |
| `Smb2PduContract` | `Smb2Pdu` implements `CommandContract` | `Smb2PduProofs` |
| `Smb2Receive` | the receive path: framing, padding, chains, transform headers, receive policy | `WireProofs` |
| `MCReceive` | frames of a few shapes for TLC | |
| `ClientPipelines` | libsmb2's operations: their commands, callbacks, records and handles | `ClientPipelinesProofs` |
| `SyncCalls` | the blocking calls of `sync.c` | `SyncCallsProofs` |
| `SmbUpload` | upload, cleanup, the server's file and other clients | `SmbUploadProofs` |
| `GuardedTransfer` | list, download, range and mkdir under guarded directories, beside another client | `GuardedTransferProofs` |
| `SmbConnect` | address loop and handshake | `SmbConnectProofs` |
| `ConnectingSockets` | the order of the addresses of a name and the race of their sockets | |
| `NameResolution` | the resolver's policy and poll loop | `NameResolutionProofs` |
| `Unicode` | UTF-8 and UTF-16 | `WireProofs` |
| `Smb2Wire` | bodies of PDUs: vectors, cells, variable parts | |
| `DataCodecs` | file information, directory entries, security descriptors, reparse points, times | |
| `QueryCodecs` | query, set, notify, ioctl, error and break messages | |
| `CommandCodecs` | the messages of the other commands, header, credit charge | |
| `DceRpc` | NDR, DCE/RPC headers and fragments, the calls of srvsvc | |
| `Formats` | one message from its encoder to its decoder, over the codecs | `WireProofs` |
| `MCFormats` | the messages, names and calls of the check | |

The layers meet in these places. `Smb2Pdu` calls every callback once, which is what `Smb2PduContract`
shows and what `ClientPipelines` starts from; `ClientPipelines` ends every operation once, which
is what `SyncCalls` starts from. `Smb2Receive` hands over whole bodies, which `Formats` takes
apart. `SmbUpload`, `GuardedTransfer` and `SmbConnect` see a command as a request that is answered
or fails.

Definitions marked *Mutation* or *For a mutant* are plausible faults of a definition near them. No specification
uses them; each has been put in its definition's place to see a property fail.

### `Smb2Pdu`

A PDU is the position of its message id. Ids increase in the order of queueing and both lists
grow only at their end, so queues are sets ordered by name. `phase` is where the worker is:
in the application (`app`), in a part of one `smb2_service_fd` call (`read`, `write`,
`sweepOut`, `sweepWait`), back with an error (`failed`), in `smb2_destroy_context` (`drainOut`,
`drainWait`), or done (`gone`). `running` is the PDU whose callback is on the stack; while it is,
`Queue` may fire, which is the callback's queueing of the next command of its pipeline.

* `Queue` is `smb2_queue_pdu` of a command of up to `MaxChain` chained requests, with the
  immediate write when the out queue was empty (`QueuePart` when the socket took some bytes,
  `QueueSent` when it took all, `QueueBehind` otherwise).
* `ReadReply`, `ReadOutOfOrder`, `ReadUnknown`, `ReadPending`, `ReadNotification` are the
  branches of `smb2_read_data` once a header is decoded; `Deliver` and `Delivered` are the
  callback and the return from it; `ReadBlocked` and `ReadFailed` end reading.
* `WritePart`, `WriteRest`, `WriteStops` are `smb2_write_to_socket`; `SweepOut`, `SweepWait`,
  `Swept`, `SweepDone` are `smb2_timeout_pdus`; `Destroy`, `DrainOut`, `DrainCurrent`,
  `DrainWait`, `Drained` are `smb2_destroy_context`.
* `FreeOwned` is the application freeing a PDU it was handed (the synchronous API, and
  `smb2_free_pdu` to cancel).

Left out: bytes, encryption of the output, server mode, allocation failure, and commands queued
by a callback during destruction: every callback NativeSMB can have pending checks its status
before it queues more (`notify_change_cb` does not, and is not used). An interim `PENDING`
reply and a reply to an unknown id are skipped in one step. Freeing the leftover `smb2->pdu`
before an unknown reply is not modelled because `NoLeftover`, which is proved, says there is
none.

`SafeUse` names the uses for which the engine keeps its promises: callers do not free the PDU of
a command under way, and compounds are not combined with a timeout. NativeSMB is such a use
only as far as its commands are single requests, or its compounds finish within libsmb2's
timeout. With compounds *and* a timeout the sweep can free a chain of which a part was
remembered as the next to visit, and tear a half-written frame; this is listed as a hazard and is
outside every proof.

### `Smb2Receive`

`smb2_read_data` as a machine that counts bytes. A frame is a record of the server's: whether it
is encrypted, and where each response starts, with the lengths of its parts. `recv` is
`recv_state`, `done` and `total` are `in.num_done` and `in.total_size`, `at` is how much of the
frame was read from the socket and `encPos` how much of its decrypted copy. The code's own
arithmetic (`Rest`, `Padding`, `NextCommand`) decides how far it reads; `Decode` finds a response
only if that led to a place where the server put one (`Aligned`).

* `ReadSome` is `readv` returning some of the bytes, `WouldBlock` the return to the application
  with the frame unfinished, `Resume` the next call, which starts with a fresh `iov_offset`
  (`signFrom`). `ReadBuf` reads the decrypted copy.
* `SplRead`, `Transform`, `Decrypt`, `Decode`, `FixedRead`, `VariableRead`, `UnknownRead` are the
  cases of the switch; `Finished` is what follows it: receive policy, interim responses,
  signature, callback, next of the chain.
* A response's signature is right when it is good and computed from where the response starts.

Left out: malformed lengths (a negative padding, a frame over `SMB2_MAX_PDU_SIZE`), allocation
failure, the limit of 256 vectors, server mode; the order of a compound's replies and break
notifications are `Smb2Pdu`'s.

### `SmbUpload`

The worker (`pc`), two connections (the upload's and the cleanup's) with at most one request and
one reply each, and the server's one name: nothing, this upload's file (`mine`), somebody else's
(`other`), a link or a folder, with its open handles and its delete-on-close mark. A request is
sent, carried out and answered in separate steps; `Fail` may fall between any two of them,
`Drop` is the server's noticing that a connection is gone, `Other…` are other clients. The
server's actions are external: they follow what the client asks for in its CREATE, WRITE,
FLUSH, SET_INFO and CLOSE requests (exclusive create, no sharing of deletion, opening a reparse
point itself, delete on last close). `obstructed` records a cleanup that was itself refused or
ran out of time, which the code calls best effort. A failed command closes its connection, but not
one whose cancel is sampled before it starts (`Stop`, SMBTransport.swift:387); within the upload's
`catch` the cleanup then closes it.

### `SmbConnect`

One step of the loop, one poll, or one event per action. `stage` is what the context waits for:
`tcp`, `negotiate`, `setup`, `tree`. `Connected` … `TreeConnected` are the callbacks of
`libsmb2.c` in order, with their checks (signing, encryption, guest fallback, DFS). `dialect` is the
family of the one the server chose, 1 for what is below 2.02 and 0 for none, which the check at the
end refuses (`Policy`, SMBTransport.swift:70). A share
that asks for encryption turns it on while its response is decoded, and the receive policy then
refuses that response unless the session was encrypted already: `TreeConnected`. A callback that closes the
context makes `smb2_service_fd` fail, so its errno is lost and the event loop reports `.connection`: `Refused`. `HandshakeFailure` then refines by the
recorded status. libsmb2's own timeout, in whole seconds, is part of `Lost`. Whether the
server's authentication gave a session key is left open. A rejection that arrives after its
attempt timed out is not heard; the code documents that fallback.

### `ClientPipelines`

An operation is a record in a slot: `queue` is the callbacks its queued requests still have, in
order; `told` what the caller was called back with; `data` the life of the record the callbacks
share; `recorded` its `status`. One operator per callback (`OpendirCb`, `GetinfoCb2`, …) says what
it does with a status. `Reply` is the engine calling the head's callback with any answer the
server may give (`Answers`), `built` whether the next command can be allocated. `Drain` is the
same with `SMB2_STATUS_SHUTDOWN` in `smb2_destroy_context`, which calls only the head of a compound
that was never written (`dropped`); `FreeOpenHandles` frees the `smb2fh` that were not closed.
`Unbuilt` is a compound of which a command cannot be allocated. `Busy`, `Owned` and `Closing` are
the rules the caller keeps for the three operations that store their callback in the handle.

`END_OF_FILE` may answer every command, and `nterror_to_errno` makes 0 of it (errors.c:1071):
`Errno`. A command that failed with it is therefore told as done, and `FirstFailureReported` says
exactly what that hides. Two callbacks read through a NULL payload (`Crash`): `fstat_cb_1` looks at
the reply before the status (libsmb2.c:1948), and a timeout or a shutdown brings none;
`srvsvc_ioctl_cb` is given a success without a payload when the call was answered `END_OF_FILE`
(dcerpc.c:1536). The process then ends (`crashed`), or, of the first, goes on in a build that moves
the read behind the check. `EndsTold` allows for that end. `SMBTransport.stat()` is such an fstat, so
a download that is cancelled or times out while it waits for the answer is exposed to it, and so is every
walk of `guardAncestors()`; `GuardedTransfer` and `SmbUpload` model the build that goes on.

Left out: leases, `notify_change` and server mode; the payloads; how the engine orders answers,
which is `Smb2Pdu`'s.

### `SyncCalls`

The calling thread is in its last call (`waiting`) or outside; `made` is what each call was. Operations
that were given up stay in `pending` and end later: a caller whose wait failed may call on, which
nothing in `sync.c` forbids. `Call` allocates the record (or takes the one embedded in the context,
as it was left); `Service` is a callback that `smb2_service` or the timeout sweep runs during a wait,
of this call or an earlier one, `ShutDown` one that destruction runs; `WaitForReply` and `WaitFails`
are the two ends of the wait, the second also after the callback has run, when `smb2_service` fails
behind it (`missed`; its record is then given back by nobody). `SyncCallback`, `IgnoresShutdown`,
`FreedAtOnce`, `Cancelled` and `Withdrawn` tell the shapes of `sync.c`'s calls apart: who frees the
record, who marks it cancelled, who takes the request back.

`smb2_close` and `smb2_opendir` free their record although their operation may be pending
(sync.c:315 and :211); only the SHUTDOWN of destruction is told not to look for it. In a later
call's wait, an answer or the sweep runs `sync_close_cb` or `sync_opendir_cb` on the freed block: so
`NoLateTouch` is refuted, and `LateTouches`, which is checked and proved, says that nothing else comes
too late. `touched` is the first such use. What it then does is left open between the block
as it was left and the record of a later call that `malloc` put there (`Block`); memory reused for
anything else is not modelled, and `ResultIsOwn` and `RecordsReturned` promise nothing afterwards.

Left out: what a call returns besides success or failure; more than one thread (libsmb2 has none);
`smb2_notify_change`, which frees its record at once as `smb2_close` does but has a callback that
does not even ignore the shutdown (sync.c:890–930), over a pipeline that is not modelled either.

### `GuardedTransfer`

The path is `Depth` directories and a last component. `tree` is what is there, `Found(i)` what an
open of component `i` by name leads to: the entry itself, or anything at all when a link lies on
the way. `OpenAncestor` and `HoldAncestor` are one round of `guardAncestors()`, `held` is
`heldDirectories`; `List`, `Mkdir`, `OpenFile`, `Validate`, `Read` and `CloseFile` are the bodies of
the operations, each one command; `Fails` is any command throwing, with `close()`, and `Cancelled`
and the refusals are throws that leave the context. The other client plants links, puts things back
and writes the file, but neither renames, deletes nor opens for writing what an open handle denies
(`Denied`): directories and files are opened sharing only reading. The server's part is external.

Left out: directory entries' names and limits, share listing, sizes in bytes.

### `ConnectingSockets`

`InterleaveAddrinfo` is a fold over the addresses that keeps the list and the place of `base`.
`fds` is the array and `CloseConnectingFd` what `memmove` leaves of it; `Settle` is the network,
`StartNext` the caller's timer, `SocketFailed` and `SocketReady` the events of one socket. The
descriptor of the i-th address is i, so that four bytes hold it.

### The codecs

A body is a set of cells and parts (`Smb2Wire`): an integer of a width at an offset, or bytes a
length of which is elsewhere. A field holds a number of its own, so that a decoder that reads
another's place, or half of it, gets `Mixed`. For each message the tables of the encoder and of the
decoder are written each from its own function. A decoder of the fixed part returns the length it
asks for (`Reads`) or `Refused`, that of the variable part the structure. `Formats` sends one
message: `Send` encodes, `ReadFixed` and `ReadVariable` are `smb2_process_payload_fixed` and
`_variable`; `ReadName` converts a name; `Call` and `Hear` do the same with a DCE/RPC call, whose
coder is one interpreter (`DceRpc`) of types, as `dcerpc.c` uses one coder for both directions.
The interpreter is recursive, which no module with a theorem may reach, so `Formats` takes it as
two constant operators, `Marshal` and `Unmarshal`, that `Formats.cfg` gives `DceRpc`'s; theorems
about `MessageSpec` hold whatever they are.

`Formats` names what does not survive, and its properties are stated but for it:

* `Lost`: the client's *PreviousSessionId* and notify buffer length, which the two sides place at
  different widths or offsets, and most of a lease break.
* `Reached`: what lies behind the second entry of a listing, or the second stream of a file. The
  encoders of the replies write *NextEntryOffset* from the start of the buffer
  (smb2-cmd-query-directory.c:331, smb2-data-file-info.c:244), the decoders add it to where they
  are (libsmb2.c:340, smb2-data-file-info.c:196). For the second entry that is the same; the third
  is looked for too far behind. `MCFormats` has listings and chains of three and four, and
  `ServersListing`, which is laid out as the protocol has it and arrives whole.
* `Unwelcome`: messages the receiver's code refuses although the sender's code builds them, a READ
  with channel information, SET_INFO outside passthrough, some replies of QUERY_INFO.
* `Overstated`: messages whose decoder asks for bytes that were not laid: an IOCTL reply without
  output, or with an input, which the encoder counts at smb2-cmd-ioctl.c:214 and does not lay and the
  decoder adds at :301; an error whose byte count the encoder writes at smb2-cmd-error.c:82 without
  any data.
* `FreesTwice`: a listing in which an entry without a name stands beside one with a name. The
  pointer to the converted name is not reset, and is freed once more (smb2-cmd-query-directory.c:382).
  Such a message is `aborted`, or goes on if the allocator did not notice.

The listing replies and streams are server code, which NativeSMB does not run, and most of the others
are requests it does not send or replies it does not ask for; an IOCTL reply without output it may get
while it lists shares. Two forms of `Overstated` were found by proving `FramesFit`.

What a read or write asks for is `Clamp`ed by credits and largest transfer. A count of 0 wraps in the
division (libsmb2.c:1546), and so it asks for all that the credits pay for; no credits leave no bytes,
where the server's requests have several credits, and otherwise one request that waits for its credit.
`Affordable` and `ChargeCovers` are stated for these too.

Left out: allocation failure, signatures and encryption (`Smb2Receive` has where they apply), the
contexts of CREATE and NEGOTIATE as more than bytes, the calls of LSA, tokens of authentication.

### `NameResolution`

`inbox` is what dns_sd has queued per family; `Drain` processes a ready query's whole batch, as
`process()` does, then `Drained` settles the failed queries, and `Decide`/`Wait` ask the policy.
Time is in slices of 50 ms and passes only in poll. dns_sd is external.

## Runs

| Run | Configuration | What it shows |
|---|---|---|
| `pdu` | 3 single commands, timeout 1 tick, up to 2 credits | nothing dangling, nothing lost, the contract refined (one callback each, all aborted by destruction), queues settle |
| `pdu_compound` | 3 PDUs in chains of up to 3, callers that free after the callback, no timeout | order of a chain's callbacks, whole frames one after the other, owned PDUs live |
| `receive` | two frames of one or two responses of seven shapes, sizes 1, 2 and 1 for length, header and transform header | on the boundaries, none passed over, protection, every frame ends |
| `pipelines` | 2 operations at a time, 3 in all, one handle, listings of up to 2 batches, any status in any answer | one result per operation, records live as long as they are needed, first failures reported, listings whole, everything ends unless a NULL payload is read |
| `sync` | 3 calls of any kind, made after failed ones too | late touches of a freed record by two calls' callbacks only, results of the call's own operation, records given back |
| `upload` | 2 writes, 2 openings for deletion, all other clients | whole files, links spared, cleaned up unless obstructed, ends |
| `transfer` | 2 guarded directories, a file of 2 pieces and 3 versions, 2 operations | nothing outside the tree, one version, ends |
| `connect` | up to 3 addresses, 3 polls in all, 2 per attempt, 2 legs, any dialect or none | rejection final and reported, fair share of time, policy held, ends |
| `resolve` | 2 IPv4 and 1 IPv6 address, 2 answers per family, deadline 3, grace 2 | soundness of the result, grace, cancel within a slice, ends |
| `formats` | every message of both directions with short and long names, buffers and structures, listings and streams of up to 4, counts and credits from 0; DCE/RPC in both widths and byte orders, in fragments; names of up to 3 units | what is encoded is decoded, accepted, inside the frame, paid for; names fit their room |

Runs that expect a violation each check one sentence the code or its documentation states:

| Run | Sentence | What happens |
|---|---|---|
| `connect_encrypted_share` | share-required encryption is honored | the response that asks for it turns encryption on and is then refused for being unencrypted; the connect fails |
| `connect_sockets` | "Remove the fd from the connecting_fds array" | `memmove` is told a number of entries and moves bytes: of four sockets one is doubled and one lost |

Some modules hold further definitions under Properties that no run lists: invariants that a
theorem states instead (`AtMostOnce`, `NoLeftover`, `ReplyWhole`, …), and these sentences, which
the models reach violations of when they are given to TLC:

| Definition | Sentence | What happens |
|---|---|---|
| `Smb2Pdu!EveryCommandEnds` | a command is aborted after the timeout | its PDU left the wait queue with the first bytes of its reply; the sweep does not see it |
| `Smb2Pdu!OwnedLive`, with `Timeout = 1` in `PduCompound.cfg` | the caller frees its PDU | the timeout sweep has freed it already |
| `SmbUpload!NoPartialLeft` | no partial file is left | a cancel during the create runs no cleanup, and the server may still create |
| `Smb2Receive!GenuineAccepted` | where the next response of a chain starts is recorded | it is recorded in a local: after a pause of the socket a good signature is found wrong |
| `NameResolution!HostMeansNegative` | `.host` needs two negative answers or the deadline | a withdrawn address leaves its family settled |
| `ClientPipelines!RefusedNotTold` | after an error the callback will not be invoked | stat, truncate and rename call it when their third command cannot be built |
| `SyncCalls!NoLateTouch` | no callback uses a record its call has freed | `smb2_close` and `smb2_opendir` free theirs when the wait fails, and a later call's wait runs their callback |
| `SyncCalls!DisconnectWaits` | 0: disconnected successfully | the record still says finished from the connect, and the call returns at once |
| `SyncCalls!OpenRecordFreed` | the PDU frees the record of `smb2_open` | it is never told to |

Seen in the models but outside these runs: freeing a PDU while its reply is being received (which
libsmb2.h allows) leaves `smb2->pdu` pointing at it; destroying a context frees the requests that
hang from a queued head without calling them back; the cleanup of a failed upload opens by name,
and may delete the file another client put there after removing the upload's; a failed query of a
listing, and every share enumeration, leave a handle open on the server; a guard that throws keeps
its handle until `close()`. NativeSMB does not do the first; the others are listed as hazards.

**Bounds.** Three PDUs give a queue with a head, a middle and an end, a command being received
while another waits and a third is queued by its callback; a chain of three has a member with
both neighbours. Two credits with charges 0 and 1 let the queue stand still and move again. Two
writes give a first, a middle and a final offset; two openings give a retry and its limit. Three
addresses give a first, a middle and a last, with time for one and a half attempts, so that one
is cut short and one goes untried. Two responses
give a first and a last of a chain, with every pair of shapes, and a second frame shows what the
first left behind; the sizes differ where the code confuses them at its peril (a transform header
is shorter than a header). Two
addresses to keep, of three, reach the cap with both families. Two operations on one handle give
every pair of callbacks in flight, a third one a handle that is used again; three calls give one
that was given up, a second whose wait runs its callback and that may be given up too, and a third
in the memory of either, or a disconnect behind a connect. Two directories give
a link above and below one that is held, three versions a rewriting before and after the one that
was seen. Four addresses are the fewest of which the array loses one. A message is a single state,
so the bounds of `formats` are its inputs: lengths, counts and credits of 0, 1 and several, odd and
even, at the limits of alignment and of 64 KiB, which is where the code's arithmetic turns, and chains
of three and four entries, because those of two hide from where an offset is counted. No body of the
run is over 64 KiB, so the comparisons at 16 bits never turn there. Each bound is a constant,
and the theorems hold for all values of it.

**Fairness.** The worker: `Smb2Pdu` assumes that the application keeps servicing the context
(`libsmb2.h` asks for one call a second; `command()` polls every 50 ms), that callbacks return,
that reads and writes end when the socket would block, and that time passes. `SmbUpload`,
`GuardedTransfer`, `SmbConnect` and `NameResolution` assume only that the worker moves on, which
every wait with a timeout makes it do. `Smb2Receive` assumes that the bytes of a frame all
arrive and that the worker comes back to the socket. `SmbUpload` also assumes that the server
notices a closed connection. `ClientPipelines` assumes that the caller destroys the context in the
end and that destruction runs to its end, but no answer. `SyncCalls` states that the thread leaves
its wait. Nothing is assumed of a server's answers, of dns_sd or of other clients.

Deadlock is checked in the runs of `Smb2Pdu`, `Smb2Receive`, `SmbUpload`, `SmbConnect`,
`NameResolution` and `Formats`, where a finished system stutters by an explicit `Done` or
`Returned`, or starts over. `ClientPipelines`, `SyncCalls`, `GuardedTransfer` and
`ConnectingSockets` really stop, with the context gone or the connection closed, and their
configurations say so.

## Proofs

The constants' assumptions are `PduConstants`, `ReceiveConstants` (the frames are well formed: each
response starts where the one before it ends), `ConnectConstants`, `UploadConstants`,
`TransferConstants`, `CallsAssumption`, `ResolutionConstants`, `MessagesAreOfSizes` and
`NamesAreUnits`; TLC evaluates each in a run. `MessagesAreOfSizes` says of messages what the types
of the C structures and the callers say: lengths are natural numbers, names are bytes, counts
and credits are natural numbers and a largest transfer is not 0, a server that supports multi-credit operations
speaks a dialect above 2.02, a length is no more than 16 bits can charge for. The last is
`Chargeable`, and is needed: `Charge` is cut at 16 bits, so a length in the last 64 KiB below 4 GiB
would be charged nothing. `NamesAreUnits` says that names come from the wire two bytes at a time.

* `Smb2PduProofs`. `TypeCorrect` needs nothing else; its one hard case is that credits stay
  natural (a chain is written only if its whole charge fits). The safety theorems assume
  `SafeUse`. `NoDangling` is not inductive: freeing a PDU also frees what hangs from it, so one
  must know that nothing does unless it is the head of a queued chain, that the two queues and
  `smb2->pdu` are disjoint (but for the out-of-order reply, which only fails the call), and
  where a callback may be running. `IInv` says this in three parts: `Places`, `Chains`,
  `Callbacks`. `EngineInvariant` proves it inductive with one step per action;
  `NothingDangles`, `CalledOnce` and `NoneLeftOver` follow.

  Chains of any length are proved about where `Timeout = 0`, which is the setting of `pdu_compound`:
  `CompoundsInOrder`, `OwnedStayLive` and the action property `FramesStayWhole`. With a timeout the
  last two are false: the sweep frees a PDU whoever owns it, and takes one off that is half written.
  `CompoundOrderInService` says nothing of the queues, so it needs `Following`: the PDU behind
  which another hangs is queued under the same head and does not wait longer than that one.
  `BegunFirst` says that the chain with bytes on the wire is the first of the out queue, and gives
  `FramesWhole`. `Untimed` is these and `OwnedKept`, on top of `IInv`.

  The last part assumes `Alone`: safe use, and no compounds (with them the contract is false:
  destruction frees what hangs from a queued head without calling it back). `Kept` adds to the
  invariant where a command not yet called back must be. `NoneLost`, `EveryoneAborted` and the
  refinement `ContractImplemented` follow, with each engine step mapped to a contract step or a
  stutter.
* `WireProofs`, of what is on the wire, in four parts.

  *The receiver* (`Smb2Receive`). None of the properties is inductive: that a header is found follows
  from where the last response ended, which follows from what was asked for, which follows from the
  header. `IInv` ties count, position and target to the response being read (`Counted`,
  `Outside`, `Targets`), says what became of the responses decoded so far (`Decoded`) and what is
  known of protection and of the start of the signed part (`OneProtection`, `Signing`). The proof
  has one step per action; `Layout` gives the arithmetic of a frame. `FramesAligned`,
  `RepliesWhole`, `NoneSkipped`, `PolicyEnforced` and `RefusalsAreExplained` follow for frames of
  any number of responses of any lengths.

  *The charge* (`Formats`). `MessageWay` is the invariant: what travels is a message that was asked
  for, as its encoder laid it (`OnItsWay`). `Charged` is the arithmetic of one length, `Clamped` that
  of what `smb2_pread_async` and `smb2_pwrite_async` make of a count: `MessagesCharged`, and
  `TransfersAffordable` for every count, credit and largest transfer, none and no credit among them.

  *Names* (`Unicode`). Both directions are recursions over a sequence, for which the library's
  theorems cannot be used. `Induction` and `DownInduction` over intervals come from the
  well-foundedness of strict inclusion on finite sets, `ChainExists` and `OneChain` say that a
  recursion from the end of a sequence has one solution. `NameTakesItsRoom`: for every sequence of
  16-bit units, paired or not, the bytes written are as many as were reckoned. `NameReadBack`: the
  decoder makes of them the units again, with U+FFFD for half a pair; `PlaceBack` is the step, by
  the four kinds of a code point. `NamesFit` is the property of the run.

  *Frames* (`Smb2Wire` and the codecs). `PlacesOfParts` says where the vectors of a body lie,
  `PaddedLaid` that a body holds its cells and ends behind its parts, `FieldRead` that the cell laid
  at a place is what is read there if no other overlaps it (`Apart`), `Clear` and `FieldClear` that
  nothing laid is read as zero. One lemma per encoder and its decoder then says that the decoder
  finds in the frame what it asks for (`Roomy`): `TreeConnectRequestFits` … `BreakFits` for requests,
  `ErrorReplyFits` … `QueryInfoReplyFits` for replies. `RequestFits` and `ReplyFits` are their
  dispatch, `HeaderRead` says that the dispatch is on the command that was sent, and `AskedOnce` is
  what has to be added to `OnItsWay`: `FramesFit`, for messages with buffers, names and listings of any lengths.
  A field holds its number whole there; one that does not fit its width, which only a name
  over 64 KiB or more than 65535 locks reach, is not cut.
* `SmbConnectProofs`. The invariant adds what each stage knows of signing and sealing
  (`StagesKnow`) and how much time the addresses tried so far had (`Budget`). `PolicyAlwaysHeld`,
  `RejectionIsReported`, the action properties `RejectionEndsConnect` and `OthersAreTried`, and
  `AddressesGetTheirShare` follow, for any number of addresses and any timeouts.
* `SmbUploadProofs`. `Chunks` says that the server has written what was acknowledged, but for
  the one answer not yet looked at, and gives `FinishedIsWhole`. `Grip` says that a cleanup that asks
  for deletion has the handle that keeps the file in its place, `Marks` that the deletion mark is on
  a file of an upload whose create returned: `LinksAreSpared` and `CleanupAfterCreate`. `Removal`
  says that what told the cleanup it was done was true then and stays so: `FailureIsCleanedUp`. One
  lemma per part, with one step per action of the worker, the server and the other clients.
* `GuardedTransferProofs`. `Walk` ties the component being opened to the handles held so far;
  with `GuardsHold` it makes every open lead into the tree (`HeldIsInside`). `Pinned` says that the
  handle last opened keeps what it is on, `OneVersion` that nobody writes an open file.
  `NothingOutside`, `OneWholeVersion` and `DirectoriesStay` follow for paths of any depth and files
  of any size.
* `SyncCallsProofs`. Most of what is known ends with the first use of a freed record, so the
  invariant is `Order` (which operations may be pending), the two properties, and `Clean` as long as
  `touched` is empty: a pending operation finds its record unfinished, or is of an `smb2_opendir` or
  `smb2_close` that gave up and freed it (`Reachable`), the waiting call has its record (`InCall`), a
  finished one says what an operation ended with (`OwnFinish`), and who has a record that is still
  allocated (`Holder`). `TouchedLate`, `ResultsAreOwn` and `RecordsComeBack` follow for any
  number of calls.
* `ClientPipelinesProofs`, for any number of operations and handles. An operation is `InFlight`,
  with one of the `Stages` of its name in its queue, its record alive and nothing told, or `Ended`,
  with one result told (none for a compound that was dropped unsent). `ToldOnce` and `RecordLives`
  say what the two have in common and are not inductive without the stage: which callback runs next
  decides whether it tells, asks for the next command or frees. What a record knows of its CREATE
  (`CreateRecorded`) and of its first failure (`FailureRecorded`) gives `FirstFailureReported`, with
  what an END_OF_FILE hides apart (`Excused`); that every batch is in the record when the listing is
  handed over, and that its handle is off `opened`
  (`DirectoryClosed`), give `ListingWhole`. `HandleOwned` says that an open and a close have their
  handle to themselves, which keeps any handle from being freed twice. One lemma per callback, one
  per step.
* `NameResolutionProofs`. What the policy makes of a batch is a fold over its answers. The
  library's induction theorems cannot be used for it (they take an operator as a parameter), so the
  module states its own about sets: `Induction` over a set of numbers follows from the
  well-foundedness of strict inclusion on finite sets, `FoldExists` says that the function by which
  the community modules define a fold exists, `FoldRule` that what holds before every answer and is
  kept by it holds after the last. `WithoutKeeps`, `BatchApplied` and `BatchWhole` are its uses,
  `AlternateAt` the arithmetic of the two lists' alternation. The inductive invariant `IInv` adds to
  the types that the lists hold addresses read and not withdrawn, no two alike (`Lists`), and when
  queries are ready or failed (`Phase`). `ResolvedSound`, `GraceIsKept` and `NoFamilyCrowdedOut`
  follow for any number of answers in batches of any size. `NothingIsLost` counts besides: an
  address is left out only of a list that is full, so more answers came than it has room
  (`Whole`). `CancelIsPrompt` needs the clock alone.

Every invariant that a passing run checks is the conclusion of a theorem, but for two of `Formats`.
Model-checked only are:

* what must eventually happen (`QueuedSettles`, `EveryFrameEnds`, `EndsTold`, `OpEnds` and the three
  properties `Ends`): liveness under fairness;
* `RoundTrip` and `OwnAccepted` of `Formats`. The first is about every field of every structure, and
  of a DCE/RPC call what a recursive coder makes of it: induction over data. The second does not
  hold beyond the run's bounds, because the code's own comparisons are made at 16 bits
  (`spl % 65536` in the decoders of the replies to NEGOTIATE and SESSION_SETUP and of the request
  QUERY_DIRECTORY): a message over 64 KiB may be refused though it is well formed. `FramesFit`
  holds for those too;
* the two violations, and the sentences of the table above.

## Plan

What is left, in this order:

1. `SmbCommand`: the event loop of `command()` over the engine, and the lifetime of `Reply` and
   of the I/O buffers when a deadline or a cancel destroys the context. The modules of the
   operations have its failures, but not the memory.
2. The stack of tree ids, for several shares on one context, and the process-wide list of
   contexts.
3. The calls of LSA, BER lengths and the tokens of SPNEGO and NTLMSSP as operators.
4. `OwnAccepted` for messages below 64 KiB, on the lemmas that `FramesFit` rests on; and of
   `RoundTrip`, the fields of the fixed parts, which are `FieldRead` again.

## Not modelled

Digests, MACs and ciphers (pure arithmetic with published vectors); the bytes of NTLMSSP, SPNEGO
and Kerberos tokens, and of the calls of LSA; libsmb2's server mode as a process (its encoders and
decoders are in the codecs), which NativeSMB does not use; the stack of tree ids, NativeSMB
connecting one share per context; URL, user and credential parsing; the platform shims, error
tables and memory allocation; the tests, which were read for what they say of intended behaviour.
