-------------------------- MODULE ConnectingSockets --------------------------
(***************************************************************************)
(* socket.c before a connection stands: smb2_connect_async orders the      *)
(* addresses of a name so that the families alternate, and tries the first.*)
(* While none has connected, the caller's timer starts the next one beside *)
(* it, a socket that fails is replaced by the next, and the first to       *)
(* connect becomes smb2->fd and the others are closed.                     *)
(*                                                                         *)
(* The socket of the i-th address tried is i, a descriptor below 256: of a *)
(* descriptor of four bytes the first one then holds all of it.            *)
(* NativeSMB passes numeric addresses, one each; a name may have several.  *)
(***************************************************************************)
EXTENDS Naturals, Sequences, FiniteSets, SequencesExt

CONSTANT MaxAddrs \* bound: the addresses that getaddrinfo returns for one name
Resolved == UNION {[1 .. n -> {4, 6}] : n \in 1 .. MaxAddrs}

VARIABLES
    addrinfos, \* the addresses in the order they are tried
    next,      \* next_addrinfo, 0 for NULL
    fds,       \* connecting_fds
    fd,        \* smb2->fd, 0 for an invalid socket
    socket,    \* of each address: "none", "connecting", "ready", "error", "closed"
    connectCb, \* "none", "armed", or what the callback was called with
    phase      \* "idle", "connecting", "connected", "failed": smb2_service_fd returned -1, "gone"
vars == <<addrinfos, next, fds, fd, socket, connectCb, phase>>

(***************************************************************************)
(* interleave_addrinfo. Each round moves "next" one entry on, whether the  *)
(* entry stays, becomes the new base or is hooked in behind the base.      *)
(***************************************************************************)
Moved(list, n, base) ==
    SubSeq(list, 1, base) \o <<list[n]>> \o SubSeq(list, base + 1, n - 1)
        \o SubSeq(list, n + 1, Len(list))
InterleaveAddrinfo(list) ==
    LET Round(acc, n) ==
            CASE acc.list[n] = acc.list[acc.base] -> acc
              [] acc.list[n] # acc.list[acc.base] /\ n = acc.base + 1 -> [acc EXCEPT !.base = n]
              [] OTHER -> [list |-> Moved(acc.list, n, acc.base), base |-> acc.base + 2]
    IN  FoldLeft(Round, [list |-> list, base |-> 1], [i \in 1 .. Len(list) - 1 |-> i + 1]).list

(***************************************************************************)
(* smb2_close_connecting_fd takes an entry out of the array: memmove is    *)
(* told how many entries follow, and moves as many bytes.                  *)
(***************************************************************************)
SIZEOF_FD == 4
Removed(array, i) ==
    LET bytes   == Len(array) - i
        entries == (bytes + SIZEOF_FD - 1) \div SIZEOF_FD
    IN  [j \in 1 .. Len(array) - 1 |-> IF j \in i .. i + entries - 1 THEN array[j + 1] ELSE array[j]]
CloseConnectingFd(s) ==
    IF \E i \in DOMAIN fds : fds[i] = s
    THEN Removed(fds, CHOOSE i \in DOMAIN fds : fds[i] = s /\ \A j \in 1 .. i - 1 : fds[j] # s)
    ELSE fds

\* connect_async_ai of one address after the other, until one has its connect() under way:
\* socket() or connect() may fail for any of them, and 0 is for all.
FirstStarted(list, base) == (base .. Len(list)) \cup {0}
After(list, k) == IF k < Len(list) THEN k + 1 ELSE 0

NextAddr(base, array, sockets) ==
    \E k \in FirstStarted(addrinfos, base) :
      IF k = 0
      THEN fds' = array /\ socket' = sockets /\ phase' = "failed" /\ UNCHANGED next
      ELSE /\ fds' = Append(array, k) /\ socket' = [sockets EXCEPT ![k] = "connecting"]
           /\ next' = After(addrinfos, k) /\ UNCHANGED phase

\* smb2_connect_async, which has its callback only when a connect() was started.
ConnectAsync ==
    /\ phase = "idle"
    /\ \E list \in Resolved :
         LET order == InterleaveAddrinfo(list)
         IN  /\ addrinfos' = order
             /\ \E k \in FirstStarted(order, 1) :
                  /\ socket' = [i \in DOMAIN order |-> IF i = k THEN "connecting" ELSE "none"]
                  /\ IF k = 0
                     THEN fds' = <<>> /\ next' = 0 /\ phase' = "failed" /\ UNCHANGED connectCb
                     ELSE /\ fds' = <<k>> /\ next' = After(order, k)
                          /\ phase' = "connecting" /\ connectCb' = "armed"
    /\ UNCHANGED fd

\* The network.
Settle(s) ==
    /\ socket[s] = "connecting"
    /\ socket' \in {[socket EXCEPT ![s] = r] : r \in {"ready", "error"}}
    /\ UNCHANGED <<addrinfos, next, fds, fd, connectCb, phase>>

\* smb2_service_fd(-1): the timer of smb2_get_fds, which is set while there is a next address.
StartNext ==
    /\ phase = "connecting" /\ next # 0
    /\ NextAddr(next, fds, socket)
    /\ UNCHANGED <<addrinfos, fd, connectCb>>

\* The callback is called once, and the caller stops.
Called(result) == connectCb' = IF connectCb = "armed" THEN result ELSE connectCb

\* POLLERR, or POLLOUT with an error behind it: the socket makes room for the next address;
\* of the last address it stays where it is.
SocketFailed(s) ==
    /\ phase = "connecting" /\ socket[s] = "error" /\ s \in Range(fds)
    /\ \/ /\ next # 0
          /\ NextAddr(next, CloseConnectingFd(s), [socket EXCEPT ![s] = "closed"])
          /\ IF phase' = "failed" THEN Called("error") ELSE UNCHANGED connectCb
       \/ /\ next = 0 /\ phase' = "failed" /\ Called("error")
          /\ UNCHANGED <<next, fds, socket>>
       \/ /\ phase' = "failed" \* POLLHUP alone
          /\ UNCHANGED <<next, fds, socket, connectCb>>
    /\ UNCHANGED <<addrinfos, fd>>

\* smb2_close_connecting_fds: every entry is closed but that of smb2->fd.
CloseConnectingFds(keep) ==
    /\ socket' = [i \in DOMAIN socket |-> IF i \in Range(fds) \ {keep} THEN "closed" ELSE socket[i]]
    /\ fds' = <<>> /\ next' = 0

\* POLLOUT of the first socket that connected. The events of one that is not in the array any
\* more are dropped.
SocketReady(s) ==
    /\ phase = "connecting" /\ socket[s] = "ready" /\ s \in Range(fds)
    /\ fd' = s /\ CloseConnectingFds(s)
    /\ Called("connected") /\ phase' = "connected"
    /\ UNCHANGED addrinfos

\* smb2_destroy_context.
Destroy ==
    /\ phase \notin {"idle", "gone"}
    /\ IF fd # 0 THEN socket' = [socket EXCEPT ![fd] = "closed"] /\ UNCHANGED <<fds, next>>
       ELSE CloseConnectingFds(0)
    /\ fd' = 0 /\ Called("cancelled") /\ phase' = "gone"
    /\ UNCHANGED addrinfos

Init ==
    /\ addrinfos = <<>> /\ next = 0 /\ fds = <<>> /\ fd = 0 /\ socket = <<>>
    /\ connectCb = "none" /\ phase = "idle"

Next ==
    \/ ConnectAsync \/ StartNext \/ Destroy
    \/ \E s \in DOMAIN socket : Settle(s) \/ SocketFailed(s) \/ SocketReady(s)

Spec == Init /\ [][Next]_vars

(***************************************************************************)
(* Properties.                                                             *)
(***************************************************************************)
Open(s) == socket[s] \in {"connecting", "ready", "error"}

\* socket.c:969, "Remove the fd from the connecting_fds array": the array holds each socket that
\* is open before the connection stands, once, and no socket that was closed. A lost one is never
\* polled nor closed, a doubled one is closed twice.
SocketsTracked ==
    phase = "connecting" =>
        /\ \A s \in DOMAIN socket : Open(s) <=> s \in Range(fds)
        /\ \A i, j \in DOMAIN fds : fds[i] = fds[j] => i = j

=============================================================================
