----------------------------- MODULE SmbConnect -----------------------------
(***************************************************************************)
(* SMBTransport.init: the server's addresses tried one after the other,    *)
(* and the handshake that libsmb2 drives on each of them (connect_cb,      *)
(* negotiate_cb, session_setup_cb, tree_connect_cb in libsmb2.c).          *)
(*                                                                         *)
(* Time is counted in the 50 ms polls of command()'s event loop and passes *)
(* only there. What the server answers is arbitrary; a reply that is never *)
(* sent is a server that stays silent until the deadline.                  *)
(***************************************************************************)
EXTENDS Integers

CONSTANTS
    MaxAddresses, \* bound: addresses the name resolved to
    Timeout,      \* the whole connect's, in polls
    Attempt,      \* one attempt's when there are several addresses (3 s)
    MaxLegs       \* bound: authentication messages one server asks for

ASSUME ConnectConstants ==
    /\ MaxAddresses \in Nat \ {0} /\ Timeout \in Nat \ {0}
    /\ Attempt \in Nat \ {0} /\ MaxLegs \in Nat \ {0}

VARIABLES
    guest, encrypt, \* the connection's settings: guest login, encryption required
    addresses,      \* how many addresses there are
    tried,          \* how many of them were tried
    pc,             \* "next": the loop's head; "attempt": in command(); "ended"
    now, attemptEnd,
    cancelled,
    stage,          \* what the context is waiting for
    legs,           \* AUTHENTICATE messages sent on this connection
    dialect,        \* 0: none; 1: a number below 0x0202; 2: SMB 2.x; 3: SMB 3.x
    sign, seal,     \* the context signs requests, encrypts them
    anonymous,      \* the server made the session a guest or null session
    outcome,        \* what init returned or threw
    last,           \* lastFailure
    rejected,       \* history: addresses whose server, with a dialect, refused the login
    sent,           \* history: addresses to which the credentials were sent
    asked           \* history: the tree this attempt was given asks for encryption

setting == <<guest, encrypt, addresses>>
context == <<stage, legs, dialect, sign, seal, anonymous>>
ending  == <<outcome, last>>
history == <<rejected, sent, asked>>
vars    == <<setting, tried, pc, now, attemptEnd, cancelled, context, ending, history>>

Failures == {"host", "port", "timeout", "connection", "authentication", "accessDenied",
             "cancelled"}

TypeOK ==
    /\ guest \in BOOLEAN /\ encrypt \in BOOLEAN /\ ~ (guest /\ encrypt)
    /\ addresses \in 1 .. MaxAddresses /\ tried \in 0 .. addresses
    /\ pc \in {"next", "attempt", "ended"}
    /\ now \in 0 .. Timeout /\ attemptEnd \in 0 .. Timeout
    /\ cancelled \in BOOLEAN
    /\ stage \in {"none", "tcp", "negotiate", "setup", "tree"}
    /\ (stage # "none") <=> (pc = "attempt")
    /\ pc = "attempt" => tried > 0
    /\ legs \in 0 .. MaxLegs /\ dialect \in {0, 1, 2, 3}
    /\ sign \in BOOLEAN /\ seal \in BOOLEAN /\ anonymous \in BOOLEAN
    /\ outcome \in Failures \cup {"none", "done"}
    /\ last \in {"host", "port", "timeout", "connection"}
    /\ rejected \subseteq 1 .. addresses /\ sent \subseteq 1 .. addresses /\ asked \in BOOLEAN

Init ==
    /\ guest \in BOOLEAN /\ encrypt \in BOOLEAN /\ ~ (guest /\ encrypt)
    /\ addresses \in 1 .. MaxAddresses /\ tried = 0
    /\ pc = "next" /\ now = 0 /\ attemptEnd = 0 /\ cancelled = FALSE
    /\ stage = "none" /\ legs = 0 /\ dialect = 0
    /\ sign = FALSE /\ seal = FALSE /\ anonymous = FALSE
    /\ outcome = "none" /\ last = "host" /\ rejected = {} /\ sent = {} /\ asked = FALSE

UserCancels ==
    /\ ~ cancelled /\ pc # "ended"
    /\ cancelled' = TRUE
    /\ UNCHANGED <<setting, tried, pc, now, attemptEnd, context, ending, history>>

-----------------------------------------------------------------------------
(* The end of an attempt *)

NoContext ==
    /\ stage' = "none" /\ legs' = 0 /\ dialect' = 0
    /\ sign' = FALSE /\ seal' = FALSE /\ anonymous' = FALSE

Throw(failure) == pc' = "ended" /\ outcome' = failure /\ UNCHANGED last

\* Mutation: the context is left to the next attempt.
CaughtAsOpen(failure) ==
    /\ UNCHANGED context
    /\ IF failure \in {"port", "timeout", "connection"}
         THEN pc' = "next" /\ last' = failure /\ UNCHANGED outcome
         ELSE Throw(failure)

\* init's catch: the context is destroyed; some failures go on to the next address.
CaughtAs(failure) ==
    /\ NoContext
    /\ IF failure \in {"port", "timeout", "connection"}
         THEN pc' = "next" /\ last' = failure /\ UNCHANGED outcome
         ELSE Throw(failure)

\* Mutation: the status libsmb2 recorded is not looked at.
RefineNothing(failure, recorded) == failure

\* Mutation: a login status is believed whatever command recorded it.
RefineAnyStatus(failure, recorded) ==
    IF recorded = "login" THEN "authentication" ELSE failure

\* handshakeFailure(): a login status recorded after NEGOTIATE ends the connect.
HandshakeFailure(failure, recorded) ==
    IF recorded = "login" /\ dialect # 0 THEN "authentication" ELSE failure

Fail(failure, recorded) ==
    /\ CaughtAs(HandshakeFailure(failure, recorded))
    /\ UNCHANGED <<setting, tried, now, attemptEnd, cancelled>>

\* A callback that closed the context makes smb2_service_fd fail, so that its
\* own errno is lost: the event loop reports .connection.
Refused(recorded) == Fail("connection", recorded)

-----------------------------------------------------------------------------
(* The loop over the addresses *)

\* Mutation: one silent address may take all the time there is.
AttemptWhole == Timeout - now

AttemptTimeout ==
    IF addresses > 1 /\ Attempt < Timeout - now THEN Attempt ELSE Timeout - now

NextAddress ==
    /\ pc = "next" /\ ~ cancelled /\ now < Timeout /\ tried < addresses
    /\ pc' = "attempt" /\ tried' = tried + 1
    /\ attemptEnd' = now + AttemptTimeout
    /\ stage' = "tcp" /\ legs' = 0 /\ dialect' = 0 /\ anonymous' = FALSE
    /\ sign' = ~ guest /\ seal' = encrypt
    /\ asked' = FALSE
    /\ UNCHANGED <<setting, now, cancelled, ending, rejected, sent>>

NoMoreAddresses ==
    /\ pc = "next" /\ tried = addresses
    /\ Throw(last)
    /\ UNCHANGED <<setting, tried, now, attemptEnd, cancelled, context, history>>

OutOfTime ==
    /\ pc = "next" /\ ~ cancelled /\ tried < addresses /\ now >= Timeout
    /\ Throw("timeout")
    /\ UNCHANGED <<setting, tried, now, attemptEnd, cancelled, context, history>>

Cancel ==
    /\ cancelled
    /\ \/ pc = "next" /\ tried < addresses
       \/ pc = "attempt"
    /\ NoContext /\ Throw("cancelled")
    /\ UNCHANGED <<setting, tried, now, attemptEnd, cancelled, history>>

-----------------------------------------------------------------------------
(* command(): the event loop *)

\* poll() returned with nothing to do.
Poll ==
    /\ pc = "attempt" /\ ~ cancelled /\ now < attemptEnd
    /\ now' = now + 1
    /\ UNCHANGED <<setting, tried, pc, attemptEnd, cancelled, context, ending, history>>

\* Mutation: the deadline is not looked at while the server is silent.
ExpireNever == FALSE /\ UNCHANGED vars

Expire ==
    /\ pc = "attempt" /\ ~ cancelled /\ now >= attemptEnd
    /\ Fail("timeout", "none")
    /\ UNCHANGED history

\* An event is serviced: the cancel and the deadline were sampled before poll().
At(s) == pc = "attempt" /\ stage = s

\* The errno of a connect: refused or unreachable, timed out, EACCES, EPERM, another.
ConnectFails ==
    /\ At("tcp")
    /\ \E failure \in {"port", "timeout", "authentication", "accessDenied", "connection"} :
           Fail(failure, "none")
    /\ UNCHANGED history

\* The connection is lost, or the event loop or an allocation fails; or libsmb2
\* times a request out, which it counts in whole seconds, before the deadline.
Lost ==
    /\ pc = "attempt"
    /\ \E failure \in {"connection", "timeout"} : Fail(failure, "none")
    /\ UNCHANGED history

Continue(s) ==
    /\ stage' = s
    /\ UNCHANGED <<setting, tried, pc, now, attemptEnd, cancelled, ending>>

Connected ==
    /\ At("tcp") /\ Continue("negotiate")
    /\ UNCHANGED <<legs, dialect, sign, seal, anonymous, history>>

NegotiateRejected ==
    /\ At("negotiate")
    /\ \E recorded \in {"login", "other"} : Refused(recorded)
    /\ UNCHANGED history

\* The dialect is the server's, whatever was offered; it may even name none.
Negotiated ==
    /\ At("negotiate")
    /\ \E d \in {0, 1, 2, 3}, signs \in {"no", "enabled", "required"}, seals \in BOOLEAN :
         IF \/ seal /\ d = 3 /\ ~ seals
            \/ sign /\ signs = "no"
           THEN /\ CaughtAs("connection")
                /\ UNCHANGED <<setting, tried, now, attemptEnd, cancelled>>
           ELSE /\ Continue("setup")
                /\ dialect' = d
                /\ sign' = (~ seal /\ (sign \/ signs = "required"))
                /\ UNCHANGED <<legs, seal, anonymous>>
    /\ UNCHANGED history

\* MORE_PROCESSING_REQUIRED: the credentials are sent.
Challenged ==
    /\ At("setup") /\ legs < MaxLegs
    /\ Continue("setup")
    /\ legs' = legs + 1 /\ sent' = sent \cup {tried}
    /\ UNCHANGED <<dialect, sign, seal, anonymous, rejected, asked>>

SetupRejected ==
    /\ At("setup")
    /\ \E recorded \in {"login", "other"} :
         /\ Refused(recorded)
         /\ rejected' = IF recorded = "login" /\ dialect # 0 THEN rejected \cup {tried}
                         ELSE rejected
    /\ UNCHANGED <<sent, asked>>

\* Mutation: a guest session is accepted whoever asked for it.
GuestFallbackAccepted(asGuest) == FALSE

\* Only a guest may be answered with a guest or null session.
GuestFallback(asGuest) == asGuest /\ ~ guest

\* Signing needs a session key, which a server that asked for no credentials has not given.
SetupDone ==
    /\ At("setup")
    /\ \E asGuest, encrypted, keyed \in BOOLEAN :
         /\ keyed => legs > 0
         /\ IF GuestFallback(asGuest) \/ (sign /\ ~ encrypted /\ ~ keyed)
              THEN Refused("none")
              ELSE /\ Continue("tree")
                   /\ seal' = (seal \/ encrypted) /\ sign' = (sign /\ ~ encrypted)
                   /\ anonymous' = asGuest
                   /\ UNCHANGED <<legs, dialect>>
    /\ UNCHANGED history

TreeRejected ==
    /\ At("tree")
    /\ \E recorded \in {"login", "other"} : Refused(recorded)
    /\ UNCHANGED history

\* init's last guard
Policy ==
    /\ dialect >= 2
    /\ guest \/ sign \/ seal
    /\ encrypt => dialect = 3 /\ seal

Success ==
    /\ pc' = "ended" /\ outcome' = "done" /\ stage' = "none"
    /\ UNCHANGED <<setting, tried, now, attemptEnd, cancelled, legs, dialect, sign, seal,
                   anonymous, last>>

\* A DFS tree is refused, and so is an encrypted share without the means.
TreeRefused ==
    /\ At("tree")
    /\ Refused("none")
    /\ UNCHANGED history

\* The response of a share that asks for encryption turns it on while the response
\* is decoded: the receive policy then refuses the response, unless it was
\* encrypted itself, and the callback that would honor the share never runs.
TreeConnected ==
    /\ At("tree")
    /\ asked' \in IF dialect = 3 THEN BOOLEAN ELSE {FALSE}
    /\ IF asked' /\ ~ seal THEN Refused("none")
       ELSE IF Policy THEN Success
       ELSE Fail("authentication", "none")
    /\ UNCHANGED <<rejected, sent>>

-----------------------------------------------------------------------------

Loop    == NextAddress \/ NoMoreAddresses \/ OutOfTime \/ Cancel \/ Poll \/ Expire
Events  == \/ ConnectFails \/ Lost \/ Connected \/ NegotiateRejected \/ Negotiated
           \/ Challenged \/ SetupRejected \/ SetupDone \/ TreeRejected
           \/ TreeRefused \/ TreeConnected

Returned == pc = "ended" /\ UNCHANGED vars

Next == Loop \/ Events \/ UserCancels \/ Returned

Spec == Init /\ [][Next]_vars

\* The worker always moves on; the server need not.
FairSpec == Spec /\ WF_vars(Loop)

-----------------------------------------------------------------------------
(* Properties *)

\* Once a server refused the login, the credentials are sent to no other address:
\* its addresses reach the same server and would count toward its lockout (#249).
\* (A server that answered NEGOTIATE without a dialect is not believed.)
RejectionIsFinal == [][rejected # {} => sent' = sent]_vars

\* ... and the refusal is what init throws, at once.
RejectionReported == rejected # {} => pc = "ended" /\ outcome = "authentication"

\* An address whose server did not get as far as NEGOTIATE's answer never ends
\* the connect as a refused login, whatever status it sent: the next one is tried.
FallbackKept ==
    [][pc = "attempt" /\ stage = "negotiate" /\ pc' = "ended" => outcome' = "cancelled"]_vars

\* An address is left untried for lack of time only when those before it had
\* their whole share: one silent address cannot use up the others' time.
EveryAddressTried ==
    outcome = "timeout" /\ tried < addresses => tried * Attempt >= Timeout

\* A transport that was made is what its settings ask for: signed or encrypted
\* unless for a guest, of a dialect of SMB 2 or later, encrypted by SMB 3 when that
\* is required, and never a session the server turned into a guest's.
PolicyHeld ==
    outcome = "done" =>
        /\ guest \/ sign \/ seal
        /\ dialect >= 2 /\ (encrypt => seal /\ dialect = 3)
        /\ ~ guest => ~ anonymous

\* README.md: "share-required encryption is honored". A share that asks for it, of
\* a server that has the means, is connected, and encrypted.
ShareEncryptionHonored == asked => outcome = "done" /\ seal

\* init returns or throws, however silent the servers are.
Ends == <>(pc = "ended")
=============================================================================
