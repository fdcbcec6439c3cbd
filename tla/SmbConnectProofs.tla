-------------------------- MODULE SmbConnectProofs --------------------------
(***************************************************************************)
(* Proofs about SmbConnect, for any number of addresses and any timeouts.  *)
(***************************************************************************)
EXTENDS SmbConnect, TLAPS

-----------------------------------------------------------------------------
(* Types *)

\* The Boolean part of TypeOK, which the provers handle apart from the numbers.
Flags ==
    /\ guest \in BOOLEAN /\ encrypt \in BOOLEAN /\ cancelled \in BOOLEAN
    /\ sign \in BOOLEAN /\ seal \in BOOLEAN /\ anonymous \in BOOLEAN /\ asked \in BOOLEAN
    /\ ~ (guest /\ encrypt)

\* The rest of TypeOK.
Ranges ==
    /\ addresses \in 1 .. MaxAddresses /\ tried \in 0 .. addresses
    /\ pc \in {"next", "attempt", "ended"}
    /\ now \in 0 .. Timeout /\ attemptEnd \in 0 .. Timeout
    /\ stage \in {"none", "tcp", "negotiate", "setup", "tree"}
    /\ (stage # "none") <=> (pc = "attempt")
    /\ pc = "attempt" => tried > 0
    /\ legs \in 0 .. MaxLegs /\ dialect \in {0, 1, 2, 3}
    /\ outcome \in Failures \cup {"none", "done"}
    /\ last \in {"host", "port", "timeout", "connection"}
    /\ rejected \subseteq 1 .. addresses /\ sent \subseteq 1 .. addresses

\* The two parts are the whole.
LEMMA TypeParts == TypeOK <=> Flags /\ Ranges
BY DEF TypeOK, Flags, Ranges

\* A flag is only ever set to a truth value.
LEMMA FlagsKept == Flags /\ [Next]_vars => Flags'
<1> SUFFICES ASSUME Flags, [Next]_vars PROVE Flags'
  OBVIOUS
<1> USE DEF Flags, setting, context, history
<1>f. ASSUME NEW f, NEW r, Fail(f, r), asked' \in BOOLEAN PROVE Flags'
  BY <1>f DEF Fail, CaughtAs, NoContext
<1>1. CASE NextAddress
  BY <1>1 DEF NextAddress, AttemptTimeout
<1>2. CASE NoMoreAddresses
  BY <1>2 DEF NoMoreAddresses, Throw
<1>3. CASE OutOfTime
  BY <1>3 DEF OutOfTime, Throw
<1>4. CASE Cancel
  BY <1>4 DEF Cancel, Throw, NoContext
<1>5. CASE Poll
  BY <1>5 DEF Poll
<1>6. CASE Expire
  BY <1>f, <1>6 DEF Expire
<1>7. CASE ConnectFails
  BY <1>f, <1>7 DEF ConnectFails, At
<1>8. CASE Lost
  BY <1>f, <1>8 DEF Lost
<1>9. CASE Connected
  BY <1>9 DEF Connected, At, Continue
<1>10. CASE NegotiateRejected
  BY <1>f, <1>10 DEF NegotiateRejected, Refused, At
<1>11. CASE Negotiated
  BY <1>11 DEF Negotiated, At, Continue, CaughtAs, NoContext
<1>12. CASE Challenged
  BY <1>12 DEF Challenged, At, Continue
<1>13. CASE SetupRejected
  BY <1>f, <1>13 DEF SetupRejected, Refused, At
<1>14. CASE SetupDone
  BY <1>f, <1>14 DEF SetupDone, Refused, At, Continue
<1>15. CASE TreeRejected \/ TreeRefused
  BY <1>f, <1>15 DEF TreeRejected, TreeRefused, Refused, At
<1>16. CASE TreeConnected
  BY <1>f, <1>16 DEF TreeConnected, Refused, At, Success
<1>17. CASE UserCancels
  BY <1>17 DEF UserCancels
<1>18. CASE UNCHANGED vars
  BY <1>18 DEF vars
<1> QED
  BY <1>1, <1>2, <1>3, <1>4, <1>5, <1>6, <1>7, <1>8, <1>9, <1>10, <1>11, <1>12, <1>13, <1>14, <1>15, <1>16, <1>17, <1>18
  DEF Next, Loop, Events, Returned

\* The numbers stay in their ranges, and there is a context exactly during an attempt.
LEMMA RangesKept == Ranges /\ [Next]_vars => Ranges'
<1> SUFFICES ASSUME Ranges, [Next]_vars PROVE Ranges'
  OBVIOUS
<1> USE ConnectConstants DEF ConnectConstants, Ranges, Failures, setting, context, ending, history
<1>f. ASSUME NEW f \in Failures, NEW r, Fail(f, r), rejected' \subseteq 1 .. addresses, sent' = sent
      PROVE  Ranges'
  BY <1>f DEF Fail, HandshakeFailure, CaughtAs, NoContext, Throw
<1>1. CASE NextAddress
  BY <1>1 DEF NextAddress, AttemptTimeout
<1>2. CASE NoMoreAddresses
  BY <1>2 DEF NoMoreAddresses, Throw
<1>3. CASE OutOfTime
  BY <1>3 DEF OutOfTime, Throw
<1>4. CASE Cancel
  BY <1>4 DEF Cancel, Throw, NoContext
<1>5. CASE Poll
  BY <1>5 DEF Poll
<1>6. CASE Expire
  BY <1>f, <1>6 DEF Expire
<1>7. CASE ConnectFails
  BY <1>f, <1>7 DEF ConnectFails, At
<1>8. CASE Lost
  BY <1>f, <1>8 DEF Lost
<1>9. CASE Connected
  BY <1>9 DEF Connected, At, Continue
<1>10. CASE NegotiateRejected
  BY <1>f, <1>10 DEF NegotiateRejected, Refused, At
<1>11. CASE Negotiated
  BY <1>11 DEF Negotiated, At, Continue, CaughtAs, NoContext
<1>12. CASE Challenged
  BY <1>12 DEF Challenged, At, Continue
<1>13. CASE SetupRejected
  <2>1. tried \in 1 .. addresses
    BY <1>13 DEF SetupRejected, At
  <2>2. rejected' \subseteq 1 .. addresses /\ sent' = sent
    BY <2>1, <1>13 DEF SetupRejected
  <2> QED
    BY <1>f, <1>13, <2>2 DEF SetupRejected, Refused, At
<1>14. CASE SetupDone
  BY <1>f, <1>14 DEF SetupDone, Refused, At, Continue
<1>15. CASE TreeRejected \/ TreeRefused
  BY <1>f, <1>15 DEF TreeRejected, TreeRefused, Refused, At
<1>16. CASE TreeConnected
  BY <1>f, <1>16 DEF TreeConnected, Refused, At, Success
<1>17. CASE UserCancels
  BY <1>17 DEF UserCancels
<1>18. CASE UNCHANGED vars
  BY <1>18 DEF vars
<1> QED
  BY <1>1, <1>2, <1>3, <1>4, <1>5, <1>6, <1>7, <1>8, <1>9, <1>10, <1>11, <1>12, <1>13, <1>14, <1>15, <1>16, <1>17, <1>18
  DEF Next, Loop, Events, Returned

\* The type invariant is inductive: whichever way an attempt ends, the context
\* is destroyed with it, and time never passes the deadline.
THEOREM TypeCorrect == Spec => []TypeOK
<1>1. Init => Flags /\ Ranges
  <2>1. Init => Flags
    BY DEF Init, Flags
  <2>2. Init => Ranges
    BY ConnectConstants DEF ConnectConstants, Init, Ranges
  <2> QED
    BY <2>1, <2>2
<1>2. (Flags /\ Ranges) /\ [Next]_vars => (Flags /\ Ranges)'
  BY FlagsKept, RangesKept
<1> QED
  BY <1>1, <1>2, TypeParts, PTL DEF Spec

-----------------------------------------------------------------------------
(* What the handshake has learned at each of its stages *)

\* Up to NEGOTIATE's answer there is no dialect, without which no refused login is believed;
\* and past SESSION_SETUP a login that is not a guest's got no guest session.
StagesKnow ==
    /\ stage \in {"tcp", "negotiate"} => dialect = 0
    /\ stage = "tree" /\ ~ guest => ~ anonymous

\* The time used so far is covered by the shares of the addresses tried.
Budget ==
    addresses > 1 \/ tried = 0 =>
        now <= tried * Attempt /\ (pc = "attempt" => attemptEnd <= tried * Attempt)

Ended == outcome # "none" => pc = "ended"

Inductive == Ended /\ StagesKnow /\ RejectionReported /\ PolicyHeld /\ Budget /\ EveryAddressTried

\* No step of the connect loop or of the handshake disturbs it.
LEMMA InductiveKept == TypeOK /\ Inductive /\ [Next]_vars => Inductive'
<1> SUFFICES ASSUME TypeOK, Inductive, [Next]_vars PROVE Inductive'
  OBVIOUS
<1> USE ConnectConstants DEF ConnectConstants
<1>c. /\ pc \in {"next", "attempt", "ended"} /\ (stage # "none" <=> pc = "attempt")
      /\ tried \in Nat /\ addresses \in Nat /\ now \in Nat /\ attemptEnd \in Nat
      /\ guest \in BOOLEAN /\ encrypt \in BOOLEAN /\ Attempt \in Nat /\ Timeout \in Nat
      /\ tried * Attempt \in Nat /\ tried <= addresses
  BY DEF TypeOK
<1> DEFINE Quiet == UNCHANGED <<addresses, tried, now, attemptEnd, guest, encrypt>>
<1>f. ASSUME NEW f \in Failures \ {"none", "cancelled", "host"}, NEW r \in {"none", "login", "other"},
             pc = "attempt", Fail(f, r),
             rejected' = rejected \/ (r = "login" /\ dialect # 0)
      PROVE  Inductive'
  <2>1. rejected = {} /\ outcome = "none"
    BY <1>f DEF Inductive, Ended, RejectionReported
  <2>2. Quiet
    BY <1>f DEF Fail, setting
  <2>3. Ended' /\ outcome' # "done" /\ outcome' # "host"
    BY <1>f, <2>1 DEF Fail, CaughtAs, Throw, HandshakeFailure, Ended, Failures
  <2>4. StagesKnow' /\ PolicyHeld'
    BY <1>f, <2>3 DEF Fail, CaughtAs, NoContext, StagesKnow, PolicyHeld
  <2>5. RejectionReported'
    BY <1>f, <2>1 DEF Fail, CaughtAs, Throw, HandshakeFailure, RejectionReported
  <2>6. Budget' /\ EveryAddressTried'
    <3>1. pc' # "attempt" /\ outcome' # "timeout"
      BY <1>f, <2>1 DEF Fail, CaughtAs, Throw, HandshakeFailure
    <3> QED
      BY <1>c, <2>2, <3>1 DEF Budget, EveryAddressTried, Inductive
  <2> QED
    BY <2>3, <2>4, <2>5, <2>6 DEF Inductive
<1>n. ASSUME pc = "attempt", CaughtAs("connection"), history' = history,
             UNCHANGED <<setting, tried, now, attemptEnd, cancelled>>
      PROVE  Inductive'
  BY <1>f, <1>n DEF Fail, HandshakeFailure, Failures, history
<1>1. CASE NextAddress
  <2>1. /\ outcome' = "none" /\ rejected' = {} /\ pc' = "attempt"
        /\ stage' = "tcp" /\ dialect' = 0
    BY <1>1 DEF NextAddress, Inductive, Ended, RejectionReported, ending, history, TypeOK
  <2>2. Budget'
    <3>1. /\ tried' = tried + 1 /\ now' = now /\ addresses' = addresses /\ now < Timeout
          /\ attemptEnd' = now + AttemptTimeout
      BY <1>1 DEF NextAddress, setting
    <3>2. (tried + 1) * Attempt = tried * Attempt + Attempt
      BY <1>c
    <3>3. addresses > 1 => AttemptTimeout <= Attempt /\ AttemptTimeout \in Nat
      BY <1>c, <3>1 DEF AttemptTimeout
    <3>4. addresses > 1 => now <= tried * Attempt
      BY DEF Budget, Inductive
    <3> QED
      BY <1>c, <3>1, <3>2, <3>3, <3>4 DEF Budget
  <2> QED
    BY <2>1, <2>2 DEF Inductive, Ended, StagesKnow, RejectionReported, PolicyHeld, EveryAddressTried
<1>2. CASE NoMoreAddresses
  BY <1>c, <1>2 DEF NoMoreAddresses, Throw, setting, context, history, TypeOK,
     Inductive, Ended, StagesKnow, RejectionReported, PolicyHeld, Budget, EveryAddressTried
<1>3. CASE OutOfTime
  BY <1>c, <1>3 DEF OutOfTime, Throw, setting, context, history, Inductive, Ended,
     StagesKnow, RejectionReported, PolicyHeld, Budget, EveryAddressTried
<1>4. CASE Cancel
  BY <1>c, <1>4 DEF Cancel, Throw, NoContext, setting, history, Inductive, Ended,
     StagesKnow, RejectionReported, PolicyHeld, Budget, EveryAddressTried
<1>5. CASE Poll
  <2>1. Budget'
    BY <1>c, <1>5 DEF Poll, setting, Inductive, Budget
  <2> QED
    BY <1>c, <1>5, <2>1 DEF Poll, setting, context, ending, history, Inductive, Ended,
       StagesKnow, RejectionReported, PolicyHeld, EveryAddressTried
<1>6. CASE Expire
  BY <1>f, <1>6 DEF Expire, Failures, history
<1>7. CASE ConnectFails
  BY <1>f, <1>7 DEF ConnectFails, At, Failures, history
<1>8. CASE Lost
  BY <1>f, <1>8 DEF Lost, Failures, history
<1>9. CASE NegotiateRejected
  BY <1>f, <1>9 DEF NegotiateRejected, Refused, At, Failures, history
<1>10. CASE TreeRejected \/ TreeRefused
  BY <1>f, <1>10 DEF TreeRejected, TreeRefused, Refused, At, Failures, history
<1>11. CASE SetupRejected
  BY <1>f, <1>11 DEF SetupRejected, Refused, At, Failures, Inductive, StagesKnow
<1>12. ASSUME NEW s, pc = "attempt", Continue(s), history' = history \/ rejected' = rejected
       PROVE  Ended' /\ RejectionReported' /\ PolicyHeld' /\ Budget' /\ EveryAddressTried'
  BY <1>c, <1>12 DEF Continue, setting, ending, history, Inductive, Ended, RejectionReported,
     PolicyHeld, Budget, EveryAddressTried
<1>13. CASE Connected
  BY <1>12, <1>13 DEF Connected, At, Continue, Inductive, StagesKnow, history
<1>14. CASE Negotiated
  <2>1. CASE CaughtAs("connection") /\ UNCHANGED <<setting, tried, now, attemptEnd, cancelled, history>>
    BY <1>n, <1>14, <2>1 DEF Negotiated, At
  <2>2. CASE Continue("setup")
    BY <1>12, <1>14, <2>2 DEF Negotiated, At, Continue, Inductive, StagesKnow, history
  <2> QED
    BY <1>14, <2>1, <2>2 DEF Negotiated
<1>15. CASE Challenged
  BY <1>12, <1>15 DEF Challenged, At, Continue, setting, Inductive, StagesKnow
<1>16. CASE SetupDone
  <2>1. pc = "attempt" /\ stage = "setup" /\ rejected' = rejected
    BY <1>16 DEF SetupDone, At, history
  <2>2. CASE Refused("none")
    BY <1>f, <2>1, <2>2 DEF Refused, Failures
  <2>3. CASE /\ Continue("tree") /\ dialect' = dialect
             /\ \E g \in BOOLEAN : anonymous' = g /\ ~ GuestFallback(g)
    <3>1. StagesKnow'
      BY <1>c, <2>1, <2>3 DEF Continue, setting, GuestFallback, Inductive, StagesKnow
    <3> QED
      BY <1>12, <2>1, <2>3, <3>1 DEF Inductive
  <2> QED
    BY <1>16, <2>2, <2>3 DEF SetupDone
<1>17. CASE TreeConnected
  <2>1. pc = "attempt" /\ stage = "tree" /\ rejected' = rejected
    BY <1>17 DEF TreeConnected, At, history
  <2>2. CASE Refused("none") \/ Fail("authentication", "none")
    BY <1>f, <2>1, <2>2 DEF Refused, Failures
  <2>3. ASSUME Policy, Success PROVE Inductive'
    <3>1. /\ pc' = "ended" /\ outcome' = "done" /\ stage' = "none" /\ rejected' = {}
          /\ Quiet /\ dialect' = dialect /\ anonymous' = anonymous /\ seal' = seal /\ sign' = sign
      BY <2>1, <2>3 DEF Success, setting, Inductive, RejectionReported
    <3>2. PolicyHeld'
      BY <1>c, <2>1, <2>3, <3>1 DEF Policy, PolicyHeld, Inductive, StagesKnow
    <3>3. Budget' /\ EveryAddressTried'
      BY <1>c, <3>1 DEF Budget, EveryAddressTried, Inductive
    <3> QED
      BY <3>1, <3>2, <3>3 DEF Inductive, Ended, StagesKnow, RejectionReported
  <2> QED
    BY <1>17, <2>2, <2>3 DEF TreeConnected
<1>18. CASE UserCancels
  BY <1>18 DEF UserCancels, setting, context, ending, history, Inductive, Ended, StagesKnow,
     RejectionReported, PolicyHeld, Budget, EveryAddressTried
<1>19. CASE UNCHANGED vars
  BY <1>19 DEF vars, setting, context, ending, history, Inductive, Ended, StagesKnow,
     RejectionReported, PolicyHeld, Budget, EveryAddressTried
<1> QED
  BY <1>1, <1>2, <1>3, <1>4, <1>5, <1>6, <1>7, <1>8, <1>9, <1>10, <1>11, <1>13, <1>14, <1>15,
     <1>16, <1>17, <1>18, <1>19 DEF Next, Loop, Events, Returned

-----------------------------------------------------------------------------
(* Theorems *)

\* The inductive invariant holds in every reachable state.
LEMMA Invariant == Spec => [](TypeOK /\ Inductive)
<1>1. Init => Inductive
  BY ConnectConstants DEF ConnectConstants, Init, Inductive, Ended, StagesKnow,
     RejectionReported, PolicyHeld, Budget, EveryAddressTried
<1>2. TypeOK /\ Inductive /\ [Next]_vars => Inductive'
  BY InductiveKept
<1> QED
  BY <1>1, <1>2, TypeCorrect, PTL DEF Spec

\* For any number of addresses, and however the servers and the clock behave:
\* after a refused login the credentials are sent nowhere else.
THEOREM RejectionEndsConnect == Spec => RejectionIsFinal
<1>1. TypeOK /\ Inductive /\ [Next]_vars => [rejected # {} => sent' = sent]_vars
  <2> SUFFICES ASSUME TypeOK, Inductive, [Next]_vars, rejected # {} PROVE sent' = sent
    OBVIOUS
  <2>1. pc = "ended"
    BY DEF Inductive, RejectionReported
  <2>2. stage = "none"
    BY <2>1 DEF TypeOK
  <2> QED
    BY <2>1, <2>2 DEF Next, Loop, Events, Returned, vars, history, NextAddress, NoMoreAddresses,
       OutOfTime, Cancel, Poll, Expire, ConnectFails, Lost, Connected, NegotiateRejected,
       Negotiated, Challenged, SetupRejected, SetupDone, TreeRejected, TreeRefused, TreeConnected, At, UserCancels
<1> QED
  BY <1>1, Invariant, PTL DEF Spec, RejectionIsFinal

\* ... and init throws .authentication for it.
THEOREM RejectionIsReported == Spec => []RejectionReported
BY Invariant, PTL DEF Inductive

\* A transport that was made has the protection its settings ask for.
THEOREM PolicyAlwaysHeld == Spec => []PolicyHeld
BY Invariant, PTL DEF Inductive

\* For any timeouts, an address is given up untried only when those before it
\* had their whole share of the time.
THEOREM AddressesGetTheirShare == Spec => []EveryAddressTried
BY Invariant, PTL DEF Inductive

\* An address whose server did not answer NEGOTIATE never ends the connect but by a cancel:
\* whatever failed there, and whatever status libsmb2 recorded, the next address is tried.
THEOREM OthersAreTried == Spec => FallbackKept
<1>1. TypeOK /\ Inductive /\ [Next]_vars =>
        [pc = "attempt" /\ stage = "negotiate" /\ pc' = "ended" => outcome' = "cancelled"]_vars
  <2> SUFFICES ASSUME TypeOK, Inductive, Next, pc = "attempt", stage = "negotiate", pc' = "ended"
               PROVE  outcome' = "cancelled"
    BY DEF vars, context, setting, ending, history
  <2>1. dialect = 0
    BY DEF Inductive, StagesKnow
  <2>2. ASSUME NEW f \in {"port", "timeout", "connection"}, NEW r, Fail(f, r) PROVE FALSE
    BY <2>1, <2>2 DEF Fail, HandshakeFailure, CaughtAs
  <2>3. CASE Cancel
    BY <2>3 DEF Cancel, Throw
  <2>4. CASE Poll \/ Expire
    BY <2>2, <2>4 DEF Poll, Expire
  <2>5. CASE Lost
    BY <2>2, <2>5 DEF Lost
  <2>6. CASE NegotiateRejected
    BY <2>2, <2>6 DEF NegotiateRejected, Refused
  <2>7. CASE Negotiated
    BY <2>7 DEF Negotiated, CaughtAs, Continue
  <2> QED
    BY <2>3, <2>4, <2>5, <2>6, <2>7 DEF Next, Loop, Events, Returned, NextAddress, NoMoreAddresses,
       OutOfTime, ConnectFails, Connected, Challenged, SetupRejected, SetupDone, TreeRejected,
       TreeRefused, TreeConnected, At, UserCancels
<1> QED
  BY <1>1, Invariant, PTL DEF Spec, FallbackKept
=============================================================================
