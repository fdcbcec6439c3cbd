--------------------------- MODULE NameResolution ---------------------------
(***************************************************************************)
(* SMBTransport.resolve() and the waiting policy SMBNameResolution it asks *)
(* (SMBNameResolution.swift): one dns_sd query per address family, read by *)
(* one worker in slices of 50 ms.                                          *)
(*                                                                         *)
(* Time is counted in slices. It passes only while the worker waits in     *)
(* poll(); dns_sd may queue an answer, or break a query, at any moment.    *)
(***************************************************************************)
EXTENDS Integers, Sequences, SequencesExt

CONSTANTS
    V4, V6,       \* the addresses each family may report
    Deadline,     \* min(timeout, limit)
    Grace,        \* how long the other family may take
    MaxAddresses, \* SMBNameResolution.maximumAddresses
    MaxAnswers    \* bound: answers dns_sd sends for one family

ASSUME ResolutionConstants ==
    /\ Deadline \in Nat \ {0} /\ Grace \in Nat \ {0}
    /\ MaxAddresses \in Nat \ {0} /\ MaxAnswers \in Nat
    /\ V4 \cap V6 = {}

Family  == {"ipv6", "ipv4"}
Host(f) == IF f = "ipv6" THEN V6 ELSE V4
Other(f) == IF f = "ipv6" THEN "ipv4" ELSE "ipv6"

NoFamily == "none"
Never    == -1

\* SMBAddressAnswer
Answer(f) == ({"address", "withdrawn"} \X Host(f)) \cup {<<"none">>, <<"ignored">>}

VARIABLES
    pc,           \* "next": about to ask the policy; "poll": waiting; "drain": reading
    now,          \* the clock
    list,         \* per family, the addresses kept, in order of arrival
    settled,      \* families that answered
    firstFamily, firstAddressAt,
    queries,      \* families whose query is still open
    ready,        \* the queries poll() reported
    failed,       \* the queries process() found failed
    inbox,        \* per family, the answers dns_sd has queued
    sent,         \* per family, how many it has queued so far
    broken,       \* families whose query has failed
    cancelled,    \* Never, or when the user cancelled
    outcome, result,
    reported,     \* history: per family, the addresses read and not withdrawn since
    negative      \* history: families that gave a negative answer, or whose query failed

policy == <<list, settled, firstFamily, firstAddressAt>>
dns    == <<inbox, sent, broken>>
seen   == <<reported, negative>>
vars   == <<pc, now, policy, queries, ready, failed, dns, cancelled, outcome, result, seen>>

TypeOK ==
    /\ pc \in {"next", "poll", "drain", "ended"}
    /\ now \in 0 .. Deadline
    /\ \A f \in Family : /\ list[f] \in Seq(Host(f)) /\ Len(list[f]) <= MaxAddresses
                         /\ inbox[f] \in Seq(Answer(f)) /\ Len(inbox[f]) <= sent[f]
                         /\ sent[f] \in 0 .. MaxAnswers
                         /\ reported[f] \subseteq Host(f)
    /\ firstFamily \in Family \cup {NoFamily}
    /\ firstAddressAt \in {Never} \cup 0 .. Deadline
    /\ settled \subseteq Family /\ queries \subseteq Family
    /\ ready \subseteq queries /\ failed \subseteq queries
    /\ broken \subseteq Family /\ negative \subseteq Family
    /\ cancelled \in {Never} \cup 0 .. Deadline
    /\ outcome \in {"none", "resolved", "host", "cancelled"}
    /\ result \in Seq(V4 \cup V6)

Init ==
    /\ pc = "next" /\ now = 0
    /\ list = [f \in Family |-> <<>>] /\ settled = {}
    /\ firstFamily = NoFamily /\ firstAddressAt = Never
    /\ queries = Family /\ ready = {} /\ failed = {}
    /\ inbox = [f \in Family |-> <<>>] /\ sent = [f \in Family |-> 0] /\ broken = {}
    /\ cancelled = Never /\ outcome = "none" /\ result = <<>>
    /\ reported = [f \in Family |-> {}] /\ negative = {}

-----------------------------------------------------------------------------
(* dns_sd *)

Reply(f) ==
    /\ sent[f] < MaxAnswers /\ f \notin broken /\ pc # "ended"
    /\ \E a \in Answer(f) : inbox' = [inbox EXCEPT ![f] = Append(@, a)]
    /\ sent' = [sent EXCEPT ![f] = @ + 1]
    /\ UNCHANGED <<pc, now, policy, queries, ready, failed, broken, cancelled, outcome,
                   result, seen>>

\* process() returns nil from now on, and the descriptor stays readable.
Break(f) ==
    /\ f \notin broken /\ pc # "ended"
    /\ broken' = broken \cup {f}
    /\ UNCHANGED <<pc, now, policy, queries, ready, failed, inbox, sent, cancelled, outcome,
                   result, seen>>

UserCancels ==
    /\ cancelled = Never /\ pc # "ended"
    /\ cancelled' = now
    /\ UNCHANGED <<pc, now, policy, queries, ready, failed, dns, outcome, result, seen>>

Readable(f) == inbox[f] # <<>> \/ f \in broken

-----------------------------------------------------------------------------
(* The policy *)

\* Mutation: the families one after the other.
AddressesInOrder(first, second) == first \o second

\* The families alternate as long as both last.
Alternate(first, second) ==
    LET both == IF Len(first) < Len(second) THEN Len(first) ELSE Len(second)
    IN [i \in 1 .. 2 * both |-> IF i % 2 = 1 THEN first[(i + 1) \div 2] ELSE second[i \div 2]]
         \o SubSeq(first, both + 1, Len(first)) \o SubSeq(second, both + 1, Len(second))

Addresses ==
    LET first == IF firstFamily = "ipv6" THEN "ipv6" ELSE "ipv4"
        all   == Alternate(list[first], list[Other(first)])
    IN SubSeq(all, 1, IF Len(all) < MaxAddresses THEN Len(all) ELSE MaxAddresses)

\* removeAll { $0 == host }
Without(s, a) == FoldLeft(LAMBDA rest, x : IF x = a THEN rest ELSE Append(rest, x), <<>>, s)

Kept(s, a) == IF Contains(s, a) \/ Len(s) >= MaxAddresses THEN s ELSE Append(s, a)

WithAddress(s, f, host) ==
    [kept |-> [s.kept EXCEPT ![f] = Kept(@, host)],
     settled |-> s.settled \cup {f},
     first |-> IF s.at = Never THEN f ELSE s.first,
     at |-> IF s.at = Never THEN now ELSE s.at]

\* Mutation: a withdrawal is not applied.
ReceiveKeeping(s, f, a) ==
    CASE a[1] = "address" -> WithAddress(s, f, a[2])
      [] a[1] = "none"    -> [s EXCEPT !.settled = @ \cup {f}]
      [] OTHER            -> s

\* receive(_:family:at:) on the policy's state, taken as one record.
Receive(s, f, a) ==
    CASE a[1] = "address"   -> WithAddress(s, f, a[2])
      [] a[1] = "withdrawn" -> [s EXCEPT !.kept[f] = Without(@, a[2])]
      [] a[1] = "none"      -> [s EXCEPT !.settled = @ \cup {f}]
      [] OTHER              -> s

Complete == settled = Family

\* Mutation: a family that never answers is waited for until the deadline.
GraceOverNever == FALSE

GraceOver == firstAddressAt # Never /\ Addresses # <<>> /\ now >= firstAddressAt + Grace

\* Mutation: the deadline is forgotten.
DecidedLate == Complete \/ GraceOver

\* next(at:) has something else to say than .wait
Decided == Complete \/ now >= Deadline \/ GraceOver

-----------------------------------------------------------------------------
(* resolve() *)

Cancel ==
    /\ pc = "next" /\ cancelled # Never
    /\ pc' = "ended" /\ outcome' = "cancelled"
    /\ UNCHANGED <<now, policy, queries, ready, failed, dns, cancelled, result, seen>>

Decide ==
    /\ pc = "next" /\ cancelled = Never /\ Decided
    /\ pc' = "ended" /\ result' = Addresses
    /\ outcome' = IF Addresses = <<>> THEN "host" ELSE "resolved"
    /\ UNCHANGED <<now, policy, queries, ready, failed, dns, cancelled, seen>>

Wait ==
    /\ pc = "next" /\ cancelled = Never /\ ~ Decided
    /\ pc' = "poll"
    /\ UNCHANGED <<now, policy, queries, ready, failed, dns, cancelled, outcome, result, seen>>

\* Mutation: poll() waits for as long as the policy allows.
SliceWhole ==
    /\ pc = "poll" /\ \A f \in queries : ~ Readable(f)
    /\ pc' = "next"
    /\ now' = IF Addresses # <<>> /\ firstAddressAt + Grace < Deadline
                THEN firstAddressAt + Grace ELSE Deadline
    /\ UNCHANGED <<policy, queries, ready, failed, dns, cancelled, outcome, result, seen>>

\* poll() timed out.
Slice ==
    /\ pc = "poll" /\ \A f \in queries : ~ Readable(f)
    /\ pc' = "next" /\ now' = now + 1
    /\ UNCHANGED <<policy, queries, ready, failed, dns, cancelled, outcome, result, seen>>

Woken ==
    /\ pc = "poll"
    /\ ready' = {f \in queries : Readable(f)} /\ ready' # {}
    /\ pc' = "drain"
    /\ UNCHANGED <<now, policy, queries, failed, dns, cancelled, outcome, result, seen>>

\* Mutation: the error is taken for an interruption.
PollFailsRetried ==
    /\ pc = "poll" /\ queries # {} /\ pc' = "next"
    /\ UNCHANGED <<now, policy, queries, ready, failed, dns, cancelled, outcome, result, seen>>

\* Unusable descriptors: both families end, and nothing is read any more.
PollFails ==
    /\ pc = "poll" /\ queries # {}
    /\ settled' = settled \cup queries /\ negative' = negative \cup queries
    /\ queries' = {} /\ pc' = "next"
    /\ UNCHANGED <<now, list, firstFamily, firstAddressAt, ready, failed, dns, cancelled,
                   outcome, result, reported>>

\* Mutation: process() reads one answer.
BatchFirst(f) == <<Head(inbox[f])>>

\* process() reads every queued answer.
Batch(f) == inbox[f]

Gone(f, batch) == {a \in Host(f) : \E i \in DOMAIN batch :
                     /\ batch[i] = <<"withdrawn", a>>
                     /\ \A j \in i + 1 .. Len(batch) : batch[j] # <<"address", a>>}

Drain(f) ==
    /\ pc = "drain" /\ f \in ready /\ (f = "ipv4" => "ipv6" \notin ready)
    /\ ready' = ready \ {f}
    /\ IF f \in broken
         THEN failed' = failed \cup {f} /\ UNCHANGED <<policy, inbox, seen>>
         ELSE LET s == FoldLeft(LAMBDA st, a : Receive(st, f, a),
                                [kept |-> list, settled |-> settled,
                                 first |-> firstFamily, at |-> firstAddressAt], Batch(f))
              IN /\ list' = s.kept /\ settled' = s.settled
                 /\ firstFamily' = s.first /\ firstAddressAt' = s.at
                 /\ inbox' = [inbox EXCEPT ![f] = <<>>]
                 /\ reported' = [reported EXCEPT ![f] =
                      (@ \cup {a \in Host(f) : Contains(inbox[f], <<"address", a>>)})
                        \ Gone(f, inbox[f])]
                 /\ negative' = IF Contains(inbox[f], <<"none">>) THEN negative \cup {f}
                                ELSE negative
                 /\ UNCHANGED failed
    /\ UNCHANGED <<pc, now, queries, sent, broken, cancelled, outcome, result>>

Drained ==
    /\ pc = "drain" /\ ready = {}
    /\ pc' = "next"
    /\ settled' = settled \cup failed /\ queries' = queries \ failed /\ failed' = {}
    /\ negative' = negative \cup failed
    /\ UNCHANGED <<now, list, firstFamily, firstAddressAt, ready, dns, cancelled, outcome,
                   result, reported>>

-----------------------------------------------------------------------------

Worker == \/ Cancel \/ Decide \/ Wait \/ Slice \/ Woken \/ Drained \/ PollFails
          \/ \E f \in Family : Drain(f)

DnsSd == \E f \in Family : Reply(f) \/ Break(f)

Returned == pc = "ended" /\ UNCHANGED vars

Next == Worker \/ DnsSd \/ UserCancels \/ Returned

Spec == Init /\ [][Next]_vars

\* Every wait in poll() has a timeout, so the worker always moves on.
FairSpec == Spec /\ WF_vars(Worker)

-----------------------------------------------------------------------------
(* Properties *)

\* Whatever arrives and whatever is withdrawn, what resolve() returns is only
\* addresses dns_sd reported and has not withdrawn, no two alike, at most MaxAddresses.
ResultSound ==
    outcome = "resolved" =>
        /\ Len(result) \in 1 .. MaxAddresses
        /\ IsInjective(result)
        /\ ToSet(result) \subseteq UNION {reported[f] : f \in Family}

\* A whole batch is applied before deciding: every address that was read is
\* returned, unless the result is full, and a name fails with .host only when
\* nothing usable was read ("every answer of one dns_sd batch is applied").
NothingReadIsLost ==
    pc = "ended" /\ outcome # "cancelled" =>
        \/ UNION {reported[f] : f \in Family} \subseteq ToSet(result)
        \/ \E f \in Family : sent[f] > MaxAddresses
        \/ Len(result) = MaxAddresses

\* Neither family can be crowded out: when both have an address, the first two
\* returned are of different families, so that an unreachable family costs at
\* most one connection attempt.
FamiliesAlternate ==
    outcome = "resolved" /\ MaxAddresses > 1 /\ (\A f \in Family : list[f] # <<>>) =>
        ~ \E f \in Family : {result[1], result[2]} \subseteq Host(f)

\* With a usable address the silent family is waited for through the grace
\* period, and no longer.
GraceKept ==
    /\ pc = "poll" /\ Addresses # <<>> => now < firstAddressAt + Grace
    /\ outcome = "resolved" /\ now < Deadline /\ now < firstAddressAt + Grace =>
         settled = Family

\* The user's cancel ends resolve() within one slice of 50 ms.
CancelPrompt == cancelled # Never /\ pc # "ended" => now <= cancelled + 1

\* The comment on SMBNameResolution: "With no usable address, it fails with
\* `.host` when both families answered negatively or at `deadline`."
HostMeansNegative == outcome = "host" => negative = Family \/ now = Deadline

\* resolve() returns or throws, whatever dns_sd answers.
Ends == <>(pc = "ended")
=============================================================================
