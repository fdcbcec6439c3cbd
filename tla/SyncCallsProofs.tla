-------------------------- MODULE SyncCallsProofs --------------------------
(***************************************************************************)
(* For any number of blocking calls on a context, made whether or not an   *)
(* earlier one failed in its wait: which callbacks may use a record that   *)
(* was freed, and that until one has, every call returns what its own      *)
(* operation ended with, and the records are given back.                   *)
(***************************************************************************)
EXTENDS SyncCalls, TLAPS

Shared == {"connect", "disconnect"}

\* Calls come one after the other. What is pending was made, and has not ended.
Order ==
    /\ \A n \in 1 .. MaxCalls : n > calls =>
         made[n] = "none" /\ ended[n] = "none" /\ returned[n] = "none"
    /\ \A n \in pending : n <= calls /\ made[n] \in Kinds /\ ended[n] = "none"
    /\ waiting => context = "open" /\ calls > 0 /\ made[calls] \in Kinds /\ returned[calls] = "none"
    /\ context = "gone" => pending = {}

\* A pending operation finds its record unfinished, or it is of a call that gave up and freed it.
Reachable ==
    /\ context # "gone" => alive[Embedded]
    /\ \A n \in pending :
         /\ \/ alive[Record(n)]
            \/ /\ made[n] \in {"opendir", "close"} /\ returned[n] = "abandoned"
               /\ n = calls => ~ waiting
         /\ Record(n) # Embedded => ~ finished[n]

\* The call the thread is in has its record, for an operation that is pending or has finished.
InCall == waiting /\ Record(calls) # Embedded =>
    /\ alive[calls] /\ status[calls] # "cancelled"
    /\ finished[calls] \/ calls \in pending

\* What a finished record says, an operation ended with: the call's own, or one of those that
\* share the record.
OwnFinish ==
    /\ waiting /\ Record(calls) # Embedded /\ finished[calls] /\ status[calls] = "ok" =>
           ended[calls] = "ok"
    /\ finished[Embedded] /\ status[Embedded] = "ok" =>
           \E m \in 1 .. calls : made[m] \in Shared /\ ended[m] = "ok"

\* Who has a record.
Holder == \A n \in 1 .. MaxCalls : alive[n] =>
    /\ n <= calls
    /\ \/ waiting /\ Record(calls) = n
       \/ Left(n)
       \/ n \in pending /\ made[n] = "generic" /\ status[n] = "cancelled"

Clean == Reachable /\ InCall /\ OwnFinish /\ Holder

IInv == TypeOK /\ Order /\ LateTouches /\ ResultIsOwn /\ (touched = {} => Clean)

USE CallsAssumption DEF Records, Embedded, Kinds, Results, Returns, Shared

\* The record of a call: its own, or the embedded one.
LEMMA RecordOf ==
    ASSUME TypeOK, NEW n \in 1 .. MaxCalls
    PROVE  /\ Record(n) \in Records /\ Record(n) \in {0, n}
           /\ Record(n) = 0 <=> made[n] \in Shared
  BY DEF Record, Take, TypeOK

\* Initially there is the embedded record, and nothing is pending.
LEMMA Initially == Init => IInv
<1>. SUFFICES ASSUME Init PROVE IInv OBVIOUS
<1>1. TypeOK
  <2>1. alive \in [Records -> BOOLEAN] BY DEF Init
  <2>2. made \in [1 .. MaxCalls -> Kinds \cup {"none"}] BY DEF Init
  <2>3. ended \in [1 .. MaxCalls -> Results \cup {"none"}] BY DEF Init
  <2>4. returned \in [1 .. MaxCalls -> Returns] BY DEF Init
  <2>5. finished \in [Records -> BOOLEAN] BY DEF Init
  <2>6. status \in [Records -> Results \cup {"cancelled"}] BY DEF Init
  <2>7. context \in {"open", "closing", "gone"} /\ valid \in BOOLEAN /\ waiting \in BOOLEAN
    BY DEF Init
  <2>8. calls \in 0 .. MaxCalls /\ pending \subseteq 1 .. MaxCalls BY DEF Init
  <2>9. touched \subseteq (1 .. MaxCalls) \X (Results \cup {"shutdown"}) BY DEF Init
  <2>. QED BY <2>1, <2>2, <2>3, <2>4, <2>5, <2>6, <2>7, <2>8, <2>9, Zenon DEF TypeOK
<1>2. Order BY DEF Init, Order
<1>3. LateTouches BY DEF Init, LateTouches
<1>4. ResultIsOwn BY DEF Init, ResultIsOwn
<1>5. Reachable
  <2>1. alive = [r \in Records |-> r = 0] /\ 0 \in Records BY DEF Init
  <2>2. alive[0] = (0 = 0) BY <2>1, Zenon
  <2>. QED BY <2>2 DEF Init, Reachable
<1>6. InCall /\ OwnFinish BY DEF Init, InCall, OwnFinish
<1>7. Holder
  <2>1. \A n \in 1 .. MaxCalls : n \in Records /\ n # 0 OBVIOUS
  <2>2. \A n \in Records : n # 0 => ~ alive[n] BY DEF Init
  <2>. QED BY <2>1, <2>2 DEF Holder
<1>. QED BY <1>1, <1>2, <1>3, <1>4, <1>5, <1>6, <1>7 DEF IInv, Clean

\* A call takes a record that no operation has.
LEMMA CallKeeps == ASSUME IInv, NEW k \in Kinds, Call(k) PROVE IInv'
<1>0. PICK c \in 1 .. MaxCalls : c = calls + 1 BY DEF IInv, TypeOK, Call
<1>. DEFINE r == Take(k, c)
<1>1. /\ context = "open" /\ ~ waiting /\ calls < MaxCalls /\ calls' = c /\ waiting' = TRUE
      /\ made' = [made EXCEPT ![c] = k] /\ pending' = pending \cup {c}
      /\ UNCHANGED <<context, valid, ended, returned, touched>>
  BY <1>0 DEF Call
<1>2. IF r = 0 THEN UNCHANGED <<finished, status, alive>>
      ELSE /\ finished' = [finished EXCEPT ![r] = FALSE]
           /\ status' = [status EXCEPT ![r] = "ok"]
           /\ alive' = [alive EXCEPT ![r] = TRUE]
  BY <1>0 DEF Call
<1>3. c \in 1 .. MaxCalls /\ calls \in Nat /\ c = calls + 1 /\ r \in Records /\ r \in {0, c}
  BY <1>0 DEF IInv, TypeOK, Take
<1>. HIDE DEF r
<1>4. /\ made'[c] = k /\ \A n \in 1 .. MaxCalls : n # c => made'[n] = made[n]
      /\ Record(c)' = r /\ Record(calls)' = r
  <2>1. made'[c] = k /\ \A n \in 1 .. MaxCalls : n # c => made'[n] = made[n]
    BY <1>1, <1>3 DEF IInv, TypeOK
  <2>. QED BY <2>1, <1>1 DEF Record, r
<1>5. \A n \in 1 .. MaxCalls : n # c => Record(n)' = Record(n)
  BY <1>4 DEF Record
<1>6. TypeOK'
  <2>1. made' \in [1 .. MaxCalls -> Kinds \cup {"none"}] BY <1>1, <1>3 DEF IInv, TypeOK
  <2>2. alive' \in [Records -> BOOLEAN] BY <1>2, <1>3 DEF IInv, TypeOK
  <2>3. finished' \in [Records -> BOOLEAN] BY <1>2, <1>3 DEF IInv, TypeOK
  <2>4. status' \in [Records -> Results \cup {"cancelled"}] BY <1>2, <1>3 DEF IInv, TypeOK
  <2>. QED BY <1>1, <1>3, <2>1, <2>2, <2>3, <2>4 DEF IInv, TypeOK
<1>7. Order'
  <2>1. pending \subseteq 1 .. MaxCalls BY DEF IInv, TypeOK
  <2>2. ended[c] = "none" /\ returned[c] = "none" BY <1>1, <1>3 DEF IInv, Order
  <2>. QED BY <1>1, <1>3, <1>4, <2>1, <2>2 DEF IInv, Order
<1>8. LateTouches'
  <2>1. \A t \in touched : t[1] \in 1 .. MaxCalls /\ t[1] < calls
    BY DEF IInv, TypeOK, LateTouches
  <2>. QED BY <1>1, <1>3, <1>4, <2>1 DEF IInv, LateTouches
<1>9. ResultIsOwn'
  <2>. SUFFICES ASSUME NEW n \in 1 .. MaxCalls, returned[n] = "ok", ended[n] # "ok",
                       ~ \E t \in touched : t[1] < n
                PROVE  /\ made'[n] \in Shared
                       /\ \E m \in 1 .. n - 1 : made'[m] \in Shared /\ ended[m] = "ok"
    BY <1>1 DEF ResultIsOwn
  <2>1. made[n] \in Shared
    BY DEF IInv, ResultIsOwn
  <2>2. PICK m \in 1 .. n - 1 : made[m] \in Shared /\ ended[m] = "ok"
    BY DEF IInv, ResultIsOwn
  <2>3. made[c] = "none" BY <1>1, <1>3 DEF IInv, Order
  <2>4. m \in 1 .. MaxCalls BY <2>2
  <2>. QED BY <1>4, <2>1, <2>2, <2>3, <2>4
<1>10. ASSUME touched' = {} PROVE Clean'
  <2>1. Clean BY <1>1, <1>10 DEF IInv
  <2>2. alive[0] BY <1>1, <2>1 DEF Clean, Reachable
  <2>3. \A q \in Records : q # c => /\ finished'[q] = finished[q] /\ status'[q] = status[q]
                                    /\ alive'[q] = alive[q]
    BY <1>2, <1>3 DEF IInv, TypeOK
  <2>4. r # 0 => ~ finished'[c] /\ alive'[c] /\ status'[c] = "ok"
    BY <1>2, <1>3 DEF IInv, TypeOK
  <2>5. alive'[0] BY <2>2, <2>3, <1>3
  <2>6. \A n \in pending : n \in 1 .. MaxCalls /\ n <= calls /\ n # c
    BY <1>3 DEF IInv, TypeOK, Order
  <2>7. Reachable'
    <3>. SUFFICES ASSUME NEW n \in pending'
                  PROVE  /\ \/ alive'[Record(n)']
                            \/ /\ made'[n] \in {"opendir", "close"} /\ returned'[n] = "abandoned"
                               /\ n = calls' => ~ waiting'
                         /\ Record(n)' # 0 => ~ finished'[n]
      BY <2>5 DEF Reachable
    <3>1. CASE n = c BY <3>1, <2>4, <2>5, <1>3, <1>4
    <3>2. CASE n # c
      <4>1. n \in pending /\ n \in 1 .. MaxCalls BY <3>2, <1>1, <2>6
      <4>2. Record(n)' = Record(n) /\ made'[n] = made[n] BY <3>2, <4>1, <1>4, <1>5
      <4>3. Record(n) \in Records /\ Record(n) # c
        BY <3>2, <4>1, <1>3, RecordOf DEF IInv
      <4>4. alive'[Record(n)] = alive[Record(n)] /\ finished'[n] = finished[n]
        BY <2>3, <3>2, <4>1, <4>3
      <4>5. n # calls' BY <1>1, <3>2
      <4>. QED BY <2>1, <4>1, <4>2, <4>4, <4>5, <1>1 DEF Clean, Reachable
    <3>. QED BY <3>1, <3>2
  <2>8. InCall' BY <1>1, <1>4, <2>4 DEF InCall
  <2>9. OwnFinish'
    <3>1. waiting' /\ Record(calls)' # 0 => ~ finished'[calls'] BY <1>1, <1>4, <2>4
    <3>2. ASSUME finished'[0], status'[0] = "ok"
          PROVE  \E m \in 1 .. calls' : made'[m] \in Shared /\ ended'[m] = "ok"
      <4>1. finished[0] /\ status[0] = "ok" BY <3>2, <2>3, <1>3
      <4>2. PICK m \in 1 .. calls : made[m] \in Shared /\ ended[m] = "ok"
        BY <4>1, <2>1 DEF Clean, OwnFinish
      <4>. QED BY <4>2, <1>1, <1>3, <1>4
    <3>. QED BY <3>1, <3>2 DEF OwnFinish
  <2>10. Holder'
    <3>. SUFFICES ASSUME NEW n \in 1 .. MaxCalls, alive'[n]
                  PROVE  /\ n <= calls'
                         /\ \/ Record(calls)' = n
                            \/ Left(n)'
                            \/ n \in pending' /\ made'[n] = "generic" /\ status'[n] = "cancelled"
      BY <1>1 DEF Holder
    <3>1. CASE n = c
      <4>1. r # 0
        <5>1. ~ alive[c] BY <2>1, <1>3 DEF Clean, Holder
        <5>. QED BY <5>1, <3>1, <1>2
      <4>. QED BY <3>1, <4>1, <1>1, <1>3, <1>4
    <3>2. CASE n # c
      <4>1. alive[n] /\ status'[n] = status[n] BY <3>2, <2>3
      <4>2. n <= calls /\ (Left(n) \/ (n \in pending /\ made[n] = "generic" /\ status[n] = "cancelled"))
        BY <4>1, <2>1, <1>1 DEF Clean, Holder
      <4>3. Left(n) => Left(n)' BY <3>2, <1>1, <1>4 DEF Left
      <4>. QED BY <3>2, <4>1, <4>2, <4>3, <1>1, <1>3, <1>4
    <3>. QED BY <3>1, <3>2
  <2>. QED BY <2>7, <2>8, <2>9, <2>10 DEF Clean
<1>. QED BY <1>6, <1>7, <1>8, <1>9, <1>10 DEF IInv

\* A call that could not be started leaves nothing.
LEMMA NotStartedKeeps == ASSUME IInv, NEW k \in Kinds, NotStarted(k) PROVE IInv'
<1>0. PICK c \in 1 .. MaxCalls : c = calls + 1 BY DEF IInv, TypeOK, NotStarted
<1>1. /\ context = "open" /\ ~ waiting /\ calls' = c
      /\ made' = [made EXCEPT ![c] = k] /\ returned' = [returned EXCEPT ![c] = "error"]
      /\ UNCHANGED <<context, valid, waiting, finished, status, alive, pending, ended, touched>>
  BY <1>0 DEF NotStarted
<1>2. calls \in Nat BY DEF IInv, TypeOK
<1>3. /\ made'[c] = k /\ \A n \in 1 .. MaxCalls : n # c => made'[n] = made[n]
      /\ returned'[c] = "error" /\ \A n \in 1 .. MaxCalls : n # c => returned'[n] = returned[n]
  BY <1>1 DEF IInv, TypeOK
<1>4. \A n \in 1 .. MaxCalls : n # c => Record(n)' = Record(n)
  BY <1>3 DEF Record
<1>5. TypeOK'
  <2>1. made' \in [1 .. MaxCalls -> Kinds \cup {"none"}] BY <1>1 DEF IInv, TypeOK
  <2>2. returned' \in [1 .. MaxCalls -> Returns] BY <1>1 DEF IInv, TypeOK
  <2>. QED BY <1>1, <2>1, <2>2 DEF IInv, TypeOK
<1>6. \A n \in pending : n \in 1 .. MaxCalls /\ n <= calls /\ n # c
  BY <1>0, <1>2 DEF IInv, TypeOK, Order
<1>7. Order' BY <1>0, <1>1, <1>2, <1>3, <1>6 DEF IInv, Order
<1>8. LateTouches'
  <2>1. \A t \in touched : t[1] \in 1 .. MaxCalls /\ t[1] < calls
    BY DEF IInv, TypeOK, LateTouches
  <2>. QED BY <1>0, <1>1, <1>2, <1>3, <2>1 DEF IInv, LateTouches
<1>9. ResultIsOwn'
  <2>. SUFFICES ASSUME NEW n \in 1 .. MaxCalls, returned'[n] = "ok", ended[n] # "ok",
                       ~ \E t \in touched : t[1] < n
                PROVE  /\ made'[n] \in Shared
                       /\ \E m \in 1 .. n - 1 : made'[m] \in Shared /\ ended[m] = "ok"
    BY <1>1 DEF ResultIsOwn
  <2>0. n # c /\ returned[n] = "ok" BY <1>3
  <2>1. made[n] \in Shared BY <2>0 DEF IInv, ResultIsOwn
  <2>2. PICK m \in 1 .. n - 1 : made[m] \in Shared /\ ended[m] = "ok"
    BY <2>0 DEF IInv, ResultIsOwn
  <2>3. made[c] = "none" BY <1>0, <1>2 DEF IInv, Order
  <2>4. m \in 1 .. MaxCalls BY <2>2
  <2>. QED BY <1>3, <2>0, <2>1, <2>2, <2>3, <2>4
<1>10. ASSUME touched' = {} PROVE Clean'
  <2>1. Clean BY <1>1, <1>10 DEF IInv
  <2>2. Reachable'
    <3>. SUFFICES ASSUME NEW n \in pending
                  PROVE  /\ \/ alive[Record(n)']
                            \/ /\ made'[n] \in {"opendir", "close"} /\ returned'[n] = "abandoned"
                         /\ Record(n)' # 0 => ~ finished[n]
      BY <2>1, <1>1 DEF Clean, Reachable
    <3>1. n \in 1 .. MaxCalls /\ n # c BY <1>6
    <3>2. Record(n)' = Record(n) /\ made'[n] = made[n] /\ returned'[n] = returned[n]
      BY <3>1, <1>3, <1>4
    <3>. QED BY <3>2, <2>1 DEF Clean, Reachable
  <2>3. InCall' BY <1>1 DEF InCall
  <2>4. OwnFinish'
    <3>. SUFFICES ASSUME finished[0], status[0] = "ok"
                  PROVE  \E m \in 1 .. c : made'[m] \in Shared /\ ended[m] = "ok"
      BY <1>1 DEF OwnFinish
    <3>1. PICK m \in 1 .. calls : made[m] \in Shared /\ ended[m] = "ok"
      BY <2>1 DEF Clean, OwnFinish
    <3>. QED BY <3>1, <1>0, <1>2, <1>3
  <2>5. Holder'
    <3>. SUFFICES ASSUME NEW n \in 1 .. MaxCalls, alive[n]
                  PROVE  /\ n <= c
                         /\ \/ Left(n)'
                            \/ n \in pending /\ made'[n] = "generic" /\ status[n] = "cancelled"
      BY <1>1 DEF Holder
    <3>1. n <= calls /\ (Left(n) \/ (n \in pending /\ made[n] = "generic" /\ status[n] = "cancelled"))
      BY <2>1, <1>1 DEF Clean, Holder
    <3>2. n # c BY <3>1, <1>0, <1>2
    <3>3. Left(n) => Left(n)' BY <3>2, <1>3 DEF Left
    <3>. QED BY <3>1, <3>2, <3>3, <1>0, <1>2, <1>3
  <2>. QED BY <2>2, <2>3, <2>4, <2>5 DEF Clean
<1>. QED BY <1>5, <1>7, <1>8, <1>9, <1>10 DEF IInv

\* What a callback does: nothing, if it is told of the shutdown and must not look; else it uses
\* its record, unless that was freed, which only smb2_opendir and smb2_close do.
LEMMA CallbackEffect ==
    ASSUME IInv, context # "gone", NEW n \in pending, NEW result \in Results \cup {"shutdown"},
           SyncCallback(n, result)
    PROVE  /\ finished' \in [Records -> BOOLEAN] /\ alive' \in [Records -> BOOLEAN]
           /\ status' \in [Records -> Results \cup {"cancelled"}]
           /\ touched # {} => touched' = touched
           /\ touched = {} /\ touched' # {} =>
                /\ touched' = {<<n, result>>} /\ result # "shutdown"
                /\ made[n] \in {"opendir", "close"} /\ returned[n] = "abandoned"
                /\ n = calls => ~ waiting
           /\ touched' = {} =>
                \/ /\ result = "shutdown" /\ made[n] \in {"opendir", "close"}
                   /\ UNCHANGED <<finished, status, alive>>
                \/ /\ status[Record(n)] = "cancelled" /\ made[n] \notin {"opendir", "open"}
                   /\ alive' = [alive EXCEPT ![Record(n)] = (Record(n) = Embedded)]
                   /\ UNCHANGED <<finished, status>>
                \/ /\ made[n] \in {"opendir", "open"} \/ status[Record(n)] # "cancelled"
                   /\ Finish(made[n], Record(n), result)
<1>0. n \in 1 .. MaxCalls BY DEF IInv, TypeOK
<1>1. Record(n) \in Records BY <1>0, RecordOf DEF IInv
<1>2. touched = {} =>
        \/ alive[Record(n)]
        \/ /\ made[n] \in {"opendir", "close"} /\ returned[n] = "abandoned"
           /\ n = calls => ~ waiting
  BY DEF IInv, Clean, Reachable
<1>3. CASE result = "shutdown" /\ IgnoresShutdown(made[n])
  <2>1. UNCHANGED <<finished, status, alive, touched>> BY <1>3 DEF SyncCallback
  <2>. QED BY <1>3, <2>1 DEF IInv, TypeOK, IgnoresShutdown
<1>4. CASE ~ (result = "shutdown" /\ IgnoresShutdown(made[n]))
  <2>1. touched' = IF alive[Record(n)] \/ touched # {} THEN touched ELSE {<<n, result>>}
    BY <1>4 DEF SyncCallback
  <2>2. PICK q \in Block(Record(n)) :
          IF status[q] = "cancelled" /\ made[n] \notin {"opendir", "open"}
          THEN /\ alive' = [alive EXCEPT ![q] = (q = Embedded)]
               /\ UNCHANGED <<finished, status>>
          ELSE Finish(made[n], q, result)
    BY <1>4 DEF SyncCallback
  <2>3. q \in Records BY <2>2, <1>1 DEF Block
  <2>4. alive[Record(n)] => q = Record(n) BY <2>2 DEF Block
  <2>5. /\ finished' \in [Records -> BOOLEAN] /\ alive' \in [Records -> BOOLEAN]
        /\ status' \in [Records -> Results \cup {"cancelled"}]
    <3>1. CASE status[q] = "cancelled" /\ made[n] \notin {"opendir", "open"}
      BY <2>2, <2>3, <3>1 DEF IInv, TypeOK
    <3>2. CASE ~ (status[q] = "cancelled" /\ made[n] \notin {"opendir", "open"})
      <4>1. /\ finished' = [finished EXCEPT ![q] = TRUE] /\ UNCHANGED alive
            /\ status' = [status EXCEPT ![q] = IF result # "ok" THEN "error"
                                       ELSE IF made[n] = "opendir" THEN @ ELSE "ok"]
        BY <2>2, <3>2 DEF Finish
      <4>2. status' \in [Records -> Results \cup {"cancelled"}] BY <2>3, <4>1 DEF IInv, TypeOK
      <4>3. finished' \in [Records -> BOOLEAN] BY <2>3, <4>1 DEF IInv, TypeOK
      <4>. QED BY <4>1, <4>2, <4>3 DEF IInv, TypeOK
    <3>. QED BY <3>1, <3>2
  <2>6. touched' = {} =>
           \/ /\ status[Record(n)] = "cancelled" /\ made[n] \notin {"opendir", "open"}
              /\ alive' = [alive EXCEPT ![Record(n)] = (Record(n) = Embedded)]
              /\ UNCHANGED <<finished, status>>
           \/ /\ made[n] \in {"opendir", "open"} \/ status[Record(n)] # "cancelled"
              /\ Finish(made[n], Record(n), result)
    <3>. SUFFICES ASSUME touched' = {}
                  PROVE  \/ /\ status[q] = "cancelled" /\ made[n] \notin {"opendir", "open"}
                            /\ alive' = [alive EXCEPT ![q] = (q = Embedded)]
                            /\ UNCHANGED <<finished, status>>
                         \/ /\ made[n] \in {"opendir", "open"} \/ status[q] # "cancelled"
                            /\ Finish(made[n], q, result)
      <4>1. touched' = {} => q = Record(n) BY <2>1, <2>4
      <4>. QED BY <4>1
    <3>. QED BY <2>2
  <2>7. touched = {} /\ touched' # {} =>
                /\ touched' = {<<n, result>>} /\ result # "shutdown"
                /\ made[n] \in {"opendir", "close"} /\ returned[n] = "abandoned"
                /\ n = calls => ~ waiting
    BY <2>1, <1>2, <1>4 DEF IgnoresShutdown
  <2>8. touched # {} => touched' = touched BY <2>1
  <2>. QED BY <2>5, <2>6, <2>7, <2>8
<1>. QED BY <1>3, <1>4

\* An operation ends, in the wait of its own call or of a later one, or when the context is
\* destroyed.
LEMMA EndingKeeps ==
    ASSUME IInv, context # "gone", NEW n \in pending, NEW result \in Results \cup {"shutdown"},
           SyncCallback(n, result), pending' = pending \ {n}, valid' \in BOOLEAN,
           IF result = "shutdown" THEN ~ waiting /\ UNCHANGED ended
           ELSE waiting /\ ended' = [ended EXCEPT ![n] = result],
           UNCHANGED <<context, calls, made, waiting, returned>>
    PROVE  IInv'
<1>. DEFINE r == Record(n)
<1>1. n \in 1 .. MaxCalls /\ n <= calls /\ made[n] \in Kinds /\ ended[n] = "none" /\ calls \in Nat
  BY DEF IInv, TypeOK, Order
<1>2. r \in Records /\ r \in {0, n} /\ (r = 0 <=> made[n] \in Shared)
  BY <1>1, RecordOf DEF IInv
<1>3. \A m \in 1 .. MaxCalls : Record(m)' = Record(m) BY DEF Record
<1>4. Record(calls)' = Record(calls) BY DEF Record
<1>. HIDE DEF r
<1>5. TypeOK'
  <2>1. ended' \in [1 .. MaxCalls -> Results \cup {"none"}] BY <1>1 DEF IInv, TypeOK
  <2>2. pending' \subseteq 1 .. MaxCalls BY DEF IInv, TypeOK
  <2>3. touched' \subseteq (1 .. MaxCalls) \X (Results \cup {"shutdown"})
    <3>1. touched' = touched \/ touched' = {} \/ touched' = {<<n, result>>} BY CallbackEffect
    <3>2. touched \subseteq (1 .. MaxCalls) \X (Results \cup {"shutdown"}) BY DEF IInv, TypeOK
    <3>. QED BY <3>1, <3>2, <1>1
  <2>. QED BY <2>1, <2>2, <2>3, CallbackEffect DEF IInv, TypeOK
<1>6. \A m \in 1 .. MaxCalls : m # n => ended'[m] = ended[m] BY DEF IInv, TypeOK
<1>7. Order' BY <1>1, <1>6 DEF IInv, TypeOK, Order
<1>8. LateTouches'
  <2>1. CASE touched # {} BY <2>1, CallbackEffect DEF IInv, LateTouches
  <2>2. CASE touched = {} /\ touched' # {}
    <3>1. /\ touched' = {<<n, result>>} /\ result # "shutdown"
          /\ made[n] \in {"opendir", "close"} /\ returned[n] = "abandoned"
          /\ n = calls => ~ waiting
      BY <2>2, CallbackEffect
    <3>2. n < calls BY <3>1, <1>1
    <3>. QED BY <3>1, <3>2 DEF LateTouches
  <2>3. CASE touched' = {} BY <2>3 DEF LateTouches
  <2>. QED BY <2>1, <2>2, <2>3
<1>9. \A m \in 1 .. MaxCalls : ended[m] = "ok" => ended'[m] = "ok" BY <1>1, <1>6
<1>10. ResultIsOwn'
  <2>. SUFFICES ASSUME NEW m \in 1 .. MaxCalls, returned[m] = "ok"
                PROVE  \/ ended'[m] = "ok"
                       \/ /\ made[m] \in Shared
                          /\ \E l \in 1 .. m - 1 : made[l] \in Shared /\ ended'[l] = "ok"
                       \/ \E t \in touched' : t[1] < m
    BY DEF ResultIsOwn
  <2>1. CASE ended[m] = "ok" BY <2>1, <1>9
  <2>2. CASE /\ made[m] \in Shared
             /\ \E l \in 1 .. m - 1 : made[l] \in Shared /\ ended[l] = "ok"
    <3>1. PICK l \in 1 .. m - 1 : made[l] \in Shared /\ ended[l] = "ok" BY <2>2
    <3>2. l \in 1 .. MaxCalls BY <3>1
    <3>. QED BY <2>2, <3>1, <3>2, <1>9
  <2>3. CASE \E t \in touched : t[1] < m BY <2>3, CallbackEffect
  <2>. QED BY <2>1, <2>2, <2>3 DEF IInv, ResultIsOwn
<1>11. ASSUME touched' = {} PROVE Clean'
  <2>1. Clean BY <1>11, CallbackEffect DEF IInv
  <2>2. \/ /\ result = "shutdown" /\ made[n] \in {"opendir", "close"}
           /\ UNCHANGED <<finished, status, alive>>
        \/ /\ status[r] = "cancelled" /\ made[n] \notin {"opendir", "open"}
           /\ alive' = [alive EXCEPT ![r] = (r = 0)]
           /\ UNCHANGED <<finished, status>>
        \/ /\ made[n] \in {"opendir", "open"} \/ status[r] # "cancelled"
           /\ Finish(made[n], r, result)
    BY <1>11, CallbackEffect DEF r
  <2>3. \A q \in Records : q # r => finished'[q] = finished[q] /\ status'[q] = status[q]
                                    /\ alive'[q] = alive[q]
    BY <2>2, <1>2 DEF IInv, TypeOK, Finish
  <2>4. \A q \in Records : alive'[q] => alive[q]
    <3>1. alive[0] BY <2>1 DEF Clean, Reachable
    <3>2. alive'[r] => r = 0 \/ alive[r] BY <2>2, <1>2 DEF IInv, TypeOK, Finish
    <3>. QED BY <3>1, <3>2, <2>3
  <2>5. alive[0] => alive'[0] BY <2>2, <1>2 DEF IInv, TypeOK, Finish
  <2>6. Reachable'
    <3>. SUFFICES ASSUME NEW m \in pending'
                  PROVE  /\ \/ alive'[Record(m)]
                            \/ /\ made[m] \in {"opendir", "close"} /\ returned[m] = "abandoned"
                               /\ m = calls => ~ waiting
                         /\ Record(m) # 0 => ~ finished'[m]
      <4>1. \A m \in pending' : Record(m)' = Record(m) BY <1>3 DEF IInv, TypeOK
      <4>. QED BY <4>1, <2>1, <2>5 DEF Clean, Reachable
    <3>1. m \in pending /\ m # n /\ m \in 1 .. MaxCalls BY DEF IInv, TypeOK
    <3>2. Record(m) \in Records /\ Record(m) \in {0, m} BY <3>1, RecordOf DEF IInv
    <3>3. /\ \/ alive[Record(m)]
             \/ /\ made[m] \in {"opendir", "close"} /\ returned[m] = "abandoned"
                /\ m = calls => ~ waiting
          /\ Record(m) # 0 => ~ finished[m]
      BY <2>1, <3>1 DEF Clean, Reachable
    <3>4. CASE Record(m) = 0 BY <3>3, <3>4, <2>1, <2>5 DEF Clean, Reachable
    <3>5. CASE Record(m) = m /\ m # 0
      <4>1. m \in Records /\ m # r BY <3>1, <3>2, <3>5, <1>2
      <4>. QED BY <4>1, <3>3, <3>5, <2>3
    <3>. QED BY <3>2, <3>4, <3>5
  <2>7. \A m \in 1 .. MaxCalls : m # n => finished'[m] = finished[m] /\ status'[m] = status[m]
                                          /\ alive'[m] = alive[m]
    BY <2>3, <1>2
  <2>8. InCall'
    <3>. SUFFICES ASSUME waiting, Record(calls) # 0
                  PROVE  /\ alive'[calls] /\ status'[calls] # "cancelled"
                         /\ finished'[calls] \/ calls \in pending'
      BY <1>4 DEF InCall
    <3>1. /\ alive[calls] /\ status[calls] # "cancelled" /\ calls \in 1 .. MaxCalls
          /\ finished[calls] \/ calls \in pending
      BY <2>1 DEF Clean, InCall, IInv, TypeOK, Order
    <3>2. CASE calls # n BY <3>1, <3>2, <2>7
    <3>3. CASE calls = n
      <4>1. r = n BY <3>3, <1>2 DEF r
      <4>2. Finish(made[n], r, result) BY <2>2, <3>1, <3>3, <4>1
      <4>. QED BY <4>1, <4>2, <3>1, <3>3, <1>2 DEF Finish, IInv, TypeOK
    <3>. QED BY <3>2, <3>3
  <2>9. OwnFinish'
    <3>1. ASSUME waiting, Record(calls) # 0, finished'[calls], status'[calls] = "ok"
          PROVE  ended'[calls] = "ok"
      <4>1. calls \in 1 .. MaxCalls BY <3>1 DEF IInv, TypeOK, Order
      <4>2. CASE calls # n BY <3>1, <4>1, <4>2, <2>1, <2>7, <1>9 DEF Clean, OwnFinish
      <4>3. CASE calls = n
        <5>1. r = n BY <3>1, <4>3, <1>2 DEF r
        <5>2. status[r] # "cancelled" BY <3>1, <4>3, <5>1, <2>1 DEF Clean, InCall
        <5>3. Finish(made[n], r, result) BY <2>2, <3>1, <5>2
        <5>4. result = "ok" BY <3>1, <4>3, <5>1, <5>3, <1>2 DEF Finish, IInv, TypeOK
        <5>. QED BY <5>4, <4>3, <4>1 DEF IInv, TypeOK
      <4>. QED BY <4>2, <4>3
    <3>2. ASSUME finished'[0], status'[0] = "ok"
          PROVE  \E m \in 1 .. calls : made[m] \in Shared /\ ended'[m] = "ok"
      <4>1. CASE finished[0] /\ status[0] = "ok"
        <5>1. PICK m \in 1 .. calls : made[m] \in Shared /\ ended[m] = "ok"
          BY <4>1, <2>1 DEF Clean, OwnFinish
        <5>2. m \in 1 .. MaxCalls BY DEF IInv, TypeOK
        <5>. QED BY <5>1, <5>2, <1>9
      <4>2. CASE ~ (finished[0] /\ status[0] = "ok")
        <5>1. r = 0 /\ Finish(made[n], r, result) /\ made[n] \in Shared
          BY <4>2, <3>2, <2>2, <2>3, <1>2
        <5>2. result = "ok" BY <5>1, <3>2, <1>2 DEF Finish, IInv, TypeOK
        <5>3. ended'[n] = "ok" BY <5>2, <1>1 DEF IInv, TypeOK
        <5>. QED BY <5>1, <5>3, <1>1
      <4>. QED BY <4>1, <4>2
    <3>. QED BY <3>1, <3>2, <1>4 DEF OwnFinish
  <2>10. Holder'
    <3>. SUFFICES ASSUME NEW m \in 1 .. MaxCalls, alive'[m]
                  PROVE  /\ m <= calls
                         /\ \/ waiting /\ Record(calls) = m
                            \/ Left(m)
                            \/ m \in pending' /\ made[m] = "generic" /\ status'[m] = "cancelled"
      BY <1>4 DEF Holder, Left
    <3>1. m \in Records /\ m # 0 OBVIOUS
    <3>2. /\ m <= calls
          /\ \/ waiting /\ Record(calls) = m
             \/ Left(m)
             \/ m \in pending /\ made[m] = "generic" /\ status[m] = "cancelled"
      BY <3>1, <2>1, <2>4 DEF Clean, Holder
    <3>3. CASE m = n /\ made[m] = "generic" /\ status[m] = "cancelled"
      <4>1. r = n BY <3>3, <1>2
      <4>2. alive' = [alive EXCEPT ![r] = (r = 0)] BY <2>2, <3>3, <4>1
      <4>. QED BY <3>1, <3>3, <4>1, <4>2 DEF IInv, TypeOK
    <3>4. CASE m # n BY <3>2, <3>4, <2>7
    <3>. QED BY <3>2, <3>3, <3>4
  <2>. QED BY <2>6, <2>8, <2>9, <2>10 DEF Clean
<1>. QED BY <1>5, <1>7, <1>8, <1>10, <1>11 DEF IInv

LEMMA ServiceKeeps ==
    ASSUME IInv, NEW n \in 1 .. MaxCalls, NEW result \in Results, Service(n, result)
    PROVE  IInv'
<1>1. /\ context = "open" /\ waiting /\ n \in pending /\ pending' = pending \ {n}
      /\ SyncCallback(n, result) /\ ended' = [ended EXCEPT ![n] = result]
      /\ valid' \in BOOLEAN /\ result # "shutdown"
      /\ UNCHANGED <<context, calls, made, waiting, returned>>
  BY DEF Service, Polling, IInv, TypeOK
<1>. QED BY <1>1, EndingKeeps

LEMMA ShutDownKeeps ==
    ASSUME IInv, NEW n \in 1 .. MaxCalls, ShutDown(n)
    PROVE  IInv'
<1>1. /\ context = "closing" /\ n \in pending /\ pending' = pending \ {n}
      /\ SyncCallback(n, "shutdown") /\ UNCHANGED ended /\ valid' \in BOOLEAN
      /\ UNCHANGED <<context, calls, made, waiting, returned>>
  BY DEF ShutDown, IInv, TypeOK
<1>2. ~ waiting BY <1>1 DEF IInv, Order
<1>. QED BY <1>1, <1>2, EndingKeeps

\* A call that has its answer returns it and gives its record back.
LEMMA ReturnKeeps == ASSUME IInv, WaitForReply PROVE IInv'
<1>0. PICK c \in 1 .. MaxCalls : c = calls /\ context = "open" /\ made[c] \in Kinds
  BY DEF IInv, TypeOK, Order, WaitForReply
<1>. DEFINE r == Record(c)
            result == IF status[r] = "ok" THEN "ok" ELSE "error"
<1>1. /\ waiting /\ finished[r] /\ waiting' = FALSE
      /\ returned' = [returned EXCEPT ![c] = result]
      /\ alive' = [alive EXCEPT ![r] = \/ r = 0 \/ made[c] = "open"
                                       \/ made[c] = "opendir" /\ result = "ok"]
      /\ UNCHANGED <<context, valid, calls, made, finished, status, pending, ended, touched>>
  BY <1>0 DEF WaitForReply, Return
<1>2. r \in Records /\ r \in {0, c} /\ (r = 0 <=> made[c] \in Shared)
  BY RecordOf DEF IInv
<1>3. \A n \in 1 .. MaxCalls : Record(n)' = Record(n) BY <1>1 DEF Record
<1>4. \A n \in 1 .. MaxCalls : n # c => returned'[n] = returned[n] BY <1>1 DEF IInv, TypeOK
<1>5. returned'[c] = result BY <1>1 DEF IInv, TypeOK
<1>. HIDE DEF r
<1>6. TypeOK'
  <2>1. alive' \in [Records -> BOOLEAN] BY <1>1, <1>2 DEF IInv, TypeOK
  <2>2. returned' \in [1 .. MaxCalls -> Returns] BY <1>1 DEF IInv, TypeOK
  <2>. QED BY <1>1, <2>1, <2>2 DEF IInv, TypeOK
<1>7. Order'
  <2>1. \A n \in 1 .. MaxCalls : n > calls => n # c BY <1>0
  <2>. QED BY <2>1, <1>0, <1>1, <1>4 DEF IInv, Order
<1>8. \A t \in touched : t[1] \in 1 .. MaxCalls /\ t[1] < c BY <1>0 DEF IInv, TypeOK, LateTouches
<1>9. LateTouches' BY <1>0, <1>1, <1>4, <1>8 DEF IInv, LateTouches
<1>10. ResultIsOwn'
  <2>. SUFFICES ASSUME NEW n \in 1 .. MaxCalls, returned'[n] = "ok"
                PROVE  \/ ended[n] = "ok"
                       \/ /\ made[n] \in Shared
                          /\ \E m \in 1 .. n - 1 : made[m] \in Shared /\ ended[m] = "ok"
                       \/ \E t \in touched : t[1] < n
    BY <1>1 DEF ResultIsOwn
  <2>1. CASE n # c BY <2>1, <1>4 DEF IInv, ResultIsOwn
  <2>2. CASE n = c /\ touched # {} BY <2>2, <1>8
  <2>3. CASE n = c /\ touched = {}
    <3>1. status[r] = "ok" BY <2>3, <1>5
    <3>2. Clean BY <2>3 DEF IInv
    <3>3. CASE r = 0
      <4>1. PICK m \in 1 .. c : made[m] \in Shared /\ ended[m] = "ok"
        BY <3>1, <3>2, <3>3, <1>0, <1>1 DEF Clean, OwnFinish
      <4>2. m = c \/ m \in 1 .. c - 1 OBVIOUS
      <4>. QED BY <2>3, <3>3, <4>1, <4>2, <1>2
    <3>4. CASE r = c /\ r # 0
      BY <2>3, <3>1, <3>2, <3>4, <1>0, <1>1 DEF Clean, OwnFinish, r
    <3>. QED BY <3>3, <3>4, <1>2
  <2>. QED BY <2>1, <2>2, <2>3
<1>11. ASSUME touched' = {} PROVE Clean'
  <2>1. Clean BY <1>1, <1>11 DEF IInv
  <2>2. \A q \in Records : q # r => alive'[q] = alive[q] BY <1>1, <1>2 DEF IInv, TypeOK
  <2>3. alive'[0]
    <3>1. alive[0] BY <2>1, <1>0 DEF Clean, Reachable
    <3>. QED BY <3>1, <1>1, <1>2 DEF IInv, TypeOK
  <2>4. Reachable'
    <3>. SUFFICES ASSUME NEW n \in pending
                  PROVE  /\ \/ alive'[Record(n)]
                            \/ made[n] \in {"opendir", "close"} /\ returned'[n] = "abandoned"
                         /\ Record(n) # 0 => ~ finished[n]
      <4>1. \A n \in pending : Record(n)' = Record(n) BY <1>3 DEF IInv, TypeOK
      <4>. QED BY <4>1, <2>3, <1>1 DEF Reachable
    <3>1. n \in 1 .. MaxCalls BY DEF IInv, TypeOK
    <3>2. Record(n) \in Records /\ Record(n) \in {0, n} BY <3>1, RecordOf DEF IInv
    <3>3. Record(n) # 0 => ~ finished[n] BY <2>1 DEF Clean, Reachable
    <3>4. CASE Record(n) = 0 BY <3>4, <2>3
    <3>5. CASE Record(n) = n /\ n # 0
      <4>1. n # c \/ r = 0 BY <3>1, <3>3, <3>5, <1>1, <1>2 DEF r
      <4>2. n # c BY <4>1, <3>5 DEF r
      <4>3. n # r BY <4>2, <3>5, <1>2
      <4>4. alive[Record(n)] \/ (made[n] \in {"opendir", "close"} /\ returned[n] = "abandoned")
        BY <2>1 DEF Clean, Reachable
      <4>. QED BY <3>1, <3>3, <3>5, <3>2, <4>2, <4>3, <4>4, <2>2, <1>4
    <3>. QED BY <3>2, <3>4, <3>5
  <2>5. InCall' BY <1>1 DEF InCall
  <2>6. OwnFinish' BY <1>1, <2>1 DEF Clean, OwnFinish
  <2>7. Holder'
    <3>. SUFFICES ASSUME NEW n \in 1 .. MaxCalls, alive'[n]
                  PROVE  /\ n <= calls
                         /\ \/ Left(n)'
                            \/ n \in pending /\ made[n] = "generic" /\ status[n] = "cancelled"
      BY <1>1 DEF Holder
    <3>1. n \in Records /\ n # 0 OBVIOUS
    <3>2. CASE n = r
      <4>1. n = c BY <3>1, <3>2, <1>2
      <4>2. made[c] = "open" \/ (made[c] = "opendir" /\ result = "ok")
        BY <3>1, <3>2, <1>1, <1>2 DEF IInv, TypeOK
      <4>. QED BY <4>1, <4>2, <1>0, <1>1, <1>5 DEF Left
    <3>3. CASE n # r
      <4>1. alive[n] BY <3>1, <3>3, <2>2
      <4>2. /\ n <= calls
            /\ \/ Left(n)
               \/ n \in pending /\ made[n] = "generic" /\ status[n] = "cancelled"
        BY <3>3, <4>1, <2>1, <1>0 DEF Clean, Holder, r
      <4>3. CASE n # c
        <5>1. Left(n) => Left(n)' BY <4>3, <1>1, <1>4 DEF Left
        <5>. QED BY <4>2, <5>1
      <4>4. CASE n = c
        <5>1. r = 0 /\ made[c] \in Shared BY <3>3, <4>4, <1>2
        <5>2. returned[c] = "none" BY <1>0, <1>1 DEF IInv, Order
        <5>. QED BY <5>1, <5>2, <4>2, <4>4 DEF Left
      <4>. QED BY <4>3, <4>4
    <3>. QED BY <3>2, <3>3
  <2>. QED BY <2>4, <2>5, <2>6, <2>7 DEF Clean
<1>. QED BY <1>6, <1>7, <1>9, <1>10, <1>11 DEF IInv

\* A call gives up: its record stays for the callback, unless the call frees it, or the callback
\* has run.
LEMMA WaitFailsKeeps == ASSUME IInv, WaitFails PROVE IInv'
<1>0. PICK c \in 1 .. MaxCalls : c = calls /\ context = "open" /\ made[c] \in Kinds
  BY DEF IInv, TypeOK, Order, WaitFails, Polling
<1>. DEFINE r == Record(c)
            result == IF finished[r] THEN "missed" ELSE "abandoned"
<1>1. /\ waiting /\ waiting' = FALSE
      /\ returned' = [returned EXCEPT ![c] = result]
      /\ status' = [status EXCEPT ![r] = IF Cancelled(made[c]) THEN "cancelled" ELSE @]
      /\ alive' = [alive EXCEPT ![r] = ~ FreedAtOnce(made[c])]
      /\ \/ made[c] \in {"open", "opendir"} /\ pending' = pending \ {c}
         \/ made[c] # "open" /\ pending' = pending
      /\ UNCHANGED <<context, calls, made, finished, ended, touched>>
  BY <1>0 DEF WaitFails, Return, Polling, Withdrawn
<1>2. r \in Records /\ r \in {0, c} /\ (r = 0 <=> made[c] \in Shared)
  BY RecordOf DEF IInv
<1>3. \A n \in 1 .. MaxCalls : Record(n)' = Record(n) BY <1>1 DEF Record
<1>4. \A n \in 1 .. MaxCalls : n # c => returned'[n] = returned[n] BY <1>1 DEF IInv, TypeOK
<1>5. returned'[c] = result /\ returned'[c] # "ok" BY <1>1 DEF IInv, TypeOK
<1>. HIDE DEF r
<1>6. TypeOK'
  <2>1. alive' \in [Records -> BOOLEAN] BY <1>1, <1>2 DEF IInv, TypeOK
  <2>2. returned' \in [1 .. MaxCalls -> Returns] BY <1>1 DEF IInv, TypeOK
  <2>3. status' \in [Records -> Results \cup {"cancelled"}] BY <1>1, <1>2 DEF IInv, TypeOK
  <2>4. valid' \in BOOLEAN BY DEF WaitFails, IInv, TypeOK
  <2>5. pending' \subseteq 1 .. MaxCalls BY <1>1 DEF IInv, TypeOK
  <2>. QED BY <1>1, <2>1, <2>2, <2>3, <2>4, <2>5 DEF IInv, TypeOK
<1>7. Order'
  <2>1. \A n \in 1 .. MaxCalls : n > calls => n # c BY <1>0
  <2>. QED BY <2>1, <1>0, <1>1, <1>4 DEF IInv, Order
<1>8. LateTouches'
  <2>1. \A t \in touched : t[1] \in 1 .. MaxCalls /\ t[1] # c
    BY <1>0 DEF IInv, TypeOK, LateTouches
  <2>. QED BY <1>1, <1>4, <2>1 DEF IInv, LateTouches
<1>9. ResultIsOwn' BY <1>1, <1>4, <1>5 DEF IInv, ResultIsOwn
<1>10. ASSUME touched' = {} PROVE Clean'
  <2>1. Clean BY <1>1, <1>10 DEF IInv
  <2>2. \A q \in Records : q # r => alive'[q] = alive[q] /\ status'[q] = status[q]
    BY <1>1, <1>2 DEF IInv, TypeOK
  <2>3. alive'[r] = (~ FreedAtOnce(made[c])) BY <1>1, <1>2 DEF IInv, TypeOK
  <2>4. alive'[0]
    <3>1. alive[0] BY <2>1, <1>0 DEF Clean, Reachable
    <3>2. CASE r = 0 BY <3>2, <2>3, <1>2 DEF FreedAtOnce
    <3>3. CASE r # 0 BY <3>1, <3>3, <2>2
    <3>. QED BY <3>2, <3>3
  <2>5. Reachable'
    <3>. SUFFICES ASSUME NEW n \in pending, n \in pending'
                  PROVE  /\ \/ alive'[Record(n)]
                            \/ made[n] \in {"opendir", "close"} /\ returned'[n] = "abandoned"
                         /\ Record(n) # 0 => ~ finished[n]
      <4>1. \A n \in pending : Record(n)' = Record(n) BY <1>3 DEF IInv, TypeOK
      <4>2. \A n \in pending' : n \in pending BY <1>1
      <4>. QED BY <4>1, <4>2, <2>4, <1>1 DEF Reachable
    <3>1. n \in 1 .. MaxCalls BY DEF IInv, TypeOK
    <3>2. Record(n) \in Records /\ Record(n) \in {0, n} BY <3>1, RecordOf DEF IInv
    <3>3. Record(n) # 0 => ~ finished[n] BY <2>1 DEF Clean, Reachable
    <3>4. CASE Record(n) = 0 BY <3>4, <2>4
    <3>5. CASE Record(n) = n /\ n # 0 /\ n # c
      <4>1. n # r BY <3>5, <1>2
      <4>2. alive[Record(n)] \/ (made[n] \in {"opendir", "close"} /\ returned[n] = "abandoned")
        BY <2>1 DEF Clean, Reachable
      <4>. QED BY <3>1, <3>2, <3>3, <3>5, <4>1, <4>2, <2>2, <1>4
    <3>6. CASE Record(n) = n /\ n # 0 /\ n = c
      <4>1. r = c BY <3>6 DEF r
      <4>. QED BY <3>3, <3>6, <4>1, <2>3, <1>5 DEF FreedAtOnce
    <3>. QED BY <3>2, <3>4, <3>5, <3>6
  <2>6. InCall' BY <1>1 DEF InCall
  <2>7. OwnFinish'
    <3>. SUFFICES ASSUME finished[0], status'[0] = "ok"
                  PROVE  \E m \in 1 .. calls : made[m] \in Shared /\ ended[m] = "ok"
      BY <1>1 DEF OwnFinish
    <3>1. status[0] = "ok" BY <2>2, <1>1, <1>2 DEF IInv, TypeOK, Cancelled
    <3>. QED BY <3>1, <2>1 DEF Clean, OwnFinish
  <2>8. Holder'
    <3>. SUFFICES ASSUME NEW n \in 1 .. MaxCalls, alive'[n]
                  PROVE  /\ n <= calls
                         /\ \/ Left(n)'
                            \/ n \in pending' /\ made[n] = "generic" /\ status'[n] = "cancelled"
      BY <1>1 DEF Holder
    <3>1. n \in Records /\ n # 0 OBVIOUS
    <3>2. CASE n = r
      <4>1. n = c /\ r = c /\ made[c] \notin Shared BY <3>1, <3>2, <1>2
      <4>2. made[c] \in {"open", "generic", "shares"}
        BY <3>2, <4>1, <2>3, <1>0 DEF FreedAtOnce
      <4>3. CASE made[c] = "open" \/ finished[r] BY <4>1, <4>3, <1>0, <1>1, <1>5 DEF Left
      <4>4. CASE made[c] = "shares" /\ ~ finished[r] BY <4>1, <4>4, <1>0, <1>1, <1>5 DEF Left
      <4>5. CASE made[c] = "generic" /\ ~ finished[r]
        <5>1. c \in pending BY <4>1, <4>5, <2>1, <1>0, <1>1, <1>2 DEF Clean, InCall, r
        <5>2. status'[n] = "cancelled"
          BY <3>1, <4>1, <4>5, <1>1, <1>2 DEF Cancelled, IInv, TypeOK
        <5>. QED BY <4>1, <4>5, <5>1, <5>2, <1>0, <1>1
      <4>. QED BY <4>2, <4>3, <4>4, <4>5
    <3>3. CASE n # r
      <4>1. alive[n] /\ status'[n] = status[n] BY <3>1, <3>3, <2>2
      <4>2. /\ n <= calls
            /\ \/ Left(n)
               \/ n \in pending /\ made[n] = "generic" /\ status[n] = "cancelled"
        BY <3>3, <4>1, <2>1, <1>0 DEF Clean, Holder, r
      <4>3. CASE n # c
        <5>1. Left(n) => Left(n)' BY <4>3, <1>1, <1>4 DEF Left
        <5>2. n \in pending => n \in pending' BY <4>3, <1>1
        <5>. QED BY <4>1, <4>2, <5>1, <5>2
      <4>4. CASE n = c
        <5>1. r = 0 /\ made[c] \in Shared BY <3>3, <4>4, <1>2
        <5>2. returned[c] = "none" BY <1>0, <1>1 DEF IInv, Order
        <5>. QED BY <5>1, <5>2, <4>2, <4>4 DEF Left
      <4>. QED BY <4>3, <4>4
    <3>. QED BY <3>2, <3>3
  <2>. QED BY <2>5, <2>6, <2>7, <2>8 DEF Clean
<1>. QED BY <1>6, <1>7, <1>8, <1>9, <1>10 DEF IInv

\* The destruction of the context begins and ends between calls.
LEMMA DestroyKeeps == ASSUME IInv, Destroy \/ Gone PROVE IInv'
<1>1. /\ UNCHANGED <<calls, made, waiting, finished, status, pending, ended, returned, touched>>
      /\ ~ waiting /\ valid' \in BOOLEAN /\ context' \in {"closing", "gone"}
      /\ context' = "gone" => pending = {}
  BY DEF Destroy, Gone, IInv, Order, TypeOK
<1>2. \/ alive' = alive /\ context = "open" /\ context' = "closing"
      \/ alive' = [alive EXCEPT ![0] = FALSE] /\ context' = "gone" /\ pending = {}
  BY DEF Destroy, Gone
<1>3. \A n \in 1 .. MaxCalls : Record(n)' = Record(n) BY <1>1 DEF Record
<1>4. TypeOK'
  <2>1. alive' \in [Records -> BOOLEAN] BY <1>2 DEF IInv, TypeOK
  <2>. QED BY <1>1, <2>1 DEF IInv, TypeOK
<1>5. Order' BY <1>1 DEF IInv, Order
<1>6. LateTouches' BY <1>1 DEF IInv, LateTouches
<1>7. ResultIsOwn' BY <1>1 DEF IInv, ResultIsOwn
<1>8. ASSUME touched' = {} PROVE Clean'
  <2>1. Clean BY <1>1, <1>8 DEF IInv
  <2>2. Reachable'
    <3>1. CASE alive' = alive /\ context = "open"
      <4>1. \A n \in pending : Record(n)' = Record(n) BY <1>3 DEF IInv, TypeOK
      <4>. QED BY <3>1, <4>1, <2>1, <1>1 DEF Clean, Reachable
    <3>2. CASE context' = "gone" /\ pending = {} BY <3>2, <1>1 DEF Reachable
    <3>. QED BY <3>1, <3>2, <1>2
  <2>3. InCall' /\ OwnFinish' BY <1>1, <2>1 DEF InCall, Clean, OwnFinish
  <2>4. Holder'
    <3>1. \A n \in 1 .. MaxCalls : alive'[n] => alive[n] BY <1>2 DEF IInv, TypeOK
    <3>. QED BY <3>1, <2>1, <1>1 DEF Clean, Holder, Left
  <2>. QED BY <2>2, <2>3, <2>4 DEF Clean
<1>. QED BY <1>4, <1>5, <1>6, <1>7, <1>8 DEF IInv

LEMMA StutterKeeps == ASSUME IInv, UNCHANGED vars PROVE IInv'
<1>1. UNCHANGED <<context, valid, calls, made, waiting, finished, status, alive, pending, ended,
                  returned, touched>>
  BY DEF vars
<1>2. \A n \in 1 .. MaxCalls : Record(n)' = Record(n) BY <1>1 DEF Record
<1>3. Record(calls)' = Record(calls) BY <1>1 DEF Record
<1>4. TypeOK' BY <1>1 DEF IInv, TypeOK
<1>5. Order' /\ LateTouches' BY <1>1 DEF IInv, Order, LateTouches
<1>6. ResultIsOwn' BY <1>1 DEF IInv, ResultIsOwn
<1>7. ASSUME Clean PROVE Clean'
  <2>1. Reachable'
    <3>1. \A n \in pending : Record(n)' = Record(n) BY <1>2 DEF IInv, TypeOK
    <3>. QED BY <3>1, <1>1, <1>7 DEF Clean, Reachable
  <2>2. InCall' BY <1>1, <1>3, <1>7 DEF Clean, InCall
  <2>3. OwnFinish' BY <1>1, <1>3, <1>7 DEF Clean, OwnFinish
  <2>4. Holder' BY <1>1, <1>3, <1>7 DEF Clean, Holder, Left
  <2>. QED BY <2>1, <2>2, <2>3, <2>4 DEF Clean
<1>. QED BY <1>1, <1>4, <1>5, <1>6, <1>7 DEF IInv

LEMMA NextKeeps == ASSUME IInv, [Next]_vars PROVE IInv'
BY StutterKeeps, CallKeeps, NotStartedKeeps, ServiceKeeps, ShutDownKeeps, ReturnKeeps,
   WaitFailsKeeps, DestroyKeeps DEF Next

\* The inductive invariant: which record a call and a pending operation have, as long as no freed
\* one was used.
THEOREM Invariant == Spec => []IInv
<1>1. Init => IInv BY Initially
<1>2. IInv /\ [Next]_vars => IInv' BY NextKeeps
<1>. QED BY <1>1, <1>2, PTL DEF Spec

\* Only the callback of an smb2_opendir or smb2_close whose wait failed is the first to use a freed
\* record, and only in the wait of a later call (sync.c's callbacks and wait_for_reply).
THEOREM TouchedLate == Spec => []LateTouches
<1>1. IInv => LateTouches BY DEF IInv
<1>. QED BY <1>1, Invariant, PTL

\* A call that returns success reports the success of its own operation, but for the shared record
\* of connecting and disconnecting, and for what the use of a freed record does.
THEOREM ResultsAreOwn == Spec => []ResultIsOwn
<1>1. IInv => ResultIsOwn BY DEF IInv
<1>. QED BY <1>1, Invariant, PTL

\* When the context is gone every record has been given back, but for those the property names.
THEOREM RecordsComeBack == Spec => []RecordsReturned
<1>1. IInv => RecordsReturned
  <2>. SUFFICES ASSUME IInv, context = "gone", touched = {}, NEW n \in 1 .. calls, alive[n]
                PROVE  Left(n)
    BY DEF RecordsReturned
  <2>1. n \in 1 .. MaxCalls BY DEF IInv, TypeOK
  <2>2. ~ waiting /\ pending = {} BY DEF IInv, Order
  <2>. QED BY <2>1, <2>2 DEF IInv, Clean, Holder
<1>. QED BY <1>1, Invariant, PTL
=============================================================================
