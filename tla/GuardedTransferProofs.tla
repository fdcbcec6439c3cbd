------------------------ MODULE GuardedTransferProofs ------------------------
(***************************************************************************)
(* For any depth of the path, any size of the file and any number of       *)
(* operations: no operation reads or makes anything behind a link, and a   *)
(* transfer that succeeds is of one version of the file.                   *)
(***************************************************************************)
EXTENDS GuardedTransfer, SequenceTheorems, TLAPS

Kinds     == {"dir", "link", "file", "none"}
HandleSet == (1 .. Leaf) \X Kinds \X BOOLEAN

\* What the variables hold.
Typed ==
    /\ tree \in [1 .. Leaf -> Kinds]
    /\ version \in Nat /\ writer \in BOOLEAN
    /\ held \in Seq(HandleSet)
    /\ handle \in HandleSet \cup {None}
    /\ at \in Nat \ {0}
    /\ op \in Ops \cup {"none"}
    /\ validated \in Nat /\ expected \in Nat
    /\ received \in Seq(BOOLEAN \X Nat)

\* The running operation holds every directory above the component it looks at, and the handle
\* it opened last is on that component. Between operations there is none.
Walk ==
    IF op = "none" THEN handle = None /\ pc = "idle"
    ELSE /\ at <= GuardedTo(op) + 1
         /\ \A j \in 1 .. at - 1 : \E n \in 1 .. Len(held) : held[n][1] = j
         /\ \/ pc = "open" /\ handle = None
            \/ pc = "stat" /\ at <= GuardedTo(op) /\ handle # None /\ handle[1] = at
            \/ pc \in {"validate", "read"} /\ handle # None /\ handle[1] = Leaf

\* The handle is on what the tree has in its place, and keeps it there.
Pinned == handle # None => handle[3] /\ handle[2] # "none" /\ tree[handle[1]] = handle[2]

\* The handles held are on directories of the tree.
OnDirectories == \A n \in 1 .. Len(held) : held[n][2] = "dir"

\* While the file is open nobody writes it, so what was read of it is of the version that stat
\* reported.
OneVersion ==
    op # "none" =>
        /\ pc \in {"validate", "read"} => ~ writer
        /\ pc # "read" => received = <<>> /\ validated = 0
        /\ pc = "read" => /\ validated = version /\ expected \in {0, version}
                          /\ Len(received) <= Size
                          /\ \A n \in 1 .. Len(received) : received[n] = <<TRUE, version>>

IInv == Typed /\ Walk /\ Pinned /\ GuardsHold /\ OnDirectories /\ OneVersion /\ InsideOnly /\ Whole

USE TransferConstants DEF Leaf, Dirs, None

\* A component of which every directory above it is held is found in the tree itself
\* (SMBTransport.swift guardAncestors).
LEMMA HeldIsInside ==
    ASSUME IInv, op # "none", NEW i \in Nat, i <= at
    PROVE  Found(i) = {<<i, tree[i], TRUE>>}
<1>1. ASSUME NEW j \in Dirs, j < i PROVE tree[j] = "dir"
  <2>1. PICK n \in 1 .. Len(held) : held[n][1] = j
    BY <1>1 DEF IInv, Walk, Typed, Dirs
  <2>. QED BY <2>1 DEF IInv, GuardsHold
<1>. QED BY <1>1 DEF Found, Inside

\* Initially nothing is open.
LEMMA Initially == Init => IInv
<1>. SUFFICES ASSUME Init PROVE IInv OBVIOUS
<1>1. tree \in [1 .. Leaf -> Kinds] BY DEF Init, Kinds
<1>2. writer \in BOOLEAN BY DEF Init
<1>3. version \in Nat /\ at \in Nat \ {0} /\ validated \in Nat /\ expected \in Nat BY DEF Init
<1>4. held \in Seq(HandleSet) /\ handle \in HandleSet \cup {None} BY DEF Init
<1>5. op \in Ops \cup {"none"} /\ received \in Seq(BOOLEAN \X Nat) BY DEF Init
<1>6. Typed BY <1>1, <1>2, <1>3, <1>4, <1>5 DEF Typed
<1>7. Walk BY DEF Init, Walk
<1>8. Pinned BY DEF Init, Pinned
<1>9. OneVersion BY DEF Init, OneVersion
<1>10. GuardsHold /\ OnDirectories BY DEF Init, GuardsHold, OnDirectories
<1>11. InsideOnly /\ Whole BY DEF Init, InsideOnly, Whole
<1>. QED BY <1>6, <1>7, <1>8, <1>9, <1>10, <1>11 DEF IInv

\* A handle names a component of the path, what it was opened on, and whether the name led there
\* inside the tree.
LEMMA HandleParts ==
    /\ \A h \in HandleSet : h[1] \in 1 .. Leaf /\ h[2] \in Kinds /\ h[3] \in BOOLEAN
    /\ \A i \in 1 .. Leaf, k \in Kinds : <<i, k, TRUE>> \in HandleSet
BY DEF HandleSet

LEMMA FirstPart == ASSUME NEW p, NEW v, p = <<TRUE, v>> PROVE p[1] = TRUE
OBVIOUS

\* The other client of the share: what is held, and what is open, stays as it is.
LEMMA OthersKeep ==
    ASSUME IInv, NEW i \in 1 .. Leaf, PlantLink(i) \/ PutBack(i)
    PROVE  IInv'
<1>1. tree' = [tree EXCEPT ![i] = tree'[i]] /\ tree'[i] \in Kinds
  BY DEF PlantLink, PutBack, IInv, Typed, Kinds
<1>2. UNCHANGED <<version, held, handle, at, op, pc, validated, expected, received, outcome, made>>
  BY DEF PlantLink, PutBack
<1>3. writer' = writer BY DEF PlantLink, PutBack
<1>4. ~ Denied(i) BY DEF PlantLink, PutBack
<1>5. \A n \in 1 .. Len(held) : held[n][1] # i
  <2>. SUFFICES ASSUME NEW n \in 1 .. Len(held), held[n][1] = i PROVE FALSE OBVIOUS
  <2>1. held[n] \in Handles BY DEF Handles
  <2>2. held[n][3] /\ held[n][2] # "none" BY DEF IInv, GuardsHold, OnDirectories
  <2>. QED BY <1>4, <2>1, <2>2 DEF Denied
<1>6. handle # None => handle[1] # i
  <2>1. handle \in Handles BY DEF Handles
  <2>. QED BY <1>4, <2>1 DEF Denied, IInv, Pinned
<1>. tree \in [1 .. Leaf -> Kinds] BY DEF IInv, Typed
<1>7. tree' \in [1 .. Leaf -> Kinds]
  <2>1. tree'[i] \in Kinds BY <1>1
  <2>2. tree' = [tree EXCEPT ![i] = tree'[i]] BY <1>1
  <2>. QED BY <2>1, <2>2
<1>8. Typed' BY <1>2, <1>3, <1>7 DEF IInv, Typed
<1>9. Pinned'
  <2>1. handle # None => tree'[handle[1]] = tree[handle[1]] /\ handle[1] \in 1 .. Leaf
    BY <1>1, <1>6, HandleParts DEF IInv, Typed
  <2>. QED BY <1>2, <2>1 DEF IInv, Pinned
<1>10. OnDirectories' BY <1>2 DEF IInv, OnDirectories
<1>11. GuardsHold'
  <2>1. \A n \in 1 .. Len(held) : held[n][1] \in 1 .. Leaf
    BY HandleParts DEF IInv, Typed
  <2>2. \A n \in 1 .. Len(held) : tree'[held[n][1]] = tree[held[n][1]]
    BY <1>1, <1>5, <2>1
  <2>3. held' = held BY <1>2
  <2>. QED BY <2>2, <2>3 DEF IInv, GuardsHold
<1>12. Walk' BY <1>2 DEF IInv, Walk, GuardedTo
<1>13. OneVersion' BY <1>2, <1>3 DEF IInv, OneVersion
<1>14. InsideOnly' /\ Whole' BY <1>2 DEF IInv, InsideOnly, Whole
<1>. QED BY <1>8, <1>9, <1>10, <1>11, <1>12, <1>13, <1>14 DEF IInv

LEMMA WritersKeep ==
    ASSUME IInv, OpenForWriting \/ Rewrite
    PROVE  IInv'
<1>1. UNCHANGED <<tree, held, handle, at, op, pc, validated, expected, received, outcome, made>>
  BY DEF OpenForWriting, Rewrite
<1>2. version' \in Nat BY DEF OpenForWriting, Rewrite, IInv, Typed
<1>3. writer' \in BOOLEAN BY DEF OpenForWriting, Rewrite
<1>4. ASSUME op # "none", pc \in {"validate", "read"} PROVE ~ writer' /\ version' = version
  <2>1. CASE OpenForWriting
    <3>1. ~ Denied(Leaf) BY <2>1 DEF OpenForWriting
    <3>2. handle # None /\ handle[1] = Leaf BY <1>4 DEF IInv, Walk
    <3>3. handle \in Handles /\ handle[3] /\ handle[2] # "none"
      BY <3>2 DEF Handles, IInv, Pinned
    <3>4. FALSE BY <3>1, <3>2, <3>3 DEF Denied
    <3>. QED BY <3>4
  <2>2. CASE Rewrite
    <3>1. writer BY <2>2 DEF Rewrite
    <3>2. ~ writer BY <1>4 DEF IInv, OneVersion
    <3>. QED BY <3>1, <3>2
  <2>. QED BY <2>1, <2>2
<1>5. Typed' BY <1>1, <1>2, <1>3 DEF IInv, Typed
<1>6. Walk' BY <1>1 DEF IInv, Walk, GuardedTo
<1>7. Pinned' BY <1>1 DEF IInv, Pinned
<1>8. GuardsHold' /\ OnDirectories' BY <1>1 DEF IInv, GuardsHold, OnDirectories
<1>9. InsideOnly' /\ Whole' BY <1>1 DEF IInv, InsideOnly, Whole
<1>10. OneVersion' BY <1>1, <1>4 DEF IInv, OneVersion
<1>. QED BY <1>5, <1>6, <1>7, <1>8, <1>9, <1>10 DEF IInv

(***************************************************************************)
(* The operation's own steps.                                              *)
(***************************************************************************)
\* An operation that starts holds nothing of its own, and everything below its first component
\* is nothing.
LEMMA StartKeeps ==
    ASSUME IInv, NEW o \in Ops, Start(o)
    PROVE  IInv'
<1>1. UNCHANGED <<tree, version, held, made>> /\ writer' = writer BY DEF Start, others
<1>2. op' = o /\ pc' = "open" /\ at' = 1 /\ handle' = None /\ received' = <<>> /\ validated' = 0
  BY DEF Start
<1>3. o # "none" BY DEF Ops
<1>4. expected' \in Nat BY DEF Start, IInv, Typed
<1>5. Typed' BY <1>1, <1>2, <1>4 DEF IInv, Typed
<1>6. Walk' BY <1>2, <1>3 DEF Walk, GuardedTo
<1>7. Pinned' BY <1>2 DEF Pinned
<1>8. GuardsHold' /\ OnDirectories' BY <1>1 DEF IInv, GuardsHold, OnDirectories
<1>9. OneVersion' BY <1>2 DEF OneVersion
<1>10. InsideOnly'
  <2>1. made' \subseteq {TRUE} BY <1>1 DEF IInv, InsideOnly
  <2>2. \A n \in 1 .. Len(received') : received'[n][1] BY <1>2
  <2>. QED BY <2>1, <2>2 DEF InsideOnly
<1>11. Whole' BY <1>2, <1>3 DEF Whole
<1>. QED BY <1>5, <1>6, <1>7, <1>8, <1>9, <1>10, <1>11 DEF IInv

\* The next directory is found where the ones above it are held.
LEMMA OpenKeeps ==
    ASSUME IInv, op # "none", OpenAncestor \/ OpenFile
    PROVE  IInv'
<1>1. UNCHANGED <<tree, version, held, at, validated, received, made, op, expected>>
      /\ writer' = writer
  BY DEF OpenAncestor, OpenFile, Step, others
<1>2. pc = "open" BY DEF OpenAncestor, OpenFile
<1>3. handle' \in HandleSet /\ handle'[3] /\ handle'[2] # "none" /\ tree[handle'[1]] = handle'[2]
      /\ handle' # None
      /\ \/ pc' = "stat" /\ at <= GuardedTo(op) /\ handle'[1] = at
         \/ pc' = "validate" /\ handle'[1] = Leaf /\ ~ writer
  <2>. at \in Nat \ {0} /\ at <= GuardedTo(op) + 1 BY DEF IInv, Typed, Walk
  <2>1. CASE OpenAncestor
    <3>1. at \in 1 .. Leaf /\ at \in Nat /\ at <= at BY <2>1 DEF OpenAncestor, GuardedTo
    <3>2. Found(at) = {<<at, tree[at], TRUE>>} BY <3>1, HeldIsInside
    <3>3. PICK f \in Found(at) : f[2] \in {"dir", "link"} /\ handle' = f
      BY <2>1 DEF OpenAncestor
    <3>4. f = <<at, tree[at], TRUE>> BY <3>2, <3>3
    <3>5. handle' = <<at, tree[at], TRUE>> /\ tree[at] # "none" /\ pc' = "stat"
          /\ at <= GuardedTo(op)
      BY <2>1, <3>3, <3>4 DEF OpenAncestor, Step
    <3>6. tree[at] \in Kinds BY <3>1 DEF IInv, Typed
    <3>7. <<at, tree[at], TRUE>> \in HandleSet BY <3>1, <3>6, HandleParts
    <3>. QED BY <3>1, <3>5, <3>7
  <2>2. CASE OpenFile
    <3>1. at = Leaf /\ Leaf \in Nat /\ Leaf <= at BY <2>2 DEF OpenFile, GuardedTo
    <3>2. Found(Leaf) = {<<Leaf, tree[Leaf], TRUE>>} BY <3>1, HeldIsInside
    <3>3. PICK f \in Found(Leaf) : f[2] \in {"file", "link"} /\ (f[3] => ~ writer) /\ handle' = f
      BY <2>2 DEF OpenFile
    <3>4. f = <<Leaf, tree[Leaf], TRUE>> BY <3>2, <3>3
    <3>5. handle' = <<Leaf, tree[Leaf], TRUE>> /\ tree[Leaf] # "none" /\ pc' = "validate"
      BY <2>2, <3>3, <3>4 DEF OpenFile, Step
    <3>6. ~ writer BY <3>3, <3>4
    <3>7. tree[Leaf] \in Kinds /\ Leaf \in 1 .. Leaf BY DEF IInv, Typed
    <3>8. <<Leaf, tree[Leaf], TRUE>> \in HandleSet BY <3>7, HandleParts
    <3>. QED BY <3>5, <3>6, <3>8
  <2>. QED BY <2>1, <2>2
<1>4. Typed' BY <1>1, <1>3 DEF IInv, Typed
<1>5. Walk'
  <2>1. \A j \in 1 .. at - 1 : \E n \in 1 .. Len(held) : held[n][1] = j BY DEF IInv, Walk
  <2>2. at <= GuardedTo(op) + 1 BY DEF IInv, Walk
  <2>. QED BY <1>1, <1>3, <2>1, <2>2 DEF Walk, GuardedTo
<1>6. Pinned' BY <1>1, <1>3 DEF Pinned
<1>7. GuardsHold' /\ OnDirectories' BY <1>1 DEF IInv, GuardsHold, OnDirectories
<1>8. OneVersion' BY <1>1, <1>2, <1>3 DEF IInv, OneVersion
<1>9. InsideOnly' BY <1>1 DEF IInv, InsideOnly
<1>10. Whole' BY <1>1 DEF Whole
<1>. QED BY <1>4, <1>5, <1>6, <1>7, <1>8, <1>9, <1>10 DEF IInv

\* A directory that was found to be one is held with the others.
LEMMA HoldKeeps ==
    ASSUME IInv, op # "none", HoldAncestor
    PROVE  IInv'
<1>1. UNCHANGED <<tree, version, validated, received, made, op, expected>> /\ writer' = writer
  BY DEF HoldAncestor, Step, others
<1>2. pc = "stat" /\ pc' = "open" /\ handle[2] = "dir" /\ held' = Append(held, handle)
      /\ handle' = None /\ at' = at + 1
  BY DEF HoldAncestor, Retained, Step
<1>3. at \in Nat \ {0} /\ at <= GuardedTo(op) /\ handle # None /\ handle[1] = at
  BY <1>2 DEF IInv, Walk, Typed
<1>4. handle \in HandleSet BY <1>3 DEF IInv, Typed
<1>5. held \in Seq(HandleSet) BY DEF IInv, Typed
<1>6. held' \in Seq(HandleSet) /\ Len(held') = Len(held) + 1 /\ held'[Len(held) + 1] = handle
      /\ \A n \in 1 .. Len(held) : held'[n] = held[n]
  BY <1>2, <1>4, <1>5
<1>7. handle[3] /\ tree[handle[1]] = "dir" BY <1>2, <1>3 DEF IInv, Pinned
<1>8. \A j \in 1 .. at - 1 : \E n \in 1 .. Len(held) : held[n][1] = j
  BY <1>3 DEF IInv, Walk
<1>9. Typed' BY <1>1, <1>2, <1>3, <1>6 DEF IInv, Typed
<1>10. Walk'
  <2>1. \A j \in 1 .. at : \E n \in 1 .. Len(held) + 1 : held'[n][1] = j
    <3>. SUFFICES ASSUME NEW j \in 1 .. at PROVE \E n \in 1 .. Len(held) + 1 : held'[n][1] = j
      OBVIOUS
    <3>1. CASE j = at BY <3>1, <1>3, <1>5, <1>6
    <3>2. CASE j # at
      <4>1. PICK n \in 1 .. Len(held) : held[n][1] = j BY <3>2, <1>3, <1>8
      <4>. QED BY <4>1, <1>5, <1>6
    <3>. QED BY <3>1, <3>2
  <2>2. at' - 1 = at BY <1>2, <1>3
  <2>3. at' <= GuardedTo(op)' + 1 BY <1>1, <1>2, <1>3 DEF GuardedTo
  <2>. QED BY <1>1, <1>2, <1>6, <2>1, <2>2, <2>3 DEF Walk
<1>11. Pinned' BY <1>2 DEF Pinned
<1>12. OnDirectories' BY <1>2, <1>5, <1>6 DEF IInv, OnDirectories
<1>13. GuardsHold'
  <2>. SUFFICES ASSUME NEW n \in 1 .. Len(held')
                PROVE  /\ held'[n][3] /\ tree[held'[n][1]] = "dir"
                       /\ \A j \in 1 .. held'[n][1] : \E m \in 1 .. n : held'[m][1] = j
    BY <1>1 DEF GuardsHold
  <2>1. CASE n \in 1 .. Len(held)
    <3>1. held'[n] = held[n] BY <2>1, <1>6
    <3>2. \A m \in 1 .. n : held'[m] = held[m] BY <2>1, <1>5, <1>6
    <3>. QED BY <2>1, <3>1, <3>2 DEF IInv, GuardsHold
  <2>2. CASE n = Len(held) + 1
    <3>1. held'[n] = handle BY <2>2, <1>6
    <3>. SUFFICES ASSUME NEW j \in 1 .. at PROVE \E m \in 1 .. n : held'[m][1] = j
      BY <3>1, <1>3, <1>7
    <3>2. CASE j = at BY <2>2, <3>1, <3>2, <1>3, <1>5
    <3>3. CASE j # at
      <4>1. PICK m \in 1 .. Len(held) : held[m][1] = j BY <3>3, <1>3, <1>8
      <4>. QED BY <2>2, <4>1, <1>5, <1>6
    <3>. QED BY <3>2, <3>3
  <2>. QED BY <2>1, <2>2, <1>5, <1>6
<1>14. OneVersion' BY <1>1, <1>2 DEF IInv, OneVersion
<1>15. InsideOnly' BY <1>1 DEF IInv, InsideOnly
<1>16. Whole' BY <1>1 DEF Whole
<1>. QED BY <1>9, <1>10, <1>11, <1>12, <1>13, <1>14, <1>15, <1>16 DEF IInv

\* Each operation ends, or goes on, with what was held and what lies inside.
LEMMA EndsKeep ==
    ASSUME IInv, op # "none", NEW result,
           Ends(result), handle' = None, UNCHANGED <<tree, version, writer>>,
           UNCHANGED <<at, expected, validated, received>>,
           made' \subseteq {TRUE}, held' = held \/ held' = <<>>,
           result = "done" => Whole'
    PROVE  IInv'
<1>1. op' = "none" /\ pc' = "idle" /\ outcome' = result BY DEF Ends
<1>2. held' \in Seq(HandleSet)
  <2>1. held \in Seq(HandleSet) /\ <<>> \in Seq(HandleSet) BY DEF IInv, Typed
  <2>. QED BY <2>1
<1>3. Typed' BY <1>1, <1>2 DEF IInv, Typed
<1>4. Walk' BY <1>1 DEF Walk
<1>5. Pinned' BY DEF Pinned
<1>6. GuardsHold' /\ OnDirectories'
  <2>1. CASE held' = held BY <2>1 DEF IInv, GuardsHold, OnDirectories
  <2>2. CASE held' = <<>> BY <2>2 DEF GuardsHold, OnDirectories
  <2>. QED BY <2>1, <2>2
<1>7. OneVersion' BY <1>1 DEF OneVersion
<1>8. InsideOnly' BY DEF IInv, InsideOnly
<1>9. Whole' BY <1>1 DEF Whole
<1>. QED BY <1>3, <1>4, <1>5, <1>6, <1>7, <1>8, <1>9 DEF IInv

LEMMA ThrowsKeep ==
    ASSUME IInv, op # "none", NEW result, Throws(result), result # "done"
    PROVE  IInv'
<1>1. Ends(result) /\ handle' = None BY DEF Throws
<1>2. UNCHANGED <<tree, version, writer>> /\ UNCHANGED <<at, expected, validated, received>>
  BY DEF Throws, others
<1>3. made' \subseteq {TRUE} /\ held' = held BY DEF Throws, IInv, InsideOnly
<1>. QED BY <1>1, <1>2, <1>3, EndsKeep

LEMMA FailsKeeps ==
    ASSUME IInv, Fails
    PROVE  IInv'
<1>1. op # "none" /\ Ends("failed") /\ handle' = None BY DEF Fails
<1>2. UNCHANGED <<tree, version, writer>> /\ UNCHANGED <<at, expected, validated, received>>
  BY DEF Fails, others
<1>3. made' \subseteq {TRUE} /\ held' = <<>> BY DEF Fails, IInv, InsideOnly
<1>. QED BY <1>1, <1>2, <1>3, EndsKeep

\* A transfer that closes its file has all of it, and of one version.
LEMMA CloseFileKeeps ==
    ASSUME IInv, op # "none", CloseFile
    PROVE  IInv'
<1>1. Ends("done") /\ handle' = None BY DEF CloseFile
<1>2. UNCHANGED <<tree, version, writer>> /\ UNCHANGED <<at, expected, validated, received>>
  BY DEF CloseFile, others
<1>3. made' \subseteq {TRUE} /\ held' = held BY DEF CloseFile, IInv, InsideOnly
<1>4. Whole'
  <2>1. pc = "read" /\ Len(received) = Size BY DEF CloseFile
  <2>2. validated = version /\ expected \in {0, version}
        /\ \A n \in 1 .. Len(received) : received[n] = <<TRUE, version>>
    BY <2>1 DEF IInv, OneVersion
  <2>3. received \in Seq(BOOLEAN \X Nat) BY DEF IInv, Typed
  <2>4. received = [n \in 1 .. Size |-> <<TRUE, validated>>]
    <3>1. received \in [1 .. Size -> BOOLEAN \X Nat] BY <2>1, <2>3
    <3>2. \A n \in 1 .. Size : received[n] = <<TRUE, validated>> BY <2>1, <2>2
    <3>. QED BY <3>1, <3>2
  <2>. QED BY <1>2, <2>2, <2>4 DEF Whole
<1>. QED BY <1>1, <1>2, <1>3, <1>4, EndsKeep

\* A directory inside the tree is listed.
LEMMA ListKeeps ==
    ASSUME IInv, op # "none", List
    PROVE  IInv'
<1>1. op = "list" /\ pc = "open" /\ at > Leaf BY DEF List, GuardedTo
<1>2. validated = 0 BY <1>1 DEF IInv, OneVersion
<1>3. op' = "none" /\ pc' = "idle" /\ outcome' = "done" /\ handle' = None
  <2>1. handle = None BY <1>1 DEF IInv, Walk
  <2>. QED BY <2>1 DEF List, Ends
<1>4. UNCHANGED <<tree, version, at, expected, validated, held, made>> /\ writer' = writer
  BY DEF List, others
<1>5. PICK f \in Found(Leaf) : received' = <<<<f[3], version>>>> BY DEF List
<1>6. Found(Leaf) = {<<Leaf, tree[Leaf], TRUE>>}
  <2>1. Leaf \in Nat /\ Leaf <= at BY <1>1 DEF IInv, Typed
  <2>. QED BY <2>1, <1>1, HeldIsInside
<1>7. received' = <<<<TRUE, version>>>>
  <2>1. f = <<Leaf, tree[Leaf], TRUE>> BY <1>5, <1>6
  <2>2. f[3] = TRUE BY <2>1
  <2>. QED BY <1>5, <2>2
<1>8. received' \in Seq(BOOLEAN \X Nat)
  <2>1. version \in Nat BY DEF IInv, Typed
  <2>2. <<TRUE, version>> \in BOOLEAN \X Nat BY <2>1
  <2>. QED BY <1>7, <2>2
<1>9. Typed' BY <1>3, <1>4, <1>8 DEF IInv, Typed
<1>10. Walk' /\ Pinned' /\ OneVersion' BY <1>3 DEF Walk, Pinned, OneVersion
<1>11. GuardsHold' /\ OnDirectories' BY <1>4 DEF IInv, GuardsHold, OnDirectories
<1>12. InsideOnly'
  <2>1. Len(received') = 1 /\ received'[1] = <<TRUE, version>> BY <1>7
  <2>3. ASSUME NEW n \in 1 .. Len(received') PROVE received'[n] = <<TRUE, version>>
    <3>1. n = 1 BY <2>1
    <3>. QED BY <2>1, <3>1
  <2>4. \A n \in 1 .. Len(received') : received'[n][1] = TRUE BY <2>3, FirstPart
  <2>2. made' \subseteq {TRUE} BY <1>4 DEF IInv, InsideOnly
  <2>. QED BY <2>2, <2>4 DEF InsideOnly
<1>13. Whole' BY <1>2, <1>4 DEF Whole
<1>. QED BY <1>9, <1>10, <1>11, <1>12, <1>13 DEF IInv

\* The directory that is made lies behind directories that are held.
LEMMA MkdirKeeps ==
    ASSUME IInv, op # "none", Mkdir
    PROVE  IInv'
<1>1. op = "mkdir" /\ pc = "open" /\ at > Depth BY DEF Mkdir, GuardedTo
<1>2. validated = 0 BY <1>1 DEF IInv, OneVersion
<1>3. op' = "none" /\ pc' = "idle" /\ outcome' = "done" /\ handle' = None
  <2>1. handle = None BY <1>1 DEF IInv, Walk
  <2>. QED BY <2>1 DEF Mkdir, Ends
<1>4. UNCHANGED <<version, at, expected, validated, held, received>> /\ writer' = writer
  BY DEF Mkdir
<1>5. Found(Leaf) = {<<Leaf, tree[Leaf], TRUE>>}
  <2>1. Leaf \in Nat /\ Leaf <= at BY <1>1 DEF IInv, Typed
  <2>. QED BY <2>1, <1>1, HeldIsInside
<1>6. tree[Leaf] = "none" /\ made' = made \cup {TRUE} /\ tree' = [tree EXCEPT ![Leaf] = "dir"]
  <2>1. PICK f \in Found(Leaf) :
           /\ f[2] = "none" /\ made' = made \cup {f[3]}
           /\ IF f[3] THEN tree' = [tree EXCEPT ![Leaf] = "dir"] ELSE UNCHANGED tree
    BY DEF Mkdir
  <2>2. f = <<Leaf, tree[Leaf], TRUE>> BY <1>5, <2>1
  <2>3. f[2] = tree[Leaf] /\ f[3] = TRUE BY <2>2
  <2>. QED BY <2>1, <2>3
<1>7. tree' \in [1 .. Leaf -> Kinds] BY <1>6 DEF IInv, Typed, Kinds
<1>8. Typed' BY <1>3, <1>4, <1>7 DEF IInv, Typed
<1>9. Walk' /\ Pinned' /\ OneVersion' BY <1>3 DEF Walk, Pinned, OneVersion
<1>10. GuardsHold' /\ OnDirectories'
  <2>1. \A n \in 1 .. Len(held) : held[n][1] \in 1 .. Leaf BY HandleParts DEF IInv, Typed
  <2>2. \A n \in 1 .. Len(held) : tree[held[n][1]] = "dir" BY DEF IInv, GuardsHold
  <2>3. tree \in [1 .. Leaf -> Kinds] BY DEF IInv, Typed
  <2>4. \A n \in 1 .. Len(held) : tree'[held[n][1]] = "dir" BY <1>6, <2>1, <2>2, <2>3
  <2>. QED BY <1>4, <2>4 DEF IInv, GuardsHold, OnDirectories
<1>11. InsideOnly' BY <1>4, <1>6 DEF IInv, InsideOnly
<1>12. Whole' BY <1>2, <1>4 DEF Whole
<1>. QED BY <1>8, <1>9, <1>10, <1>11, <1>12 DEF IInv

\* What stat reports of an open file stays true of it.
LEMMA ValidateKeeps ==
    ASSUME IInv, op # "none", Validate
    PROVE  IInv'
<1>1. pc = "validate" /\ handle # None BY DEF Validate, IInv, Walk
<1>2. handle[3] BY <1>1 DEF IInv, Pinned
<1>3. CASE Throws("invalid") BY <1>3, ThrowsKeep
<1>4. CASE /\ Valid(handle, version) /\ validated' = version /\ Step("read")
           /\ UNCHANGED <<held, kept, at, handle, received, made>>
  <2>1. UNCHANGED <<tree, version, held, at, handle, received, made, op, expected>> /\ writer' = writer
    BY <1>4 DEF Step, others
  <2>2. pc' = "read" /\ validated' = version /\ expected \in {0, version} BY <1>4 DEF Step, Valid
  <2>3. ~ writer /\ received = <<>> BY <1>1 DEF IInv, OneVersion
  <2>4. Typed' BY <2>1, <2>2 DEF IInv, Typed
  <2>5. Walk' BY <1>1, <2>1, <2>2 DEF IInv, Walk, GuardedTo
  <2>6. Pinned' BY <2>1 DEF IInv, Pinned
  <2>7. GuardsHold' /\ OnDirectories' BY <2>1 DEF IInv, GuardsHold, OnDirectories
  <2>8. OneVersion'
    <3>1. Len(received') <= Size /\ \A n \in 1 .. Len(received') : received'[n] = <<TRUE, version>>
      BY <2>1, <2>3
    <3>. QED BY <2>1, <2>2, <2>3, <3>1 DEF OneVersion
  <2>9. InsideOnly' BY <2>1 DEF IInv, InsideOnly
  <2>10. Whole' BY <2>1 DEF Whole
  <2>. QED BY <2>4, <2>5, <2>6, <2>7, <2>8, <2>9, <2>10 DEF IInv
<1>. QED BY <1>2, <1>3, <1>4 DEF Validate

\* Every piece is read from the file inside the tree, as it is now.
LEMMA ReadKeeps ==
    ASSUME IInv, op # "none", Read
    PROVE  IInv'
<1>1. pc = "read" /\ Len(received) < Size BY DEF Read
<1>2. handle # None BY <1>1 DEF IInv, Walk
<1>3. handle[3] = TRUE
  <2>1. handle \in HandleSet /\ handle[3] BY <1>2 DEF IInv, Typed, Pinned
  <2>2. handle[3] \in BOOLEAN BY <2>1, HandleParts
  <2>. QED BY <2>1, <2>2
<1>4. PICK k \in 1 .. Size - Len(received) :
         received' = received \o [i \in 1 .. k |-> <<TRUE, version>>]
  BY <1>3 DEF Read
<1>5. UNCHANGED <<tree, version, held, at, handle, validated, made, op, expected>> /\ writer' = writer
      /\ pc' = "read"
  BY DEF Read, Step, others
<1>6. received \in Seq(BOOLEAN \X Nat) /\ version \in Nat BY DEF IInv, Typed
<1>7. \A n \in 1 .. Len(received) : received[n] = <<TRUE, version>>
  BY <1>1 DEF IInv, OneVersion
<1>8. /\ received' \in Seq(BOOLEAN \X Nat)
      /\ Len(received') <= Size
      /\ \A n \in 1 .. Len(received') : received'[n] = <<TRUE, version>>
  <2>. DEFINE more == [i \in 1 .. k |-> <<TRUE, version>>]
  <2>1. <<TRUE, version>> \in BOOLEAN \X Nat BY <1>6
  <2>2. Len(received) \in Nat /\ k \in Nat BY <1>6
  <2>3. more \in Seq(BOOLEAN \X Nat) /\ Len(more) = k BY <2>1, <2>2
  <2>4. \A n \in 1 .. k : more[n] = <<TRUE, version>> OBVIOUS
  <2>7. received' = received \o more BY <1>4
  <2>. HIDE DEF more
  <2>5. /\ received' \in Seq(BOOLEAN \X Nat)
        /\ Len(received') = Len(received) + k
        /\ \A n \in 1 .. Len(received) + k :
              received'[n] = IF n <= Len(received) THEN received[n] ELSE more[n - Len(received)]
    BY <1>6, <2>3, <2>7, ConcatProperties
  <2>6. ASSUME NEW n \in 1 .. Len(received') PROVE received'[n] = <<TRUE, version>>
    <3>. DEFINE l == Len(received)
    <3>0. n \in 1 .. l + k /\ l \in Nat BY <2>2, <2>5
    <3>1. received'[n] = IF n <= l THEN received[n] ELSE more[n - l] BY <3>0, <2>5
    <3>2. \A m \in 1 .. l : received[m] = <<TRUE, version>> BY <1>7
    <3>. HIDE DEF l
    <3>3. CASE n <= l
      <4>1. n \in 1 .. l BY <3>0, <3>3, <2>2
      <4>. QED BY <3>1, <3>2, <3>3, <4>1
    <3>4. CASE ~ n <= l
      <4>1. n - l \in 1 .. k BY <3>0, <3>4, <2>2
      <4>. QED BY <3>1, <3>4, <4>1, <2>4
    <3>. QED BY <3>3, <3>4
  <2>8. Len(received) + k <= Size BY <1>1, <2>2
  <2>. QED BY <2>5, <2>6, <2>8
<1>9. Typed' BY <1>5, <1>8 DEF IInv, Typed
<1>10. Walk' BY <1>1, <1>5 DEF IInv, Walk, GuardedTo
<1>11. Pinned' BY <1>5 DEF IInv, Pinned
<1>12. GuardsHold' /\ OnDirectories' BY <1>5 DEF IInv, GuardsHold, OnDirectories
<1>13. OneVersion' BY <1>1, <1>5, <1>8 DEF IInv, OneVersion
<1>14. InsideOnly'
  <2>1. \A n \in 1 .. Len(received') : received'[n][1] = TRUE BY <1>8, FirstPart
  <2>2. made' \subseteq {TRUE} BY <1>5 DEF IInv, InsideOnly
  <2>. QED BY <2>1, <2>2 DEF InsideOnly
<1>15. Whole' BY <1>5 DEF Whole
<1>. QED BY <1>9, <1>10, <1>11, <1>12, <1>13, <1>14, <1>15 DEF IInv

LEMMA CloseKeeps ==
    ASSUME IInv, Close
    PROVE  IInv'
<1>1. UNCHANGED <<tree, version, at, handle, validated, received, made, op, pc, expected, outcome>>
      /\ writer' = writer /\ held' = <<>> /\ op = "none"
  BY DEF Close, others
<1>2. Typed'
  <2>1. held' \in Seq(HandleSet) BY <1>1
  <2>. QED BY <1>1, <2>1 DEF IInv, Typed
<1>3. Walk' /\ Pinned' BY <1>1 DEF IInv, Walk, Pinned
<1>4. GuardsHold' /\ OnDirectories' BY <1>1 DEF GuardsHold, OnDirectories
<1>5. OneVersion' BY <1>1 DEF OneVersion
<1>6. InsideOnly' /\ Whole' BY <1>1 DEF IInv, InsideOnly, Whole
<1>. QED BY <1>2, <1>3, <1>4, <1>5, <1>6 DEF IInv

\* Every step of the client, of its owner and of the other client.
LEMMA NextKeeps ==
    ASSUME IInv, [Next]_vars
    PROVE  IInv'
<1>0. pc # "idle" => op # "none" BY DEF IInv, Walk
<1>1. CASE OpenAncestor \/ OpenFile
  <2>1. op # "none" BY <1>1 DEF OpenAncestor, OpenFile, Step
  <2>. QED BY <1>1, <2>1, OpenKeeps
<1>2. CASE HoldAncestor
  <2>1. op # "none" BY <1>2 DEF HoldAncestor, Step
  <2>. QED BY <1>2, <2>1, HoldKeeps
<1>3. CASE RefuseAncestor
  <2>1. op # "none" /\ Throws("invalid") BY <1>0, <1>3 DEF RefuseAncestor
  <2>. QED BY <2>1, ThrowsKeep
<1>4. CASE ReadFails
  <2>1. op # "none" /\ Throws("failed") BY <1>0, <1>4 DEF ReadFails
  <2>. QED BY <2>1, ThrowsKeep
<1>5. CASE Cancelled
  <2>1. op # "none" /\ Throws("cancelled") BY <1>5 DEF Cancelled
  <2>. QED BY <2>1, ThrowsKeep
<1>6. CASE List \/ Mkdir
  <2>1. op # "none" BY <1>6 DEF List, Mkdir
  <2>. QED BY <1>6, <2>1, ListKeeps, MkdirKeeps
<1>7. CASE Validate \/ Read \/ CloseFile
  <2>1. op # "none" BY <1>0, <1>7 DEF Validate, Read, CloseFile
  <2>. QED BY <1>7, <2>1, ValidateKeeps, ReadKeeps, CloseFileKeeps
<1>8. CASE Fails \/ Close
  BY <1>8, FailsKeeps, CloseKeeps
<1>9. ASSUME NEW o \in Ops, Start(o) PROVE IInv'
  BY <1>9, StartKeeps
<1>10. ASSUME NEW i \in 1 .. Leaf, PlantLink(i) \/ PutBack(i) PROVE IInv'
  BY <1>10, OthersKeep
<1>11. CASE OpenForWriting \/ Rewrite
  BY <1>11, WritersKeep
<1>12. CASE UNCHANGED vars
  <2>1. UNCHANGED <<tree, version, held, at, handle, validated, received, made, op, pc, expected,
                    outcome>> /\ writer' = writer
    BY <1>12 DEF vars
  <2>2. Typed' BY <2>1 DEF IInv, Typed
  <2>3. Walk' BY <2>1 DEF IInv, Walk, GuardedTo
  <2>4. Pinned' BY <2>1 DEF IInv, Pinned
  <2>5. GuardsHold' /\ OnDirectories' BY <2>1 DEF IInv, GuardsHold, OnDirectories
  <2>6. OneVersion' BY <2>1 DEF IInv, OneVersion
  <2>7. InsideOnly' /\ Whole' BY <2>1 DEF IInv, InsideOnly, Whole
  <2>. QED BY <2>2, <2>3, <2>4, <2>5, <2>6, <2>7 DEF IInv
<1>13. CASE Client
  BY <1>13, <1>1, <1>2, <1>3, <1>4, <1>5, <1>6, <1>7, <1>8 DEF Client
<1>. QED BY <1>8, <1>9, <1>10, <1>11, <1>12, <1>13 DEF Next

\* The inductive invariant: what is held keeps the path as it was guarded.
THEOREM Invariant == Spec => []IInv
<1>1. Init => IInv BY Initially
<1>2. IInv /\ [Next]_vars => IInv' BY NextKeeps
<1>. QED BY <1>1, <1>2, PTL DEF Spec

\* No list, download or range hands over what lies behind a link, and no mkdir makes a directory
\* there, whenever the other client plants one (guardAncestors, openFile, mkdir).
THEOREM NothingOutside == Spec => []InsideOnly
<1>1. IInv => InsideOnly BY DEF IInv
<1>. QED BY <1>1, Invariant, PTL

\* A download or range that succeeds hands over the whole of one version of the file
\* (transferFile, validate).
THEOREM OneWholeVersion == Spec => []Whole
<1>1. IInv => Whole BY DEF IInv
<1>. QED BY <1>1, Invariant, PTL

\* What heldDirectories keeps open stays a real directory, with all those above it.
THEOREM DirectoriesStay == Spec => []GuardsHold
<1>1. IInv => GuardsHold BY DEF IInv
<1>. QED BY <1>1, Invariant, PTL
=============================================================================
