------------------------ MODULE NameResolutionProofs ------------------------
(***************************************************************************)
(* For any addresses, deadline, grace period and limit of addresses, and   *)
(* for any number of answers: what resolve() returns is sound and whole,   *)
(* the grace period is kept, neither family is crowded out, and a cancel   *)
(* ends the resolution within one slice.                                   *)
(***************************************************************************)
EXTENDS NameResolution, FiniteSetTheorems, SequenceTheorems, TLAPS

-----------------------------------------------------------------------------
(* Induction over the answers of a batch. An induction principle with a    *)
(* predicate as a parameter cannot be used by the provers; this one is     *)
(* about a set of numbers, and follows from the well-foundedness of the    *)
(* intervals 1 .. n under inclusion.                                       *)

LEMMA LeastNatural ==
    ASSUME NEW T \in SUBSET Nat, T # {}
    PROVE  \E n \in T : \A m \in T : n <= m
<1> DEFINE R  == StrictSubsetOrdering(Nat)
           TT == {1 .. n : n \in T}
<1>1. IsWellFoundedOn(R, FiniteSubsetsOf(Nat))
  BY FS_StrictSubsetOrderingWellFounded
<1>2. TT # {}
  OBVIOUS
<1>3. \A n \in Nat : 1 .. n \in FiniteSubsetsOf(Nat)
  BY FS_Interval DEF FiniteSubsetsOf
<1>4. TT \subseteq FiniteSubsetsOf(Nat)
  BY <1>3
<1> HIDE DEF R, TT
<1>5. PICK x \in TT : \A y \in TT : ~ (<<y, x>> \in R)
  BY <1>1, <1>2, <1>4, WFMin
<1>6. PICK n \in T : x = 1 .. n
  BY <1>5 DEF TT
<1>7. ASSUME NEW m \in T, m < n PROVE FALSE
  <2>1. <<1 .. m, 1 .. n>> \in (SUBSET Nat) \X (SUBSET Nat)
    OBVIOUS
  <2>2. 1 .. m \subseteq 1 .. n /\ n \in 1 .. n /\ n \notin 1 .. m
    BY <1>7
  <2>3. <<1 .. m, 1 .. n>> \in R
    BY <2>1, <2>2 DEF R, StrictSubsetOrdering
  <2>4. 1 .. m \in TT
    BY DEF TT
  <2> QED
    BY <1>5, <1>6, <2>3, <2>4
<1> QED
  BY <1>6, <1>7

LEMMA Induction ==
    ASSUME NEW n \in Nat, NEW Q, 0 \in Q, \A i \in 1 .. n : i - 1 \in Q => i \in Q
    PROVE  0 .. n \subseteq Q
<1> DEFINE T == (0 .. n) \ Q
<1> SUFFICES ASSUME T # {} PROVE FALSE
  OBVIOUS
<1>1. T \in SUBSET Nat
  OBVIOUS
<1> HIDE DEF T
<1>2. PICK m \in T : \A k \in T : m <= k
  BY <1>1, LeastNatural
<1>3. m \in 1 .. n /\ m - 1 \notin T
  BY <1>2 DEF T
<1>4. m - 1 \in Q
  BY <1>3 DEF T
<1> QED
  BY <1>3, <1>4 DEF T

\* The largest element of a set that ends with n.
LEMMA MaxOf ==
    ASSUME NEW n \in Nat \ {0}, NEW s \in SUBSET (1 .. n), n \in s
    PROVE  Max(s) = n
<1>1. \A y \in s : n >= y
  OBVIOUS
<1>2. \A x \in s : (\A y \in s : x >= y) => x = n
  OBVIOUS
<1> QED
  BY <1>1, <1>2 DEF Max

\* A set of numbers between 1 and n has its largest element.
LEMMA MaxIn ==
    ASSUME NEW n \in Nat, NEW s \in SUBSET (1 .. n), s # {}
    PROVE  Max(s) \in 1 .. n
<1> DEFINE T == {n - x : x \in s}
<1>1. T \in SUBSET Nat /\ T # {}
  <2>1. \A x \in s : x \in 1 .. n /\ n - x \in Nat
    OBVIOUS
  <2> QED
    BY <2>1
<1>2. PICK k \in T : \A m \in T : k <= m
  BY <1>1, LeastNatural
<1>3. PICK x \in s : k = n - x
  BY <1>2
<1>4. ASSUME NEW y \in s PROVE x >= y
  <2>1. n - y \in T
    OBVIOUS
  <2>2. n - x <= n - y
    BY <1>2, <1>3, <2>1
  <2> HIDE DEF T
  <2> QED
    BY <2>2
<1>5. Max(s) \in s
  BY <1>4 DEF Max
<1> QED
  BY <1>5

\* FoldLeft is defined by a recursive function on the sets of places of the sequence; this is
\* what that function, on the sets of the first m places, is for an operation F of a state
\* and a place.
Iterates(g, X, base, F, m) ==
    /\ g \in [SUBSET (1 .. m) -> X]
    /\ \A s \in SUBSET (1 .. m) :
         g[s] = IF s = {} THEN base ELSE F[<<g[s \ {Max(s)}], Max(s)>>]

\* Mapped by the operation, the places stay in the domain of the function.
LEMMA FoldOneMore ==
    ASSUME NEW X, NEW n \in Nat, NEW base \in X, NEW F \in [X \X (1 .. n) -> X],
           NEW m \in 1 .. n, NEW g, Iterates(g, X, base, F, m - 1)
    PROVE  \E h : Iterates(h, X, base, F, m)
<1> DEFINE h == [s \in SUBSET (1 .. m) |-> IF m \in s THEN F[<<g[s \ {m}], m>>] ELSE g[s]]
<1>1. /\ g \in [SUBSET (1 .. m - 1) -> X]
      /\ \A s \in SUBSET (1 .. m - 1) :
           g[s] = IF s = {} THEN base ELSE F[<<g[s \ {Max(s)}], Max(s)>>]
  BY DEF Iterates
<1>2. \A s \in SUBSET (1 .. m) : /\ s \ {m} \in SUBSET (1 .. m - 1)
                                 /\ m \notin s => s \in SUBSET (1 .. m - 1)
  OBVIOUS
<1>3. h \in [SUBSET (1 .. m) -> X]
  <2>1. \A s \in SUBSET (1 .. m) : <<g[s \ {m}], m>> \in X \X (1 .. n)
    BY <1>1, <1>2
  <2>2. \A s \in SUBSET (1 .. m) : F[<<g[s \ {m}], m>>] \in X
    BY <2>1
  <2>3. \A s \in SUBSET (1 .. m) : m \notin s => g[s] \in X
    BY <1>1, <1>2
  <2> QED
    BY <2>2, <2>3
<1>4. ASSUME NEW s \in SUBSET (1 .. m)
      PROVE  h[s] = IF s = {} THEN base ELSE F[<<h[s \ {Max(s)}], Max(s)>>]
  <2>1. CASE m \in s
    <3>1. Max(s) = m /\ s # {}
      BY <2>1, MaxOf
    <3>2. s \ {m} \in SUBSET (1 .. m) /\ m \notin s \ {m}
      OBVIOUS
    <3>3. h[s \ {m}] = g[s \ {m}]
      BY <3>2
    <3>4. h[s] = F[<<g[s \ {m}], m>>]
      BY <2>1
    <3> HIDE DEF h
    <3> QED
      BY <3>1, <3>3, <3>4
  <2>2. CASE m \notin s
    <3>1. s \in SUBSET (1 .. m - 1)
      BY <1>2, <2>2
    <3>2. g[s] = IF s = {} THEN base ELSE F[<<g[s \ {Max(s)}], Max(s)>>]
      BY <1>1, <3>1
    <3>3. s \ {Max(s)} \in SUBSET (1 .. m) /\ m \notin s \ {Max(s)}
      BY <2>2
    <3>4. h[s] = g[s] /\ h[s \ {Max(s)}] = g[s \ {Max(s)}]
      BY <2>2, <3>3
    <3> HIDE DEF h
    <3> QED
      BY <3>2, <3>4
  <2> QED
    BY <2>1, <2>2
<1> HIDE DEF h
<1>5. Iterates(h, X, base, F, m)
  BY <1>3, <1>4 DEF Iterates
<1> QED
  BY <1>5

\* The recursive definition of a fold has a solution.
LEMMA FoldExists ==
    ASSUME NEW X, NEW n \in Nat, NEW base \in X, NEW F \in [X \X (1 .. n) -> X]
    PROVE  \E g : Iterates(g, X, base, F, n)
<1> DEFINE Q == {m \in 0 .. n : \E g : Iterates(g, X, base, F, m)}
<1>1. 0 \in Q
  <2> DEFINE g == [s \in SUBSET (1 .. 0) |-> base]
  <2>1. g \in [SUBSET (1 .. 0) -> X]
    OBVIOUS
  <2>2. ASSUME NEW s \in SUBSET (1 .. 0)
        PROVE  g[s] = IF s = {} THEN base ELSE F[<<g[s \ {Max(s)}], Max(s)>>]
    <3>1. s = {}
      OBVIOUS
    <3>2. g[s] = base
      OBVIOUS
    <3> HIDE DEF g
    <3> QED
      BY <3>1, <3>2
  <2> HIDE DEF g
  <2>3. Iterates(g, X, base, F, 0)
    BY <2>1, <2>2 DEF Iterates
  <2> QED
    BY <2>3
<1>2. ASSUME NEW m \in 1 .. n, m - 1 \in Q PROVE m \in Q
  <2>1. PICK g : Iterates(g, X, base, F, m - 1)
    BY <1>2
  <2>2. \E h : Iterates(h, X, base, F, m)
    BY <2>1, FoldOneMore
  <2> QED
    BY <2>2
<1> HIDE DEF Q
<1>3. n \in Q
  <2>1. 0 .. n \subseteq Q
    BY <1>1, <1>2, Induction
  <2> QED
    BY <2>1
<1> QED
  BY <1>3 DEF Q

\* What holds of a fold's result: P[i] is what holds after the first i places.
LEMMA FoldRule ==
    ASSUME NEW n \in Nat, NEW g, NEW P, g[{}] \in P[0],
           \A i \in 1 .. n : g[1 .. i - 1] \in P[i - 1] => g[1 .. i] \in P[i]
    PROVE  g[1 .. n] \in P[n]
<1> DEFINE Q == {i \in 0 .. n : g[1 .. i] \in P[i]}
<1>1. 0 \in Q
  <2>1. 1 .. 0 = {}
    OBVIOUS
  <2> QED
    BY <2>1
<1>2. ASSUME NEW i \in 1 .. n, i - 1 \in Q PROVE i \in Q
  BY <1>2
<1> HIDE DEF Q
<1>3. n \in Q
  <2>1. 0 .. n \subseteq Q
    BY <1>1, <1>2, Induction
  <2> QED
    BY <2>1
<1> QED
  BY <1>3 DEF Q

\* The prefixes of a sequence's places, as a fold goes through them.
LEMMA FirstPlaces ==
    ASSUME NEW n \in Nat, NEW i \in 1 .. n
    PROVE  /\ (1 .. i) \in SUBSET (1 .. n) /\ (1 .. i) # {}
           /\ Max(1 .. i) = i /\ (1 .. i) \ {i} = 1 .. i - 1
<1>1. 1 .. i \subseteq 1 .. n /\ i \in 1 .. i
  OBVIOUS
<1>2. Max(1 .. i) = i
  BY MaxOf
<1>3. (1 .. i) \ {i} = 1 .. i - 1
  OBVIOUS
<1> QED
  BY <1>1, <1>2, <1>3

-----------------------------------------------------------------------------
(* removeAll *)

\* The fold of Without, step by step.
LEMMA WithoutSteps ==
    ASSUME NEW S, NEW s \in Seq(S), NEW a
    PROVE  \E g : /\ g[{}] = <<>>
                  /\ \A i \in 1 .. Len(s) :
                       g[1 .. i] = IF s[i] = a THEN g[1 .. i - 1] ELSE Append(g[1 .. i - 1], s[i])
                  /\ Without(s, a) = g[1 .. Len(s)]
<1> DEFINE n == Len(s)
           F == [p \in Seq(S) \X (1 .. n) |-> IF s[p[2]] = a THEN p[1] ELSE Append(p[1], s[p[2]])]
           Solves(g) == g = [t \in SUBSET (1 .. n) |->
                              IF t = {} THEN <<>>
                              ELSE IF s[Max(t)] = a THEN g[t \ {Max(t)}]
                                   ELSE Append(g[t \ {Max(t)}], s[Max(t)])]
<1>1. F \in [Seq(S) \X (1 .. n) -> Seq(S)] /\ n \in Nat /\ <<>> \in Seq(S)
  OBVIOUS
<1>2. ASSUME NEW q \in Seq(S), NEW i \in 1 .. n
      PROVE  F[<<q, i>>] = IF s[i] = a THEN q ELSE Append(q, s[i])
  <2>1. <<q, i>> \in Seq(S) \X (1 .. n)
    OBVIOUS
  <2> QED
    BY <2>1
<1> HIDE DEF F
<1>3. PICK g : Iterates(g, Seq(S), <<>>, F, n)
  BY <1>1, FoldExists
<1>4. Solves(g)
  <2>1. ASSUME NEW t \in SUBSET (1 .. n), t # {}
        PROVE  g[t] = IF s[Max(t)] = a THEN g[t \ {Max(t)}]
                      ELSE Append(g[t \ {Max(t)}], s[Max(t)])
    <3>1. Max(t) \in 1 .. n
      BY <2>1, MaxIn
    <3>2. g[t \ {Max(t)}] \in Seq(S)
      BY <1>3 DEF Iterates
    <3>3. g[t] = F[<<g[t \ {Max(t)}], Max(t)>>]
      BY <1>3, <2>1 DEF Iterates
    <3> QED
      BY <1>2, <3>1, <3>2, <3>3
  <2>2. g[{}] = <<>>
    BY <1>3 DEF Iterates
  <2>3. g = [t \in SUBSET (1 .. n) |-> g[t]]
    BY <1>3 DEF Iterates
  <2> QED
    BY <2>1, <2>2, <2>3
<1> DEFINE iter == CHOOSE h : Solves(h)
<1>5. Solves(iter)
  BY <1>4
<1>6. Without(s, a) = iter[1 .. n]
  <2>1. DOMAIN s = 1 .. n
    OBVIOUS
  <2> QED
    BY <2>1 DEF Without, FoldLeft, MapThenFoldSet
<1> HIDE DEF iter
<1>7. iter[{}] = <<>>
  BY <1>5
<1> HIDE DEF n
<1>8. ASSUME NEW i \in 1 .. n
      PROVE  iter[1 .. i] = IF s[i] = a THEN iter[1 .. i - 1] ELSE Append(iter[1 .. i - 1], s[i])
  <2>1. /\ (1 .. i) \in SUBSET (1 .. n) /\ (1 .. i) # {}
        /\ Max(1 .. i) = i /\ (1 .. i) \ {i} = 1 .. i - 1
    BY <1>1, FirstPlaces
  <2>2. iter[1 .. i] = IF s[Max(1 .. i)] = a THEN iter[(1 .. i) \ {Max(1 .. i)}]
                       ELSE Append(iter[(1 .. i) \ {Max(1 .. i)}], s[Max(1 .. i)])
    BY <1>5, <2>1
  <2> QED
    BY <2>1, <2>2
<1> QED
  BY <1>6, <1>7, <1>8 DEF n

\* A sequence without repetitions, and one more element.
LEMMA AppendNew ==
    ASSUME NEW S, NEW t \in Seq(S), IsInjective(t), NEW x \in S
    PROVE  /\ Append(t, x) \in Seq(S)
           /\ Len(Append(t, x)) = Len(t) + 1
           /\ ToSet(Append(t, x)) = ToSet(t) \cup {x}
           /\ x \notin ToSet(t) => IsInjective(Append(t, x))
<1> DEFINE u == Append(t, x)
<1>1. u \in Seq(S) /\ Len(u) = Len(t) + 1 /\ DOMAIN u = 1 .. Len(t) + 1 /\ DOMAIN t = 1 .. Len(t)
  OBVIOUS
<1>2. u[Len(t) + 1] = x /\ \A i \in 1 .. Len(t) : u[i] = t[i]
  OBVIOUS
<1> HIDE DEF u
<1>3. ToSet(u) = ToSet(t) \cup {x}
  BY <1>1, <1>2 DEF ToSet
<1>4. ASSUME x \notin ToSet(t) PROVE IsInjective(u)
  <2>1. \A i \in 1 .. Len(t) : t[i] # x
    BY <1>1, <1>4 DEF ToSet
  <2>2. \A i, j \in 1 .. Len(t) : t[i] = t[j] => i = j
    BY <1>1 DEF IsInjective
  <2> QED
    BY <1>1, <1>2, <2>1, <2>2 DEF IsInjective
<1> QED
  BY <1>1, <1>3, <1>4 DEF u

\* removeAll leaves the other addresses, in their order and no two alike.
LEMMA WithoutKeeps ==
    ASSUME NEW S, NEW s \in Seq(S), IsInjective(s), NEW a
    PROVE  /\ Without(s, a) \in Seq(S) /\ IsInjective(Without(s, a))
           /\ Len(Without(s, a)) <= Len(s)
           /\ ToSet(Without(s, a)) = ToSet(s) \ {a}
<1> DEFINE P == [i \in 0 .. Len(s) |-> {t \in Seq(S) : /\ IsInjective(t) /\ Len(t) <= i
                                                      /\ ToSet(t) = {s[j] : j \in 1 .. i} \ {a}}]
<1>1. PICK g : /\ g[{}] = <<>>
               /\ \A i \in 1 .. Len(s) :
                    g[1 .. i] = IF s[i] = a THEN g[1 .. i - 1] ELSE Append(g[1 .. i - 1], s[i])
               /\ Without(s, a) = g[1 .. Len(s)]
  BY WithoutSteps
<1>2. Len(s) \in Nat /\ DOMAIN s = 1 .. Len(s)
  OBVIOUS
<1>3. \A i, j \in 1 .. Len(s) : s[i] = s[j] => i = j
  BY <1>2 DEF IsInjective
<1>4. g[{}] \in P[0]
  <2>1. <<>> \in Seq(S) /\ Len(<<>>) = 0 /\ DOMAIN <<>> = {}
    OBVIOUS
  <2>2. IsInjective(<<>>) /\ ToSet(<<>>) = {}
    BY <2>1 DEF IsInjective, ToSet
  <2>3. {s[j] : j \in 1 .. 0} = {} /\ 0 \in 0 .. Len(s)
    BY <1>2
  <2> QED
    BY <1>1, <2>1, <2>2, <2>3
<1>5. ASSUME NEW i \in 1 .. Len(s), g[1 .. i - 1] \in P[i - 1]
      PROVE  g[1 .. i] \in P[i]
  <2> DEFINE t == g[1 .. i - 1]
             u == g[1 .. i]
  <2>1. i \in 0 .. Len(s) /\ i - 1 \in 0 .. Len(s) /\ i \in Nat
    BY <1>2
  <2>2. t \in Seq(S) /\ IsInjective(t) /\ Len(t) <= i - 1 /\ Len(t) \in Nat
    BY <1>5, <2>1
  <2>3. ToSet(t) = {s[j] : j \in 1 .. i - 1} \ {a}
    BY <1>5, <2>1
  <2>4. u = IF s[i] = a THEN t ELSE Append(t, s[i])
    BY <1>1
  <2>5. {s[j] : j \in 1 .. i} = {s[j] : j \in 1 .. i - 1} \cup {s[i]}
    BY <2>1
  <2>6. s[i] \in S /\ s[i] \notin {s[j] : j \in 1 .. i - 1}
    BY <1>2, <1>3, <2>1
  <2>7. SUFFICES /\ u \in Seq(S) /\ IsInjective(u) /\ Len(u) <= i
                 /\ ToSet(u) = {s[j] : j \in 1 .. i} \ {a}
    BY <2>1
  <2> HIDE DEF t, u, P
  <2>8. CASE s[i] = a
    BY <2>1, <2>2, <2>3, <2>4, <2>5, <2>8
  <2>9. CASE s[i] # a
    <3>1. s[i] \notin ToSet(t)
      BY <2>3, <2>6
    <3>2. /\ Append(t, s[i]) \in Seq(S) /\ Len(Append(t, s[i])) = Len(t) + 1
          /\ ToSet(Append(t, s[i])) = ToSet(t) \cup {s[i]} /\ IsInjective(Append(t, s[i]))
      BY <2>2, <2>6, <3>1, AppendNew
    <3>3. u = Append(t, s[i])
      BY <2>4, <2>9
    <3>4. u \in Seq(S) /\ IsInjective(u) /\ Len(u) <= i
      BY <2>1, <2>2, <3>2, <3>3
    <3>5. ToSet(u) = {s[j] : j \in 1 .. i} \ {a}
      BY <2>3, <2>5, <2>9, <3>2, <3>3
    <3> QED
      BY <3>4, <3>5
  <2> QED
    BY <2>8, <2>9
<1> HIDE DEF P
<1>6. g[1 .. Len(s)] \in P[Len(s)]
  BY <1>2, <1>4, <1>5, FoldRule
<1>7. Len(s) \in 0 .. Len(s) /\ ToSet(s) = {s[j] : j \in 1 .. Len(s)}
  BY <1>2 DEF ToSet
<1> QED
  BY <1>1, <1>6, <1>7 DEF P

-----------------------------------------------------------------------------
(* The addresses returned *)

\* The part of a sequence from one place to another.
LEMMA PartOf ==
    ASSUME NEW S, NEW s \in Seq(S), NEW from \in Nat \ {0}, NEW to \in Nat, to <= Len(s)
    PROVE  /\ SubSeq(s, from, to) \in Seq(S)
           /\ Len(SubSeq(s, from, to)) = IF from <= to THEN to - from + 1 ELSE 0
           /\ \A i \in 1 .. to - from + 1 : SubSeq(s, from, to)[i] = s[from + i - 1]
<1>1. \A i \in from .. to : s[i] \in S
  OBVIOUS
<1>2. from \in Int /\ to \in Int
  OBVIOUS
<1> QED
  BY <1>1, <1>2, SubSeqProperties

\* The first n elements.
LEMMA FirstOf ==
    ASSUME NEW S, NEW s \in Seq(S), NEW n \in Nat, n <= Len(s), NEW u, u = SubSeq(s, 1, n)
    PROVE  u \in Seq(S) /\ Len(u) = n /\ \A i \in 1 .. n : u[i] = s[i]
<1>1. /\ u \in Seq(S) /\ Len(u) = IF 1 <= n THEN n - 1 + 1 ELSE 0
      /\ \A i \in 1 .. n - 1 + 1 : u[i] = s[1 + i - 1]
  BY PartOf
<1>2. Len(u) = n
  BY <1>1
<1>3. ASSUME NEW i \in 1 .. n PROVE u[i] = s[i]
  <2>1. i \in 1 .. n - 1 + 1 /\ 1 + i - 1 = i
    OBVIOUS
  <2> QED
    BY <1>1, <2>1
<1> QED
  BY <1>1, <1>2, <1>3

\* What follows the first m elements.
LEMMA RestOf ==
    ASSUME NEW S, NEW s \in Seq(S), NEW m \in 0 .. Len(s)
    PROVE  /\ SubSeq(s, m + 1, Len(s)) \in Seq(S)
           /\ Len(SubSeq(s, m + 1, Len(s))) = Len(s) - m
           /\ \A i \in 1 .. Len(s) - m : SubSeq(s, m + 1, Len(s))[i] = s[m + i]
<1> DEFINE from == m + 1
           to == Len(s)
           u == SubSeq(s, from, to)
<1>1. from \in Nat \ {0} /\ to \in Nat /\ to <= Len(s) /\ m \in Nat /\ m <= to
  OBVIOUS
<1> HIDE DEF from, to
<1>2. u \in Seq(S)
  BY <1>1, PartOf
<1>3. Len(u) = IF from <= to THEN to - from + 1 ELSE 0
  BY <1>1, PartOf
<1>4. \A i \in 1 .. to - from + 1 : u[i] = s[from + i - 1]
  BY <1>1, PartOf
<1> HIDE DEF u
<1>5. Len(u) = to - m
  BY <1>1, <1>3 DEF from
<1>6. ASSUME NEW i \in 1 .. to - m PROVE u[i] = s[m + i]
  <2>1. i \in 1 .. to - from + 1 /\ from + i - 1 = m + i
    BY <1>1 DEF from
  <2> QED
    BY <1>4, <2>1
<1> QED
  BY <1>2, <1>5, <1>6 DEF u, from, to

\* Where each address of the alternation comes from: a pair of each family at a time, then
\* the rest of the longer list.
LEMMA AlternateAt ==
    ASSUME NEW S, NEW first \in Seq(S), NEW second \in Seq(S),
           NEW m \in Nat, m <= Len(first), m <= Len(second), m \in {Len(first), Len(second)}
    PROVE  /\ Alternate(first, second) \in Seq(S)
           /\ Len(Alternate(first, second)) = Len(first) + Len(second)
           /\ \A k \in 1 .. Len(first) + Len(second) :
                Alternate(first, second)[k] =
                  IF k <= 2 * m THEN IF k % 2 = 1 THEN first[(k + 1) \div 2] ELSE second[k \div 2]
                  ELSE IF Len(first) > m THEN first[k - m] ELSE second[k - m]
<1> DEFINE pairs == [i \in 1 .. 2 * m |->
                       IF i % 2 = 1 THEN first[(i + 1) \div 2] ELSE second[i \div 2]]
           one   == SubSeq(first, m + 1, Len(first))
           two   == SubSeq(second, m + 1, Len(second))
<1>1. /\ m <= Len(first) /\ m <= Len(second) /\ Len(first) \in Nat /\ Len(second) \in Nat
      /\ m \in 0 .. Len(first) /\ m \in 0 .. Len(second)
  OBVIOUS
<1>2. Alternate(first, second) = pairs \o one \o two
  <2>1. (IF Len(first) < Len(second) THEN Len(first) ELSE Len(second)) = m
    BY <1>1
  <2> QED
    BY <2>1 DEF Alternate
<1>3. ASSUME NEW i \in 1 .. 2 * m
      PROVE  /\ i % 2 = 1 => (i + 1) \div 2 \in 1 .. m
             /\ i % 2 # 1 => i \div 2 \in 1 .. m
  OBVIOUS
<1>4. pairs \in Seq(S) /\ Len(pairs) = 2 * m
  <2>1. \A i \in 1 .. 2 * m : pairs[i] \in S
    BY <1>1, <1>3
  <2>2. 2 * m \in Nat
    OBVIOUS
  <2> QED
    BY <2>1, <2>2
<1>5. /\ one \in Seq(S) /\ Len(one) = Len(first) - m
      /\ \A i \in 1 .. Len(first) - m : one[i] = first[m + i]
  <2>1. one \in Seq(S)
    BY <1>1, RestOf
  <2>2. Len(one) = Len(first) - m
    BY <1>1, RestOf
  <2>3. \A i \in 1 .. Len(first) - m : one[i] = first[m + i]
    BY <1>1, RestOf
  <2> HIDE DEF one
  <2> QED
    BY <2>1, <2>2, <2>3
<1>6. /\ two \in Seq(S) /\ Len(two) = Len(second) - m
      /\ \A i \in 1 .. Len(second) - m : two[i] = second[m + i]
  <2>1. two \in Seq(S)
    BY <1>1, RestOf
  <2>2. Len(two) = Len(second) - m
    BY <1>1, RestOf
  <2>3. \A i \in 1 .. Len(second) - m : two[i] = second[m + i]
    BY <1>1, RestOf
  <2> HIDE DEF two
  <2> QED
    BY <2>1, <2>2, <2>3
<1>7. \A i \in 1 .. 2 * m :
        pairs[i] = IF i % 2 = 1 THEN first[(i + 1) \div 2] ELSE second[i \div 2]
  OBVIOUS
<1>8. m = Len(first) \/ m = Len(second)
  OBVIOUS
<1> HIDE DEF pairs, one, two
<1> DEFINE all == pairs \o one \o two
<1>9. /\ all \in Seq(S) /\ Len(all) = 2 * m + (Len(first) - m) + (Len(second) - m)
      /\ \A k \in 1 .. Len(all) :
           all[k] = IF k <= 2 * m THEN pairs[k]
                    ELSE IF k <= 2 * m + (Len(first) - m) THEN one[k - 2 * m]
                    ELSE two[k - (2 * m + (Len(first) - m))]
  <2> DEFINE front == pairs \o one
  <2>1. front = pairs \o one /\ all = front \o two
    OBVIOUS
  <2> HIDE DEF front, all
  <2>s. pairs \in Seq(S) /\ one \in Seq(S) /\ two \in Seq(S)
    BY <1>4, <1>5, <1>6
  <2>2. front \in Seq(S) /\ Len(front) = Len(pairs) + Len(one)
    BY <2>1, <2>s, ConcatProperties
  <2>3. \A k \in 1 .. Len(pairs) + Len(one) :
          front[k] = IF k <= Len(pairs) THEN pairs[k] ELSE one[k - Len(pairs)]
    BY <2>1, <2>s, ConcatProperties
  <2>t. front \in Seq(S)
    BY <2>2
  <2>4. all \in Seq(S) /\ Len(all) = Len(front) + Len(two)
    BY <2>1, <2>s, <2>t, ConcatProperties
  <2>5. \A k \in 1 .. Len(front) + Len(two) :
          all[k] = IF k <= Len(front) THEN front[k] ELSE two[k - Len(front)]
    BY <2>1, <2>s, <2>t, ConcatProperties
  <2>6. Len(front) = 2 * m + (Len(first) - m) /\ Len(two) = Len(second) - m /\ Len(pairs) = 2 * m
    BY <1>4, <1>5, <1>6, <2>2
  <2>7. Len(all) = 2 * m + (Len(first) - m) + (Len(second) - m)
    BY <2>4, <2>6
  <2>8. ASSUME NEW k \in 1 .. Len(all)
        PROVE  all[k] = IF k <= 2 * m THEN pairs[k]
                        ELSE IF k <= 2 * m + (Len(first) - m) THEN one[k - 2 * m]
                        ELSE two[k - (2 * m + (Len(first) - m))]
    <3>1. CASE k <= 2 * m + (Len(first) - m)
      <4>1. all[k] = front[k]
        BY <1>1, <2>4, <2>5, <2>6, <3>1
      <4>2. front[k] = IF k <= 2 * m THEN pairs[k] ELSE one[k - 2 * m]
        BY <1>1, <1>5, <2>3, <2>6, <3>1
      <4> QED
        BY <1>1, <3>1, <4>1, <4>2
    <3>2. CASE ~ k <= 2 * m + (Len(first) - m)
      <4>1. all[k] = two[k - (2 * m + (Len(first) - m))]
        BY <1>1, <2>4, <2>5, <2>6, <3>2
      <4> QED
        BY <1>1, <3>2, <4>1
    <3> QED
      BY <3>1, <3>2
  <2> QED
    BY <2>4, <2>7, <2>8
<1> HIDE DEF all
<1>10. Len(all) = Len(first) + Len(second)
  BY <1>1, <1>9
<1>11. ASSUME NEW k \in 1 .. Len(first) + Len(second)
       PROVE  all[k] =
                  IF k <= 2 * m THEN IF k % 2 = 1 THEN first[(k + 1) \div 2] ELSE second[k \div 2]
                  ELSE IF Len(first) > m THEN first[k - m] ELSE second[k - m]
  <2>1. CASE k <= 2 * m
    <3>1. k \in 1 .. 2 * m /\ k \in 1 .. Len(all)
      BY <1>10, <2>1
    <3>2. all[k] = pairs[k]
      BY <1>9, <2>1, <3>1
    <3> QED
      BY <1>7, <2>1, <3>1, <3>2
  <2>2. CASE k > 2 * m /\ Len(first) > m
    <3>1. Len(second) = m /\ k - 2 * m \in 1 .. Len(first) - m
      BY <1>1, <1>8, <2>2
    <3>2. all[k] = one[k - 2 * m]
      BY <1>1, <1>9, <1>10, <2>2, <3>1
    <3>3. m + (k - 2 * m) = k - m
      BY <1>1
    <3> QED
      <4>1. one[k - 2 * m] = first[m + (k - 2 * m)]
        BY <1>5, <3>1
      <4>2. all[k] = first[k - m]
        BY <3>2, <3>3, <4>1
      <4>3. ~ k <= 2 * m /\ Len(first) > m
        BY <1>1, <2>2
      <4> QED
        BY <4>2, <4>3
  <2>3. CASE k > 2 * m /\ ~ Len(first) > m
    <3>1. Len(first) = m /\ k - 2 * m \in 1 .. Len(second) - m
      BY <1>1, <2>3
    <3>2. all[k] = two[k - 2 * m]
      <4>1. k \in 1 .. Len(all) /\ k - (2 * m + (Len(first) - m)) = k - 2 * m
            /\ ~ k <= 2 * m + (Len(first) - m) /\ ~ k <= 2 * m
        BY <1>1, <1>10, <2>3, <3>1
      <4> QED
        BY <1>9, <4>1
    <3>3. m + (k - 2 * m) = k - m
      BY <1>1
    <3> QED
      <4>1. two[k - 2 * m] = second[m + (k - 2 * m)]
        BY <1>6, <3>1
      <4>2. all[k] = second[k - m]
        BY <3>2, <3>3, <4>1
      <4>3. ~ k <= 2 * m /\ ~ Len(first) > m
        BY <2>3
      <4> QED
        BY <4>2, <4>3
  <2> QED
    BY <1>1, <2>1, <2>2, <2>3
<1> QED
  BY <1>2, <1>9, <1>10, <1>11 DEF all

\* Two lists without repetitions and with nothing in common alternate without repetitions.
LEMMA AlternateInjective ==
    ASSUME NEW S, NEW first \in Seq(S), NEW second \in Seq(S),
           IsInjective(first), IsInjective(second), ToSet(first) \cap ToSet(second) = {}
    PROVE  /\ IsInjective(Alternate(first, second))
           /\ ToSet(Alternate(first, second)) \subseteq ToSet(first) \cup ToSet(second)
<1>0. PICK m \in Nat : m <= Len(first) /\ m <= Len(second) /\ m \in {Len(first), Len(second)}
  OBVIOUS
<1> DEFINE all == Alternate(first, second)
           n == Len(first) + Len(second)
           Of(k) == IF k <= 2 * m THEN k % 2 = 1 ELSE Len(first) > m
           At(k) == IF k <= 2 * m THEN IF k % 2 = 1 THEN (k + 1) \div 2 ELSE k \div 2 ELSE k - m
<1>1. m \in Nat /\ Len(first) \in Nat /\ Len(second) \in Nat /\ m <= Len(first) /\ m <= Len(second)
      /\ (m = Len(first) \/ m = Len(second))
  BY <1>0
<1>2. DOMAIN first = 1 .. Len(first) /\ DOMAIN second = 1 .. Len(second)
  OBVIOUS
<1>3. /\ all \in Seq(S) /\ Len(all) = n
      /\ \A k \in 1 .. n :
           all[k] = IF k <= 2 * m
                      THEN IF k % 2 = 1 THEN first[(k + 1) \div 2] ELSE second[k \div 2]
                    ELSE IF Len(first) > m THEN first[k - m] ELSE second[k - m]
  <2>1. all \in Seq(S) /\ Len(all) = n
    BY <1>0, AlternateAt
  <2>2. \A k \in 1 .. n :
           all[k] = IF k <= 2 * m
                      THEN IF k % 2 = 1 THEN first[(k + 1) \div 2] ELSE second[k \div 2]
                    ELSE IF Len(first) > m THEN first[k - m] ELSE second[k - m]
    BY <1>0, AlternateAt
  <2> QED
    BY <2>1, <2>2
<1>4. DOMAIN all = 1 .. n
  BY <1>3
<1> HIDE DEF all
<1>5. ASSUME NEW k \in 1 .. n
      PROVE  /\ Of(k) => all[k] = first[At(k)] /\ At(k) \in 1 .. Len(first)
             /\ ~ Of(k) => all[k] = second[At(k)] /\ At(k) \in 1 .. Len(second)
  BY <1>1, <1>3
<1>6. ASSUME NEW k \in 1 .. n, NEW l \in 1 .. n, Of(k) <=> Of(l), At(k) = At(l)
      PROVE  k = l
  BY <1>1, <1>6
<1> HIDE DEF Of, At
<1>7. \A k \in 1 .. n : /\ Of(k) => all[k] \in ToSet(first)
                        /\ ~ Of(k) => all[k] \in ToSet(second)
  BY <1>2, <1>5 DEF ToSet
<1>8. ASSUME NEW k \in 1 .. n, NEW l \in 1 .. n, all[k] = all[l]
      PROVE  k = l
  <2>1. Of(k) <=> Of(l)
    BY <1>7, <1>8
  <2>2. CASE Of(k)
    <3>1. all[k] = first[At(k)] /\ At(k) \in 1 .. Len(first)
      BY <1>5, <2>2
    <3>2. all[l] = first[At(l)] /\ At(l) \in 1 .. Len(first)
      BY <1>5, <2>1, <2>2
    <3>3. At(k) = At(l)
      BY <1>2, <1>8, <3>1, <3>2 DEF IsInjective
    <3> QED
      BY <1>6, <2>1, <3>3
  <2>3. CASE ~ Of(k)
    <3>1. all[k] = second[At(k)] /\ At(k) \in 1 .. Len(second)
      BY <1>5, <2>3
    <3>2. all[l] = second[At(l)] /\ At(l) \in 1 .. Len(second)
      BY <1>5, <2>1, <2>3
    <3>3. At(k) = At(l)
      BY <1>2, <1>8, <3>1, <3>2 DEF IsInjective
    <3> QED
      BY <1>6, <2>1, <3>3
  <2> QED
    BY <2>2, <2>3
<1>9. IsInjective(all)
  BY <1>4, <1>8 DEF IsInjective
<1>10. ToSet(all) \subseteq ToSet(first) \cup ToSet(second)
  <2>1. ToSet(all) = {all[k] : k \in 1 .. n}
    BY <1>4 DEF ToSet
  <2> QED
    BY <1>7, <2>1
<1> QED
  BY <1>9, <1>10 DEF all

-----------------------------------------------------------------------------
(* receive(_:family:at:) *)

\* A state of the policy: per family at most MaxAddresses of its addresses, no two alike, and
\* none before the first address has come.
PolicyRecords == [kept : [Family -> Seq(V4 \cup V6)], settled : SUBSET Family,
                  first : Family \cup {NoFamily}, at : {Never} \cup 0 .. Deadline]

ListKept(s, g) ==
    /\ s.kept[g] \in Seq(Host(g)) /\ IsInjective(s.kept[g])
    /\ Len(s.kept[g]) <= MaxAddresses
    /\ s.at = Never => s.kept[g] = <<>>

Policies == {s \in PolicyRecords : \A g \in Family : ListKept(s, g)}

\* What an answer does to the addresses of its family, and to those of the other.
Received(s, t, f, a) ==
    /\ \A g \in Family : g # f => t.kept[g] = s.kept[g]
    /\ a[1] = "address" => ToSet(t.kept[f]) \subseteq ToSet(s.kept[f]) \cup {a[2]}
    /\ a[1] = "withdrawn" => ToSet(t.kept[f]) \subseteq ToSet(s.kept[f]) \ {a[2]}
    /\ a[1] \notin {"address", "withdrawn"} => t.kept[f] = s.kept[f]

LEMMA AnswerKinds ==
    ASSUME NEW f \in Family, NEW a \in Answer(f)
    PROVE  /\ a[1] \in {"address", "withdrawn", "none", "ignored"}
           /\ a[1] \in {"address", "withdrawn"} => a[2] \in Host(f) /\ a = <<a[1], a[2]>>
BY DEF Answer

LEMMA HostsOf == ASSUME NEW f \in Family PROVE Host(f) \subseteq V4 \cup V6
BY DEF Host

\* An address more is kept only where there is room, and only once.
LEMMA KeptKeeps ==
    ASSUME NEW S, NEW s \in Seq(S), IsInjective(s), Len(s) <= MaxAddresses, NEW x \in S
    PROVE  /\ Kept(s, x) \in Seq(S) /\ IsInjective(Kept(s, x)) /\ Len(Kept(s, x)) <= MaxAddresses
           /\ ToSet(Kept(s, x)) \subseteq ToSet(s) \cup {x}
<1>1. CASE Contains(s, x) \/ Len(s) >= MaxAddresses
  BY <1>1 DEF Kept
<1>2. CASE ~ (Contains(s, x) \/ Len(s) >= MaxAddresses)
  <2>1. x \notin ToSet(s)
    BY <1>2 DEF Contains, ToSet
  <2>2. /\ Append(s, x) \in Seq(S) /\ Len(Append(s, x)) = Len(s) + 1
        /\ ToSet(Append(s, x)) = ToSet(s) \cup {x} /\ IsInjective(Append(s, x))
    BY <2>1, AppendNew
  <2>3. Len(s) \in Nat /\ MaxAddresses \in Nat
    BY ResolutionConstants
  <2>4. Kept(s, x) = Append(s, x)
    BY <1>2 DEF Kept
  <2> QED
    BY <1>2, <2>2, <2>3, <2>4
<1> QED
  BY <1>1, <1>2

LEMMA AddressReceived ==
    ASSUME now \in 0 .. Deadline, NEW s \in Policies, NEW f \in Family, NEW x \in Host(f)
    PROVE  /\ WithAddress(s, f, x) \in Policies
           /\ \A g \in Family : g # f => WithAddress(s, f, x).kept[g] = s.kept[g]
           /\ ToSet(WithAddress(s, f, x).kept[f]) \subseteq ToSet(s.kept[f]) \cup {x}
<1> DEFINE t == WithAddress(s, f, x)
           q == Kept(s.kept[f], x)
<1>1. s \in PolicyRecords /\ \A g \in Family : ListKept(s, g)
  BY DEF Policies
<1>2. /\ q \in Seq(Host(f)) /\ IsInjective(q) /\ Len(q) <= MaxAddresses
      /\ ToSet(q) \subseteq ToSet(s.kept[f]) \cup {x}
  BY <1>1, KeptKeeps DEF ListKept
<1>3. q \in Seq(V4 \cup V6)
  BY <1>2, HostsOf, SeqMonotonic
<1> HIDE DEF q
<1>4. /\ s.kept \in [Family -> Seq(V4 \cup V6)] /\ s.settled \in SUBSET Family
      /\ s.first \in Family \cup {NoFamily} /\ s.at \in {Never} \cup 0 .. Deadline
  BY <1>1 DEF PolicyRecords
<1>5. t = [kept |-> [s.kept EXCEPT ![f] = q], settled |-> s.settled \cup {f},
           first |-> IF s.at = Never THEN f ELSE s.first,
           at |-> IF s.at = Never THEN now ELSE s.at]
  BY DEF WithAddress, q
<1> HIDE DEF t
<1>6. t \in PolicyRecords
  BY <1>3, <1>4, <1>5 DEF PolicyRecords
<1>7. t.kept[f] = q /\ \A g \in Family : g # f => t.kept[g] = s.kept[g]
  BY <1>4, <1>5
<1>8. t.at # Never
  <2>1. now # Never
    BY DEF Never
  <2> QED
    BY <1>5, <2>1
<1>9. ASSUME NEW g \in Family PROVE ListKept(t, g)
  <2>1. CASE g = f
    BY <1>2, <1>7, <1>8, <2>1 DEF ListKept
  <2>2. CASE g # f
    <3>1. t.kept[g] = s.kept[g] /\ ListKept(s, g)
      BY <1>1, <1>7, <2>2
    <3> QED
      BY <1>8, <3>1 DEF ListKept
  <2> QED
    BY <2>1, <2>2
<1>10. t \in Policies
  BY <1>6, <1>9 DEF Policies
<1> QED
  BY <1>2, <1>7, <1>10 DEF t

WithoutAddress(s, f, x) == [s EXCEPT !.kept[f] = Without(@, x)]

LEMMA WithdrawalReceived ==
    ASSUME NEW s \in Policies, NEW f \in Family, NEW x
    PROVE  /\ WithoutAddress(s, f, x) \in Policies
           /\ \A g \in Family : g # f => WithoutAddress(s, f, x).kept[g] = s.kept[g]
           /\ ToSet(WithoutAddress(s, f, x).kept[f]) \subseteq ToSet(s.kept[f]) \ {x}
<1> DEFINE q == Without(s.kept[f], x)
           t == WithoutAddress(s, f, x)
<1>1. s \in PolicyRecords /\ \A g \in Family : ListKept(s, g)
  BY DEF Policies
<1>2. /\ s.kept[f] \in Seq(Host(f)) /\ IsInjective(s.kept[f]) /\ Len(s.kept[f]) <= MaxAddresses
      /\ s.at = Never => s.kept[f] = <<>>
  BY <1>1 DEF ListKept
<1>3. q \in Seq(Host(f)) /\ IsInjective(q)
  BY <1>2, WithoutKeeps
<1>4. Len(q) <= Len(s.kept[f])
  BY <1>2, WithoutKeeps
<1>5. ToSet(q) = ToSet(s.kept[f]) \ {x}
  BY <1>2, WithoutKeeps
<1>6. q \in Seq(V4 \cup V6)
  BY <1>3, HostsOf, SeqMonotonic
<1> HIDE DEF q
<1>7. /\ s.kept \in [Family -> Seq(V4 \cup V6)] /\ s.settled \in SUBSET Family
      /\ s.first \in Family \cup {NoFamily} /\ s.at \in {Never} \cup 0 .. Deadline
  BY <1>1 DEF PolicyRecords
<1>8. t = [kept |-> [s.kept EXCEPT ![f] = q], settled |-> s.settled, first |-> s.first, at |-> s.at]
  <2>1. t = [s EXCEPT !.kept[f] = q]
    BY DEF q, WithoutAddress
  <2> HIDE DEF t
  <2> QED
    BY <1>1, <2>1 DEF PolicyRecords
<1> HIDE DEF t
<1>9. t \in PolicyRecords /\ t.at = s.at
  <2>1. [s.kept EXCEPT ![f] = q] \in [Family -> Seq(V4 \cup V6)]
    BY <1>6, <1>7
  <2>2. t.at = s.at
    BY <1>8
  <2>3. [kept |-> [s.kept EXCEPT ![f] = q], settled |-> s.settled, first |-> s.first,
         at |-> s.at] \in PolicyRecords
    BY <1>7, <2>1 DEF PolicyRecords
  <2> QED
    BY <1>8, <2>2, <2>3
<1>10. t.kept[f] = q /\ \A g \in Family : g # f => t.kept[g] = s.kept[g]
  BY <1>7, <1>8
<1>11. ASSUME NEW g \in Family PROVE ListKept(t, g)
  <2>1. CASE g = f
    <3>1. Len(q) <= MaxAddresses
      <4>1. Len(q) \in Nat /\ Len(s.kept[f]) \in Nat /\ MaxAddresses \in Nat
        BY <1>2, <1>3, ResolutionConstants
      <4> QED
        BY <1>2, <1>4, <4>1
    <3>2. s.at = Never => q = <<>>
      <4>1. ASSUME s.at = Never PROVE Len(q) <= 0
        BY <1>2, <1>4, <4>1
      <4> QED
        BY <1>3, <4>1
    <3> QED
      BY <1>3, <1>9, <1>10, <2>1, <3>1, <3>2 DEF ListKept
  <2>2. CASE g # f
    <3>1. t.kept[g] = s.kept[g] /\ ListKept(s, g)
      BY <1>1, <1>10, <2>2
    <3> QED
      BY <1>9, <3>1 DEF ListKept
  <2> QED
    BY <2>1, <2>2
<1>12. t \in Policies
  BY <1>9, <1>11 DEF Policies
<1> QED
  BY <1>5, <1>10, <1>12 DEF t

\* One answer.
LEMMA ReceiveKeeps ==
    ASSUME now \in 0 .. Deadline, NEW s \in Policies, NEW f \in Family, NEW a \in Answer(f)
    PROVE  Receive(s, f, a) \in Policies /\ Received(s, Receive(s, f, a), f, a)
<1>1. /\ a[1] \in {"address", "withdrawn", "none", "ignored"}
      /\ a[1] \in {"address", "withdrawn"} => a[2] \in Host(f)
  BY AnswerKinds
<1>2. CASE a[1] = "address"
  <2>1. Receive(s, f, a) = WithAddress(s, f, a[2])
    BY <1>2 DEF Receive
  <2> QED
    BY <1>1, <1>2, <2>1, AddressReceived DEF Received
<1>3. CASE a[1] = "withdrawn"
  <2>1. Receive(s, f, a) = WithoutAddress(s, f, a[2])
    BY <1>3 DEF Receive, WithoutAddress
  <2> QED
    BY <1>3, <2>1, WithdrawalReceived DEF Received
<1>4. CASE a[1] = "none"
  <2> DEFINE t == [s EXCEPT !.settled = @ \cup {f}]
  <2>1. Receive(s, f, a) = t
    BY <1>4 DEF Receive
  <2>2. s \in PolicyRecords /\ \A g \in Family : ListKept(s, g)
    BY DEF Policies
  <2>3. t \in PolicyRecords /\ t.kept = s.kept /\ t.at = s.at
    BY <2>2 DEF PolicyRecords
  <2> HIDE DEF t
  <2>4. \A g \in Family : ListKept(t, g)
    BY <2>2, <2>3 DEF ListKept
  <2> QED
    BY <1>4, <2>1, <2>3, <2>4 DEF Policies, Received
<1>5. CASE a[1] = "ignored"
  <2>1. Receive(s, f, a) = s
    BY <1>5 DEF Receive
  <2> QED
    BY <1>5, <2>1 DEF Received
<1> QED
  BY <1>1, <1>2, <1>3, <1>4, <1>5

\* process() applies the answers of a batch one after the other.
Applied(s, f, batch) == FoldLeft(LAMBDA st, a : Receive(st, f, a), s, batch)

LEMMA AppliedSteps ==
    ASSUME now \in 0 .. Deadline, NEW s \in Policies, NEW f \in Family,
           NEW batch \in Seq(Answer(f))
    PROVE  \E g : /\ g[{}] = s
                  /\ \A i \in 1 .. Len(batch) : g[1 .. i] = Receive(g[1 .. i - 1], f, batch[i])
                  /\ Applied(s, f, batch) = g[1 .. Len(batch)]
<1> DEFINE n == Len(batch)
           F == [p \in Policies \X (1 .. n) |-> Receive(p[1], f, batch[p[2]])]
           Solves(g) == g = [t \in SUBSET (1 .. n) |->
                              IF t = {} THEN s ELSE Receive(g[t \ {Max(t)}], f, batch[Max(t)])]
<1>1. n \in Nat
  OBVIOUS
<1>2. ASSUME NEW q \in Policies, NEW i \in 1 .. n
      PROVE  F[<<q, i>>] = Receive(q, f, batch[i])
  <2>1. <<q, i>> \in Policies \X (1 .. n)
    OBVIOUS
  <2> QED
    BY <2>1
<1>3. F \in [Policies \X (1 .. n) -> Policies]
  <2>1. ASSUME NEW p \in Policies \X (1 .. n)
        PROVE  Receive(p[1], f, batch[p[2]]) \in Policies
    <3>1. p[1] \in Policies /\ batch[p[2]] \in Answer(f)
      BY <2>1
    <3> QED
      BY <3>1, ReceiveKeeps
  <2> QED
    BY <2>1
<1> HIDE DEF F
<1>4. PICK g : Iterates(g, Policies, s, F, n)
  BY <1>1, <1>3, FoldExists
<1>5. Solves(g)
  <2>1. ASSUME NEW t \in SUBSET (1 .. n), t # {}
        PROVE  g[t] = Receive(g[t \ {Max(t)}], f, batch[Max(t)])
    <3>1. Max(t) \in 1 .. n
      BY <1>1, <2>1, MaxIn
    <3>2. g[t \ {Max(t)}] \in Policies
      BY <1>4 DEF Iterates
    <3>3. g[t] = F[<<g[t \ {Max(t)}], Max(t)>>]
      BY <1>4, <2>1 DEF Iterates
    <3> QED
      BY <1>2, <3>1, <3>2, <3>3
  <2>2. g[{}] = s
    BY <1>4 DEF Iterates
  <2>3. g = [t \in SUBSET (1 .. n) |-> g[t]]
    BY <1>4 DEF Iterates
  <2> QED
    BY <2>1, <2>2, <2>3
<1> DEFINE iter == CHOOSE h : Solves(h)
<1>6. Solves(iter)
  BY <1>5
<1>7. Applied(s, f, batch) = iter[1 .. n]
  <2>1. DOMAIN batch = 1 .. n
    OBVIOUS
  <2> QED
    BY <2>1 DEF Applied, FoldLeft, MapThenFoldSet
<1> HIDE DEF iter
<1>8. iter[{}] = s
  BY <1>6
<1> HIDE DEF n
<1>9. ASSUME NEW i \in 1 .. n
      PROVE  iter[1 .. i] = Receive(iter[1 .. i - 1], f, batch[i])
  <2>1. /\ (1 .. i) \in SUBSET (1 .. n) /\ (1 .. i) # {}
        /\ Max(1 .. i) = i /\ (1 .. i) \ {i} = 1 .. i - 1
    BY <1>1, FirstPlaces
  <2>2. iter[1 .. i] = Receive(iter[(1 .. i) \ {Max(1 .. i)}], f, batch[Max(1 .. i)])
    BY <1>6, <2>1
  <2> QED
    BY <2>1, <2>2
<1> QED
  BY <1>7, <1>8, <1>9 DEF n

\* The addresses read in the first i answers of a batch or before, and not withdrawn since.
ReadBy(f, batch, i) ==
    {x \in Host(f) :
        /\ x \in reported[f] \/ \E j \in 1 .. i : batch[j] = <<"address", x>>
        /\ ~ \E j \in 1 .. i : /\ batch[j] = <<"withdrawn", x>>
                               /\ \A l \in j + 1 .. i : batch[l] # <<"address", x>>}

LEMMA ReadStep ==
    ASSUME NEW f \in Family, NEW batch \in Seq(Answer(f)), NEW i \in 1 .. Len(batch)
    PROVE  /\ batch[i][1] = "address" =>
                ReadBy(f, batch, i - 1) \cup {batch[i][2]} \subseteq ReadBy(f, batch, i)
           /\ batch[i][1] = "withdrawn" =>
                ReadBy(f, batch, i - 1) \ {batch[i][2]} \subseteq ReadBy(f, batch, i)
           /\ batch[i][1] \notin {"address", "withdrawn"} =>
                ReadBy(f, batch, i - 1) \subseteq ReadBy(f, batch, i)
<1> DEFINE a == batch[i]
<1>1. a \in Answer(f) /\ i \in Nat /\ i >= 1
  OBVIOUS
<1>2. a[1] \in {"address", "withdrawn"} => a[2] \in Host(f) /\ a = <<a[1], a[2]>>
  BY <1>1, AnswerKinds
<1>3. ASSUME NEW x \in ReadBy(f, batch, i - 1), a # <<"withdrawn", x>>
      PROVE  x \in ReadBy(f, batch, i)
  <2>1. \A j \in 1 .. i : j \in 1 .. i - 1 \/ j = i
    BY <1>1
  <2>2. \A j \in 1 .. i - 1 : j \in 1 .. i
    BY <1>1
  <2>3. \A j \in 1 .. i - 1 : \A l \in j + 1 .. i - 1 : l \in j + 1 .. i
    BY <1>1
  <2>4. x \in Host(f) /\ (x \in reported[f] \/ \E j \in 1 .. i - 1 : batch[j] = <<"address", x>>)
    BY DEF ReadBy
  <2>5. ~ \E j \in 1 .. i - 1 : /\ batch[j] = <<"withdrawn", x>>
                                /\ \A l \in j + 1 .. i - 1 : batch[l] # <<"address", x>>
    BY DEF ReadBy
  <2>6. ASSUME NEW j \in 1 .. i, batch[j] = <<"withdrawn", x>>,
               \A l \in j + 1 .. i : batch[l] # <<"address", x>>
        PROVE  FALSE
    <3>1. j # i
      BY <1>3, <2>6
    <3>2. j \in 1 .. i - 1
      BY <2>1, <3>1
    <3>3. \A l \in j + 1 .. i - 1 : batch[l] # <<"address", x>>
      BY <2>3, <2>6, <3>2
    <3> QED
      BY <2>5, <2>6, <3>2, <3>3
  <2>7. x \in reported[f] \/ \E j \in 1 .. i : batch[j] = <<"address", x>>
    BY <2>2, <2>4
  <2> QED
    BY <2>4, <2>6, <2>7 DEF ReadBy
<1>4. ASSUME a[1] = "address" PROVE a[2] \in ReadBy(f, batch, i)
  <2>1. batch[i] = <<"address", a[2]>> /\ a[2] \in Host(f) /\ i \in 1 .. i
    BY <1>1, <1>2, <1>4
  <2>2. ASSUME NEW j \in 1 .. i, batch[j] = <<"withdrawn", a[2]>>,
               \A l \in j + 1 .. i : batch[l] # <<"address", a[2]>>
        PROVE  FALSE
    <3>1. j # i
      BY <2>1, <2>2
    <3>2. i \in j + 1 .. i
      BY <1>1, <3>1
    <3> QED
      BY <2>1, <2>2, <3>2
  <2> QED
    BY <2>1, <2>2 DEF ReadBy
<1>5. a[1] = "address" \/ a[1] \notin {"address", "withdrawn"} => \A x : a # <<"withdrawn", x>>
  OBVIOUS
<1>6. \A x : x # a[2] => a # <<"withdrawn", x>>
  OBVIOUS
<1> HIDE DEF a
<1>7. a[1] = "address" => ReadBy(f, batch, i - 1) \cup {a[2]} \subseteq ReadBy(f, batch, i)
  BY <1>3, <1>4, <1>5
<1>8. a[1] = "withdrawn" => ReadBy(f, batch, i - 1) \ {a[2]} \subseteq ReadBy(f, batch, i)
  BY <1>3, <1>6
<1>9. a[1] \notin {"address", "withdrawn"} => ReadBy(f, batch, i - 1) \subseteq ReadBy(f, batch, i)
  BY <1>3, <1>5
<1> QED
  BY <1>7, <1>8, <1>9 DEF a

\* The policy's state, as receive() takes it.
Policy == [kept |-> list, settled |-> settled, first |-> firstFamily, at |-> firstAddressAt]

\* Whatever a batch of answers holds, in whatever order: the lists stay lists of addresses that
\* were read and not withdrawn since, no two alike.
LEMMA BatchApplied ==
    ASSUME now \in 0 .. Deadline, NEW s \in Policies, NEW f \in Family,
           NEW batch \in Seq(Answer(f)),
           \A g \in Family : ToSet(s.kept[g]) \subseteq reported[g], reported[f] \subseteq Host(f)
    PROVE  /\ Applied(s, f, batch) \in Policies
           /\ \A g \in Family : g # f => Applied(s, f, batch).kept[g] = s.kept[g]
           /\ ToSet(Applied(s, f, batch).kept[f]) \subseteq ReadBy(f, batch, Len(batch))
<1> DEFINE P == [i \in 0 .. Len(batch) |->
                   {t \in Policies : /\ \A g \in Family : g # f => t.kept[g] = s.kept[g]
                                     /\ ToSet(t.kept[f]) \subseteq ReadBy(f, batch, i)}]
<1>1. PICK g : /\ g[{}] = s
               /\ \A i \in 1 .. Len(batch) : g[1 .. i] = Receive(g[1 .. i - 1], f, batch[i])
               /\ Applied(s, f, batch) = g[1 .. Len(batch)]
  BY AppliedSteps
<1>2. Len(batch) \in Nat
  OBVIOUS
<1>3. g[{}] \in P[0]
  <2>1. reported[f] \subseteq ReadBy(f, batch, 0)
    BY DEF ReadBy
  <2>2. 0 \in 0 .. Len(batch) /\ ToSet(s.kept[f]) \subseteq reported[f]
    BY <1>2
  <2> QED
    BY <1>1, <2>1, <2>2
<1>4. ASSUME NEW i \in 1 .. Len(batch), g[1 .. i - 1] \in P[i - 1]
      PROVE  g[1 .. i] \in P[i]
  <2> DEFINE t == g[1 .. i - 1]
             u == g[1 .. i]
             a == batch[i]
  <2>1. i \in 0 .. Len(batch) /\ i - 1 \in 0 .. Len(batch) /\ a \in Answer(f)
    BY <1>2
  <2>2. /\ t \in Policies /\ \A h \in Family : h # f => t.kept[h] = s.kept[h]
        /\ ToSet(t.kept[f]) \subseteq ReadBy(f, batch, i - 1)
    BY <1>4, <2>1
  <2>3. u = Receive(t, f, a)
    BY <1>1
  <2> SUFFICES /\ u \in Policies /\ \A h \in Family : h # f => u.kept[h] = s.kept[h]
               /\ ToSet(u.kept[f]) \subseteq ReadBy(f, batch, i)
    BY <2>1
  <2> HIDE DEF P, t, u
  <2>4. u \in Policies
    BY <2>1, <2>2, <2>3, ReceiveKeeps
  <2>5. Received(t, u, f, a)
    BY <2>1, <2>2, <2>3, ReceiveKeeps
  <2>6. \A h \in Family : h # f => u.kept[h] = s.kept[h]
    BY <2>2, <2>5 DEF Received
  <2>7. /\ a[1] = "address" => ReadBy(f, batch, i - 1) \cup {a[2]} \subseteq ReadBy(f, batch, i)
        /\ a[1] = "withdrawn" => ReadBy(f, batch, i - 1) \ {a[2]} \subseteq ReadBy(f, batch, i)
        /\ a[1] \notin {"address", "withdrawn"} =>
             ReadBy(f, batch, i - 1) \subseteq ReadBy(f, batch, i)
    BY ReadStep
  <2> HIDE DEF a
  <2>8. ToSet(u.kept[f]) \subseteq ReadBy(f, batch, i)
    BY <2>2, <2>5, <2>7 DEF Received
  <2> QED
    BY <2>4, <2>6, <2>8
<1> HIDE DEF P
<1>5. g[1 .. Len(batch)] \in P[Len(batch)]
  BY <1>2, <1>3, <1>4, FoldRule
<1>6. Len(batch) \in 0 .. Len(batch)
  BY <1>2
<1> QED
  BY <1>1, <1>5, <1>6 DEF P

-----------------------------------------------------------------------------
(* The invariant *)

\* The functions have their domains.
Shapes ==
    /\ list \in [Family -> Seq(V4 \cup V6)]
    /\ sent \in [Family -> Nat] /\ reported \in [Family -> SUBSET (V4 \cup V6)]
    /\ DOMAIN inbox = Family

\* The addresses kept are different ones that were read and not withdrawn since, and the
\* policy knows when the first came.
Lists ==
    \A g \in Family :
        /\ IsInjective(list[g]) /\ ToSet(list[g]) \subseteq reported[g]
        /\ firstAddressAt = Never => list[g] = <<>>

\* Queries are reported readable or failed only while their answers are read, and nobody
\* waits at the deadline.
Phase ==
    /\ pc # "drain" => ready = {} /\ failed = {}
    /\ pc = "poll" => now < Deadline
    /\ outcome = "resolved" => pc = "ended"

IInv == TypeOK /\ Shapes /\ Lists /\ Phase /\ ResultSound /\ GraceKept /\ FamiliesAlternate

\* The two families' lists have nothing in common.
LEMMA Disjoint ==
    ASSUME TypeOK, NEW f \in Family
    PROVE  /\ list["ipv6"] \in Seq(V6) /\ list["ipv4"] \in Seq(V4)
           /\ ToSet(list["ipv6"]) \cap ToSet(list["ipv4"]) = {}
<1>1. "ipv6" \in Family /\ "ipv4" \in Family
  BY DEF Family
<1>2. list["ipv6"] \in Seq(V6) /\ list["ipv4"] \in Seq(V4)
  BY <1>1 DEF TypeOK, Host
<1>3. ToSet(list["ipv6"]) \subseteq V6 /\ ToSet(list["ipv4"]) \subseteq V4
  BY <1>2 DEF ToSet
<1> QED
  BY <1>2, <1>3, ResolutionConstants

\* What addresses() returns: kept addresses, no two alike, at most MaxAddresses.
LEMMA AddressesSound ==
    ASSUME TypeOK, Lists
    PROVE  /\ Addresses \in Seq(V4 \cup V6) /\ Len(Addresses) <= MaxAddresses
           /\ IsInjective(Addresses)
           /\ ToSet(Addresses) \subseteq UNION {reported[f] : f \in Family}
           /\ firstAddressAt = Never => Addresses = <<>>
<1> DEFINE first == IF firstFamily = "ipv6" THEN "ipv6" ELSE "ipv4"
           all == Alternate(list[first], list[Other(first)])
           n == IF Len(all) < MaxAddresses THEN Len(all) ELSE MaxAddresses
<1>1. /\ first \in Family /\ Other(first) \in Family
      /\ (first = "ipv6" /\ Other(first) = "ipv4") \/ (first = "ipv4" /\ Other(first) = "ipv6")
  BY DEF Family, Other
<1>2. /\ list["ipv6"] \in Seq(V6) /\ list["ipv4"] \in Seq(V4)
      /\ ToSet(list["ipv6"]) \cap ToSet(list["ipv4"]) = {}
  BY <1>1, Disjoint
<1> HIDE DEF first
<1>3. /\ list[first] \in Seq(V4 \cup V6) /\ list[Other(first)] \in Seq(V4 \cup V6)
  BY <1>1, <1>2, SeqMonotonic
<1>4. ToSet(list[first]) \cap ToSet(list[Other(first)]) = {}
  BY <1>1, <1>2
<1>5. /\ IsInjective(list[first]) /\ IsInjective(list[Other(first)])
      /\ ToSet(list[first]) \subseteq reported[first]
      /\ ToSet(list[Other(first)]) \subseteq reported[Other(first)]
      /\ firstAddressAt = Never => list[first] = <<>> /\ list[Other(first)] = <<>>
  BY <1>1 DEF Lists
<1>6. PICK m \in Nat : /\ m <= Len(list[first]) /\ m <= Len(list[Other(first)])
                       /\ m \in {Len(list[first]), Len(list[Other(first)])}
  BY <1>3
<1>7. all \in Seq(V4 \cup V6) /\ Len(all) = Len(list[first]) + Len(list[Other(first)])
  BY <1>3, <1>6, AlternateAt
<1>8. /\ IsInjective(all)
      /\ ToSet(all) \subseteq ToSet(list[first]) \cup ToSet(list[Other(first)])
  BY <1>3, <1>4, <1>5, AlternateInjective
<1>9. Addresses = SubSeq(all, 1, n)
  BY DEF Addresses, first
<1> HIDE DEF all
<1>20. all \in Seq(V4 \cup V6)
  BY <1>7
<1>21. Len(all) \in Nat /\ DOMAIN all = 1 .. Len(all)
  BY <1>20
<1>10. n \in Nat /\ n <= Len(all) /\ n <= MaxAddresses
  BY <1>21, ResolutionConstants
<1> HIDE DEF n
<1>11. /\ Addresses \in Seq(V4 \cup V6) /\ Len(Addresses) = n
       /\ \A i \in 1 .. n : Addresses[i] = all[i]
  BY <1>9, <1>10, <1>20, FirstOf
<1>12. DOMAIN Addresses = 1 .. n /\ 1 .. n \subseteq DOMAIN all /\ DOMAIN all = 1 .. Len(all)
  <2>1. DOMAIN Addresses = 1 .. n
    BY <1>11
  <2> QED
    BY <1>10, <1>21, <2>1
<1>13. IsInjective(Addresses)
  BY <1>8, <1>11, <1>12 DEF IsInjective
<1>14. ToSet(Addresses) \subseteq ToSet(all)
  BY <1>11, <1>12 DEF ToSet
<1>15. ToSet(Addresses) \subseteq UNION {reported[f] : f \in Family}
  BY <1>1, <1>5, <1>8, <1>14
<1>16. firstAddressAt = Never => Addresses = <<>>
  <2> SUFFICES ASSUME firstAddressAt = Never PROVE Addresses = <<>>
    OBVIOUS
  <2>1. Len(list[first]) = 0 /\ Len(list[Other(first)]) = 0
    BY <1>5
  <2>2. Len(Addresses) = 0
    BY <1>7, <1>10, <1>11, <2>1
  <2> QED
    BY <1>11, <2>2
<1> QED
  BY <1>10, <1>11, <1>13, <1>15, <1>16

\* The first two addresses returned are of different families when both have one.
LEMMA AddressesAlternate ==
    ASSUME TypeOK, MaxAddresses > 1, \A f \in Family : list[f] # <<>>
    PROVE  ~ \E f \in Family : {Addresses[1], Addresses[2]} \subseteq Host(f)
<1> DEFINE first == IF firstFamily = "ipv6" THEN "ipv6" ELSE "ipv4"
           one == list[first]
           two == list[Other(first)]
           all == Alternate(one, two)
           n == IF Len(all) < MaxAddresses THEN Len(all) ELSE MaxAddresses
<1>1. /\ first \in Family /\ Other(first) \in Family
      /\ (first = "ipv6" /\ Other(first) = "ipv4") \/ (first = "ipv4" /\ Other(first) = "ipv6")
  BY DEF Family, Other
<1>2. one \in Seq(Host(first)) /\ two \in Seq(Host(Other(first))) /\ one # <<>> /\ two # <<>>
  BY <1>1 DEF TypeOK
<1>3. Host(first) \cap Host(Other(first)) = {}
  BY <1>1, ResolutionConstants DEF Host
<1>4. one \in Seq(V4 \cup V6) /\ two \in Seq(V4 \cup V6)
  BY <1>1, <1>2, HostsOf, SeqMonotonic
<1>5. Addresses = SubSeq(all, 1, n)
  BY DEF Addresses
<1> HIDE DEF first, one, two
<1>6. PICK m \in Nat : m <= Len(one) /\ m <= Len(two) /\ m \in {Len(one), Len(two)}
  BY <1>4
<1>7. all \in Seq(V4 \cup V6) /\ Len(all) = Len(one) + Len(two)
  BY <1>4, <1>6, AlternateAt
<1>8. \A k \in 1 .. Len(one) + Len(two) :
        all[k] = IF k <= 2 * m THEN IF k % 2 = 1 THEN one[(k + 1) \div 2] ELSE two[k \div 2]
                 ELSE IF Len(one) > m THEN one[k - m] ELSE two[k - m]
  BY <1>4, <1>6, AlternateAt
<1>9. Len(one) \in Nat \ {0} /\ Len(two) \in Nat \ {0}
  BY <1>2
<1> HIDE DEF all
<1>10. all[1] = one[1] /\ all[2] = two[1]
  <2>1. m >= 1 /\ 1 \in 1 .. Len(one) + Len(two) /\ 2 \in 1 .. Len(one) + Len(two)
    BY <1>6, <1>9
  <2>2. 1 % 2 = 1 /\ (1 + 1) \div 2 = 1 /\ 2 % 2 # 1 /\ 2 \div 2 = 1 /\ 1 <= 2 * m /\ 2 <= 2 * m
    BY <2>1
  <2> QED
    BY <1>8, <2>1, <2>2
<1>11. all \in Seq(V4 \cup V6)
  BY <1>7
<1>12. n \in Nat /\ n <= Len(all) /\ n >= 2
  BY <1>7, <1>9, ResolutionConstants
<1> HIDE DEF n
<1>13. \A i \in 1 .. n : Addresses[i] = all[i]
  BY <1>5, <1>11, <1>12, FirstOf
<1>14. Addresses[1] = one[1] /\ Addresses[2] = two[1]
  BY <1>10, <1>12, <1>13
<1>15. one[1] \in Host(first) /\ two[1] \in Host(Other(first))
  BY <1>2, <1>9
<1>16. \A f \in Family : f = first \/ f = Other(first)
  BY <1>1 DEF Family
<1> QED
  BY <1>3, <1>14, <1>15, <1>16

-----------------------------------------------------------------------------
(* Initially *)

LEMMA InitIInv == Init => IInv
<1> SUFFICES ASSUME Init PROVE IInv
  OBVIOUS
<1>1. \A f \in Family : /\ list[f] = <<>> /\ inbox[f] = <<>> /\ sent[f] = 0 /\ reported[f] = {}
  BY DEF Init
<1>2. \A S : <<>> \in Seq(S) /\ Len(<<>>) = 0 /\ DOMAIN <<>> = {}
  OBVIOUS
<1>3. IsInjective(<<>>) /\ ToSet(<<>>) = {}
  BY <1>2 DEF IsInjective, ToSet
<1>4. TypeOK
  BY <1>1, <1>2, ResolutionConstants DEF Init, TypeOK
<1>5. Shapes
  BY <1>2 DEF Init, Shapes
<1>6. Lists
  BY <1>1, <1>3 DEF Lists
<1>7. Phase /\ ResultSound /\ GraceKept /\ FamiliesAlternate
  BY DEF Init, Phase, ResultSound, GraceKept, FamiliesAlternate
<1> QED
  BY <1>4, <1>5, <1>6, <1>7 DEF IInv

-----------------------------------------------------------------------------
(* The steps *)

\* Until the policy has decided, the properties of the result ask nothing.
LEMMA NotYetResolved ==
    ASSUME Phase, pc # "ended", outcome' = outcome
    PROVE  /\ outcome' # "resolved" /\ ResultSound' /\ FamiliesAlternate'
           /\ pc' # "poll" => GraceKept'
<1>1. outcome' # "resolved"
  BY DEF Phase
<1> QED
  BY <1>1 DEF ResultSound, FamiliesAlternate, GraceKept

\* Whoever waits goes on waiting with the same addresses.
LEMMA StillWaits ==
    ASSUME GraceKept, outcome' # "resolved", UNCHANGED <<pc, now, policy>>
    PROVE  GraceKept'
<1>1. Addresses' = Addresses
  BY DEF policy, Addresses
<1> QED
  BY <1>1 DEF GraceKept, policy

LEMMA ListsStay == ASSUME Lists, UNCHANGED <<list, firstAddressAt, reported>> PROVE Lists'
BY DEF Lists

LEMMA ShapesStay == ASSUME Shapes, UNCHANGED <<list, sent, reported, inbox>> PROVE Shapes'
BY DEF Shapes

LEMMA CancelKeeps == ASSUME IInv, Cancel PROVE IInv'
<1>1. /\ pc' = "ended" /\ outcome' = "cancelled" /\ pc = "next"
      /\ UNCHANGED <<now, list, settled, firstFamily, firstAddressAt, queries, ready, failed, inbox,
                     sent, broken, cancelled, result, reported, negative>>
  BY DEF Cancel, policy, dns, seen
<1>2. TypeOK'
  BY <1>1 DEF IInv, TypeOK
<1>3. Lists' /\ Shapes'
  BY <1>1, ListsStay, ShapesStay DEF IInv
<1>4. Phase'
  BY <1>1 DEF IInv, Phase
<1>5. ResultSound' /\ GraceKept' /\ FamiliesAlternate'
  BY <1>1 DEF ResultSound, GraceKept, FamiliesAlternate
<1> QED
  BY <1>2, <1>3, <1>4, <1>5 DEF IInv

\* What is decided at the end of a batch is sound, late enough, and of both families.
LEMMA DecideKeeps == ASSUME IInv, Decide PROVE IInv'
<1>1. /\ pc' = "ended" /\ pc = "next" /\ Decided
      /\ result' = Addresses /\ outcome' = IF Addresses = <<>> THEN "host" ELSE "resolved"
      /\ UNCHANGED <<now, list, settled, firstFamily, firstAddressAt, queries, ready, failed, inbox,
                     sent, broken, cancelled, reported, negative>>
  BY DEF Decide, policy, dns, seen
<1>2. /\ Addresses \in Seq(V4 \cup V6) /\ Len(Addresses) <= MaxAddresses
      /\ IsInjective(Addresses)
      /\ ToSet(Addresses) \subseteq UNION {reported[f] : f \in Family}
      /\ firstAddressAt = Never => Addresses = <<>>
  BY AddressesSound DEF IInv
<1>3. TypeOK'
  BY <1>1, <1>2 DEF IInv, TypeOK
<1>4. Lists' /\ Shapes'
  BY <1>1, ListsStay, ShapesStay DEF IInv
<1>5. Phase'
  BY <1>1 DEF IInv, Phase
<1>6. ResultSound'
  <2> SUFFICES ASSUME outcome' = "resolved"
               PROVE  /\ Len(Addresses) \in 1 .. MaxAddresses /\ IsInjective(Addresses)
                      /\ ToSet(Addresses) \subseteq UNION {reported'[f] : f \in Family}
    BY <1>1 DEF ResultSound
  <2>1. Addresses # <<>> /\ reported' = reported
    BY <1>1
  <2>2. Len(Addresses) \in 1 .. MaxAddresses
    BY <1>2, <2>1, ResolutionConstants
  <2> QED
    BY <1>2, <2>1, <2>2
<1>7. GraceKept'
  <2> SUFFICES ASSUME outcome' = "resolved", now < Deadline, now < firstAddressAt + Grace
               PROVE  settled = Family
    BY <1>1 DEF GraceKept
  <2>1. ~ now >= Deadline /\ ~ now >= firstAddressAt + Grace
    <3>1. now \in Int /\ Deadline \in Int /\ firstAddressAt \in Int /\ Grace \in Int
      BY ResolutionConstants DEF IInv, TypeOK, Never
    <3> QED
      BY <3>1
  <2> QED
    BY <1>1, <2>1 DEF Decided, Complete, GraceOver
<1>8. FamiliesAlternate'
  <2> SUFFICES ASSUME MaxAddresses > 1, \A f \in Family : list[f] # <<>>
               PROVE  ~ \E f \in Family : {Addresses[1], Addresses[2]} \subseteq Host(f)
    BY <1>1 DEF FamiliesAlternate
  <2> QED
    BY AddressesAlternate DEF IInv
<1> QED
  BY <1>3, <1>4, <1>5, <1>6, <1>7, <1>8 DEF IInv

\* The worker goes to wait only before the end of the grace period.
LEMMA WaitKeeps == ASSUME IInv, Wait PROVE IInv'
<1>1. /\ pc' = "poll" /\ pc = "next" /\ ~ Decided
      /\ UNCHANGED <<now, list, settled, firstFamily, firstAddressAt, queries, ready, failed, inbox,
                     sent, broken, cancelled, outcome, result, reported, negative>>
  BY DEF Wait, policy, dns, seen
<1>2. now \in 0 .. Deadline /\ Deadline \in Nat /\ firstAddressAt \in Int /\ Grace \in Nat
  BY ResolutionConstants DEF IInv, TypeOK, Never
<1>3. TypeOK'
  BY <1>1 DEF IInv, TypeOK
<1>4. Lists' /\ Shapes'
  BY <1>1, ListsStay, ShapesStay DEF IInv
<1>5. Phase'
  <2>1. now < Deadline
    BY <1>1, <1>2 DEF Decided
  <2> QED
    BY <1>1, <2>1 DEF IInv, Phase
<1>6. outcome' # "resolved" /\ ResultSound' /\ FamiliesAlternate'
  BY <1>1, NotYetResolved DEF IInv
<1>7. GraceKept'
  <2>1. Addresses' = Addresses
    BY <1>1 DEF Addresses
  <2>2. Addresses # <<>> => now < firstAddressAt + Grace
    <3>1. firstAddressAt = Never => Addresses = <<>>
      BY AddressesSound DEF IInv
    <3> QED
      BY <1>1, <1>2, <3>1 DEF Decided, GraceOver
  <2> QED
    BY <1>1, <1>6, <2>1, <2>2 DEF GraceKept
<1> QED
  BY <1>3, <1>4, <1>5, <1>6, <1>7 DEF IInv

LEMMA SliceKeeps == ASSUME IInv, Slice PROVE IInv'
<1>1. /\ pc' = "next" /\ pc = "poll" /\ now' = now + 1
      /\ UNCHANGED <<list, settled, firstFamily, firstAddressAt, queries, ready, failed, inbox,
                     sent, broken, cancelled, outcome, result, reported, negative>>
  BY DEF Slice, policy, dns, seen
<1>2. now' \in 0 .. Deadline
  BY <1>1, ResolutionConstants DEF IInv, TypeOK, Phase
<1>3. TypeOK'
  BY <1>1, <1>2 DEF IInv, TypeOK
<1>4. Lists' /\ Shapes'
  BY <1>1, ListsStay, ShapesStay DEF IInv
<1>5. Phase'
  BY <1>1 DEF IInv, Phase
<1>6. ResultSound' /\ FamiliesAlternate' /\ GraceKept'
  BY <1>1, NotYetResolved DEF IInv
<1> QED
  BY <1>3, <1>4, <1>5, <1>6 DEF IInv

LEMMA WokenKeeps == ASSUME IInv, Woken PROVE IInv'
<1>1. /\ pc' = "drain" /\ pc = "poll" /\ ready' \subseteq queries
      /\ UNCHANGED <<now, list, settled, firstFamily, firstAddressAt, queries, failed, inbox,
                     sent, broken, cancelled, outcome, result, reported, negative>>
  BY DEF Woken, policy, dns, seen
<1>2. TypeOK'
  BY <1>1 DEF IInv, TypeOK
<1>3. Lists' /\ Shapes'
  BY <1>1, ListsStay, ShapesStay DEF IInv
<1>4. Phase'
  BY <1>1 DEF IInv, Phase
<1>5. ResultSound' /\ FamiliesAlternate' /\ GraceKept'
  BY <1>1, NotYetResolved DEF IInv
<1> QED
  BY <1>2, <1>3, <1>4, <1>5 DEF IInv

LEMMA DrainedKeeps == ASSUME IInv, Drained PROVE IInv'
<1>1. /\ pc' = "next" /\ pc = "drain" /\ ready = {} /\ settled' = settled \cup failed
      /\ queries' = queries \ failed /\ failed' = {} /\ negative' = negative \cup failed
      /\ UNCHANGED <<now, list, firstFamily, firstAddressAt, ready, inbox,
                     sent, broken, cancelled, outcome, result, reported>>
  BY DEF Drained, dns
<1>2. TypeOK'
  BY <1>1 DEF IInv, TypeOK
<1>3. Lists' /\ Shapes'
  BY <1>1, ListsStay, ShapesStay DEF IInv
<1>4. Phase'
  BY <1>1 DEF IInv, Phase
<1>5. ResultSound' /\ FamiliesAlternate' /\ GraceKept'
  BY <1>1, NotYetResolved DEF IInv
<1> QED
  BY <1>2, <1>3, <1>4, <1>5 DEF IInv

LEMMA PollFailsKeeps == ASSUME IInv, PollFails PROVE IInv'
<1>1. /\ pc' = "next" /\ pc = "poll" /\ settled' = settled \cup queries
      /\ queries' = {} /\ negative' = negative \cup queries
      /\ UNCHANGED <<now, list, firstFamily, firstAddressAt, ready, failed, inbox,
                     sent, broken, cancelled, outcome, result, reported>>
  BY DEF PollFails, dns
<1>2. ready = {} /\ failed = {}
  BY <1>1 DEF IInv, Phase
<1>3. TypeOK'
  BY <1>1, <1>2 DEF IInv, TypeOK
<1>4. Lists' /\ Shapes'
  BY <1>1, ListsStay, ShapesStay DEF IInv
<1>5. Phase'
  BY <1>1 DEF IInv, Phase
<1>6. ResultSound' /\ FamiliesAlternate' /\ GraceKept'
  BY <1>1, NotYetResolved DEF IInv
<1> QED
  BY <1>3, <1>4, <1>5, <1>6 DEF IInv

LEMMA ReplyKeeps == ASSUME IInv, NEW f \in Family, Reply(f) PROVE IInv'
<1>1. PICK a \in Answer(f) : inbox' = [inbox EXCEPT ![f] = Append(@, a)]
  BY DEF Reply
<1>2. /\ pc # "ended" /\ sent[f] < MaxAnswers /\ sent' = [sent EXCEPT ![f] = @ + 1]
      /\ UNCHANGED <<pc, now, list, settled, firstFamily, firstAddressAt, queries, ready, failed,
                     broken, cancelled, outcome, result, reported, negative>>
  BY DEF Reply, policy, seen
<1>3. DOMAIN inbox = Family /\ sent \in [Family -> Nat]
  BY DEF IInv, Shapes
<1>4. ASSUME NEW g \in Family
      PROVE  /\ inbox'[g] \in Seq(Answer(g)) /\ Len(inbox'[g]) <= sent'[g]
             /\ sent'[g] \in 0 .. MaxAnswers
  <2>1. /\ inbox[g] \in Seq(Answer(g)) /\ Len(inbox[g]) <= sent[g] /\ sent[g] \in 0 .. MaxAnswers
    BY DEF IInv, TypeOK
  <2>2. CASE g = f
    <3>1. inbox'[g] = Append(inbox[g], a) /\ sent'[g] = sent[g] + 1
      BY <1>1, <1>2, <1>3, <2>2
    <3>2. Append(inbox[g], a) \in Seq(Answer(g)) /\ Len(Append(inbox[g], a)) = Len(inbox[g]) + 1
      BY <2>1, <2>2
    <3>3. Len(inbox[g]) \in Nat /\ MaxAnswers \in Nat /\ sent[g] < MaxAnswers
      BY <1>2, <2>1, <2>2, ResolutionConstants
    <3> QED
      BY <2>1, <3>1, <3>2, <3>3
  <2>3. CASE g # f
    <3>1. inbox'[g] = inbox[g] /\ sent'[g] = sent[g]
      BY <1>1, <1>2, <1>3, <2>3
    <3> QED
      BY <2>1, <3>1
  <2> QED
    BY <2>2, <2>3
<1>5. TypeOK'
  BY <1>2, <1>4 DEF IInv, TypeOK
<1>6. Shapes'
  BY <1>1, <1>2, <1>3 DEF IInv, Shapes
<1>7. Lists'
  BY <1>2, ListsStay DEF IInv
<1>8. Phase'
  BY <1>2 DEF IInv, Phase
<1>9. outcome' # "resolved" /\ ResultSound' /\ FamiliesAlternate'
  BY <1>2, NotYetResolved DEF IInv
<1>10. GraceKept'
  BY <1>2, <1>9, StillWaits DEF IInv, policy
<1> QED
  BY <1>5, <1>6, <1>7, <1>8, <1>9, <1>10 DEF IInv

\* A query that breaks and a cancel change nothing of what the policy holds.
LEMMA OutsideKeeps ==
    ASSUME IInv, UserCancels \/ \E f \in Family : Break(f)
    PROVE  IInv'
<1>1. /\ pc # "ended" /\ broken' \subseteq Family /\ cancelled' \in {cancelled, now}
      /\ UNCHANGED <<pc, now, list, settled, firstFamily, firstAddressAt, queries, ready, failed,
                     inbox, sent, outcome, result, reported, negative>>
  BY DEF UserCancels, Break, policy, dns, seen, IInv, TypeOK
<1>2. TypeOK'
  BY <1>1 DEF IInv, TypeOK
<1>3. Lists' /\ Shapes'
  BY <1>1, ListsStay, ShapesStay DEF IInv
<1>4. Phase'
  BY <1>1 DEF IInv, Phase
<1>5. outcome' # "resolved" /\ ResultSound' /\ FamiliesAlternate'
  BY <1>1, NotYetResolved DEF IInv
<1>6. GraceKept'
  BY <1>1, <1>5, StillWaits DEF IInv, policy
<1> QED
  BY <1>2, <1>3, <1>4, <1>5, <1>6 DEF IInv

\* The policy's state is one that receive() may meet.
LEMMA PolicyIsOne == ASSUME IInv PROVE Policy \in Policies
<1>1. /\ list \in [Family -> Seq(V4 \cup V6)] /\ settled \in SUBSET Family
      /\ firstFamily \in Family \cup {NoFamily} /\ firstAddressAt \in {Never} \cup 0 .. Deadline
  BY DEF IInv, TypeOK, Shapes
<1>2. Policy \in PolicyRecords
  BY <1>1 DEF Policy, PolicyRecords
<1>3. ASSUME NEW g \in Family PROVE ListKept(Policy, g)
  <2>1. Policy.kept[g] = list[g] /\ Policy.at = firstAddressAt
    BY DEF Policy
  <2>2. /\ list[g] \in Seq(Host(g)) /\ Len(list[g]) <= MaxAddresses /\ IsInjective(list[g])
        /\ firstAddressAt = Never => list[g] = <<>>
    BY DEF IInv, TypeOK, Lists
  <2> QED
    BY <2>1, <2>2 DEF ListKept
<1> QED
  BY <1>2, <1>3 DEF Policies

\* A family's query that broke is remembered; nothing of it is read.
LEMMA DrainBrokenKeeps ==
    ASSUME IInv, NEW f \in Family, Drain(f), f \in broken
    PROVE  IInv'
<1>1. /\ pc = "drain" /\ f \in ready /\ ready' = ready \ {f} /\ failed' = failed \cup {f}
      /\ UNCHANGED <<pc, now, list, settled, firstFamily, firstAddressAt, queries, inbox, sent,
                     broken, cancelled, outcome, result, reported, negative>>
  BY Zenon DEF Drain, policy, seen
<1>2. TypeOK'
  BY <1>1 DEF IInv, TypeOK
<1>3. Lists' /\ Shapes'
  BY <1>1, ListsStay, ShapesStay DEF IInv
<1>4. Phase'
  BY <1>1 DEF IInv, Phase
<1>5. ResultSound' /\ FamiliesAlternate' /\ GraceKept'
  BY <1>1, NotYetResolved DEF IInv
<1> QED
  BY <1>2, <1>3, <1>4, <1>5 DEF IInv

\* The addresses that Drain counts as reported are those read in the whole batch.
LEMMA ReportedIsRead ==
    ASSUME NEW f \in Family, NEW batch \in Seq(Answer(f)), reported[f] \subseteq Host(f)
    PROVE  ReadBy(f, batch, Len(batch)) \subseteq
             (reported[f] \cup {a \in Host(f) : Contains(batch, <<"address", a>>)})
               \ Gone(f, batch)
<1>1. DOMAIN batch = 1 .. Len(batch)
  OBVIOUS
<1>2. ASSUME NEW x \in ReadBy(f, batch, Len(batch))
      PROVE  /\ x \in Host(f) /\ (x \in reported[f] \/ Contains(batch, <<"address", x>>))
             /\ x \notin Gone(f, batch)
  <2>1. x \in Host(f) /\ (x \in reported[f] \/ Contains(batch, <<"address", x>>))
    BY DEF ReadBy, Contains
  <2>2. x \notin Gone(f, batch)
    BY <1>1 DEF ReadBy, Gone
  <2> QED
    BY <2>1, <2>2
<1> QED
  BY <1>2

\* A batch is applied whole: the lists are still lists of what was read and not withdrawn.
LEMMA DrainReadsKeeps ==
    ASSUME IInv, NEW f \in Family, Drain(f), f \notin broken
    PROVE  IInv'
<1> DEFINE batch == inbox[f]
           t == Applied(Policy, f, batch)
           read == (reported[f] \cup {a \in Host(f) : Contains(batch, <<"address", a>>)})
                     \ Gone(f, batch)
<1>1. /\ pc = "drain" /\ f \in ready /\ ready' = ready \ {f}
      /\ UNCHANGED <<pc, now, queries, sent, broken, cancelled, outcome, result, failed>>
  BY Zenon DEF Drain
<1>2. /\ list' = t.kept /\ settled' = t.settled
      /\ firstFamily' = t.first /\ firstAddressAt' = t.at
  BY DEF Drain, Batch, Applied, Policy
<1>3. inbox' = [inbox EXCEPT ![f] = <<>>]
  BY DEF Drain
<1>4. reported' = [reported EXCEPT ![f] = read]
  BY DEF Drain
<1>5. negative' \in {negative, negative \cup {f}}
  BY DEF Drain
<1>6. /\ batch \in Seq(Answer(f)) /\ reported[f] \subseteq Host(f) /\ now \in 0 .. Deadline
      /\ DOMAIN inbox = Family /\ reported \in [Family -> SUBSET (V4 \cup V6)]
  BY DEF IInv, TypeOK, Shapes
<1> HIDE DEF batch, read
<1>7. Policy \in Policies /\ \A g \in Family : ToSet(Policy.kept[g]) \subseteq reported[g]
  BY PolicyIsOne DEF IInv, Lists, Policy
<1>8. t \in Policies
  BY <1>6, <1>7, BatchApplied
<1>9. \A g \in Family : g # f => t.kept[g] = Policy.kept[g]
  BY <1>6, <1>7, BatchApplied
<1>10. ToSet(t.kept[f]) \subseteq ReadBy(f, batch, Len(batch))
  BY <1>6, <1>7, BatchApplied
<1> HIDE DEF t
<1>11. ReadBy(f, batch, Len(batch)) \subseteq read
  BY <1>6, ReportedIsRead DEF read
<1>12. read \subseteq Host(f)
  BY <1>6 DEF read
<1>13. /\ t.kept \in [Family -> Seq(V4 \cup V6)] /\ t.settled \subseteq Family
       /\ t.first \in Family \cup {NoFamily} /\ t.at \in {Never} \cup 0 .. Deadline
       /\ \A g \in Family : ListKept(t, g)
  BY <1>8 DEF Policies, PolicyRecords
<1>14. ASSUME NEW g \in Family
       PROVE  /\ list'[g] \in Seq(Host(g)) /\ Len(list'[g]) <= MaxAddresses
              /\ IsInjective(list'[g]) /\ ToSet(list'[g]) \subseteq reported'[g]
              /\ firstAddressAt' = Never => list'[g] = <<>>
              /\ reported'[g] \subseteq Host(g)
              /\ inbox'[g] \in Seq(Answer(g)) /\ Len(inbox'[g]) <= sent[g]
  <2>1. ListKept(t, g)
    BY <1>13
  <2>2. /\ list'[g] \in Seq(Host(g)) /\ Len(list'[g]) <= MaxAddresses
        /\ IsInjective(list'[g])
        /\ firstAddressAt' = Never => list'[g] = <<>>
    BY <1>2, <2>1 DEF ListKept
  <2>3. /\ inbox[g] \in Seq(Answer(g)) /\ Len(inbox[g]) <= sent[g] /\ sent[g] \in Nat
        /\ reported[g] \subseteq Host(g) /\ ToSet(list[g]) \subseteq reported[g]
    BY DEF IInv, TypeOK, Lists
  <2>4. CASE g = f
    <3>1. reported'[g] = read /\ inbox'[g] = <<>>
      BY <1>3, <1>4, <1>6, <2>4
    <3>2. ToSet(list'[g]) \subseteq read
      BY <1>2, <1>10, <1>11, <2>4
    <3>3. inbox'[g] \in Seq(Answer(g)) /\ Len(inbox'[g]) <= sent[g]
      BY <2>3, <3>1
    <3>4. ToSet(list'[g]) \subseteq reported'[g] /\ reported'[g] \subseteq Host(g)
      BY <1>12, <2>4, <3>1, <3>2
    <3> QED
      BY <2>2, <3>3, <3>4
  <2>5. CASE g # f
    <3>1. reported'[g] = reported[g] /\ inbox'[g] = inbox[g]
      BY <1>3, <1>4, <1>6, <2>5
    <3>2. list'[g] = list[g]
      BY <1>2, <1>9, <2>5 DEF Policy
    <3>3. inbox'[g] \in Seq(Answer(g)) /\ Len(inbox'[g]) <= sent[g]
      BY <2>3, <3>1
    <3>4. ToSet(list'[g]) \subseteq reported'[g] /\ reported'[g] \subseteq Host(g)
      BY <2>3, <3>1, <3>2
    <3> QED
      BY <2>2, <3>3, <3>4
  <2> QED
    BY <2>4, <2>5
<1>15. TypeOK'
  BY <1>1, <1>2, <1>5, <1>13, <1>14 DEF IInv, TypeOK
<1>16. Shapes'
  <2>1. read \in SUBSET (V4 \cup V6)
    BY <1>12, HostsOf
  <2>2. reported' \in [Family -> SUBSET (V4 \cup V6)]
    BY <1>4, <1>6, <2>1
  <2>3. DOMAIN inbox' = Family
    BY <1>3, <1>6
  <2> QED
    BY <1>1, <1>2, <1>13, <2>2, <2>3 DEF IInv, Shapes
<1>17. Lists'
  BY <1>14 DEF Lists
<1>18. Phase'
  BY <1>1 DEF IInv, Phase
<1>19. ResultSound' /\ FamiliesAlternate' /\ GraceKept'
  BY <1>1, NotYetResolved DEF IInv
<1> QED
  BY <1>15, <1>16, <1>17, <1>18, <1>19 DEF IInv

LEMMA StutterKeeps == ASSUME IInv, UNCHANGED vars PROVE IInv'
<1>1. UNCHANGED <<pc, now, list, settled, firstFamily, firstAddressAt, queries, ready, failed,
                  inbox, sent, broken, cancelled, outcome, result, reported, negative>>
  BY DEF vars, policy, dns, seen
<1>2. Addresses' = Addresses
  BY <1>1 DEF Addresses
<1>3. TypeOK' /\ Lists' /\ Shapes' /\ Phase'
  <2>1. TypeOK'
    BY <1>1 DEF IInv, TypeOK
  <2>2. Lists' /\ Shapes'
    BY <1>1, ListsStay, ShapesStay DEF IInv
  <2>3. Phase'
    BY <1>1 DEF IInv, Phase
  <2> QED
    BY <2>1, <2>2, <2>3
<1>4. ResultSound' /\ FamiliesAlternate'
  BY <1>1 DEF IInv, ResultSound, FamiliesAlternate
<1>5. GraceKept'
  BY <1>1, <1>2 DEF IInv, GraceKept
<1> QED
  BY <1>3, <1>4, <1>5 DEF IInv

LEMMA NextIInv == ASSUME IInv, [Next]_vars PROVE IInv'
<1>1. CASE Worker
  BY <1>1, CancelKeeps, DecideKeeps, WaitKeeps, SliceKeeps, WokenKeeps, DrainedKeeps,
     PollFailsKeeps, DrainBrokenKeeps, DrainReadsKeeps DEF Worker
<1>2. CASE DnsSd
  BY <1>2, ReplyKeeps, OutsideKeeps DEF DnsSd
<1>3. CASE UserCancels
  BY <1>3, OutsideKeeps
<1>4. CASE Returned \/ UNCHANGED vars
  BY <1>4, StutterKeeps DEF Returned
<1> QED
  BY <1>1, <1>2, <1>3, <1>4 DEF Next

\* The invariant, step by step.
THEOREM Invariant == Spec => []IInv
<1>1. Init => IInv
  BY InitIInv
<1>2. IInv /\ [Next]_vars => IInv'
  BY NextIInv
<1> QED
  BY <1>1, <1>2, PTL DEF Spec

\* Every variable keeps its type, whatever dns_sd answers.
THEOREM TypeCorrect == Spec => []TypeOK
BY Invariant, PTL DEF IInv

\* What resolve() returns is addresses that dns_sd reported and did not withdraw, no two alike and
\* at most MaxAddresses of them, for any number of answers in batches of any size.
THEOREM ResolvedSound == Spec => []ResultSound
BY Invariant, PTL DEF IInv

\* With a usable address the silent family is waited for through the grace period, and no longer.
THEOREM GraceIsKept == Spec => []GraceKept
BY Invariant, PTL DEF IInv

\* When both families have an address, the first two returned are of different families.
THEOREM NoFamilyCrowdedOut == Spec => []FamiliesAlternate
BY Invariant, PTL DEF IInv

-----------------------------------------------------------------------------
(* No answer of a batch is lost                                            *)

\* What is in a sequence is at one of its places.
LEMMA InSeq == ASSUME NEW S, NEW s \in Seq(S) PROVE ToSet(s) = {s[i] : i \in 1 .. Len(s)}
BY DEF ToSet

\* An address that is not kept finds the list full.
LEMMA KeptWhole ==
    ASSUME NEW S, NEW s \in Seq(S), IsInjective(s), NEW x \in S
    PROVE  /\ Len(Kept(s, x)) <= Len(s) + 1
           /\ ToSet(s) \cup {x} \subseteq ToSet(Kept(s, x)) \/ Len(s) >= MaxAddresses
<1>1. Len(s) \in Nat
  OBVIOUS
<1>2. CASE Contains(s, x) \/ Len(s) >= MaxAddresses
  <2>1. Kept(s, x) = s
    BY <1>2 DEF Kept
  <2>2. Contains(s, x) => x \in ToSet(s)
    BY InSeq DEF Contains
  <2> QED
    BY <1>1, <1>2, <2>1, <2>2
<1>3. CASE ~ (Contains(s, x) \/ Len(s) >= MaxAddresses)
  <2>1. Kept(s, x) = Append(s, x)
    BY <1>3 DEF Kept
  <2>2. Len(Append(s, x)) = Len(s) + 1 /\ ToSet(Append(s, x)) = ToSet(s) \cup {x}
    BY AppendNew
  <2> QED
    BY <1>1, <2>1, <2>2
<1> QED
  BY <1>2, <1>3

\* The same of any answer.
LEMMA ReceiveWhole ==
    ASSUME now \in 0 .. Deadline, NEW s \in Policies, NEW f \in Family, NEW a \in Answer(f)
    PROVE  /\ Len(Receive(s, f, a).kept[f]) <= Len(s.kept[f]) + 1
           /\ a[1] = "address" =>
                \/ ToSet(s.kept[f]) \cup {a[2]} \subseteq ToSet(Receive(s, f, a).kept[f])
                \/ Len(s.kept[f]) >= MaxAddresses
           /\ a[1] = "withdrawn" =>
                ToSet(s.kept[f]) \ {a[2]} \subseteq ToSet(Receive(s, f, a).kept[f])
           /\ a[1] \notin {"address", "withdrawn"} => Receive(s, f, a).kept[f] = s.kept[f]
<1> DEFINE l == s.kept[f]
           t == Receive(s, f, a)
<1>1. /\ a[1] \in {"address", "withdrawn", "none", "ignored"}
      /\ a[1] \in {"address", "withdrawn"} => a[2] \in Host(f)
  BY AnswerKinds
<1>2. /\ s \in PolicyRecords /\ l \in Seq(Host(f)) /\ IsInjective(l) /\ Len(l) \in Nat
      /\ f \in DOMAIN s.kept
  BY DEF Policies, ListKept, PolicyRecords
<1>3. CASE a[1] = "address"
  <2>1. t = WithAddress(s, f, a[2])
    BY <1>3 DEF Receive
  <2>2. t.kept[f] = Kept(l, a[2])
    BY <1>2, <2>1 DEF WithAddress
  <2> QED
    BY <1>1, <1>2, <1>3, <2>2, KeptWhole
<1>4. CASE a[1] = "withdrawn"
  <2>1. t = [s EXCEPT !.kept[f] = Without(@, a[2])]
    BY <1>4 DEF Receive
  <2>2. t.kept[f] = Without(l, a[2])
    BY <1>2, <2>1 DEF PolicyRecords
  <2>3. /\ Without(l, a[2]) \in Seq(Host(f)) /\ Len(Without(l, a[2])) <= Len(l)
        /\ ToSet(Without(l, a[2])) = ToSet(l) \ {a[2]}
    BY <1>2, WithoutKeeps
  <2>4. Len(Without(l, a[2])) \in Nat
    BY <2>3
  <2> QED
    BY <1>2, <1>4, <2>2, <2>3, <2>4
<1>5. CASE a[1] \notin {"address", "withdrawn"}
  <2>1. t.kept[f] = l
    BY <1>5, ReceiveKeeps DEF Received
  <2> QED
    BY <1>2, <1>5, <2>1
<1> QED
  BY <1>3, <1>4, <1>5

\* What was read by an answer was read before it, or is what it says.
LEMMA ReadBack ==
    ASSUME NEW f \in Family, NEW batch \in Seq(Answer(f)), NEW i \in 1 .. Len(batch)
    PROVE  /\ batch[i][1] = "address" =>
                ReadBy(f, batch, i) \subseteq ReadBy(f, batch, i - 1) \cup {batch[i][2]}
           /\ batch[i][1] = "withdrawn" =>
                ReadBy(f, batch, i) \subseteq ReadBy(f, batch, i - 1) \ {batch[i][2]}
           /\ batch[i][1] \notin {"address", "withdrawn"} =>
                ReadBy(f, batch, i) \subseteq ReadBy(f, batch, i - 1)
<1> DEFINE a == batch[i]
<1>1. a \in Answer(f) /\ i \in Nat /\ i >= 1
  OBVIOUS
<1>2. a[1] \in {"address", "withdrawn"} => a = <<a[1], a[2]>>
  BY <1>1, AnswerKinds
<1>3. ASSUME NEW x \in ReadBy(f, batch, i), a # <<"address", x>>
      PROVE  x \in ReadBy(f, batch, i - 1)
  <2>1. \A j \in 1 .. i : j \in 1 .. i - 1 \/ j = i
    BY <1>1
  <2>2. \A j \in 1 .. i - 1 : j \in 1 .. i
    BY <1>1
  <2>3. \A j \in 1 .. i - 1 : \A l \in j + 1 .. i : l \in j + 1 .. i - 1 \/ l = i
    BY <1>1
  <2>4. x \in Host(f) /\ (x \in reported[f] \/ \E j \in 1 .. i : batch[j] = <<"address", x>>)
    BY DEF ReadBy
  <2>5. ~ \E j \in 1 .. i : /\ batch[j] = <<"withdrawn", x>>
                            /\ \A l \in j + 1 .. i : batch[l] # <<"address", x>>
    BY DEF ReadBy
  <2>6. ASSUME NEW j \in 1 .. i - 1, batch[j] = <<"withdrawn", x>>,
               \A l \in j + 1 .. i - 1 : batch[l] # <<"address", x>>
        PROVE  FALSE
    <3>1. \A l \in j + 1 .. i : batch[l] # <<"address", x>>
      BY <1>3, <2>3, <2>6
    <3> QED
      BY <2>2, <2>5, <2>6, <3>1
  <2>7. x \in reported[f] \/ \E j \in 1 .. i - 1 : batch[j] = <<"address", x>>
    BY <1>3, <2>1, <2>4
  <2> QED
    BY <2>4, <2>6, <2>7 DEF ReadBy
<1>4. ASSUME NEW x \in ReadBy(f, batch, i) PROVE a # <<"withdrawn", x>>
  <2>1. i \in 1 .. i /\ \A l \in i + 1 .. i : batch[l] # <<"address", x>>
    BY <1>1
  <2> QED
    BY <2>1 DEF ReadBy
<1>5. \A x : a[1] # "address" \/ x # a[2] => a # <<"address", x>>
  OBVIOUS
<1> HIDE DEF a
<1>6. a[1] = "address" => ReadBy(f, batch, i) \subseteq ReadBy(f, batch, i - 1) \cup {a[2]}
  BY <1>3, <1>5
<1>7. a[1] # "address" => ReadBy(f, batch, i) \subseteq ReadBy(f, batch, i - 1)
  BY <1>3, <1>5
<1>8. a[1] = "withdrawn" => a[2] \notin ReadBy(f, batch, i)
  BY <1>2, <1>4
<1>9. a[1] = "withdrawn" => ReadBy(f, batch, i) \subseteq ReadBy(f, batch, i - 1) \ {a[2]}
  BY <1>7, <1>8
<1> QED
  BY <1>6, <1>7, <1>9 DEF a

\* A batch that leaves an address out has more answers than the list has room.
LEMMA BatchWhole ==
    ASSUME now \in 0 .. Deadline, NEW s \in Policies, NEW f \in Family,
           NEW batch \in Seq(Answer(f)), reported[f] \subseteq ToSet(s.kept[f])
    PROVE  /\ Len(Applied(s, f, batch).kept[f]) <= Len(s.kept[f]) + Len(batch)
           /\ \/ ReadBy(f, batch, Len(batch)) \subseteq ToSet(Applied(s, f, batch).kept[f])
              \/ Len(s.kept[f]) + Len(batch) > MaxAddresses
<1> DEFINE b == Len(s.kept[f])
           P == [i \in 0 .. Len(batch) |->
                   {t \in Policies : /\ Len(t.kept[f]) <= b + i
                                     /\ \/ ReadBy(f, batch, i) \subseteq ToSet(t.kept[f])
                                        \/ b + i > MaxAddresses}]
<1>1. PICK g : /\ g[{}] = s
               /\ \A i \in 1 .. Len(batch) : g[1 .. i] = Receive(g[1 .. i - 1], f, batch[i])
               /\ Applied(s, f, batch) = g[1 .. Len(batch)]
  BY AppliedSteps
<1>2. Len(batch) \in Nat /\ MaxAddresses \in Nat
  BY ResolutionConstants
<1>3. \A t \in Policies : Len(t.kept[f]) \in Nat
  BY DEF Policies, ListKept
<1>4. g[{}] \in P[0]
  <2>1. ReadBy(f, batch, 0) \subseteq reported[f]
    BY DEF ReadBy
  <2>2. 0 \in 0 .. Len(batch) /\ b <= b + 0
    BY <1>2, <1>3
  <2> QED
    BY <1>1, <2>1, <2>2
<1>5. ASSUME NEW i \in 1 .. Len(batch), g[1 .. i - 1] \in P[i - 1]
      PROVE  g[1 .. i] \in P[i]
  <2> DEFINE t == g[1 .. i - 1]
             u == g[1 .. i]
             a == batch[i]
  <2>1. i \in 0 .. Len(batch) /\ i - 1 \in 0 .. Len(batch) /\ a \in Answer(f) /\ i \in Nat
    BY <1>2
  <2>2. /\ t \in Policies /\ Len(t.kept[f]) <= b + (i - 1)
        /\ ReadBy(f, batch, i - 1) \subseteq ToSet(t.kept[f]) \/ b + (i - 1) > MaxAddresses
    BY <1>5, <2>1
  <2>3. u = Receive(t, f, a)
    BY <1>1
  <2> SUFFICES /\ u \in Policies /\ Len(u.kept[f]) <= b + i
               /\ ReadBy(f, batch, i) \subseteq ToSet(u.kept[f]) \/ b + i > MaxAddresses
    BY <2>1
  <2> HIDE DEF P, t, u
  <2>4. u \in Policies /\ b \in Nat /\ Len(t.kept[f]) \in Nat /\ Len(u.kept[f]) \in Nat
    BY <1>3, <2>1, <2>2, <2>3, ReceiveKeeps
  <2>5. /\ Len(u.kept[f]) <= Len(t.kept[f]) + 1
        /\ a[1] = "address" => \/ ToSet(t.kept[f]) \cup {a[2]} \subseteq ToSet(u.kept[f])
                               \/ Len(t.kept[f]) >= MaxAddresses
        /\ a[1] = "withdrawn" => ToSet(t.kept[f]) \ {a[2]} \subseteq ToSet(u.kept[f])
        /\ a[1] \notin {"address", "withdrawn"} => u.kept[f] = t.kept[f]
    BY <2>1, <2>2, <2>3, ReceiveWhole
  <2>6. /\ a[1] = "address" => ReadBy(f, batch, i) \subseteq ReadBy(f, batch, i - 1) \cup {a[2]}
        /\ a[1] = "withdrawn" => ReadBy(f, batch, i) \subseteq ReadBy(f, batch, i - 1) \ {a[2]}
        /\ a[1] \notin {"address", "withdrawn"} =>
             ReadBy(f, batch, i) \subseteq ReadBy(f, batch, i - 1)
    BY ReadBack
  <2> DEFINE before == Len(t.kept[f])
             after == Len(u.kept[f])
  <2>n. before <= b + (i - 1) /\ after <= before + 1
    BY <2>2, <2>5
  <2>m. before \in Nat /\ after \in Nat /\ b \in Nat
    BY <2>4
  <2> HIDE DEF a, b, before, after
  <2>7. after <= b + i
    BY <2>1, <2>n, <2>m
  <2>8. CASE b + (i - 1) > MaxAddresses \/ before >= MaxAddresses
    <3>1. b + i > MaxAddresses
      BY <1>2, <2>1, <2>n, <2>m, <2>8
    <3> QED
      BY <2>4, <2>7, <3>1 DEF after
  <2>9. CASE ReadBy(f, batch, i - 1) \subseteq ToSet(t.kept[f]) /\ ~ before >= MaxAddresses
    <3>1. a[1] = "address" => ToSet(t.kept[f]) \cup {a[2]} \subseteq ToSet(u.kept[f])
      BY <2>5, <2>9 DEF before
    <3>2. ReadBy(f, batch, i) \subseteq ToSet(u.kept[f])
      BY <2>5, <2>6, <2>9, <3>1
    <3> QED
      BY <2>4, <2>7, <3>2 DEF after
  <2> QED
    BY <2>2, <2>8, <2>9
<1> HIDE DEF P
<1>6. g[1 .. Len(batch)] \in P[Len(batch)]
  BY <1>2, <1>4, <1>5, FoldRule
<1>7. Len(batch) \in 0 .. Len(batch)
  BY <1>2
<1> QED
  BY <1>1, <1>6, <1>7 DEF P

\* Both lists are in the alternation, whole.
LEMMA AlternateWhole ==
    ASSUME NEW S, NEW first \in Seq(S), NEW second \in Seq(S)
    PROVE  ToSet(first) \cup ToSet(second) \subseteq ToSet(Alternate(first, second))
<1>0. PICK m \in Nat : m <= Len(first) /\ m <= Len(second) /\ m \in {Len(first), Len(second)}
  OBVIOUS
<1> DEFINE all == Alternate(first, second)
           n == Len(first) + Len(second)
<1>1. Len(first) \in Nat /\ Len(second) \in Nat
  OBVIOUS
<1>2. all \in Seq(S) /\ Len(all) = n
  BY <1>0, AlternateAt
<1>3. \A k \in 1 .. n :
        all[k] = IF k <= 2 * m THEN IF k % 2 = 1 THEN first[(k + 1) \div 2] ELSE second[k \div 2]
                 ELSE IF Len(first) > m THEN first[k - m] ELSE second[k - m]
  BY <1>0, AlternateAt
<1> HIDE DEF all
<1>4. ASSUME NEW i \in 1 .. Len(first) PROVE \E k \in 1 .. n : all[k] = first[i]
  <2>1. CASE i <= m
    <3>1. /\ 2 * i - 1 \in 1 .. n /\ 2 * i - 1 <= 2 * m
          /\ (2 * i - 1) % 2 = 1 /\ (2 * i - 1 + 1) \div 2 = i
      BY <1>0, <1>1, <2>1
    <3> QED
      BY <1>3, <3>1
  <2>2. CASE ~ i <= m
    <3> DEFINE k == m + i
    <3>1. k \in 1 .. n /\ ~ k <= 2 * m /\ Len(first) > m /\ k - m = i
      BY <1>0, <1>1, <2>2
    <3> HIDE DEF k
    <3>2. all[k] = first[k - m]
      BY <1>3, <3>1
    <3> QED
      BY <3>1, <3>2
  <2> QED
    BY <2>1, <2>2
<1>5. ASSUME NEW i \in 1 .. Len(second) PROVE \E k \in 1 .. n : all[k] = second[i]
  <2>1. CASE i <= m
    <3> DEFINE k == 2 * i
    <3>1. k \in 1 .. n /\ k <= 2 * m /\ k % 2 # 1 /\ k \div 2 = i
      BY <1>0, <1>1, <2>1
    <3> HIDE DEF k
    <3>2. all[k] = second[k \div 2]
      BY <1>3, <3>1
    <3> QED
      BY <3>1, <3>2
  <2>2. CASE ~ i <= m
    <3> DEFINE k == m + i
    <3>1. k \in 1 .. n /\ ~ k <= 2 * m /\ ~ Len(first) > m /\ k - m = i
      BY <1>0, <1>1, <2>2
    <3> HIDE DEF k
    <3>2. all[k] = second[k - m]
      BY <1>3, <3>1
    <3> QED
      BY <3>1, <3>2
  <2> QED
    BY <2>1, <2>2
<1>6. ToSet(all) = {all[k] : k \in 1 .. n}
  BY <1>2, InSeq
<1>7. /\ ToSet(first) = {first[i] : i \in 1 .. Len(first)}
      /\ ToSet(second) = {second[i] : i \in 1 .. Len(second)}
  BY InSeq
<1> QED
  BY <1>4, <1>5, <1>6, <1>7 DEF all

\* Fewer addresses than the limit are all there are.
LEMMA AddressesWhole ==
    ASSUME TypeOK, Len(Addresses) # MaxAddresses
    PROVE  \A f \in Family : ToSet(list[f]) \subseteq ToSet(Addresses)
<1> DEFINE first == IF firstFamily = "ipv6" THEN "ipv6" ELSE "ipv4"
           one == list[first]
           two == list[Other(first)]
           all == Alternate(one, two)
           n == IF Len(all) < MaxAddresses THEN Len(all) ELSE MaxAddresses
<1>1. /\ first \in Family /\ Other(first) \in Family
      /\ (first = "ipv6" /\ Other(first) = "ipv4") \/ (first = "ipv4" /\ Other(first) = "ipv6")
  BY DEF Family, Other
<1>2. one \in Seq(Host(first)) /\ two \in Seq(Host(Other(first)))
  BY <1>1 DEF TypeOK
<1>3. one \in Seq(V4 \cup V6) /\ two \in Seq(V4 \cup V6)
  BY <1>1, <1>2, HostsOf, SeqMonotonic
<1>4. Addresses = SubSeq(all, 1, n)
  BY DEF Addresses
<1>5. \A f \in Family : list[f] = one \/ list[f] = two
  BY <1>1 DEF Family
<1> HIDE DEF first, one, two
<1>6. PICK m \in Nat : m <= Len(one) /\ m <= Len(two) /\ m \in {Len(one), Len(two)}
  BY <1>3
<1>7. all \in Seq(V4 \cup V6)
  BY <1>3, <1>6, AlternateAt
<1>8. ToSet(one) \cup ToSet(two) \subseteq ToSet(all)
  BY <1>3, AlternateWhole
<1> HIDE DEF all
<1>9. n \in Nat /\ n <= Len(all) /\ n \in {Len(all), MaxAddresses}
  BY <1>7, ResolutionConstants
<1> HIDE DEF n
<1>10. /\ Addresses \in Seq(V4 \cup V6) /\ Len(Addresses) = n
       /\ \A i \in 1 .. n : Addresses[i] = all[i]
  BY <1>4, <1>7, <1>9, FirstOf
<1>11. n = Len(all)
  BY <1>9, <1>10
<1>12. /\ ToSet(Addresses) = {Addresses[i] : i \in 1 .. n}
       /\ ToSet(all) = {all[i] : i \in 1 .. n}
  BY <1>7, <1>10, <1>11, InSeq
<1>13. ToSet(all) \subseteq ToSet(Addresses)
  BY <1>10, <1>12
<1> QED
  BY <1>5, <1>8, <1>13

\* Every address that was read is kept, unless more answers came than the list has room; and
\* the lists and the batches to come hold no more than what was sent.
Whole ==
    \A g \in Family :
        /\ Len(list[g]) + Len(inbox[g]) <= sent[g]
        /\ reported[g] \subseteq ToSet(list[g]) \/ sent[g] > MaxAddresses

LEMMA WholeStays == ASSUME Whole, UNCHANGED <<list, inbox, sent, reported>> PROVE Whole'
BY DEF Whole

LEMMA ReplyWhole == ASSUME IInv, Whole, NEW f \in Family, Reply(f) PROVE Whole'
<1>1. PICK a \in Answer(f) : inbox' = [inbox EXCEPT ![f] = Append(@, a)]
  BY DEF Reply
<1>2. sent' = [sent EXCEPT ![f] = @ + 1] /\ list' = list /\ reported' = reported
  BY DEF Reply, policy, seen
<1>3. DOMAIN inbox = Family /\ sent \in [Family -> Nat]
  BY DEF IInv, Shapes
<1> SUFFICES ASSUME NEW g \in Family
             PROVE  /\ Len(list[g]) + Len(inbox'[g]) <= sent'[g]
                    /\ reported[g] \subseteq ToSet(list[g]) \/ sent'[g] > MaxAddresses
  BY <1>2 DEF Whole
<1>4. /\ Len(list[g]) \in Nat /\ inbox[g] \in Seq(Answer(g)) /\ Len(inbox[g]) \in Nat
      /\ sent[g] \in Nat /\ MaxAddresses \in Nat
  BY <1>3, ResolutionConstants DEF IInv, TypeOK
<1>5. /\ Len(list[g]) + Len(inbox[g]) <= sent[g]
      /\ reported[g] \subseteq ToSet(list[g]) \/ sent[g] > MaxAddresses
  BY DEF Whole
<1>6. CASE g = f
  <2>1. inbox'[g] = Append(inbox[g], a) /\ sent'[g] = sent[g] + 1
    BY <1>1, <1>2, <1>3, <1>6
  <2>2. Len(Append(inbox[g], a)) = Len(inbox[g]) + 1
    BY <1>4, <1>6
  <2> DEFINE kept == Len(list[g])
             due  == Len(inbox[g])
  <2>i. kept \in Nat /\ due \in Nat /\ kept + due <= sent[g]
    BY <1>4, <1>5
  <2>j. Len(inbox'[g]) = due + 1
    BY <2>1, <2>2
  <2> HIDE DEF kept, due
  <2>k. kept + Len(inbox'[g]) <= sent[g] + 1
    BY <1>4, <2>i, <2>j
  <2>l. sent[g] > MaxAddresses => sent[g] + 1 > MaxAddresses
    BY <1>4
  <2>3. /\ Len(list[g]) + Len(inbox'[g]) <= sent'[g]
        /\ sent[g] > MaxAddresses => sent'[g] > MaxAddresses
    BY <2>1, <2>k, <2>l DEF kept
  <2> QED
    BY <1>5, <2>3
<1>7. CASE g # f
  <2>1. inbox'[g] = inbox[g] /\ sent'[g] = sent[g]
    BY <1>1, <1>2, <1>3, <1>7
  <2> QED
    BY <1>5, <2>1
<1> QED
  BY <1>6, <1>7

\* What Drain counts as reported was read in the batch.
LEMMA ReadIsReported ==
    ASSUME NEW f \in Family, NEW batch \in Seq(Answer(f)), reported[f] \subseteq Host(f)
    PROVE  (reported[f] \cup {a \in Host(f) : Contains(batch, <<"address", a>>)})
             \ Gone(f, batch) \subseteq ReadBy(f, batch, Len(batch))
<1>1. DOMAIN batch = 1 .. Len(batch)
  OBVIOUS
<1>2. ASSUME NEW x \in Host(f), x \in reported[f] \/ Contains(batch, <<"address", x>>),
             x \notin Gone(f, batch)
      PROVE  x \in ReadBy(f, batch, Len(batch))
  <2>1. x \in reported[f] \/ \E j \in 1 .. Len(batch) : batch[j] = <<"address", x>>
    BY <1>2 DEF Contains
  <2>2. ~ \E j \in 1 .. Len(batch) : /\ batch[j] = <<"withdrawn", x>>
                                     /\ \A l \in j + 1 .. Len(batch) : batch[l] # <<"address", x>>
    BY <1>1, <1>2 DEF Gone
  <2> QED
    BY <2>1, <2>2 DEF ReadBy
<1> QED
  BY <1>2

LEMMA DrainWhole ==
    ASSUME IInv, Whole, NEW f \in Family, Drain(f), f \notin broken
    PROVE  Whole'
<1> DEFINE batch == inbox[f]
           t == Applied(Policy, f, batch)
           read == (reported[f] \cup {a \in Host(f) : Contains(batch, <<"address", a>>)})
                     \ Gone(f, batch)
<1>1. list' = t.kept /\ sent' = sent
  BY DEF Drain, Batch, Applied, Policy
<1>2. inbox' = [inbox EXCEPT ![f] = <<>>]
  BY DEF Drain
<1>3. reported' = [reported EXCEPT ![f] = read]
  BY DEF Drain
<1>4. /\ batch \in Seq(Answer(f)) /\ reported[f] \subseteq Host(f) /\ now \in 0 .. Deadline
      /\ DOMAIN inbox = Family /\ DOMAIN reported = Family
  BY DEF IInv, TypeOK, Shapes
<1>5. /\ Len(list[f]) + Len(batch) <= sent[f]
      /\ reported[f] \subseteq ToSet(list[f]) \/ sent[f] > MaxAddresses
  BY DEF Whole
<1> HIDE DEF batch, read
<1>6. Policy \in Policies /\ Policy.kept = list
  BY PolicyIsOne DEF Policy
<1>7. \A g \in Family : ToSet(Policy.kept[g]) \subseteq reported[g]
  BY <1>6 DEF IInv, Lists
<1>8. t \in Policies /\ \A g \in Family : g # f => t.kept[g] = list[g]
  BY <1>4, <1>6, <1>7, BatchApplied
<1>9. read \subseteq ReadBy(f, batch, Len(batch))
  BY <1>4, ReadIsReported DEF read
<1>10. Len(t.kept[f]) <= sent[f] /\ (read \subseteq ToSet(t.kept[f]) \/ sent[f] > MaxAddresses)
  <2>1. /\ Len(list[f]) \in Nat /\ Len(batch) \in Nat /\ sent[f] \in Nat /\ MaxAddresses \in Nat
        /\ Len(t.kept[f]) \in Nat /\ Len(t.kept[f]) <= MaxAddresses
    BY <1>4, <1>8, ResolutionConstants DEF IInv, TypeOK, Policies, ListKept
  <2>2. CASE sent[f] > MaxAddresses
    BY <2>1, <2>2
  <2>3. CASE reported[f] \subseteq ToSet(list[f]) /\ ~ sent[f] > MaxAddresses
    <3>1. /\ Len(t.kept[f]) <= Len(list[f]) + Len(batch)
          /\ \/ ReadBy(f, batch, Len(batch)) \subseteq ToSet(t.kept[f])
             \/ Len(list[f]) + Len(batch) > MaxAddresses
      BY <1>4, <1>6, <2>3, BatchWhole
    <3> HIDE DEF t
    <3>2. Len(t.kept[f]) <= sent[f] /\ ~ Len(list[f]) + Len(batch) > MaxAddresses
      BY <1>5, <2>1, <2>3, <3>1
    <3> QED
      BY <1>9, <3>1, <3>2
  <2> QED
    BY <1>5, <2>2, <2>3
<1> HIDE DEF t
<1>11. ASSUME NEW g \in Family
       PROVE  /\ Len(list'[g]) + Len(inbox'[g]) <= sent'[g]
              /\ reported'[g] \subseteq ToSet(list'[g]) \/ sent'[g] > MaxAddresses
  <2>1. CASE g = f
    <3>1. reported'[g] = read /\ inbox'[g] = <<>> /\ list'[g] = t.kept[f] /\ sent'[g] = sent[f]
      BY <1>1, <1>2, <1>3, <1>4, <2>1
    <3>2. Len(t.kept[f]) \in Nat /\ Len(<<>>) = 0
      BY <1>8 DEF Policies, ListKept
    <3>3. Len(t.kept[f]) + 0 <= sent[f]
      BY <1>10, <3>2
    <3> QED
      BY <1>10, <3>1, <3>2, <3>3
  <2>2. CASE g # f
    <3>1. /\ reported'[g] = reported[g] /\ inbox'[g] = inbox[g] /\ list'[g] = list[g]
          /\ sent'[g] = sent[g]
      BY <1>1, <1>2, <1>3, <1>4, <1>8, <2>2
    <3> QED
      BY <3>1 DEF Whole
  <2> QED
    BY <2>1, <2>2
<1> QED
  BY <1>11 DEF Whole

\* What is decided holds every address that was read.
LEMMA DecideWhole == ASSUME IInv, Whole, Decide PROVE NothingReadIsLost'
<1>1. result' = Addresses /\ UNCHANGED <<reported, sent>>
  BY DEF Decide, dns, seen
<1>2. CASE Len(Addresses) = MaxAddresses
  BY <1>1, <1>2 DEF NothingReadIsLost
<1>3. CASE \E f \in Family : sent[f] > MaxAddresses
  BY <1>1, <1>3 DEF NothingReadIsLost
<1>4. CASE Len(Addresses) # MaxAddresses /\ ~ \E f \in Family : sent[f] > MaxAddresses
  <2>1. \A f \in Family : reported[f] \subseteq ToSet(list[f])
    BY <1>4 DEF Whole
  <2>2. \A f \in Family : ToSet(list[f]) \subseteq ToSet(Addresses)
    BY <1>4, AddressesWhole DEF IInv
  <2>3. UNION {reported[f] : f \in Family} \subseteq ToSet(Addresses)
    BY <2>1, <2>2
  <2> QED
    BY <1>1, <2>3 DEF NothingReadIsLost
<1> QED
  BY <1>2, <1>3, <1>4

LEMMA WholeStep ==
    ASSUME IInv, Whole, NothingReadIsLost, [Next]_vars
    PROVE  Whole' /\ NothingReadIsLost'
<1>1. ASSUME UNCHANGED <<pc, outcome, result, reported, sent>> PROVE NothingReadIsLost'
  BY <1>1 DEF NothingReadIsLost
<1>2. ASSUME pc' # "ended" \/ outcome' = "cancelled" PROVE NothingReadIsLost'
  BY <1>2 DEF NothingReadIsLost
<1>3. CASE Cancel \/ Wait \/ Slice \/ Woken \/ Drained \/ PollFails
  <2>1. UNCHANGED <<list, inbox, sent, reported>> /\ (pc' # "ended" \/ outcome' = "cancelled")
    BY <1>3 DEF Cancel, Wait, Slice, Woken, Drained, PollFails, policy, dns, seen
  <2> QED
    BY <1>2, <2>1, WholeStays
<1>4. CASE Decide
  <2>1. UNCHANGED <<list, inbox, sent, reported>>
    BY <1>4 DEF Decide, policy, dns, seen
  <2> QED
    BY <1>4, <2>1, WholeStays, DecideWhole
<1>5. ASSUME NEW f \in Family, Drain(f) PROVE Whole' /\ NothingReadIsLost'
  <2>1. pc' = "drain"
    BY <1>5 DEF Drain
  <2>2. CASE f \in broken
    <3>1. UNCHANGED <<list, inbox, sent, reported>>
      BY <1>5, <2>2, Zenon DEF Drain, policy, seen
    <3> QED
      BY <1>2, <2>1, <3>1, WholeStays
  <2>3. CASE f \notin broken
    BY <1>2, <1>5, <2>1, <2>3, DrainWhole
  <2> QED
    BY <2>2, <2>3
<1>6. ASSUME NEW f \in Family, Reply(f) PROVE Whole' /\ NothingReadIsLost'
  <2>1. pc' # "ended"
    BY <1>6 DEF Reply
  <2> QED
    BY <1>2, <1>6, <2>1, ReplyWhole
<1>7. CASE UserCancels \/ (\E f \in Family : Break(f)) \/ Returned \/ UNCHANGED vars
  <2>1. UNCHANGED <<pc, outcome, result, list, inbox, sent, reported>>
    BY <1>7 DEF UserCancels, Break, Returned, vars, policy, dns, seen
  <2> QED
    BY <1>1, <2>1, WholeStays
<1> QED
  BY <1>3, <1>4, <1>5, <1>6, <1>7 DEF Next, Worker, DnsSd

\* Every answer of a batch is applied before the policy decides: for any number of answers in
\* batches of any size, resolve() fails with .host or returns without an address it has read
\* only if that was withdrawn, or there was no room for it.
THEOREM NothingIsLost == Spec => []NothingReadIsLost
<1>1. Init => Whole /\ NothingReadIsLost
  <2> SUFFICES ASSUME Init PROVE Whole /\ NothingReadIsLost
    OBVIOUS
  <2>1. /\ \A g \in Family : list[g] = <<>> /\ inbox[g] = <<>> /\ sent[g] = 0 /\ reported[g] = {}
        /\ pc # "ended"
    BY DEF Init
  <2>2. Len(<<>>) = 0 /\ 0 + 0 <= 0
    OBVIOUS
  <2>3. ASSUME NEW g \in Family
        PROVE  /\ Len(list[g]) + Len(inbox[g]) <= sent[g]
               /\ reported[g] \subseteq ToSet(list[g])
    <3>1. Len(list[g]) = 0 /\ Len(inbox[g]) = 0 /\ sent[g] = 0
      BY <2>1, <2>2
    <3> QED
      BY <2>1, <3>1
  <2> QED
    BY <2>1, <2>3 DEF Whole, NothingReadIsLost
<1>2. IInv /\ Whole /\ NothingReadIsLost /\ [Next]_vars => Whole' /\ NothingReadIsLost'
  BY WholeStep
<1> QED
  BY <1>1, <1>2, Invariant, PTL DEF Spec

-----------------------------------------------------------------------------
(* The cancel *)

\* The clock.
Clock == now \in Nat /\ cancelled \in {Never} \cup Nat

\* Of a cancel at most one slice has passed, and none while the worker still waits or reads: it
\* went to wait before the cancel came.
Prompt ==
    cancelled # Never /\ pc # "ended" =>
        now <= cancelled + 1 /\ (pc \in {"poll", "drain"} => now <= cancelled)

LEMMA Initially == Init => Clock /\ Prompt
BY DEF Init, Clock, Prompt

\* Only a wait in poll() takes time, and only a resolution that nobody has cancelled goes to wait.
LEMMA NextKeeps == ASSUME Clock, Prompt, [Next]_vars PROVE Clock' /\ Prompt'
<1>1. CASE Slice
  <2>1. pc = "poll" /\ pc' = "next" /\ now' = now + 1 /\ cancelled' = cancelled BY <1>1 DEF Slice
  <2> QED BY <2>1 DEF Clock, Prompt
<1>2. CASE Wait
  <2>1. cancelled' = Never /\ now' = now BY <1>2 DEF Wait
  <2> QED BY <2>1 DEF Clock, Prompt
<1>3. CASE UserCancels
  <2>1. cancelled' = now /\ now' = now BY <1>3 DEF UserCancels
  <2> QED BY <2>1 DEF Clock, Prompt
<1>4. CASE Cancel \/ Decide
  <2>1. pc' = "ended" /\ UNCHANGED <<now, cancelled>> BY <1>4 DEF Cancel, Decide
  <2> QED BY <2>1 DEF Clock, Prompt
<1>5. CASE Woken \/ Drained \/ PollFails
  <2>1. pc \in {"poll", "drain"} /\ UNCHANGED <<now, cancelled>>
    BY <1>5 DEF Woken, Drained, PollFails
  <2> QED BY <2>1 DEF Clock, Prompt
<1>6. ASSUME NEW f \in Family, Drain(f) \/ Reply(f) \/ Break(f) PROVE Clock' /\ Prompt'
  <2>1. UNCHANGED <<pc, now, cancelled>> BY <1>6, Zenon DEF Drain, Reply, Break
  <2> QED BY <2>1 DEF Clock, Prompt
<1>7. CASE UNCHANGED vars
  <2>1. UNCHANGED <<pc, now, cancelled>> BY <1>7 DEF vars
  <2> QED BY <2>1 DEF Clock, Prompt
<1> QED BY <1>1, <1>2, <1>3, <1>4, <1>5, <1>6, <1>7 DEF Next, Worker, DnsSd, Returned

\* The user's cancel ends resolve() within one slice of 50 ms (SMBTransport.resolve).
THEOREM CancelIsPrompt == Spec => []CancelPrompt
<1>1. Init => Clock /\ Prompt BY Initially
<1>2. Clock /\ Prompt /\ [Next]_vars => Clock' /\ Prompt' BY NextKeeps
<1>3. Clock /\ Prompt => CancelPrompt BY DEF Prompt, CancelPrompt
<1> QED BY <1>1, <1>2, <1>3, PTL DEF Spec
=============================================================================
