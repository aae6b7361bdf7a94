------------------------------ MODULE Induction ------------------------------
(***************************************************************************)
(* Induction over the naturals for sets and functions: what the proofs     *)
(* about loops rest on.  The theorems of the library take a predicate as   *)
(* a parameter; here it is the set of the numbers that satisfy it.  And    *)
(* what stands where in sequences that are put together.                   *)
(***************************************************************************)
EXTENDS Naturals, Sequences, WellFoundedInduction, TLAPS

LEMMA NatWellFounded == IsWellFoundedOn({p \in Nat \X Nat : p[1] < p[2]}, Nat)
  BY NatLessThanWellFounded DEF OpToRel

\* A set of naturals that is not empty has a least member.
LEMMA LeastMember ==
  ASSUME NEW S \in SUBSET Nat, S # {}
  PROVE  \E n \in S : \A m \in S : n <= m
  <1> DEFINE R == {p \in Nat \X Nat : p[1] < p[2]}
  <1>1. \E x \in S : \A y \in S : ~ (<<y, x>> \in R)
    <2>1. IsWellFoundedOn(R, Nat)
      BY NatWellFounded
    <2> HIDE DEF R
    <2> QED BY <2>1, WFMin
  <1>2. PICK x \in S : \A y \in S : ~ (<<y, x>> \in R)
    BY <1>1
  <1>3. ASSUME NEW y \in S
        PROVE  x <= y
    <2>1. y \in Nat /\ x \in Nat /\ ~ (<<y, x>> \in R)
      BY <1>2
    <2> QED BY <2>1
  <1> QED BY <1>3

\* A set that has zero, and with every natural the next one, has all of them.
LEMMA SetInduction ==
  ASSUME NEW P, 0 \in P, \A n \in Nat : n \in P => n + 1 \in P
  PROVE  Nat \subseteq P
  <1> SUFFICES ASSUME ~(Nat \subseteq P) PROVE FALSE
    OBVIOUS
  <1> DEFINE S == {n \in Nat : n \notin P}
  <1>1. S # {} /\ S \in SUBSET Nat
    OBVIOUS
  <1>2. PICK n \in S : \A m \in S : n <= m
    <2> HIDE DEF S
    <2> QED BY <1>1, LeastMember
  <1>3. n # 0 /\ n - 1 \in Nat
    OBVIOUS
  <1>4. n - 1 \in P
    BY <1>2, <1>3
  <1> QED BY <1>3, <1>4, <1>2

\* A set that has a natural whenever it has all smaller ones has all of them.
LEMMA StrongInduction ==
  ASSUME NEW P, \A n \in Nat : (\A m \in 0 .. n - 1 : m \in P) => n \in P
  PROVE  Nat \subseteq P
<1> SUFFICES ASSUME ~(Nat \subseteq P) PROVE FALSE
  OBVIOUS
<1> DEFINE S == {n \in Nat : n \notin P}
<1>1. S # {} /\ S \in SUBSET Nat
  OBVIOUS
<1>2. PICK n \in S : \A m \in S : n <= m
  <2> HIDE DEF S
  <2> QED BY <1>1, LeastMember
<1>3. \A m \in 0 .. n - 1 : m \in P
  <2> SUFFICES ASSUME NEW m \in 0 .. n - 1, m \notin P PROVE FALSE
    OBVIOUS
  <2>1. m \in S /\ ~ (n <= m)
    OBVIOUS
  <2> QED BY <1>2, <2>1
<1> QED BY <1>3

\* The states of a loop of n turns that begins in c.
IsRun(f, S, n, c, turn) ==
  f \in [0 .. n -> S] /\ f[0] = c /\ \A i \in 1 .. n : f[i] = turn[i][f[i - 1]]

\* A loop of n turns over the states of a set has a run: what a recursive definition over
\* 0 .. n chooses exists.
LEMMA RunExists ==
  ASSUME NEW S, NEW c \in S, NEW n \in Nat, NEW turn \in [1 .. n -> [S -> S]]
  PROVE  \E f : IsRun(f, S, n, c, turn)
  <1> USE DEF IsRun
  <1> DEFINE Upto(m, f) == IsRun(f, S, m, c, turn)
             P == {m \in Nat : m <= n => \E f : Upto(m, f)}
  <1>1. 0 \in P
    <2>1. Upto(0, [i \in 0 .. 0 |-> c])
      OBVIOUS
    <2> QED BY <2>1
  <1>2. ASSUME NEW m \in Nat, m \in P
        PROVE  m + 1 \in P
    <2> SUFFICES ASSUME m + 1 <= n PROVE \E f : Upto(m + 1, f)
      OBVIOUS
    <2>1. PICK f : Upto(m, f)
      BY <1>2
    <2> DEFINE last == turn[m + 1][f[m]]
               g == [i \in 0 .. m + 1 |-> IF i = m + 1 THEN last ELSE f[i]]
    <2>2. f[m] \in S /\ turn[m + 1] \in [S -> S]
      BY <2>1
    <2>3. last \in S
      BY <2>2
    <2>4. g \in [0 .. m + 1 -> S] /\ g[0] = c
      <3> HIDE DEF last
      <3> QED BY <2>1, <2>3
    <2>5. ASSUME NEW i \in 1 .. m + 1
          PROVE  g[i] = turn[i][g[i - 1]]
      <3>1. CASE i = m + 1
        BY <3>1
      <3>2. CASE i # m + 1
        <4>1. i \in 1 .. m /\ i - 1 \in 0 .. m /\ i \in 0 .. m + 1 /\ i - 1 # m + 1
          BY <3>2
        <4>2. g[i] = f[i] /\ g[i - 1] = f[i - 1]
          <5> HIDE DEF last
          <5> QED BY <4>1, <3>2
        <4> QED BY <2>1, <4>1, <4>2
      <3> QED BY <3>1, <3>2
    <2>6. Upto(m + 1, g)
      <3> HIDE DEF g
      <3> QED BY <2>4, <2>5
    <2> QED BY <2>6
  <1>3. n \in P
    <2> HIDE DEF P
    <2> QED BY <1>1, <1>2, SetInduction
  <1> QED BY <1>3

\* What runs over the states of the set stays in it.
LEMMA RunStays ==
  ASSUME NEW S, NEW n \in Nat, NEW turn \in [1 .. n -> [S -> S]],
         NEW W, W[0] \in S, \A i \in 1 .. n : W[i - 1] \in S => W[i] = turn[i][W[i - 1]]
  PROVE  \A i \in 0 .. n : W[i] \in S
  <1> DEFINE P == {i \in Nat : i <= n => W[i] \in S}
  <1>1. 0 \in P
    OBVIOUS
  <1>2. ASSUME NEW i \in Nat, i \in P
        PROVE  i + 1 \in P
    <2> SUFFICES ASSUME i + 1 <= n PROVE W[i + 1] \in S
      OBVIOUS
    <2>1. i + 1 \in 1 .. n /\ (i + 1) - 1 = i /\ W[i] \in S
      BY <1>2
    <2>2. turn[i + 1] \in [S -> S]
      BY <2>1
    <2>3. W[i + 1] = turn[i + 1][W[i]]
      BY <2>1
    <2> QED BY <2>1, <2>2, <2>3
  <1>3. Nat \subseteq P
    <2> HIDE DEF P
    <2> QED BY <1>1, <1>2, SetInduction
  <1> QED BY <1>3
-----------------------------------------------------------------------------
\* Two sequences, one behind the other.
LEMMA Joined ==
  ASSUME NEW S, NEW s \in Seq(S), NEW t \in Seq(S)
  PROVE  /\ s \o t \in Seq(S) /\ Len(s \o t) = Len(s) + Len(t)
         /\ \A i \in 1 .. Len(s) + Len(t) :
              (s \o t)[i] = IF i <= Len(s) THEN s[i] ELSE t[i - Len(s)]
  OBVIOUS

\* A sequence with another put in behind its first elements.
Splice(s, at, t) == SubSeq(s, 1, at) \o t \o SubSeq(s, at + 1, Len(s))

LEMMA Spliced ==
  ASSUME NEW S, NEW s \in Seq(S), NEW t \in Seq(S), NEW at \in Nat, at <= Len(s)
  PROVE  /\ Splice(s, at, t) \in Seq(S) /\ Len(Splice(s, at, t)) = Len(s) + Len(t)
         /\ \A i \in 1 .. Len(s) + Len(t) :
              Splice(s, at, t)[i] = IF i <= at THEN s[i]
                                    ELSE IF i <= at + Len(t) THEN t[i - at] ELSE s[i - Len(t)]
  <1> DEFINE head == SubSeq(s, 1, at)
             rest == SubSeq(s, at + 1, Len(s))
             front == head \o t
             u == front \o rest
  <1>1. head \in Seq(S) /\ Len(head) = at /\ \A i \in 1 .. at : head[i] = s[i]
    OBVIOUS
  <1>2. /\ rest \in Seq(S) /\ Len(rest) = Len(s) - at
        /\ \A i \in 1 .. Len(s) - at : rest[i] = s[at + i]
    OBVIOUS
  <1>3. u = Splice(s, at, t)
    BY DEF Splice
  <1> HIDE DEF head, rest
  <1>4. /\ front \in Seq(S) /\ Len(front) = at + Len(t)
        /\ \A i \in 1 .. at + Len(t) : front[i] = IF i <= at THEN s[i] ELSE t[i - at]
    BY <1>1
  <1> HIDE DEF front
  <1>5. /\ u \in Seq(S) /\ Len(u) = Len(front) + Len(rest)
        /\ \A i \in 1 .. Len(front) + Len(rest) :
             u[i] = IF i <= Len(front) THEN front[i] ELSE rest[i - Len(front)]
    <2>1. front \in Seq(S) /\ rest \in Seq(S)
      BY <1>2, <1>4
    <2> QED BY <2>1, Joined, Zenon
  <1> HIDE DEF u
  <1>6. Len(u) = Len(s) + Len(t) /\ Len(s) \in Nat /\ Len(t) \in Nat
    BY <1>2, <1>4, <1>5
  <1>7. ASSUME NEW i \in 1 .. Len(s) + Len(t)
        PROVE  u[i] = IF i <= at THEN s[i]
                      ELSE IF i <= at + Len(t) THEN t[i - at] ELSE s[i - Len(t)]
    <2>1. i \in Nat /\ i \in 1 .. Len(front) + Len(rest) /\ Len(front) = at + Len(t)
      BY <1>2, <1>4, <1>6
    <2>2. CASE i <= at + Len(t)
      <3>1. u[i] = front[i] /\ i \in 1 .. at + Len(t)
        BY <1>5, <1>6, <2>1, <2>2
      <3> QED BY <1>4, <2>2, <3>1
    <2>3. CASE ~(i <= at + Len(t))
      <3>1. i - (at + Len(t)) \in 1 .. Len(s) - at /\ at + (i - (at + Len(t))) = i - Len(t)
        BY <1>6, <2>3
      <3>2. u[i] = rest[i - Len(front)]
        BY <1>5, <2>1, <2>3
      <3>3. u[i] = s[i - Len(t)]
        BY <1>2, <2>1, <3>1, <3>2
      <3>4. ~(i <= at)
        BY <1>6, <2>1, <2>3
      <3> QED BY <2>3, <3>3, <3>4
    <2> QED BY <2>2, <2>3
  <1> QED BY <1>3, <1>5, <1>6, <1>7

\* There is a set of what is reached from Q through p.
LEMMA ReachedExists ==
  ASSUME NEW S, NEW Q \in SUBSET S, NEW T, NEW p \in [S -> T]
  PROVE  \E A \in SUBSET S : \A m \in S : m \in A <=> (m \in Q \/ p[m] \in A)
<1> DEFINE Closed(C) == \A x \in S : x \in Q \/ p[x] \in C => x \in C
           A == {m \in S : \A C \in SUBSET S : Closed(C) => m \in C}
<1>1. \A C \in SUBSET S : Closed(C) => A \subseteq C
  OBVIOUS
<1>2. \A m \in S : m \in Q \/ p[m] \in A => m \in A
  BY <1>1
<1>3. ASSUME NEW m \in A, m \notin Q, p[m] \notin A
      PROVE  FALSE
  <2>1. A \ {m} \in SUBSET S
    OBVIOUS
  <2>2. Closed(A \ {m})
    <3> SUFFICES ASSUME NEW x \in S, x \in Q \/ p[x] \in A \ {m} PROVE x \in A \ {m}
      OBVIOUS
    <3>1. x \in A
      <4> HIDE DEF A
      <4> QED BY <1>2
    <3>2. x # m
      <4> HIDE DEF A
      <4> QED BY <1>3
    <3> QED BY <3>1, <3>2
  <2>3. A \subseteq A \ {m}
    <3> HIDE DEF A, Closed
    <3> QED BY <1>1, <2>1, <2>2
  <2> QED BY <2>3
<1>4. A \in SUBSET S
  OBVIOUS
<1> HIDE DEF A
<1> QED BY <1>2, <1>3, <1>4
=============================================================================
