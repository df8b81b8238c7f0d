----------------------------- MODULE Foundations -----------------------------
(***************************************************************************)
(* What the proofs share: induction over the natural numbers, what a       *)
(* recursive function that goes from one number to the next is, and        *)
(* sequences.  Induction and recursion are stated over sets and functions, *)
(* so that each prover can use them: a property of numbers is the set of   *)
(* the numbers that have it, the step of a recursion is a function on a    *)
(* set of states.                                                          *)
(***************************************************************************)
EXTENDS Integers, SequencesExt, WellFoundedInduction, TLAPS

Less == {p \in Nat \X Nat : p[1] < p[2]}

\* No sequence of natural numbers goes down for ever.
LEMMA LessWellFounded == IsWellFoundedOn(Less, Nat)
<1>1. OpToRel(<, Nat) = Less
  BY DEF OpToRel, Less
<1> QED
  BY <1>1, NatLessThanWellFounded

\* A set of natural numbers has a smallest one.
LEMMA Smallest ==
  ASSUME NEW T, T \subseteq Nat, T # {}
  PROVE  \E x \in T : \A y \in T : x <= y
<1>1. PICK x \in T : \A y \in T : ~ (<<y, x>> \in Less)
  BY LessWellFounded, WFMin
<1>2. ASSUME NEW y \in T PROVE x <= y
  <2>1. x \in Nat /\ y \in Nat
    OBVIOUS
  <2>2. y < x => <<y, x>> \in Less
    BY <2>1 DEF Less
  <2> QED
    BY <1>1, <2>1, <2>2
<1> QED
  BY <1>2

\* Induction, for the numbers up to n: the set S holds 0, and with k also k + 1.
LEMMA Induction ==
  ASSUME NEW S, NEW n \in Nat, 0 \in S, \A k \in 0 .. n - 1 : k \in S => k + 1 \in S
  PROVE  \A k \in 0 .. n : k \in S
<1> DEFINE T == {k \in 0 .. n : k \notin S}
<1> SUFFICES ASSUME T # {} PROVE FALSE
  OBVIOUS
<1>1. PICK x \in T : \A y \in T : x <= y
  <2>1. T \subseteq Nat
    OBVIOUS
  <2> HIDE DEF T
  <2> QED
    BY <2>1, Smallest
<1>2. x # 0 /\ x \in 0 .. n /\ x \notin S
  BY <1>1
<1>3. x - 1 \in 0 .. n - 1 /\ x - 1 \notin T /\ x - 1 + 1 = x
  BY <1>1, <1>2
<1>4. x - 1 \in S
  BY <1>2, <1>3
<1> QED
  BY <1>2, <1>3, <1>4

\* The states f of S that the step F goes through from a, in n steps.
Goes(f, S, a, n, F) ==
  /\ f \in [0 .. n -> S] /\ f[0] = a
  /\ \A k \in 1 .. n : f[k] = F[<<k, f[k - 1]>>]

\* A recursion that goes on from state to state has a result at every number.
LEMMA Recursion ==
  ASSUME NEW S, NEW a \in S, NEW n \in Nat, NEW F, F \in [(1 .. n) \X S -> S]
  PROVE  \E f : Goes(f, S, a, n, F)
<1> DEFINE Up(m, f) == /\ f \in [0 .. m -> S] /\ f[0] = a
                       /\ \A k \in 1 .. m : f[k] = F[<<k, f[k - 1]>>]
           T == {m \in 0 .. n : \E f \in [0 .. m -> S] : Up(m, f)}
<1>1. 0 \in T
  <2> DEFINE f == [k \in 0 .. 0 |-> a]
  <2>1. f \in [0 .. 0 -> S] /\ Up(0, f)
    OBVIOUS
  <2> HIDE DEF f, Up
  <2> QED
    BY <2>1
<1>2. ASSUME NEW m \in 0 .. n - 1, m \in T PROVE m + 1 \in T
  <2>1. PICK f \in [0 .. m -> S] : Up(m, f)
    BY <1>2
  <2> DEFINE g == [k \in 0 .. m + 1 |-> IF k = m + 1 THEN F[<<m + 1, f[m]>>] ELSE f[k]]
  <2>2. F[<<m + 1, f[m]>>] \in S
    OBVIOUS
  <2>3. g \in [0 .. m + 1 -> S] /\ g[0] = a
    BY <2>1, <2>2
  <2>4. ASSUME NEW k \in 1 .. m + 1 PROVE g[k] = F[<<k, g[k - 1]>>]
    <3>1. CASE k = m + 1
      <4>1. m \in 0 .. m + 1 /\ m + 1 \in 0 .. m + 1 /\ m # m + 1 /\ (m + 1) - 1 = m
        OBVIOUS
      <4>2. g[m + 1] = F[<<m + 1, f[m]>>] /\ g[m] = f[m]
        BY <4>1
      <4> QED
        BY <3>1, <4>1, <4>2
    <3>2. CASE k # m + 1
      <4>1. k \in 1 .. m /\ k - 1 \in 0 .. m
        BY <3>2
      <4> QED
        BY <2>1, <3>2, <4>1
    <3> QED
      BY <3>1, <3>2
  <2>5. Up(m + 1, g)
    BY <2>3, <2>4
  <2> HIDE DEF g, Up
  <2> QED
    BY <2>3, <2>5
<1>3. n \in T
  <2> HIDE DEF T
  <2> QED
    BY <1>1, <1>2, Induction
<1>4. PICK f \in [0 .. n -> S] : Up(n, f)
  BY <1>3
<1> QED
  BY <1>4 DEF Goes

\* The steps V lead from each place P[k - 1] to the next one, P[k].
Guides(P, V, S, n) ==
  /\ P \in [0 .. n -> SUBSET S]
  /\ \A k \in 1 .. n : \A s \in P[k - 1] : V[<<k, s>>] \in P[k]

\* f begins at the first place, and takes the step V wherever it is at its place.
Follows(f, P, V, n) ==
  f[0] \in P[0] /\ \A k \in 1 .. n : f[k - 1] \in P[k - 1] => f[k] = V[<<k, f[k - 1]>>]

Stays(f, P, n) == \A k \in 0 .. n : f[k] \in P[k]

\* Who takes the steps V from the first place on is at P[k] after k of them.
LEMMA GuidedStays ==
  ASSUME NEW S, NEW n \in Nat, NEW P, NEW V, Guides(P, V, S, n), NEW f, Follows(f, P, V, n)
  PROVE  Stays(f, P, n)
<1>0. f[0] \in P[0] /\ \A k \in 1 .. n : f[k - 1] \in P[k - 1] => f[k] = V[<<k, f[k - 1]>>]
  BY DEF Follows
<1> DEFINE T == {k \in 0 .. n : f[k] \in P[k]}
<1>1. 0 \in T
  BY <1>0
<1>2. \A k \in 0 .. n - 1 : k \in T => k + 1 \in T
  <2> TAKE k \in 0 .. n - 1
  <2> HAVE k \in T
  <2>1. k + 1 \in 1 .. n /\ (k + 1) - 1 = k /\ k + 1 \in 0 .. n /\ f[k] \in P[k]
    OBVIOUS
  <2>2. f[k + 1] = V[<<k + 1, f[k]>>]
    BY <1>0, <2>1
  <2>3. V[<<k + 1, f[k]>>] \in P[k + 1]
    BY <2>1 DEF Guides
  <2> QED
    BY <2>1, <2>2, <2>3
<1> HIDE DEF T
<1>3. \A k \in 0 .. n : k \in T
  BY <1>1, <1>2, Induction
<1> QED
  BY <1>3 DEF T, Stays

\* The steps V from a on, through states of S.
GoesAlong(f, V, S, a, n) ==
  f \in [0 .. n -> S] /\ f[0] = a /\ \A k \in 1 .. n : f[k] = V[<<k, f[k - 1]>>]

\* A recursion that is guided has a result at every number.
LEMMA Guided ==
  ASSUME NEW S, NEW n \in Nat, NEW P, NEW V, Guides(P, V, S, n), NEW a, a \in P[0]
  PROVE  \E f : GoesAlong(f, V, S, a, n)
<1> DEFINE F == [p \in (1 .. n) \X S |-> IF V[p] \in S THEN V[p] ELSE a]
<1>1. a \in S /\ \A k \in 0 .. n : P[k] \subseteq S
  BY DEF Guides
<1>2. F \in [(1 .. n) \X S -> S]
  BY <1>1
<1>3. \A k \in 1 .. n : \A s \in S : V[<<k, s>>] \in S => F[<<k, s>>] = V[<<k, s>>]
  OBVIOUS
<1> HIDE DEF F
<1>4. PICK f : Goes(f, S, a, n, F)
  BY <1>1, <1>2, Recursion
<1>5. ASSUME NEW k \in 1 .. n, f[k - 1] \in P[k - 1] PROVE f[k] = V[<<k, f[k - 1]>>]
  <2>1. k - 1 \in 0 .. n /\ k \in 0 .. n
    OBVIOUS
  <2>2. f[k - 1] \in S /\ f[k] = F[<<k, f[k - 1]>>]
    BY <1>4, <2>1 DEF Goes
  <2>3. V[<<k, f[k - 1]>>] \in S
    BY <1>1, <1>5, <2>1 DEF Guides
  <2> QED
    BY <1>3, <2>2, <2>3
<1>6. f[0] = a /\ f \in [0 .. n -> S]
  BY <1>4 DEF Goes
<1>7. \A k \in 0 .. n : f[k] \in P[k]
  BY <1>5, <1>6, GuidedStays DEF Follows, Stays
<1>8. ASSUME NEW k \in 1 .. n PROVE f[k] = V[<<k, f[k - 1]>>]
  <2>1. k - 1 \in 0 .. n
    OBVIOUS
  <2> QED
    BY <1>5, <1>7, <2>1
<1> QED
  BY <1>6, <1>8 DEF GoesAlong
-----------------------------------------------------------------------------
\* Two sequences, one after the other.
LEMMA ConcatIs ==
  ASSUME NEW S, NEW a \in Seq(S), NEW b \in Seq(S)
  PROVE  /\ a \o b \in Seq(S) /\ Len(a \o b) = Len(a) + Len(b)
         /\ \A i \in 1 .. Len(a) + Len(b) :
              (a \o b)[i] = IF i <= Len(a) THEN a[i] ELSE b[i - Len(a)]
OBVIOUS

\* A sequence without its element k.
LEMMA RemoveIs ==
  ASSUME NEW S, NEW s \in Seq(S), NEW k \in 1 .. Len(s)
  PROVE  /\ RemoveAt(s, k) \in Seq(S) /\ Len(RemoveAt(s, k)) = Len(s) - 1
         /\ \A i \in 1 .. Len(s) - 1 : RemoveAt(s, k)[i] = IF i < k THEN s[i] ELSE s[i + 1]
<1>1. SubSeq(s, 1, k - 1) \in Seq(S) /\ Len(SubSeq(s, 1, k - 1)) = k - 1
  OBVIOUS
<1>2. SubSeq(s, k + 1, Len(s)) \in Seq(S) /\ Len(SubSeq(s, k + 1, Len(s))) = Len(s) - k
  OBVIOUS
<1>3. /\ \A i \in 1 .. k - 1 : SubSeq(s, 1, k - 1)[i] = s[i]
      /\ \A i \in 1 .. Len(s) - k : SubSeq(s, k + 1, Len(s))[i] = s[i + k]
  OBVIOUS
<1> DEFINE a == SubSeq(s, 1, k - 1)
           b == SubSeq(s, k + 1, Len(s))
<1>4. RemoveAt(s, k) = a \o b
  BY DEF RemoveAt
<1>5. /\ a \in Seq(S) /\ Len(a) = k - 1 /\ \A i \in 1 .. k - 1 : a[i] = s[i]
      /\ b \in Seq(S) /\ Len(b) = Len(s) - k /\ \A i \in 1 .. Len(s) - k : b[i] = s[i + k]
  BY <1>1, <1>2, <1>3
<1> HIDE DEF a, b
<1>6. /\ a \o b \in Seq(S) /\ Len(a \o b) = Len(s) - 1
      /\ \A i \in 1 .. Len(s) - 1 : (a \o b)[i] = IF i <= k - 1 THEN a[i] ELSE b[i - (k - 1)]
  BY <1>5, ConcatIs
<1>7. ASSUME NEW i \in 1 .. Len(s) - 1
      PROVE  (a \o b)[i] = IF i < k THEN s[i] ELSE s[i + 1]
  <2>1. CASE i < k
    BY <1>5, <1>6, <2>1
  <2>2. CASE i >= k
    <3>1. i - (k - 1) \in 1 .. Len(s) - k /\ (i - (k - 1)) + k = i + 1
      BY <2>2
    <3> QED
      BY <1>5, <1>6, <2>2, <3>1
  <2>3. i \in Int /\ k \in Int
    OBVIOUS
  <2>4. i < k \/ i >= k
    BY <2>3
  <2> QED
    BY <2>1, <2>2, <2>4
<1> QED
  BY <1>4, <1>6, <1>7

\* A sequence with one more element, before element k.
LEMMA InsertIs ==
  ASSUME NEW S, NEW s \in Seq(S), NEW k \in 1 .. Len(s) + 1, NEW e \in S
  PROVE  /\ InsertAt(s, k, e) \in Seq(S) /\ Len(InsertAt(s, k, e)) = Len(s) + 1
         /\ \A i \in 1 .. Len(s) + 1 :
              InsertAt(s, k, e)[i] = IF i < k THEN s[i] ELSE IF i = k THEN e ELSE s[i - 1]
<1> DEFINE a == SubSeq(s, 1, k - 1)
           b == SubSeq(s, k, Len(s))
<1>1. /\ a \in Seq(S) /\ Len(a) = k - 1 /\ \A i \in 1 .. k - 1 : a[i] = s[i]
      /\ b \in Seq(S) /\ Len(b) = Len(s) + 1 - k
      /\ \A i \in 1 .. Len(s) + 1 - k : b[i] = s[i + k - 1]
  OBVIOUS
<1>2. InsertAt(s, k, e) = (a \o <<e>>) \o b
  BY DEF InsertAt
<1> HIDE DEF a, b
<1>3. /\ a \o <<e>> \in Seq(S) /\ Len(a \o <<e>>) = k
      /\ \A i \in 1 .. k : (a \o <<e>>)[i] = IF i < k THEN s[i] ELSE e
  BY <1>1
<1> DEFINE c == a \o <<e>>
<1> HIDE DEF c
<1>4. c \in Seq(S) /\ Len(c) = k /\ \A i \in 1 .. k : c[i] = IF i < k THEN s[i] ELSE e
  BY <1>3 DEF c
<1>5. /\ c \o b \in Seq(S) /\ Len(c \o b) = Len(s) + 1
      /\ \A i \in 1 .. Len(s) + 1 : (c \o b)[i] = IF i <= k THEN c[i] ELSE b[i - k]
  <2>1. Len(c) + Len(b) = Len(s) + 1
    BY <1>1, <1>4
  <2>0. c \in Seq(S) /\ b \in Seq(S)
    BY <1>1, <1>4
  <2>2. /\ c \o b \in Seq(S) /\ Len(c \o b) = Len(c) + Len(b)
        /\ \A i \in 1 .. Len(c) + Len(b) :
             (c \o b)[i] = IF i <= Len(c) THEN c[i] ELSE b[i - Len(c)]
    BY ONLY <2>0, ConcatIs
  <2> QED
    BY ONLY <1>4, <2>1, <2>2
<1>6. ASSUME NEW i \in 1 .. Len(s) + 1
      PROVE  (c \o b)[i] = IF i < k THEN s[i] ELSE IF i = k THEN e ELSE s[i - 1]
  <2>1. CASE i <= k
    <3>1. i \in 1 .. k /\ (i < k \/ i = k)
      BY <2>1
    <3> QED
      BY <1>4, <1>5, <2>1, <3>1
  <2>2. CASE i > k
    <3>1. i - k \in 1 .. Len(s) + 1 - k /\ (i - k) + k - 1 = i - 1
      BY <2>2
    <3> QED
      BY <1>1, <1>5, <2>2, <3>1
  <2>3. i \in Int /\ k \in Int
    OBVIOUS
  <2>4. i <= k \/ i > k
    BY <2>3
  <2> QED
    BY <2>1, <2>2, <2>4
<1> QED
  BY <1>2, <1>5, <1>6 DEF c
=============================================================================
