---------------------------- MODULE NaturalFacts ----------------------------
(***************************************************************************)
(* Induction over natural numbers and over sequences, stated for sets,     *)
(* functions that recur on a number, greatest elements, and sequences of   *)
(* sequences put end to end: what the proofs of several modules rest on.   *)
(***************************************************************************)
EXTENDS Integers, Sequences, SequencesExt, SequenceTheorems, TLAPS, WellFoundedInduction

(* Induction over a set: one that holds 0 and is closed under successor    *)
(* holds every natural number.                                             *)
LEMMA SetInduction ==
  ASSUME NEW S, 0 \in S, \A n \in Nat : n \in S => n + 1 \in S
  PROVE  \A n \in Nat : n \in S
<1> DEFINE R == OpToRel(<, Nat)
           T == {n \in Nat : n \notin S}
<1>1. IsWellFoundedOn(R, Nat)
  BY NatLessThanWellFounded
<1>2. SUFFICES ASSUME T # {} PROVE FALSE
  OBVIOUS
<1>3. PICK x \in T : \A y \in T : ~ (<<y, x>> \in R)
  <2> HIDE DEF R
  <2> QED
    BY <1>1, <1>2, WFMin, T \subseteq Nat
<1>4. x # 0 /\ x - 1 \in Nat
  BY SMT
<1>5. x - 1 \in T
  <2>1. x - 1 \in S => (x - 1) + 1 \in S
    BY <1>4
  <2>2. (x - 1) + 1 = x
    BY <1>4
  <2>3. QED
    BY <1>4, <2>1, <2>2
<1>6. <<x - 1, x>> \in R
  <2>1. x - 1 < x
    BY <1>4
  <2>2. QED
    BY <1>4, <2>1 DEF OpToRel
<1>7. QED
  BY <1>3, <1>5, <1>6

(* The same up to a bound. *)
LEMMA BoundedInduction ==
  ASSUME NEW N \in Nat, NEW S, 0 \in S,
         \A n \in 0..N : n \in S /\ n < N => n + 1 \in S
  PROVE  \A n \in 0..N : n \in S
<1> DEFINE T == {n \in Nat : n \in S \/ n > N}
<1>1. 0 \in T
  OBVIOUS
<1>2. ASSUME NEW n \in Nat, n \in T PROVE n + 1 \in T
  BY <1>2
<1>3. \A n \in Nat : n \in T
  <2> HIDE DEF T
  <2> QED
    BY <1>1, <1>2, SetInduction
<1>4. QED
  BY <1>3

(* What holds at 0 and is passed on from n - 1 to n holds up to N. *)
LEMMA Along ==
  ASSUME NEW N \in Nat, NEW f, NEW A,
         f[0] \in A, \A n \in 1..N : f[n - 1] \in A => f[n] \in A
  PROVE  \A n \in 0..N : f[n] \in A
<1> DEFINE S == {n \in 0..N : f[n] \in A}
<1>1. 0 \in S
  OBVIOUS
<1>2. ASSUME NEW n \in 0..N, n \in S, n < N PROVE n + 1 \in S
  <2>1. n + 1 \in 1..N /\ (n + 1) - 1 = n
    BY <1>2
  <2>2. QED
    BY <1>2, <2>1
<1>3. \A n \in 0..N : n \in S
  <2> HIDE DEF S
  <2>1. \A n \in 0..N : n \in S /\ n < N => n + 1 \in S
    BY <1>2
  <2>2. QED
    BY <1>1, <2>1, BoundedInduction
<1>4. QED
  BY <1>3

(* A set of places in a sequence that is not empty has a last one. *)
LEMMA LastPlace ==
  ASSUME NEW N \in Nat, NEW C \in SUBSET (1..N), C # {}
  PROVE  \E i \in C : \A j \in C : j <= i
<1> DEFINE R == OpToRel(<, Nat)
           T == {n \in Nat : N - n \in C}
<1>1. IsWellFoundedOn(R, Nat)
  BY NatLessThanWellFounded
<1>2. PICK c \in C : TRUE
  OBVIOUS
<1>3. N - c \in T
  <2>1. c \in 1..N
    BY <1>2
  <2>2. N - c \in Nat /\ N - (N - c) = c
    BY <2>1
  <2>3. QED
    BY <1>2, <2>2
<1>4. PICK x \in T : \A y \in T : ~ (<<y, x>> \in R)
  <2> HIDE DEF R
  <2> QED
    BY <1>1, <1>3, WFMin, T \subseteq Nat
<1>5. N - x \in C /\ x \in Nat
  OBVIOUS
<1>6. ASSUME NEW j \in C PROVE j <= N - x
  <2>1. j \in 1..N /\ N - j \in Nat /\ N - (N - j) = j
    BY SMT
  <2>2. N - j \in T
    BY <2>1
  <2>3. ~ (N - j < x)
    BY <1>4, <2>1, <2>2, x \in Nat DEF OpToRel
  <2>4. QED
    BY <1>5, <2>1, <2>3
<1>7. QED
  BY <1>5, <1>6

(* Induction over sequences, stated for sets: a set that holds the empty   *)
(* sequence and with a sequence every one longer by an element holds all.  *)
LEMMA SequenceInduction ==
  ASSUME NEW E, NEW S, << >> \in S,
         \A s \in Seq(E), e \in E : s \in S => Append(s, e) \in S
  PROVE  \A s \in Seq(E) : s \in S
<1> DEFINE T == {n \in Nat : \A s \in Seq(E) : Len(s) = n => s \in S}
<1>1. 0 \in T
  <2>1. \A s \in Seq(E) : Len(s) = 0 => s = << >>
    OBVIOUS
  <2>2. QED
    BY <2>1
<1>2. ASSUME NEW n \in Nat, n \in T PROVE n + 1 \in T
  <2>1. ASSUME NEW s \in Seq(E), Len(s) = n + 1 PROVE s \in S
    <3> DEFINE front == [i \in 1..n |-> s[i]]
               last  == s[n + 1]
    <3>1. front \in Seq(E) /\ Len(front) = n /\ last \in E
      BY <2>1
    <3>2. s = Append(front, last)
      BY <2>1
    <3>3. front \in S
      BY <1>2, <3>1
    <3>4. QED
      <4> HIDE DEF front, last
      <4> QED
        BY <3>1, <3>2, <3>3
  <2>2. QED
    BY <2>1
<1>3. \A n \in Nat : n \in T
  <2> HIDE DEF T
  <2> QED
    BY <1>1, <1>2, SetInduction
<1>4. QED
  BY <1>3

(* The values of iterating F, a function of the value so far and of the    *)
(* position, from a.                                                       *)
Iterates(N, A, a, F) ==
  {g \in [0..N -> A] : g[0] = a /\ \A n \in 1..N : g[n] = F[<<g[n - 1], n>>]}

(* They exist up to every N. *)
LEMMA Iteration ==
  ASSUME NEW N \in Nat, NEW A, NEW a \in A, NEW F \in [A \X (1..N) -> A]
  PROVE  Iterates(N, A, a, F) # {}
<1> DEFINE Upto(k) == Iterates(k, A, a, F)
           S == {k \in 0..N : Upto(k) # {}}
<1>1. 0 \in S
  <2>1. [n \in 0..0 |-> a] \in Upto(0)
    BY DEF Iterates
  <2>2. QED
    BY <2>1
<1>2. ASSUME NEW k \in 0..N, k \in S, k < N
      PROVE  k + 1 \in S
  <2>1. PICK g \in Upto(k) : TRUE
    BY <1>2
  <2>2. k \in Nat /\ k + 1 \in 1..N
    BY <1>2
  <2> DEFINE next == F[<<g[k], k + 1>>]
             h == [n \in 0..(k + 1) |-> IF n = k + 1 THEN next ELSE g[n]]
  <2>3. g[k] \in A /\ next \in A
    BY <2>1, <2>2 DEF Iterates
  <2>4. h \in [0..(k + 1) -> A] /\ h[0] = a
    <3> HIDE DEF next
    <3> QED
      BY <2>1, <2>2, <2>3 DEF Iterates
  <2>5. ASSUME NEW n \in 1..(k + 1)
        PROVE  h[n] = F[<<h[n - 1], n>>]
    <3>1. CASE n = k + 1
      <4>1. n - 1 = k /\ k \in 0..(k + 1) /\ n \in 0..(k + 1) /\ k # k + 1
        BY <3>1, <2>2
      <4>2. h[n] = next /\ h[n - 1] = g[k]
        <5> HIDE DEF next
        <5> QED
          BY <3>1, <4>1
      <4>3. QED
        BY <3>1, <4>2
    <3>2. CASE n # k + 1
      <4>1. n \in 1..k /\ n \in 0..(k + 1) /\ n - 1 \in 0..(k + 1) /\ n - 1 # k + 1
        BY <3>2, <2>2
      <4>2. h[n] = g[n] /\ h[n - 1] = g[n - 1]
        BY <3>2, <4>1
      <4>3. QED
        BY <2>1, <4>1, <4>2 DEF Iterates
    <3>3. QED
      BY <3>1, <3>2
  <2>6. h \in Upto(k + 1)
    BY <2>4, <2>5 DEF Iterates
  <2>7. k + 1 \in 0..N
    BY <2>2
  <2>8. QED
    BY <2>6, <2>7
<1>3. N \in S
  <2> HIDE DEF S
  <2>1. \A k \in 0..N : k \in S /\ k < N => k + 1 \in S
    BY <1>2
  <2>2. \A k \in 0..N : k \in S
    BY <1>1, <2>1, BoundedInduction
  <2>3. QED
    BY <2>2
<1>4. QED
  BY <1>3

(* What FlattenSeq computes: the texts up to the i-th, end to end.         *)
FlattenBody(ss, g) == [i \in 1..Len(ss) |-> IF i = 1 THEN ss[i] ELSE g[i - 1] \o ss[i]]

(* FlattenSeq obeys its recursion.                                         *)
LEMMA FlattenRecursion ==
  ASSUME NEW E, NEW ss \in Seq(Seq(E)), ss # << >>
  PROVE  \E g : g = FlattenBody(ss, g) /\ FlattenSeq(ss) = g[Len(ss)]
<1> DEFINE N == Len(ss)
           F == [p \in Seq(E) \X (1..N) |-> p[1] \o ss[p[2]]]
<1>1. N \in Nat \ {0} /\ << >> \in Seq(E) /\ \A i \in 1..N : ss[i] \in Seq(E)
  OBVIOUS
<1>2. F \in [Seq(E) \X (1..N) -> Seq(E)]
  <2>1. ASSUME NEW p \in Seq(E) \X (1..N) PROVE p[1] \o ss[p[2]] \in Seq(E)
    <3>1. p[1] \in Seq(E) /\ ss[p[2]] \in Seq(E)
      BY <1>1
    <3>2. QED
      BY <3>1
  <2>2. QED
    BY <2>1
<1>3. PICK h \in Iterates(N, Seq(E), << >>, F) : TRUE
  <2> HIDE DEF F
  <2> QED
    BY <1>1, <1>2, Iteration, ZenonT(60)
<1> DEFINE g == [i \in 1..N |-> h[i]]
<1>4. ASSUME NEW i \in 1..N
      PROVE  g[i] = IF i = 1 THEN ss[i] ELSE g[i - 1] \o ss[i]
  <2>1. i - 1 \in 0..N /\ h[i - 1] \in Seq(E) /\ h[0] = << >> /\ ss[i] \in Seq(E)
    <3>1. h \in [0..N -> Seq(E)] /\ h[0] = << >>
      <4> HIDE DEF F
      <4> QED
        BY <1>3 DEF Iterates
    <3>2. i - 1 \in 0..N
      BY <1>1
    <3> HIDE DEF F
    <3>3. QED
      BY <1>1, <3>1, <3>2
  <2>2. h[i] = F[<<h[i - 1], i>>]
    <3> HIDE DEF F
    <3> QED
      BY <1>3 DEF Iterates
  <2>3. <<h[i - 1], i>> \in Seq(E) \X (1..N)
    BY <2>1
  <2>4. h[i] = h[i - 1] \o ss[i]
    BY <2>2, <2>3
  <2>5. << >> \o ss[i] = ss[i]
    BY <2>1, ConcatEmptySeq
  <2>6. CASE i = 1
    <3>1. h[i - 1] = << >> /\ g[i] = h[i]
      BY <2>1, <2>6
    <3> HIDE DEF g, F
    <3>2. QED
      BY <2>4, <2>5, <2>6, <3>1
  <2>7. CASE i # 1
    <3>1. i - 1 \in 1..N
      BY <2>7
    <3>2. QED
      BY <2>4, <2>7, <3>1
  <2>8. QED
    BY <2>6, <2>7
<1>5. g = FlattenBody(ss, g)
  <2>1. g = [i \in 1..N |-> IF i = 1 THEN ss[i] ELSE g[i - 1] \o ss[i]]
    BY <1>4
  <2>2. QED
    BY <2>1 DEF FlattenBody
<1> HIDE DEF g
<1> DEFINE f == CHOOSE x : x = FlattenBody(ss, x)
<1>6. f = FlattenBody(ss, f)
  BY <1>5
<1>7. FlattenSeq(ss) = f[Len(ss)]
  BY <1>1 DEF FlattenSeq, FlattenBody
<1>8. QED
  BY <1>6, <1>7

(* A text more at the end of the texts is flattened at the end.            *)
LEMMA FlattenAppend ==
  ASSUME NEW E, NEW ss \in Seq(Seq(E)), NEW t \in Seq(E)
  PROVE  /\ FlattenSeq(<< >>) = << >>
         /\ FlattenSeq(ss) \in Seq(E)
         /\ FlattenSeq(Append(ss, t)) = FlattenSeq(ss) \o t
<1> DEFINE tt == Append(ss, t)
           N == Len(ss)
<1>0. FlattenSeq(<< >>) = << >>
  BY DEF FlattenSeq
<1>1. /\ N \in Nat /\ tt \in Seq(Seq(E)) /\ tt # << >> /\ Len(tt) = N + 1 /\ tt[N + 1] = t
      /\ \A i \in 1..N : tt[i] = ss[i] /\ ss[i] \in Seq(E)
  <2>1. N \in Nat /\ \A i \in 1..N : ss[i] \in Seq(E)
    OBVIOUS
  <2>2. /\ tt \in Seq(Seq(E)) /\ tt # << >> /\ Len(tt) = N + 1 /\ tt[N + 1] = t
        /\ \A i \in 1..N : tt[i] = ss[i]
    BY AppendProperties
  <2>3. QED
    BY <2>1, <2>2
<1>2. PICK g : g = FlattenBody(tt, g) /\ FlattenSeq(tt) = g[N + 1]
  <2> HIDE DEF tt
  <2> QED
    BY <1>1, FlattenRecursion
<1> HIDE DEF tt
<1>3. \A i \in 1..(N + 1) : g[i] = IF i = 1 THEN tt[i] ELSE g[i - 1] \o tt[i]
  BY <1>1, <1>2 DEF FlattenBody
<1>4. CASE ss = << >>
  <2>1. N = 0 /\ FlattenSeq(ss) = << >>
    BY <1>0, <1>4
  <2>2. g[1] = t
    BY <1>1, <1>3, <2>1
  <2>3. << >> \in Seq(E) /\ << >> \o t = t
    BY ConcatEmptySeq
  <2>4. QED
    BY <1>0, <1>2, <2>1, <2>2, <2>3 DEF tt
<1>5. CASE ss # << >>
  <2>1. PICK f : f = FlattenBody(ss, f) /\ FlattenSeq(ss) = f[N]
    BY <1>5, FlattenRecursion
  <2>2. N \in 1..N /\ N + 1 \in 1..(N + 1) /\ N + 1 # 1 /\ (N + 1) - 1 = N
    BY <1>1, <1>5
  <2>3. \A i \in 1..N : f[i] = IF i = 1 THEN ss[i] ELSE f[i - 1] \o ss[i]
    BY <2>1 DEF FlattenBody
  <2> DEFINE S == {i \in 0..N : i = 0 \/ (f[i] = g[i] /\ f[i] \in Seq(E))}
  <2>4. ASSUME NEW i \in 0..N, i \in S, i < N PROVE i + 1 \in S
    <3>1. i + 1 \in 1..N /\ i + 1 \in 1..(N + 1) /\ (i + 1) - 1 = i
      BY <1>1, <2>4
    <3>2. tt[i + 1] = ss[i + 1] /\ ss[i + 1] \in Seq(E)
      BY <1>1, <3>1
    <3>3. /\ f[i + 1] = IF i + 1 = 1 THEN ss[i + 1] ELSE f[i] \o ss[i + 1]
          /\ g[i + 1] = IF i + 1 = 1 THEN ss[i + 1] ELSE g[i] \o ss[i + 1]
      BY <1>3, <2>3, <3>1, <3>2
    <3>4. CASE i = 0
      BY <3>1, <3>2, <3>3, <3>4
    <3>5. CASE i # 0
      <4>1. i + 1 # 1 /\ f[i] = g[i] /\ f[i] \in Seq(E)
        BY <2>4, <3>5
      <4>2. f[i] \o ss[i + 1] \in Seq(E)
        BY <3>2, <4>1
      <4>3. f[i + 1] = f[i] \o ss[i + 1] /\ g[i + 1] = f[i + 1]
        BY <3>3, <4>1
      <4>4. f[i + 1] = g[i + 1] /\ f[i + 1] \in Seq(E) /\ i + 1 \in 0..N
        BY <1>1, <3>1, <4>2, <4>3
      <4>5. QED
        BY <4>4
    <3>6. QED
      BY <3>4, <3>5
  <2>5. N \in S
    <3>1. 0 \in S
      BY <1>1
    <3>2. \A i \in 0..N : i \in S /\ i < N => i + 1 \in S
      BY <2>4
    <3>3. \A i \in 0..N : i \in S
      <4> HIDE DEF S, N
      <4> QED
        BY <1>1, <3>1, <3>2, BoundedInduction
    <3>4. QED
      BY <1>1, <3>3
  <2>6. f[N] = g[N] /\ f[N] \in Seq(E)
    BY <2>2, <2>5
  <2>7. g[N + 1] = g[N] \o t
    BY <1>1, <1>3, <2>2
  <2>8. QED
    BY <1>0, <1>2, <2>1, <2>6, <2>7 DEF tt
<1>6. QED
  BY <1>4, <1>5

(* A sequence of two, made by appending to a sequence of one.              *)
LEMMA TwoLines ==
  ASSUME NEW a, NEW b
  PROVE  Append(<<a>>, b) = <<a, b>> /\ Len(<<a, b>>) = 2
<1> DEFINE S == {a, b}
<1>1. <<a>> \in Seq(S) /\ Len(<<a>>) = 1 /\ <<a>>[1] = a
  OBVIOUS
<1>2. <<a, b>> \in Seq(S) /\ Len(<<a, b>>) = 2 /\ <<a, b>>[1] = a /\ <<a, b>>[2] = b
  OBVIOUS
<1> DEFINE t == Append(<<a>>, b)
<1>3. b \in S
  OBVIOUS
<1> HIDE DEF S
<1>4. t \in Seq(S) /\ Len(t) = 2 /\ t[1] = a /\ t[2] = b
  BY <1>1, <1>3, AppendProperties
<1> HIDE DEF t
<1>5. \A i \in 1..Len(t) : t[i] = <<a, b>>[i]
  <2>1. ASSUME NEW i \in 1..Len(t)
        PROVE  i = 1 \/ i = 2
    BY <1>4
  <2>2. QED
    BY <1>2, <1>4, <2>1
<1>6. t = <<a, b>>
  BY <1>2, <1>4, <1>5, SeqEqual
<1>7. QED
  BY <1>2, <1>6 DEF t

(* Three sequences joined from either side, each over a set of its own.    *)
LEMMA ConcatRegroups ==
  ASSUME NEW S1, NEW S2, NEW S3, NEW p \in Seq(S1), NEW q \in Seq(S2), NEW u \in Seq(S3)
  PROVE  (p \o q) \o u = p \o (q \o u)
<1> DEFINE S == S1 \cup S2 \cup S3
<1>1. S1 \subseteq S /\ S2 \subseteq S /\ S3 \subseteq S
  OBVIOUS
<1> HIDE DEF S
<1>2. p \in Seq(S) /\ q \in Seq(S) /\ u \in Seq(S)
  BY <1>1, SeqMonotonic
<1>3. QED
  BY <1>2, ConcatAssociative, SMTT(40)

=============================================================================
