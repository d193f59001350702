-------------------------- MODULE BitStreams_proofs ---------------------------
(* What is read of what was written, in every state of BitStreams: for every code that a
   table of lengths makes, every message, every order of bytes and every number of bits in
   a byte.  What a step of the writer or of the reader does to its cache and position says
   little by itself; the data do.  So an input is a tape of bits (the stuffing of JPEG left
   out, zeros behind its end), every chunk and every load is a place on it, and IndInv says
   where the writer and the reader are: the bits that were put are those that are out and
   in the cache, the bits in the reader's cache are those behind the ones that were read.
   The lemmas come in this order: induction on data, powers of two, bits and their values,
   sequences of sequences; codes, what each decoder reads of them, what the encoder puts;
   the messages, where their values end; the tape, what fillCache() loads of it; the steps
   of a reader; chunks that go out, the steps of the writer; what the reader is given;
   the invariant and the theorems.                                                     *)
EXTENDS BitStreams, WellFoundedInduction, FiniteSetTheorems, TLAPS

(* Induction on data, without an operator as a parameter: a set of natural numbers that
   is not empty has a least element, and so a set with 0 in it and with n + 1 whenever n
   is in it has all of them.                                                      *)
LEMMA LeastNatural ==
  ASSUME NEW S \in SUBSET Nat, S # {}
  PROVE  \E n \in S : \A m \in S : n <= m
<1> DEFINE R == OpToRel(<, Nat)
<1>1. \E n \in S : \A m \in S : <<m, n>> \notin R
  <2>1. IsWellFoundedOn(R, Nat)
    BY NatLessThanWellFounded
  <2> HIDE DEF R
  <2> QED BY <2>1, WFMin
<1>2. R = {p \in Nat \X Nat : p[1] < p[2]}
  BY DEF OpToRel
<1> HIDE DEF R
<1>3. \A m, n \in Nat : m < n => <<m, n>> \in R
  BY <1>2
<1>4. PICK n \in S : \A m \in S : <<m, n>> \notin R
  BY <1>1
<1>5. \A m \in S : n <= m
  <2> TAKE m \in S
  <2>1. m \in Nat /\ n \in Nat
    OBVIOUS
  <2>2. ~(m < n)
    BY <1>3, <1>4, <2>1
  <2> QED BY <2>1, <2>2
<1> QED BY <1>4, <1>5

(* Induction, with a set in the place of the predicate.                                *)
LEMMA AllNaturals ==
  ASSUME NEW S, 0 \in S, \A n \in Nat : n \in S => n + 1 \in S
  PROVE  Nat \subseteq S
<1> DEFINE Others == {n \in Nat : n \notin S}
<1> SUFFICES ASSUME Others # {} PROVE FALSE
  OBVIOUS
<1>1. PICK n \in Others : \A m \in Others : n <= m
  BY LeastNatural
<1>2. n # 0 /\ n - 1 \in Nat /\ n - 1 \notin Others
  BY <1>1
<1> QED BY <1>1, <1>2

(* The same up to a bound.                                                        *)
LEMMA AllUpTo ==
  ASSUME NEW n \in Nat, NEW S, 0 \in S, \A k \in 0 .. n - 1 : k \in S => k + 1 \in S
  PROVE  0 .. n \subseteq S
<1> DEFINE T == S \cup {k \in Nat : k > n}
<1>1. \A k \in Nat : k \in T => k + 1 \in T
  OBVIOUS
<1>2. Nat \subseteq T
  <2>1. 0 \in T
    OBVIOUS
  <2> HIDE DEF T
  <2> QED BY <1>1, <2>1, AllNaturals
<1> QED BY <1>2

(* There is a function for a recursion on 0 .. n.                                  *)
Recurs(g, n, d, G) == g[0] = d /\ \A k \in 1 .. n : g[k] = G[<<k, g[k - 1]>>]

(* The recursion Recurs(g, n, d, G) has a solution of the right type.                  *)
LEMMA Recursion ==
  ASSUME NEW n \in Nat, NEW D, NEW d \in D, NEW G \in [(1 .. n) \X D -> D]
  PROVE  \E g \in [0 .. n -> D] : Recurs(g, n, d, G)
<1> DEFINE Upto(m) == \E g \in [0 .. m -> D] : g[0] = d /\ \A k \in 1 .. m : g[k] = G[<<k, g[k - 1]>>]
           S == {m \in 0 .. n : Upto(m)}
<1>1. 0 \in S
  <2>1. Upto(0)
    <3> DEFINE g == [k \in 0 .. 0 |-> d]
    <3>1. g \in [0 .. 0 -> D] /\ g[0] = d /\ \A k \in 1 .. 0 : g[k] = G[<<k, g[k - 1]>>]
      OBVIOUS
    <3> HIDE DEF g
    <3> QED BY <3>1
  <2> QED BY <2>1
<1>2. ASSUME NEW m \in 0 .. n - 1, m \in S PROVE m + 1 \in S
  <2>1. PICK g \in [0 .. m -> D] : g[0] = d /\ \A k \in 1 .. m : g[k] = G[<<k, g[k - 1]>>]
    BY <1>2
  <2> DEFINE h == [k \in 0 .. m + 1 |-> IF k <= m THEN g[k] ELSE G[<<m + 1, g[m]>>]]
  <2>2. G[<<m + 1, g[m]>>] \in D
    BY <2>1
  <2>3. h \in [0 .. m + 1 -> D]
    BY <2>1, <2>2
  <2>4. h[0] = d
    BY <2>1
  <2>5. \A k \in 1 .. m + 1 : h[k] = G[<<k, h[k - 1]>>]
    <3> TAKE k \in 1 .. m + 1
    <3>1. CASE k <= m
      <4>1. h[k] = g[k] /\ h[k - 1] = g[k - 1] /\ k \in 1 .. m
        BY <3>1
      <4> HIDE DEF h
      <4> QED BY <2>1, <4>1
    <3>2. CASE k = m + 1
      <4>1. h[k] = G[<<m + 1, g[m]>>] /\ h[k - 1] = g[m]
        BY <3>2
      <4> HIDE DEF h
      <4> QED BY <3>2, <4>1
    <3> QED BY <3>1, <3>2
  <2> HIDE DEF h
  <2>6. Upto(m + 1)
    BY <2>3, <2>4, <2>5
  <2> HIDE DEF Upto
  <2> QED BY <2>6
<1> HIDE DEF S
<1>3. 0 .. n \subseteq S
  BY <1>1, <1>2, AllUpTo
<1> QED BY <1>3 DEF S, Recurs

(* A function whose values keep a type from each to the next has that type up to n.    *)
LEMMA TypedUpTo ==
  ASSUME NEW n \in Nat, NEW D, NEW f, f[0] \in D,
         \A k \in 1 .. n : f[k - 1] \in D => f[k] \in D
  PROVE  \A k \in 0 .. n : f[k] \in D
<1> DEFINE S == {k \in 0 .. n : f[k] \in D}
<1>1. 0 \in S
  OBVIOUS
<1>2. \A k \in 0 .. n - 1 : k \in S => k + 1 \in S
  <2> TAKE k \in 0 .. n - 1
  <2>1. k + 1 \in 1 .. n /\ (k + 1) - 1 = k
    OBVIOUS
  <2> QED BY <2>1
<1>3. 0 .. n \subseteq S
  <2> HIDE DEF S
  <2> QED BY <1>1, <1>2, AllUpTo
<1> QED BY <1>3

(* Two functions that agree at 0, and after each number where they agree, agree up to
   n.                                                                                  *)
LEMMA EqualUpTo ==
  ASSUME NEW n \in Nat, NEW f, NEW g, f[0] = g[0],
         \A k \in 0 .. n - 1 : f[k] = g[k] => f[k + 1] = g[k + 1]
  PROVE  \A k \in 0 .. n : f[k] = g[k]
<1> DEFINE S == {k \in 0 .. n : f[k] = g[k]}
<1>1. 0 \in S
  OBVIOUS
<1>2. \A k \in 0 .. n - 1 : k \in S => k + 1 \in S
  <2> TAKE k \in 0 .. n - 1
  <2>1. k + 1 \in 0 .. n
    OBVIOUS
  <2> QED BY <2>1
<1>3. 0 .. n \subseteq S
  <2> HIDE DEF S
  <2> QED BY <1>1, <1>2, AllUpTo
<1> QED BY <1>3

(* A recursion on all natural numbers.                                             *)
RecursAll(g, d, G) == g[0] = d /\ \A k \in Nat \ {0} : g[k] = G[<<k, g[k - 1]>>]

(* The recursion RecursAll(g, d, G) has a solution on all natural numbers.             *)
LEMMA NatRecursion ==
  ASSUME NEW D, NEW d \in D, NEW G \in [(Nat \ {0}) \X D -> D]
  PROVE  \E g \in [Nat -> D] : RecursAll(g, d, G)
<1> DEFINE h(n) == CHOOSE g \in [0 .. n -> D] : Recurs(g, n, d, G)
           g == [n \in Nat |-> h(n)[n]]
<1>1. ASSUME NEW n \in Nat PROVE h(n) \in [0 .. n -> D] /\ Recurs(h(n), n, d, G)
  <2> DEFINE Gn == [p \in (1 .. n) \X D |-> G[p]]
  <2>1. Gn \in [(1 .. n) \X D -> D] /\ \A k \in 1 .. n, o \in D : Gn[<<k, o>>] = G[<<k, o>>]
    OBVIOUS
  <2> HIDE DEF Gn
  <2>2. PICK f \in [0 .. n -> D] : Recurs(f, n, d, Gn)
    BY <2>1, Recursion
  <2>3. \A k \in 1 .. n : f[k - 1] \in D
    OBVIOUS
  <2>4. Recurs(f, n, d, G)
    BY <2>1, <2>2, <2>3 DEF Recurs
  <2> QED BY <2>4
<1> HIDE DEF h
<1>2. ASSUME NEW n \in Nat PROVE \A k \in 0 .. n : h(n)[k] = h(n + 1)[k]
  <2> DEFINE S == {k \in 0 .. n : h(n)[k] = h(n + 1)[k]}
  <2>1. /\ h(n)[0] = d /\ \A k \in 1 .. n : h(n)[k] = G[<<k, h(n)[k - 1]>>]
        /\ h(n + 1)[0] = d /\ \A k \in 1 .. n + 1 : h(n + 1)[k] = G[<<k, h(n + 1)[k - 1]>>]
    BY <1>1 DEF Recurs
  <2>2. \A k \in 0 .. n - 1 : k \in S => k + 1 \in S
    <3> SUFFICES ASSUME NEW k \in 0 .. n - 1, h(n)[k] = h(n + 1)[k]
                 PROVE  h(n)[k + 1] = h(n + 1)[k + 1]
      OBVIOUS
    <3>1. k + 1 \in 1 .. n /\ k + 1 \in 1 .. n + 1 /\ (k + 1) - 1 = k
      OBVIOUS
    <3> QED BY <2>1, <3>1
  <2>3. 0 \in S
    BY <2>1
  <2>4. 0 .. n \subseteq S
    <3> HIDE DEF S
    <3> QED BY <2>2, <2>3, AllUpTo
  <2> QED BY <2>4
<1>3. g \in [Nat -> D]
  BY <1>1
<1>4. g[0] = d
  BY <1>1 DEF Recurs
<1>5. \A k \in Nat \ {0} : g[k] = G[<<k, g[k - 1]>>]
  <2> TAKE k \in Nat \ {0}
  <2>1. k - 1 \in Nat /\ (k - 1) + 1 = k /\ k \in 1 .. k /\ k - 1 \in 0 .. k - 1
    OBVIOUS
  <2>2. g[k] = G[<<k, h(k)[k - 1]>>]
    BY <1>1, <2>1 DEF Recurs
  <2>3. h(k)[k - 1] = h(k - 1)[k - 1]
    BY <1>2, <2>1
  <2>4. g[k - 1] = h(k - 1)[k - 1]
    BY <2>1
  <2> QED BY <2>2, <2>3, <2>4
<1> HIDE DEF g
<1> QED BY <1>3, <1>4, <1>5 DEF RecursAll

(* Powers of two are what they should be.                                          *)
LEMMA TwoToIs ==
  /\ TwoTo[0] = 1
  /\ \A n \in Nat : TwoTo[n] \in Nat \ {0} /\ TwoTo[n + 1] = 2 * TwoTo[n]
<1> DEFINE G == [p \in (Nat \ {0}) \X Nat |-> 2 * p[2]]
           Rec(f) == [n \in Nat |-> IF n = 0 THEN 1 ELSE 2 * f[n - 1]]
<1>1. G \in [(Nat \ {0}) \X Nat -> Nat]
  OBVIOUS
<1>2. \A k \in Nat \ {0}, o \in Nat : G[<<k, o>>] = 2 * o
  OBVIOUS
<1> HIDE DEF G
<1>3. PICK g \in [Nat -> Nat] : RecursAll(g, 1, G)
  BY <1>1, NatRecursion
<1>4. g = Rec(g)
  <2>1. \A n \in Nat : g[n] = IF n = 0 THEN 1 ELSE 2 * g[n - 1]
    <3>1. \A n \in Nat \ {0} : g[n - 1] \in Nat
      BY <1>3
    <3>2. g[0] = 1 /\ \A n \in Nat \ {0} : g[n] = 2 * g[n - 1]
      BY <1>2, <1>3, <3>1 DEF RecursAll
    <3> QED BY <3>2
  <2> QED BY <1>3, <2>1
<1>5. TwoTo = CHOOSE f : f = Rec(f)
  BY DEF TwoTo
<1>6. TwoTo = Rec(TwoTo)
  <2> HIDE DEF Rec
  <2> QED BY <1>4, <1>5
<1> DEFINE f == TwoTo
<1>7. \A n \in Nat : f[n] = IF n = 0 THEN 1 ELSE 2 * f[n - 1]
  <2>1. f = Rec(f)
    BY <1>6
  <2> HIDE DEF f
  <2> QED BY <2>1
<1> HIDE DEF f
<1>8. f[0] = 1 /\ \A n \in Nat : f[n + 1] = 2 * f[n]
  <2>1. \A n \in Nat : n + 1 \in Nat /\ n + 1 # 0 /\ (n + 1) - 1 = n
    OBVIOUS
  <2> QED BY <1>7, <2>1
<1> DEFINE S == {n \in Nat : f[n] \in Nat \ {0}}
<1>9. Nat \subseteq S
  <2>1. 0 \in S /\ \A n \in Nat : n \in S => n + 1 \in S
    BY <1>8
  <2> HIDE DEF S
  <2> QED BY <2>1, AllNaturals
<1> QED BY <1>8, <1>9 DEF f
-----------------------------------------------------------------------------
(* Bits.                                                                           *)
Bit == {0, 1}

(* Sequences of the same length with the same items are the same.                      *)
LEMMA SameSequence ==
  ASSUME NEW S, NEW s \in Seq(S), NEW t \in Seq(S), Len(s) = Len(t),
         \A i \in 1 .. Len(s) : s[i] = t[i]
  PROVE  s = t
OBVIOUS

(* The items of a piece of a sequence.                                                 *)
LEMMA BeginningIs ==
  ASSUME NEW S, NEW s \in Seq(S), NEW m \in Nat, NEW n \in Nat, n <= Len(s), m <= n
  PROVE  /\ SubSeq(s, m + 1, n) \in Seq(S) /\ Len(SubSeq(s, m + 1, n)) = n - m
         /\ \A i \in 1 .. n - m : SubSeq(s, m + 1, n)[i] = s[m + i]
OBVIOUS

(* The value of bits, one bit after the other.  ValueOf(s)[i] is that of the first i.  *)
ValueOf(s) ==
  LET value[i \in 0 .. Len(s)] == IF i = 0 THEN 0 ELSE 2 * value[i - 1] + s[i]
  IN  value

(* The values of the beginnings of a bit sequence, and FromBits() as the last of them. *)
LEMMA ValueSteps ==
  ASSUME NEW s \in Seq(Bit)
  PROVE  /\ ValueOf(s) \in [0 .. Len(s) -> Nat] /\ ValueOf(s)[0] = 0
         /\ \A i \in 1 .. Len(s) : ValueOf(s)[i] = 2 * ValueOf(s)[i - 1] + s[i]
         /\ FromBits(s) = ValueOf(s)[Len(s)]
<1> DEFINE n == Len(s)
           G == [p \in (1 .. n) \X Nat |-> 2 * p[2] + s[p[1]]]
           Rec(f) == [i \in 0 .. n |-> IF i = 0 THEN 0 ELSE 2 * f[i - 1] + s[i]]
           O == ValueOf(s)
<1>1. n \in Nat /\ \A i \in 1 .. n : s[i] \in {0, 1}
  BY DEF Bit
<1>2. G \in [(1 .. n) \X Nat -> Nat] /\ \A i \in 1 .. n, o \in Nat : G[<<i, o>>] = 2 * o + s[i]
  BY <1>1
<1>3. O = CHOOSE f : f = Rec(f)
  BY DEF ValueOf
<1>4. FromBits(s) = O[n]
  BY DEF ValueOf, FromBits
<1> HIDE DEF G, n, O
<1>5. PICK g \in [0 .. n -> Nat] : Recurs(g, n, 0, G)
  BY <1>1, <1>2, Recursion
<1>6. g = Rec(g)
  <2>1. \A i \in 0 .. n : g[i] = IF i = 0 THEN 0 ELSE 2 * g[i - 1] + s[i]
    <3>1. \A i \in 1 .. n : g[i - 1] \in Nat
      BY <1>1, <1>5
    <3>2. g[0] = 0 /\ \A i \in 1 .. n : g[i] = 2 * g[i - 1] + s[i]
      BY <1>2, <1>5, <3>1 DEF Recurs
    <3> QED BY <1>1, <3>2
  <2> QED BY <1>5, <2>1
<1>7. O = Rec(O)
  <2> HIDE DEF Rec
  <2> QED BY <1>3, <1>6
<1>8. \A i \in 0 .. n : O[i] = IF i = 0 THEN 0 ELSE 2 * O[i - 1] + s[i]
  BY <1>7
<1>9. O[0] = 0 /\ \A i \in 1 .. n : O[i] = 2 * O[i - 1] + s[i]
  <2>1. 0 \in 0 .. n /\ \A i \in 1 .. n : i \in 0 .. n /\ i # 0
    BY <1>1
  <2> QED BY <1>8, <2>1
<1>10. \A i \in 0 .. n : O[i] \in Nat
  <2>1. \A i \in 1 .. n : O[i - 1] \in Nat => O[i] \in Nat
    <3> SUFFICES ASSUME NEW i \in 1 .. n, O[i - 1] \in Nat PROVE O[i] \in Nat
      OBVIOUS
    <3>1. s[i] \in {0, 1} /\ O[i] = 2 * O[i - 1] + s[i]
      BY <1>1, <1>9
    <3> QED BY <3>1
  <2>2. O[0] \in Nat
    BY <1>9
  <2> QED BY Zenon, <1>1, <2>1, <2>2, TypedUpTo
<1>11. O \in [0 .. n -> Nat]
  <2>1. DOMAIN O = 0 .. n /\ O = [i \in 0 .. n |-> O[i]]
    BY <1>7
  <2> QED BY <1>10, <2>1
<1> QED BY <1>4, <1>9, <1>11 DEF n, O

(* A value of i bits is below the i-th power of two.                                *)
LEMMA ValueBelow ==
  ASSUME NEW s \in Seq(Bit), NEW i \in 0 .. Len(s)
  PROVE  ValueOf(s)[i] \in Nat /\ ValueOf(s)[i] < TwoTo[i]
<1> DEFINE v == ValueOf(s)
           S == {k \in 0 .. Len(s) : v[k] < TwoTo[k]}
<1>1. 0 \in S
  <2>1. v[0] = 0 /\ 0 \in 0 .. Len(s) /\ 0 < TwoTo[0]
    BY ValueSteps, TwoToIs
  <2> HIDE DEF v
  <2> QED BY <2>1
<1>2. \A k \in 0 .. Len(s) - 1 : k \in S => k + 1 \in S
  <2> SUFFICES ASSUME NEW k \in 0 .. Len(s) - 1, v[k] < TwoTo[k] PROVE v[k + 1] < TwoTo[k + 1]
    OBVIOUS
  <2>1. k \in Nat /\ k + 1 \in 1 .. Len(s) /\ (k + 1) - 1 = k /\ s[k + 1] \in {0, 1} /\ k \in 0 .. Len(s)
    BY DEF Bit
  <2>2. v[k + 1] = 2 * v[k] + s[k + 1] /\ v[k] \in Nat
    BY <2>1, ValueSteps
  <2>3. TwoTo[k + 1] = 2 * TwoTo[k] /\ TwoTo[k] \in Nat
    BY <2>1, TwoToIs
  <2> HIDE DEF v
  <2> QED BY <2>1, <2>2, <2>3
<1>3. 0 .. Len(s) \subseteq S
  <2> HIDE DEF S
  <2>1. Len(s) \in Nat
    OBVIOUS
  <2> QED BY <1>1, <1>2, <2>1, AllUpTo
<1> QED BY <1>3, ValueSteps

(* The value of bits is below the power of two of their number.                        *)
LEMMA FromBitsBelow ==
  ASSUME NEW s \in Seq(Bit)
  PROVE  FromBits(s) \in Nat /\ FromBits(s) < TwoTo[Len(s)]
BY ValueBelow, ValueSteps

(* The value of the first bits does not depend on what follows.                      *)
LEMMA ValueOfBeginning ==
  ASSUME NEW s \in Seq(Bit), NEW t \in Seq(Bit), NEW n \in Nat, n <= Len(s), n <= Len(t),
         \A i \in 1 .. n : s[i] = t[i]
  PROVE  \A i \in 0 .. n : ValueOf(s)[i] = ValueOf(t)[i]
<1> DEFINE v == ValueOf(s)
           w == ValueOf(t)
           S == {k \in 0 .. n : v[k] = w[k]}
<1>1. 0 \in S
  BY ValueSteps
<1>2. \A k \in 0 .. n - 1 : k \in S => k + 1 \in S
  <2> SUFFICES ASSUME NEW k \in 0 .. n - 1, v[k] = w[k] PROVE v[k + 1] = w[k + 1]
    OBVIOUS
  <2>1. k + 1 \in 1 .. n /\ k + 1 \in 1 .. Len(s) /\ k + 1 \in 1 .. Len(t) /\ (k + 1) - 1 = k
    OBVIOUS
  <2>2. v[k + 1] = 2 * v[k] + s[k + 1] /\ w[k + 1] = 2 * w[k] + t[k + 1]
    BY <2>1, ValueSteps
  <2> HIDE DEF v, w
  <2> QED BY <2>1, <2>2
<1>3. 0 .. n \subseteq S
  <2> HIDE DEF S
  <2> QED BY <1>1, <1>2, AllUpTo
<1> QED BY <1>3

(* The value of the first n bits, cut off.                                             *)
LEMMA ValueOfTaken ==
  ASSUME NEW s \in Seq(Bit), NEW n \in 0 .. Len(s)
  PROVE  FromBits(SubSeq(s, 1, n)) = ValueOf(s)[n]
<1> DEFINE t == SubSeq(s, 1, n)
<1>1. n \in Nat /\ t \in Seq(Bit) /\ Len(t) = n /\ \A i \in 1 .. n : t[i] = s[i]
  OBVIOUS
<1> HIDE DEF t
<1>2. FromBits(t) = ValueOf(t)[n]
  BY <1>1, ValueSteps
<1>3. ValueOf(t)[n] = ValueOf(s)[n]
  BY <1>1, ValueOfBeginning
<1> QED BY <1>2, <1>3 DEF t
-----------------------------------------------------------------------------
(* Numbers.                                                                        *)
LEMMA TimesNat == ASSUME NEW a \in Nat, NEW b \in Nat PROVE a * b \in Nat
OBVIOUS

(* The row after row a ends no later than row b begins, when a comes before b.         *)
LEMMA NextRow ==
  ASSUME NEW a \in Nat, NEW b \in Nat, NEW n \in Nat, a < b
  PROVE  a * n + n <= b * n
<1>1. PICK d \in Nat : b = a + 1 + d
  BY b - a - 1 \in Nat
<1>2. b * n = a * n + n + d * n
  BY <1>1
<1>3. d * n \in Nat /\ a * n \in Nat /\ b * n \in Nat
  BY TimesNat
<1> QED BY <1>2, <1>3

(* A place in rows of n is in one row and one column only.                             *)
LEMMA SamePlace ==
  ASSUME NEW n \in Nat, NEW a \in Nat, NEW b \in Nat, NEW i \in 0 .. n - 1, NEW k \in 0 .. n - 1,
         a * n + i = b * n + k
  PROVE  a = b /\ i = k
<1>1. a * n \in Nat /\ b * n \in Nat
  BY TimesNat
<1>2. ~(a < b)
  BY <1>1, NextRow
<1>3. ~(b < a)
  BY <1>1, NextRow
<1> QED BY <1>1, <1>2, <1>3

(* Quotient and remainder.                                                             *)
LEMMA DivMod ==
  ASSUME NEW x \in Nat, NEW n \in Nat \ {0}
  PROVE  /\ x \div n \in Nat /\ x % n \in 0 .. n - 1
         /\ x = (x \div n) * n + (x % n)
OBVIOUS

(* Quotient and remainder of what was put together from them.                          *)
LEMMA QuotientIs ==
  ASSUME NEW n \in Nat \ {0}, NEW a \in Nat, NEW i \in 0 .. n - 1
  PROVE  a * n + i \in Nat /\ (a * n + i) \div n = a /\ (a * n + i) % n = i
<1> DEFINE x == a * n + i
           q == x \div n
           r == x % n
<1>1. a * n \in Nat /\ i \in Nat
  BY TimesNat
<1>2. x \in Nat
  BY <1>1
<1>3. q \in Nat /\ r \in 0 .. n - 1 /\ x = q * n + r
  BY <1>2, DivMod
<1> HIDE DEF q, r
<1>4. a * n + i = q * n + r
  BY <1>3
<1>5. a = q /\ i = r
  BY <1>3, <1>4, SamePlace
<1> QED BY <1>2, <1>5 DEF q, r

(* A number is twice its half, and its last bit.                                       *)
LEMMA HalfAndRest ==
  ASSUME NEW a \in Nat
  PROVE  a \div 2 \in Nat /\ a % 2 \in {0, 1} /\ a = 2 * (a \div 2) + (a % 2)
OBVIOUS

(* Half and last bit of a number that a bit was appended to.                           *)
LEMMA BitAppended ==
  ASSUME NEW a \in Nat, NEW b \in {0, 1}
  PROVE  2 * a + b \in Nat /\ (2 * a + b) \div 2 = a /\ (2 * a + b) % 2 = b
OBVIOUS

(* To divide by 2 and by t, in either order, is to divide by 2 * t.                    *)
LEMMA DividedTwice ==
  ASSUME NEW a \in Nat, NEW t \in Nat \ {0}
  PROVE  a \div (2 * t) = (a \div t) \div 2 /\ a \div (2 * t) = (a \div 2) \div t
<1>1. 2 * t \in Nat \ {0}
  OBVIOUS
<1>2. a \div (2 * t) = (a \div t) \div 2
  <2> DEFINE q == a \div t
             r == a % t
             p == q \div 2
             b == q % 2
  <2>1. q \in Nat /\ r \in 0 .. t - 1 /\ a = q * t + r
    BY DivMod
  <2> HIDE DEF q, r
  <2>2. p \in Nat /\ b \in {0, 1} /\ q = 2 * p + b
    BY <2>1, HalfAndRest
  <2> HIDE DEF p, b
  <2>3. a = p * (2 * t) + (b * t + r) /\ b * t + r \in 0 .. 2 * t - 1
    <3>1. CASE b = 0
      <4>1. q * t = p * (2 * t) /\ b * t = 0
        BY <2>2, <3>1
      <4> QED BY <2>1, <4>1
    <3>2. CASE b = 1
      <4>1. q * t = p * (2 * t) + t /\ b * t = t
        BY <2>2, <3>2
      <4>2. p * (2 * t) \in Nat
        BY <2>2, TimesNat
      <4> QED BY <2>1, <4>1, <4>2
    <3> QED BY <2>2, <3>1, <3>2
  <2>4. a \div (2 * t) = p
    BY <1>1, <2>2, <2>3, QuotientIs
  <2> QED BY <2>4 DEF p, q
<1>3. a \div (2 * t) = (a \div 2) \div t
  <2> DEFINE c == a \div 2
             e == a % 2
             q == c \div t
             r == c % t
  <2>1. c \in Nat /\ e \in {0, 1} /\ a = 2 * c + e
    BY HalfAndRest
  <2> HIDE DEF c, e
  <2>2. q \in Nat /\ r \in 0 .. t - 1 /\ c = q * t + r
    BY <2>1, DivMod
  <2> HIDE DEF q, r
  <2>3. q * t \in Nat /\ q * (2 * t) = 2 * (q * t)
    BY <2>2, TimesNat
  <2>4. a = q * (2 * t) + (2 * r + e) /\ 2 * r + e \in 0 .. 2 * t - 1
    BY <2>1, <2>2, <2>3
  <2>5. a \div (2 * t) = q
    BY <1>1, <2>2, <2>4, QuotientIs
  <2> QED BY <2>5 DEF q, c
<1> QED BY <1>2, <1>3

(* The bits of a value, and the value of those bits again.                          *)
LEMMA BitsAre ==
  ASSUME NEW v \in Nat, NEW n \in Nat
  PROVE  /\ ToBits(v, n) \in Seq(Bit) /\ Len(ToBits(v, n)) = n
         /\ \A i \in 1 .. n : ToBits(v, n)[i] = (v \div TwoTo[n - i]) % 2
<1>1. \A i \in 1 .. n : (v \div TwoTo[n - i]) % 2 \in Bit
  <2> TAKE i \in 1 .. n
  <2>1. TwoTo[n - i] \in Nat \ {0}
    BY TwoToIs
  <2>2. v \div TwoTo[n - i] \in Nat
    BY <2>1, DivMod
  <2> QED BY <2>2, HalfAndRest DEF Bit
<1> QED BY <1>1 DEF ToBits

(* The bits of a value have that value, and so have its first ones: FromBits() undoes
   ToBits().                                                                           *)
LEMMA ValueOfItsBits ==
  ASSUME NEW n \in Nat, NEW v \in Nat, v < TwoTo[n]
  PROVE  FromBits(ToBits(v, n)) = v /\ \A i \in 0 .. n : ValueOf(ToBits(v, n))[i] = v \div TwoTo[n - i]
<1> DEFINE s == ToBits(v, n)
           w == ValueOf(s)
           S == {i \in 0 .. n : w[i] = v \div TwoTo[n - i]}
<1>0. s \in Seq(Bit) /\ Len(s) = n /\ \A i \in 1 .. n : s[i] = (v \div TwoTo[n - i]) % 2
  BY BitsAre
<1> HIDE DEF s
<1>1. w[0] = 0 /\ \A i \in 1 .. n : w[i] = 2 * w[i - 1] + s[i]
  BY <1>0, ValueSteps
<1> HIDE DEF w
<1>2. 0 \in S
  <2>1. TwoTo[n] \in Nat \ {0} /\ n - 0 = n
    BY TwoToIs
  <2>2. v = 0 * TwoTo[n] + v /\ v \in 0 .. TwoTo[n] - 1
    BY <2>1
  <2>3. v \div TwoTo[n] = 0
    BY <2>1, <2>2, QuotientIs
  <2> QED BY <1>1, <2>1, <2>3
<1>3. \A i \in 0 .. n - 1 : i \in S => i + 1 \in S
  <2> SUFFICES ASSUME NEW i \in 0 .. n - 1, w[i] = v \div TwoTo[n - i]
               PROVE  w[i + 1] = v \div TwoTo[n - (i + 1)]
    OBVIOUS
  <2> DEFINE t == TwoTo[n - (i + 1)]
  <2>1. n - (i + 1) \in Nat /\ (n - (i + 1)) + 1 = n - i
    OBVIOUS
  <2>2. t \in Nat \ {0} /\ TwoTo[n - i] = 2 * t
    BY <2>1, TwoToIs
  <2>3. i + 1 \in 1 .. n /\ (i + 1) - 1 = i
    OBVIOUS
  <2>4. w[i + 1] = 2 * w[i] + ((v \div t) % 2)
    BY <1>0, <1>1, <2>3
  <2> HIDE DEF t
  <2>5. w[i] = (v \div t) \div 2
    BY ZenonT(60), <2>2, DividedTwice
  <2>6. v \div t \in Nat
    BY <2>2, DivMod
  <2>7. w[i + 1] = v \div t
    BY <2>4, <2>5, <2>6, HalfAndRest
  <2> QED BY <2>7 DEF t
<1>4. 0 .. n \subseteq S
  <2> HIDE DEF S
  <2> QED BY <1>2, <1>3, AllUpTo
<1>5. w[n] = v
  <2>1. w[n] = v \div TwoTo[n - n] /\ n - n = 0
    BY <1>4
  <2> QED BY <2>1, TwoToIs
<1>6. FromBits(s) = w[n]
  BY <1>0, ValueSteps DEF w
<1> QED BY <1>4, <1>5, <1>6 DEF s, w

(* The value of the first i bits is the value of all, divided.                      *)
LEMMA ValueDivided ==
  ASSUME NEW s \in Seq(Bit), NEW i \in 0 .. Len(s)
  PROVE  FromBits(s) \div TwoTo[Len(s) - i] = ValueOf(s)[i]
<1> DEFINE n == Len(s)
           w == ValueOf(s)
           S == {k \in 0 .. n - i : w[i + k] \div TwoTo[k] = w[i]}
<1>1. n \in Nat /\ i \in Nat /\ i <= n /\ \A k \in 1 .. n : s[k] \in {0, 1}
  BY DEF Bit
<1>2. w \in [0 .. n -> Nat] /\ \A k \in 1 .. n : w[k] = 2 * w[k - 1] + s[k]
  BY ValueSteps
<1>3. FromBits(s) = w[n]
  BY ValueSteps
<1> HIDE DEF n, w
<1>4. 0 \in S
  <2>1. i + 0 = i /\ 0 \in 0 .. n - i /\ w[i] \in Nat
    BY <1>1, <1>2
  <2>2. w[i] \div 1 = w[i]
    BY <2>1
  <2> QED BY <2>1, <2>2, TwoToIs
<1>5. \A k \in 0 .. (n - i) - 1 : k \in S => k + 1 \in S
  <2> SUFFICES ASSUME NEW k \in 0 .. (n - i) - 1, w[i + k] \div TwoTo[k] = w[i]
               PROVE  w[i + (k + 1)] \div TwoTo[k + 1] = w[i]
    BY <1>1
  <2>1. /\ k \in Nat /\ i + (k + 1) \in 1 .. n /\ (i + (k + 1)) - 1 = i + k /\ i + k \in 0 .. n
    BY <1>1
  <2> DEFINE a == w[i + (k + 1)]
             t == TwoTo[k]
  <2>2. a = 2 * w[i + k] + s[i + (k + 1)] /\ w[i + k] \in Nat /\ s[i + (k + 1)] \in {0, 1}
    BY <1>1, <1>2, <2>1
  <2>3. t \in Nat \ {0} /\ TwoTo[k + 1] = 2 * t
    BY <2>1, TwoToIs
  <2> HIDE DEF t, a
  <2>4. a \in Nat /\ a \div 2 = w[i + k]
    BY <2>2, BitAppended
  <2>5. a \div (2 * t) = w[i + k] \div t
    BY <2>3, <2>4, DividedTwice
  <2> QED BY <2>3, <2>5 DEF t, a
<1>6. n - i \in Nat
  BY <1>1
<1>7. 0 .. n - i \subseteq S
  <2> HIDE DEF S
  <2> QED BY <1>4, <1>5, <1>6, AllUpTo
<1>8. n - i \in S /\ i + (n - i) = n
  BY <1>1, <1>6, <1>7
<1> QED BY <1>3, <1>8 DEF n, w

(* ToBits() undoes FromBits().                                                         *)
LEMMA BitsOfItsValue ==
  ASSUME NEW s \in Seq(Bit)
  PROVE  ToBits(FromBits(s), Len(s)) = s
<1> DEFINE n == Len(s)
           v == FromBits(s)
           w == ValueOf(s)
<1>1. n \in Nat /\ v \in Nat
  BY FromBitsBelow
<1>2. ToBits(v, n) \in Seq(Bit) /\ Len(ToBits(v, n)) = n
  BY <1>1, BitsAre
<1>3. ASSUME NEW i \in 1 .. n PROVE ToBits(v, n)[i] = s[i]
  <2>1. ToBits(v, n)[i] = (v \div TwoTo[n - i]) % 2
    BY <1>1, BitsAre
  <2>2. v \div TwoTo[n - i] = w[i]
    BY ValueDivided
  <2>3. w[i] = 2 * w[i - 1] + s[i] /\ w[i - 1] \in Nat /\ s[i] \in {0, 1}
    <3>1. i - 1 \in 0 .. n
      BY <1>1
    <3>2. s[i] \in {0, 1}
      BY DEF Bit
    <3> QED BY <3>1, <3>2, ValueSteps
  <2> HIDE DEF v, w
  <2>4. w[i] % 2 = s[i]
    BY <2>3, BitAppended
  <2> QED BY <2>1, <2>2, <2>4
<1> QED BY <1>2, <1>3, SameSequence

(* Bits of the same number that have the same value are the same.                    *)
LEMMA SameValue ==
  ASSUME NEW s \in Seq(Bit), NEW t \in Seq(Bit), Len(s) = Len(t), FromBits(s) = FromBits(t)
  PROVE  s = t
BY BitsOfItsValue

(* Reverse() keeps the items and, twice, the order.                                    *)
LEMMA Turned ==
  ASSUME NEW S, NEW s \in Seq(S)
  PROVE  /\ Reverse(s) \in Seq(S) /\ Len(Reverse(s)) = Len(s) /\ Reverse(Reverse(s)) = s
         /\ \A i \in 1 .. Len(s) : Reverse(s)[i] = s[Len(s) - i + 1]
BY DEF Reverse
-----------------------------------------------------------------------------
(* Sequences put one behind the other.                                             *)
LEMMA ConcatIs ==
  ASSUME NEW T, NEW s \in Seq(T), NEW t \in Seq(T)
  PROVE  /\ s \o t \in Seq(T) /\ Len(s \o t) = Len(s) + Len(t)
         /\ \A i \in 1 .. Len(s) : (s \o t)[i] = s[i]
         /\ \A i \in 1 .. Len(t) : (s \o t)[Len(s) + i] = t[i]
OBVIOUS

(* To append nothing, or to append to nothing, changes nothing.                        *)
LEMMA ConcatEmpty ==
  ASSUME NEW T, NEW s \in Seq(T)
  PROVE  s \o << >> = s /\ << >> \o s = s
OBVIOUS

(* The items of two sequences in a row.                                                *)
LEMMA ConcatItem ==
  ASSUME NEW T, NEW s \in Seq(T), NEW t \in Seq(T), NEW i \in 1 .. Len(s) + Len(t)
  PROVE  (s \o t)[i] = IF i <= Len(s) THEN s[i] ELSE t[i - Len(s)]
OBVIOUS

(* Concatenation is associative.                                                       *)
LEMMA ConcatThree ==
  ASSUME NEW T, NEW s \in Seq(T), NEW t \in Seq(T), NEW u \in Seq(T)
  PROVE  s \o (t \o u) = (s \o t) \o u
<1> DEFINE a == s \o (t \o u)
           b == (s \o t) \o u
           st == s \o t
           tu == t \o u
<1>1. /\ Len(s) \in Nat /\ Len(t) \in Nat /\ Len(u) \in Nat
      /\ st \in Seq(T) /\ Len(st) = Len(s) + Len(t) /\ tu \in Seq(T) /\ Len(tu) = Len(t) + Len(u)
  OBVIOUS
<1>2. /\ \A i \in 1 .. Len(s) + Len(t) : st[i] = IF i <= Len(s) THEN s[i] ELSE t[i - Len(s)]
      /\ \A i \in 1 .. Len(t) + Len(u) : tu[i] = IF i <= Len(t) THEN t[i] ELSE u[i - Len(t)]
  BY ConcatItem
<1>3. a = s \o tu /\ b = st \o u
  OBVIOUS
<1> HIDE DEF a, b, st, tu
<1>4. a \in Seq(T) /\ b \in Seq(T) /\ Len(a) = Len(s) + Len(tu) /\ Len(b) = Len(st) + Len(u)
  BY <1>1, <1>3, ConcatIs
<1>5. /\ \A i \in 1 .. Len(a) : a[i] = IF i <= Len(s) THEN s[i] ELSE tu[i - Len(s)]
      /\ \A i \in 1 .. Len(b) : b[i] = IF i <= Len(st) THEN st[i] ELSE u[i - Len(st)]
  BY SMTT(40), <1>1, <1>3, <1>4, ConcatItem
<1>6. ASSUME NEW i \in 1 .. Len(a) PROVE a[i] = b[i]
  <2>1. i \in 1 .. Len(b) /\ Len(a) = Len(s) + Len(t) + Len(u) /\ i \in Nat
    BY <1>1, <1>4
  <2>2. CASE i <= Len(s)
    <3>1. i <= Len(st) /\ i \in 1 .. Len(s) + Len(t)
      BY <1>1, <2>1, <2>2
    <3>2. a[i] = s[i] /\ b[i] = st[i] /\ st[i] = s[i]
      BY <1>2, <1>5, <2>1, <2>2, <3>1
    <3> QED BY <3>2
  <2>3. CASE i > Len(s) /\ i <= Len(st)
    <3>1. ~(i <= Len(s)) /\ i \in 1 .. Len(s) + Len(t) /\ i - Len(s) \in 1 .. Len(t) + Len(u) /\ i - Len(s) <= Len(t)
      BY <1>1, <2>1, <2>3
    <3>2. a[i] = tu[i - Len(s)] /\ tu[i - Len(s)] = t[i - Len(s)]
      BY <1>2, <1>5, <3>1
    <3>3. b[i] = st[i] /\ st[i] = t[i - Len(s)]
      BY <1>2, <1>5, <2>1, <2>3, <3>1
    <3> QED BY <3>2, <3>3
  <2>4. CASE i > Len(st)
    <3>1. ~(i <= Len(s)) /\ ~(i <= Len(st)) /\ i - Len(s) \in 1 .. Len(t) + Len(u) /\ ~(i - Len(s) <= Len(t))
      BY <1>1, <2>1, <2>4
    <3>2. a[i] = tu[i - Len(s)] /\ tu[i - Len(s)] = u[(i - Len(s)) - Len(t)]
      BY <1>2, <1>5, <3>1
    <3>3. b[i] = u[i - Len(st)] /\ i - Len(st) = (i - Len(s)) - Len(t)
      BY <1>1, <1>5, <2>1, <3>1
    <3> QED BY <3>2, <3>3
  <2> QED BY <1>1, <2>1, <2>2, <2>3, <2>4
<1>7. Len(a) = Len(b)
  BY <1>1, <1>4
<1> QED BY <1>4, <1>6, <1>7, SameSequence DEF a, b

ListsOver(seqs, n, T) == DOMAIN seqs = 1 .. n /\ \A i \in 1 .. n : seqs[i] \in Seq(T)

FlattensBy(seqs, n, F) ==
  /\ F[0] = << >> /\ FlattenSeq(seqs) = F[n]
  /\ \A i \in 1 .. n : F[i] = F[i - 1] \o seqs[i]

(* FlattenSeq() of lists that are not none is the last of the concatenations of its
   beginnings.                                                                         *)
LEMMA FlattenRecursion ==
  ASSUME NEW T, NEW n \in Nat \ {0}, NEW seqs, ListsOver(seqs, n, T)
  PROVE  \E F \in [0 .. n -> Seq(T)] : FlattensBy(seqs, n, F)
<1> DEFINE D == Seq(T)
           G == [p \in (1 .. n) \X D |-> p[2] \o seqs[p[1]]]
           Rec(f) == [i \in 1 .. n |-> IF i = 1 THEN seqs[i] ELSE f[i - 1] \o seqs[i]]
<1> USE DEF ListsOver
<1>1. Len(seqs) = n
  OBVIOUS
<1>2. \A k \in 1 .. n, o \in D : G[<<k, o>>] = o \o seqs[k] /\ o \o seqs[k] \in D
  <2> TAKE k \in 1 .. n, o \in D
  <2>1. o \in Seq(T) /\ seqs[k] \in Seq(T)
    OBVIOUS
  <2>2. o \o seqs[k] \in Seq(T)
    BY <2>1
  <2>3. G[<<k, o>>] = o \o seqs[k]
    OBVIOUS
  <2> QED BY <2>2, <2>3
<1>3. G \in [(1 .. n) \X D -> D] /\ << >> \in D
  OBVIOUS
<1> HIDE DEF G, D
<1>0. 1 \in 1 .. n /\ 1 - 1 = 0
  OBVIOUS
<1>4. PICK g \in [0 .. n -> D] : Recurs(g, n, << >>, G)
  BY <1>3, Recursion
<1>5. g[0] = << >> /\ \A i \in 1 .. n : g[i] = g[i - 1] \o seqs[i]
  <2>1. \A i \in 1 .. n : g[i - 1] \in D
    BY <1>4
  <2> QED BY <1>2, <1>4, <2>1 DEF Recurs
<1> DEFINE f == [i \in 1 .. n |-> g[i]]
<1>6. f = Rec(f)
  <2>1. g[1] = seqs[1]
    <3>1. g[1] = << >> \o seqs[1] /\ seqs[1] \in Seq(T)
      BY <1>0, <1>5
    <3> QED BY <3>1
  <2>2. \A i \in 1 .. n : g[i] = IF i = 1 THEN seqs[i] ELSE f[i - 1] \o seqs[i]
    <3> TAKE i \in 1 .. n
    <3>1. CASE i = 1
      BY <2>1, <3>1
    <3>2. CASE i # 1
      <4>1. i - 1 \in 1 .. n
        BY <3>2
      <4>2. f[i - 1] = g[i - 1]
        BY <4>1
      <4> HIDE DEF f
      <4> QED BY <1>5, <3>2, <4>2
    <3> QED BY <3>1, <3>2
  <2> QED BY <2>2
<1> DEFINE O == CHOOSE h : h = Rec(h)
<1>7. O = Rec(O)
  <2> HIDE DEF Rec, f
  <2> QED BY <1>6
<1>8. FlattenSeq(seqs) = O[n]
  BY <1>1 DEF FlattenSeq
<1> HIDE DEF O, f
<1>9. O[1] = seqs[1] /\ \A i \in 2 .. n : O[i] = O[i - 1] \o seqs[i]
  <2>1. \A i \in 1 .. n : Rec(O)[i] = IF i = 1 THEN seqs[i] ELSE O[i - 1] \o seqs[i]
    OBVIOUS
  <2> HIDE DEF Rec
  <2>2. \A i \in 1 .. n : O[i] = IF i = 1 THEN seqs[i] ELSE O[i - 1] \o seqs[i]
    BY <1>7, <2>1
  <2>3. O[1] = seqs[1]
    BY <1>0, <2>2
  <2>4. \A i \in 2 .. n : i \in 1 .. n /\ i # 1
    OBVIOUS
  <2> QED BY <2>2, <2>3, <2>4
<1> HIDE DEF Rec
<1> DEFINE S == {0} \cup {i \in 1 .. n : O[i] = g[i]}
<1>10. 0 .. n \subseteq S
  <2>1. \A k \in 0 .. n - 1 : k \in S => k + 1 \in S
    <3> SUFFICES ASSUME NEW k \in 0 .. n - 1, k \in S PROVE k + 1 \in S
      OBVIOUS
    <3>1. CASE k = 0
      <4>1. g[1] = << >> \o seqs[1] /\ seqs[1] \in Seq(T)
        BY <1>0, <1>5
      <4>2. O[1] = g[1]
        BY <1>9, <4>1
      <4> QED BY <3>1, <4>2
    <3>2. CASE k # 0
      <4>1. k \in 1 .. n /\ k + 1 \in 2 .. n /\ k + 1 \in 1 .. n /\ (k + 1) - 1 = k
        BY <3>2
      <4>2. O[k] = g[k]
        BY <3>2
      <4>3. O[k + 1] = O[k] \o seqs[k + 1] /\ g[k + 1] = g[k] \o seqs[k + 1]
        BY <1>5, <1>9, <4>1
      <4> QED BY <4>1, <4>2, <4>3
    <3> QED BY <3>1, <3>2
  <2>2. 0 \in S
    OBVIOUS
  <2> HIDE DEF S
  <2> QED BY <2>1, <2>2, AllUpTo
<1>11. FlattenSeq(seqs) = g[n]
  <2>1. n \in S /\ n # 0
    BY <1>10
  <2> QED BY <1>8, <2>1
<1> QED BY <1>4, <1>5, <1>11 DEF D, FlattensBy

(* What FlattenSeq makes of sequences, step by step, of none too.                     *)
LEMMA FlatSteps ==
  ASSUME NEW T, NEW seqs \in Seq(Seq(T))
  PROVE  \E F \in [0 .. Len(seqs) -> Seq(T)] : FlattensBy(seqs, Len(seqs), F)
<1> DEFINE n == Len(seqs)
<1>1. CASE n = 0
  <2>1. seqs = << >>
    BY <1>1
  <2> DEFINE F == [i \in 0 .. 0 |-> << >>]
  <2>2. F \in [0 .. 0 -> Seq(T)] /\ F[0] = << >>
    OBVIOUS
  <2>3. FlattenSeq(seqs) = << >>
    BY <1>1, <2>1 DEF FlattenSeq
  <2> HIDE DEF F
  <2>4. FlattensBy(seqs, n, F)
    BY <1>1, <2>2, <2>3 DEF FlattensBy
  <2> QED BY <1>1, <2>2, <2>4
<1>2. CASE n # 0
  <2>1. n \in Nat \ {0} /\ ListsOver(seqs, n, T)
    BY <1>2 DEF ListsOver
  <2> QED BY <2>1, FlattenRecursion
<1> QED BY <1>1, <1>2

(* Flat() is a sequence of what is in the sequences.                                   *)
LEMMA FlatIs ==
  ASSUME NEW T, NEW seqs \in Seq(Seq(T))
  PROVE  Flat(seqs) \in Seq(T)
<1>1. PICK F \in [0 .. Len(seqs) -> Seq(T)] : FlattensBy(seqs, Len(seqs), F)
  BY FlatSteps
<1>2. Len(seqs) \in 0 .. Len(seqs)
  OBVIOUS
<1> QED BY <1>1, <1>2 DEF FlattensBy, Flat

(* Flat() of nothing is nothing.                                                       *)
LEMMA FlatEmpty == Flat(<< >>) = << >>
BY DEF Flat, FlattenSeq

(* Flat() of lists in a row is their Flat() in a row.                                  *)
LEMMA FlatAppend ==
  ASSUME NEW T, NEW a \in Seq(Seq(T)), NEW b \in Seq(Seq(T))
  PROVE  Flat(a \o b) = Flat(a) \o Flat(b)
<1> DEFINE ab == a \o b
           m == Len(a)
           n == Len(b)
<1>1. m \in Nat /\ n \in Nat
  OBVIOUS
<1>2. ab \in Seq(Seq(T)) /\ Len(ab) = m + n /\ (\A i \in 1 .. m : ab[i] = a[i]) /\ \A i \in 1 .. n : ab[m + i] = b[i]
  BY ConcatIs
<1>3. PICK F \in [0 .. m -> Seq(T)] : FlattensBy(a, m, F)
  BY FlatSteps
<1>4. PICK G \in [0 .. n -> Seq(T)] : FlattensBy(b, n, G)
  BY FlatSteps
<1> HIDE DEF ab
<1>5. PICK H \in [0 .. Len(ab) -> Seq(T)] : FlattensBy(ab, Len(ab), H)
  BY <1>2, FlatSteps
<1>6. /\ F[0] = << >> /\ Flat(a) = F[m] /\ \A i \in 1 .. m : F[i] = F[i - 1] \o a[i]
      /\ G[0] = << >> /\ Flat(b) = G[n] /\ \A i \in 1 .. n : G[i] = G[i - 1] \o b[i]
      /\ H[0] = << >> /\ Flat(ab) = H[m + n] /\ \A i \in 1 .. m + n : H[i] = H[i - 1] \o ab[i]
  BY <1>2, <1>3, <1>4, <1>5 DEF FlattensBy, Flat
<1> HIDE DEF m, n
<1>7. \A i \in 0 .. m : H[i] = F[i]
  <2>1. \A i \in 0 .. m - 1 : H[i] = F[i] => H[i + 1] = F[i + 1]
    <3> TAKE i \in 0 .. m - 1
    <3>1. i + 1 \in 1 .. m /\ i + 1 \in 1 .. m + n /\ (i + 1) - 1 = i
      BY <1>1
    <3>2. ab[i + 1] = a[i + 1]
      BY <1>2, <3>1
    <3>3. F[i + 1] = F[i] \o a[i + 1]
      BY <1>6, <3>1
    <3>4. H[i + 1] = H[i] \o ab[i + 1]
      BY <1>6, <3>1
    <3> QED BY <3>2, <3>3, <3>4
  <2>2. H[0] = F[0]
    BY <1>6
  <2>3. m \in Nat
    BY <1>1
  <2> QED BY ZenonT(60), <2>1, <2>2, <2>3, EqualUpTo
<1>8. H[m] = F[m] /\ F[m] \in Seq(T)
  <2>1. m \in 0 .. m
    BY <1>1
  <2> QED BY <1>3, <1>7, <2>1 DEF m
<1> DEFINE h == [i \in 0 .. n |-> H[m + i]]
           k == [i \in 0 .. n |-> F[m] \o G[i]]
<1>9. \A i \in 0 .. n : h[i] = k[i]
  <2>1. h[0] = k[0]
    <3>1. m + 0 = m /\ 0 \in 0 .. n
      BY <1>1
    <3>2. F[m] \o << >> = F[m]
      BY <1>8, ConcatEmpty
    <3> QED BY <1>6, <1>8, <3>1, <3>2
  <2>2. \A i \in 0 .. n - 1 : h[i] = k[i] => h[i + 1] = k[i + 1]
    <3> TAKE i \in 0 .. n - 1
    <3>1. i + 1 \in 1 .. n /\ m + (i + 1) \in 1 .. m + n /\ (i + 1) - 1 = i /\ (m + (i + 1)) - 1 = m + i /\ i \in 0 .. n
      BY <1>1
    <3>2. H[m + (i + 1)] = H[m + i] \o b[i + 1] /\ G[i + 1] = G[i] \o b[i + 1]
      BY ZenonT(60), <1>2, <1>6, <3>1
    <3>3. G[i] \in Seq(T) /\ b[i + 1] \in Seq(T)
      <4>1. G[i] \in Seq(T)
        BY <1>4, <3>1 DEF n
      <4>2. b[i + 1] \in Seq(T)
        BY <3>1 DEF n
      <4> QED BY <4>1, <4>2
    <3>4. F[m] \o (G[i] \o b[i + 1]) = (F[m] \o G[i]) \o b[i + 1]
      <4> DEFINE u == F[m]
                 v == G[i]
                 w == b[i + 1]
      <4>1. u \in Seq(T) /\ v \in Seq(T) /\ w \in Seq(T)
        BY <1>8, <3>3
      <4> HIDE DEF u, v, w
      <4>2. u \o (v \o w) = (u \o v) \o w
        BY SMTT(40), <4>1, ConcatThree
      <4> QED BY <4>2 DEF u, v, w
    <3>5. i + 1 \in 0 .. n
      BY <3>1
    <3> QED BY <3>1, <3>2, <3>4, <3>5
  <2> HIDE DEF h, k
  <2> QED BY ZenonT(60), <1>1, <2>1, <2>2, EqualUpTo
<1>10. H[m + n] = F[m] \o G[n]
  <2>1. n \in 0 .. n
    BY <1>1
  <2> QED BY <1>9, <2>1
<1> QED BY <1>6, <1>10 DEF ab

(* Flat() of one sequence is that sequence.                                            *)
LEMMA FlatOne ==
  ASSUME NEW T, NEW s \in Seq(T)
  PROVE  Flat(<< s >>) = s
<1>1. << s >> \in Seq(Seq(T)) /\ Len(<< s >>) = 1 /\ << s >>[1] = s
  OBVIOUS
<1>2. PICK F \in [0 .. 1 -> Seq(T)] : FlattensBy(<< s >>, 1, F)
  BY <1>1, FlatSteps
<1>3. F[0] = << >> /\ F[1] = F[0] \o s /\ Flat(<< s >>) = F[1]
  BY <1>1, <1>2 DEF FlattensBy, Flat
<1> QED BY <1>3, ConcatEmpty
-----------------------------------------------------------------------------
(* Codes of a length: the first of them, how many there are before, and the room there is. *)
LEMMA FirstIs ==
  ASSUME NEW lens \in [Lengths -> Nat]
  PROVE  /\ FirstCode(lens) \in [Lengths -> Nat] /\ FirstCode(lens)[1] = 0
         /\ \A l \in 2 .. MaxCodeLength : FirstCode(lens)[l] = 2 * (FirstCode(lens)[l - 1] + lens[l - 1])
<1> DEFINE n == MaxCodeLength
           G == [p \in (1 .. n) \X Nat |-> IF p[1] = 1 THEN 0 ELSE 2 * (p[2] + lens[p[1] - 1])]
           Rec(f) == [l \in Lengths |-> IF l = 1 THEN 0 ELSE 2 * (f[l - 1] + lens[l - 1])]
           O == FirstCode(lens)
<1>1. n \in Nat \ {0} /\ Lengths = 1 .. n /\ \A l \in 1 .. n : lens[l] \in Nat
  BY PrefixCodesAssumption DEF Lengths
<1>2. \A l \in 1 .. n, o \in Nat : G[<<l, o>>] = (IF l = 1 THEN 0 ELSE 2 * (o + lens[l - 1])) /\ G[<<l, o>>] \in Nat
  <2> TAKE l \in 1 .. n, o \in Nat
  <2>1. l = 1 \/ (l # 1 /\ l - 1 \in 1 .. n)
    BY <1>1
  <2>2. l # 1 => lens[l - 1] \in Nat
    BY <1>1, <2>1
  <2> QED BY <2>2
<1>3. G \in [(1 .. n) \X Nat -> Nat]
  <2> DEFINE g(l, o) == IF l = 1 THEN 0 ELSE 2 * (o + lens[l - 1])
  <2>1. \A p \in (1 .. n) \X Nat : G[p] \in Nat
    BY <1>2
  <2> QED BY <2>1
<1>4. O = CHOOSE f : f = Rec(f)
  BY DEF FirstCode
<1> HIDE DEF G, n, O
<1>5. PICK g \in [0 .. n -> Nat] : Recurs(g, n, 0, G)
  <2>1. n \in Nat
    BY <1>1
  <2> QED BY <1>3, <2>1, Recursion
<1> DEFINE h == [l \in 1 .. n |-> g[l]]
<1>6. h = Rec(h)
  <2>1. \A l \in 1 .. n : g[l] = IF l = 1 THEN 0 ELSE 2 * (g[l - 1] + lens[l - 1])
    <3>1. \A l \in 1 .. n : g[l - 1] \in Nat
      BY <1>1, <1>5
    <3> QED BY <1>2, <1>5, <3>1 DEF Recurs
  <2>2. \A l \in 1 .. n : l = 1 \/ h[l - 1] = g[l - 1]
    BY <1>1
  <2> QED BY <1>1, <2>1, <2>2
<1>7. O = Rec(O)
  <2> HIDE DEF Rec, h
  <2> QED BY <1>4, <1>6
<1>8. /\ O = [l \in 1 .. n |-> O[l]]
      /\ \A l \in 1 .. n : O[l] = IF l = 1 THEN 0 ELSE 2 * (O[l - 1] + lens[l - 1])
  BY <1>1, <1>7
<1>9. O[1] = 0 /\ \A l \in 2 .. n : O[l] = 2 * (O[l - 1] + lens[l - 1])
  <2>1. 1 \in 1 .. n /\ \A l \in 2 .. n : l \in 1 .. n /\ l # 1
    BY <1>1
  <2> QED BY <1>8, <2>1
<1> DEFINE T == [k \in 0 .. n |-> IF k = 0 THEN 0 ELSE O[k]]
<1>10. \A k \in 0 .. n : T[k] \in Nat
  <2>1. T[0] \in Nat
    BY <1>1
  <2>2. \A k \in 1 .. n : T[k - 1] \in Nat => T[k] \in Nat
    <3> SUFFICES ASSUME NEW k \in 1 .. n, T[k - 1] \in Nat PROVE O[k] \in Nat
      OBVIOUS
    <3>1. CASE k = 1
      BY <1>9, <3>1
    <3>2. CASE k # 1
      <4>1. k \in 2 .. n /\ k - 1 \in 1 .. n /\ k - 1 \in 0 .. n /\ k - 1 # 0
        BY <1>1, <3>2
      <4>2. O[k - 1] \in Nat /\ lens[k - 1] \in Nat
        BY <1>1, <4>1
      <4>3. O[k] = 2 * (O[k - 1] + lens[k - 1])
        BY <1>9, <4>1
      <4> QED BY <4>2, <4>3
    <3> QED BY <3>1, <3>2
  <2>3. n \in Nat
    BY <1>1
  <2> HIDE DEF T
  <2> QED BY Zenon, <2>1, <2>2, <2>3, TypedUpTo
<1>11. O \in [Lengths -> Nat]
  <2>1. \A l \in 1 .. n : O[l] \in Nat
    <3>1. \A l \in 1 .. n : l \in 0 .. n /\ l # 0
      BY <1>1
    <3> QED BY <1>10, <3>1
  <2> QED BY <1>1, <1>8, <2>1
<1> QED BY <1>9, <1>11 DEF n, O

(* The recursion of Room(): how many codes of each length are left.                    *)
LEMMA RoomIs ==
  ASSUME NEW lens \in [Lengths -> Nat]
  PROVE  /\ Room(lens) \in [Lengths -> Int] /\ Room(lens)[1] = 2
         /\ \A l \in 2 .. MaxCodeLength : Room(lens)[l] = 2 * (Room(lens)[l - 1] - lens[l - 1])
<1> DEFINE n == MaxCodeLength
           G == [p \in (1 .. n) \X Int |-> IF p[1] = 1 THEN 2 ELSE 2 * (p[2] - lens[p[1] - 1])]
           Rec(f) == [l \in Lengths |-> IF l = 1 THEN 2 ELSE 2 * (f[l - 1] - lens[l - 1])]
           O == Room(lens)
<1>1. n \in Nat \ {0} /\ Lengths = 1 .. n /\ \A l \in 1 .. n : lens[l] \in Nat
  BY PrefixCodesAssumption DEF Lengths
<1>2. \A l \in 1 .. n, o \in Int : G[<<l, o>>] = (IF l = 1 THEN 2 ELSE 2 * (o - lens[l - 1])) /\ G[<<l, o>>] \in Int
  <2> TAKE l \in 1 .. n, o \in Int
  <2>1. l = 1 \/ (l # 1 /\ l - 1 \in 1 .. n)
    BY <1>1
  <2>2. l # 1 => lens[l - 1] \in Nat
    BY <1>1, <2>1
  <2> QED BY <2>2
<1>3. G \in [(1 .. n) \X Int -> Int]
  <2> DEFINE g(l, o) == IF l = 1 THEN 2 ELSE 2 * (o - lens[l - 1])
  <2>1. \A p \in (1 .. n) \X Int : G[p] \in Int
    BY <1>2
  <2> QED BY <2>1
<1>4. O = CHOOSE f : f = Rec(f)
  BY DEF Room
<1> HIDE DEF G, n, O
<1>5. PICK g \in [0 .. n -> Int] : Recurs(g, n, 0, G)
  <2> DEFINE D == Int
  <2>1. n \in Nat /\ 0 \in D /\ G \in [(1 .. n) \X D -> D]
    BY <1>1, <1>3
  <2> HIDE DEF D
  <2>2. \E g \in [0 .. n -> D] : Recurs(g, n, 0, G)
    BY <2>1, Recursion
  <2> QED BY <2>2 DEF D
<1> DEFINE h == [l \in 1 .. n |-> g[l]]
<1>6. h = Rec(h)
  <2>1. \A l \in 1 .. n : g[l] = IF l = 1 THEN 2 ELSE 2 * (g[l - 1] - lens[l - 1])
    <3>1. \A l \in 1 .. n : g[l - 1] \in Int
      BY <1>1, <1>5
    <3> QED BY <1>2, <1>5, <3>1 DEF Recurs
  <2>2. \A l \in 1 .. n : l = 1 \/ h[l - 1] = g[l - 1]
    BY <1>1
  <2> QED BY <1>1, <2>1, <2>2
<1>7. O = Rec(O)
  <2> HIDE DEF Rec, h
  <2> QED BY <1>4, <1>6
<1>8. /\ O = [l \in 1 .. n |-> O[l]]
      /\ \A l \in 1 .. n : O[l] = IF l = 1 THEN 2 ELSE 2 * (O[l - 1] - lens[l - 1])
  BY <1>1, <1>7
<1>9. O[1] = 2 /\ \A l \in 2 .. n : O[l] = 2 * (O[l - 1] - lens[l - 1])
  <2>1. 1 \in 1 .. n /\ \A l \in 2 .. n : l \in 1 .. n /\ l # 1
    BY <1>1
  <2> QED BY <1>8, <2>1
<1> DEFINE T == [k \in 0 .. n |-> IF k = 0 THEN 0 ELSE O[k]]
<1>10. \A k \in 0 .. n : T[k] \in Int
  <2>1. T[0] \in Int
    BY <1>1
  <2>2. \A k \in 1 .. n : T[k - 1] \in Int => T[k] \in Int
    <3> SUFFICES ASSUME NEW k \in 1 .. n, T[k - 1] \in Int PROVE O[k] \in Int
      OBVIOUS
    <3>1. CASE k = 1
      BY <1>9, <3>1
    <3>2. CASE k # 1
      <4>1. k \in 2 .. n /\ k - 1 \in 1 .. n /\ k - 1 \in 0 .. n /\ k - 1 # 0
        BY <1>1, <3>2
      <4>2. O[k - 1] \in Int /\ lens[k - 1] \in Nat
        BY <1>1, <4>1
      <4>3. O[k] = 2 * (O[k - 1] - lens[k - 1])
        BY <1>9, <4>1
      <4> QED BY <4>2, <4>3
    <3> QED BY <3>1, <3>2
  <2>3. n \in Nat
    BY <1>1
  <2> HIDE DEF T
  <2> QED BY Zenon, <2>1, <2>2, <2>3, TypedUpTo
<1>11. O \in [Lengths -> Int]
  <2>1. \A l \in 1 .. n : O[l] \in Int
    <3>1. \A l \in 1 .. n : l \in 0 .. n /\ l # 0
      BY <1>1
    <3> QED BY <1>10, <3>1
  <2> QED BY <1>1, <1>8, <2>1
<1> QED BY <1>9, <1>11 DEF n, O

(* The recursion of NumUpTo(): how many codes there are up to each length.             *)
LEMMA NumIs ==
  ASSUME NEW lens \in [Lengths -> Nat]
  PROVE  /\ NumUpTo(lens) \in [0 .. MaxCodeLength -> Nat] /\ NumUpTo(lens)[0] = 0
         /\ \A l \in Lengths : NumUpTo(lens)[l] = NumUpTo(lens)[l - 1] + lens[l]
<1> DEFINE n == MaxCodeLength
           G == [p \in (1 .. n) \X Nat |-> p[2] + lens[p[1]]]
           Rec(f) == [l \in 0 .. n |-> IF l = 0 THEN 0 ELSE f[l - 1] + lens[l]]
           O == NumUpTo(lens)
<1>1. n \in Nat \ {0} /\ Lengths = 1 .. n /\ \A l \in 1 .. n : lens[l] \in Nat
  BY PrefixCodesAssumption DEF Lengths
<1>2. G \in [(1 .. n) \X Nat -> Nat] /\ \A i \in 1 .. n, o \in Nat : G[<<i, o>>] = o + lens[i]
  BY SMTT(40), <1>1
<1>3. O = CHOOSE f : f = Rec(f)
  BY DEF NumUpTo
<1> HIDE DEF G, n, O
<1>5. PICK g \in [0 .. n -> Nat] : Recurs(g, n, 0, G)
  BY <1>1, <1>2, Recursion
<1>6. g = Rec(g)
  <2>1. \A i \in 0 .. n : g[i] = IF i = 0 THEN 0 ELSE g[i - 1] + lens[i]
    <3>1. \A i \in 1 .. n : g[i - 1] \in Nat
      BY <1>1, <1>5
    <3>2. g[0] = 0 /\ \A i \in 1 .. n : g[i] = g[i - 1] + lens[i]
      BY <1>2, <1>5, <3>1 DEF Recurs
    <3> QED BY <1>1, <3>2
  <2> QED BY <1>5, <2>1
<1>7. O = Rec(O)
  <2> HIDE DEF Rec
  <2> QED BY <1>3, <1>6
<1>8. \A i \in 0 .. n : O[i] = IF i = 0 THEN 0 ELSE O[i - 1] + lens[i]
  BY <1>7
<1>9. O[0] = 0 /\ \A i \in 1 .. n : O[i] = O[i - 1] + lens[i]
  <2>1. 0 \in 0 .. n /\ \A i \in 1 .. n : i \in 0 .. n /\ i # 0
    BY <1>1
  <2> QED BY <1>8, <2>1
<1>10. \A i \in 0 .. n : O[i] \in Nat
  <2>1. \A i \in 1 .. n : O[i - 1] \in Nat => O[i] \in Nat
    <3> SUFFICES ASSUME NEW i \in 1 .. n, O[i - 1] \in Nat PROVE O[i] \in Nat
      OBVIOUS
    <3>1. lens[i] \in Nat /\ O[i] = O[i - 1] + lens[i]
      BY <1>1, <1>9
    <3> QED BY <3>1
  <2>2. O[0] \in Nat /\ n \in Nat
    BY <1>1, <1>9
  <2> QED BY Zenon, <2>1, <2>2, TypedUpTo
<1>11. O \in [0 .. n -> Nat]
  <2>1. O = [i \in 0 .. n |-> O[i]]
    BY <1>7
  <2> QED BY <1>10, <2>1
<1> QED BY <1>1, <1>9, <1>11 DEF n, O

(* There is room for the codes of every length: none is too large for its length.    *)
LEMMA CodesFit ==
  ASSUME NEW lens \in [Lengths -> Nat], Accepted(lens)
  PROVE  \A l \in Lengths : FirstCode(lens)[l] + lens[l] <= TwoTo[l]
<1> DEFINE n == MaxCodeLength
           F == FirstCode(lens)
           R == Room(lens)
           S == {0} \cup {l \in 1 .. n : R[l] = TwoTo[l] - F[l]}
<1>1. n \in Nat \ {0} /\ Lengths = 1 .. n /\ \A l \in 1 .. n : lens[l] \in Nat
  BY PrefixCodesAssumption DEF Lengths
<1>2. /\ F[1] = 0 /\ \A l \in 1 .. n : F[l] \in Nat
      /\ \A l \in 2 .. n : F[l] = 2 * (F[l - 1] + lens[l - 1])
  BY <1>1, FirstIs
<1>3. R[1] = 2 /\ \A l \in 2 .. n : R[l] = 2 * (R[l - 1] - lens[l - 1])
  BY RoomIs
<1>4. \A l \in 1 .. n : lens[l] <= R[l]
  BY <1>1 DEF Accepted
<1> HIDE DEF n, F, R
<1>5. \A k \in 0 .. n - 1 : k \in S => k + 1 \in S
  <2> SUFFICES ASSUME NEW k \in 0 .. n - 1, k \in S PROVE R[k + 1] = TwoTo[k + 1] - F[k + 1]
    BY <1>1
  <2>1. CASE k = 0
    <3>1. TwoTo[1] = 2
      BY TwoToIs
    <3> QED BY <1>2, <1>3, <2>1, <3>1
  <2>2. CASE k # 0
    <3>1. k \in 1 .. n /\ k + 1 \in 2 .. n /\ (k + 1) - 1 = k /\ k \in Nat
      BY <1>1, <2>2
    <3>2. R[k] = TwoTo[k] - F[k]
      BY <3>1
    <3>3. R[k + 1] = 2 * (R[k] - lens[k]) /\ F[k + 1] = 2 * (F[k] + lens[k])
      BY <1>2, <1>3, <3>1
    <3>4. TwoTo[k + 1] = 2 * TwoTo[k] /\ TwoTo[k] \in Nat /\ F[k] \in Nat /\ lens[k] \in Nat
      BY <1>1, <1>2, <3>1, TwoToIs
    <3> QED BY <3>2, <3>3, <3>4
  <2> QED BY <2>1, <2>2
<1>6. 0 .. n \subseteq S
  <2> HIDE DEF S
  <2>1. 0 \in S /\ n \in Nat
    BY <1>1 DEF S
  <2> QED BY <1>5, <2>1, AllUpTo
<1>7. \A l \in 1 .. n : R[l] = TwoTo[l] - F[l] /\ TwoTo[l] \in Nat
  <2> TAKE l \in 1 .. n
  <2>1. l \in 0 .. n /\ l # 0 /\ l \in Nat
    BY <1>1
  <2> QED BY <1>6, <2>1, TwoToIs
<1>8. ASSUME NEW l \in 1 .. n PROVE F[l] + lens[l] <= TwoTo[l]
  <2>1. R[l] = TwoTo[l] - F[l] /\ TwoTo[l] \in Nat /\ lens[l] <= R[l] /\ F[l] \in Nat /\ lens[l] \in Nat
    BY <1>1, <1>2, <1>4, <1>7
  <2> QED BY <2>1
<1> QED BY <1>1, <1>8 DEF F

(* The numbers of shorter codes grow, and every code is the i-th of some length.      *)
LEMMA NumGrows ==
  ASSUME NEW lens \in [Lengths -> Nat], NEW k \in 0 .. MaxCodeLength, NEW l \in 0 .. MaxCodeLength, k <= l
  PROVE  NumUpTo(lens)[k] <= NumUpTo(lens)[l]
<1> DEFINE n == MaxCodeLength
           N == NumUpTo(lens)
           S == {d \in 0 .. n : k + d <= n => N[k] <= N[k + d]}
<1>1. n \in Nat \ {0} /\ Lengths = 1 .. n /\ \A i \in 1 .. n : lens[i] \in Nat
  BY PrefixCodesAssumption DEF Lengths
<1>2. /\ \A i \in 0 .. n : N[i] \in Nat
      /\ \A i \in 1 .. n : N[i] = N[i - 1] + lens[i]
  BY <1>1, NumIs
<1> HIDE DEF n, N
<1>3. 0 \in S
  <2>1. k + 0 = k /\ 0 \in 0 .. n
    BY <1>1 DEF n
  <2>2. N[k] <= N[k]
    BY <1>2 DEF n
  <2> QED BY <2>1, <2>2
<1>4. \A d \in 0 .. n - 1 : d \in S => d + 1 \in S
  <2> SUFFICES ASSUME NEW d \in 0 .. n - 1, d \in S, k + (d + 1) <= n PROVE N[k] <= N[k + (d + 1)]
    BY <1>1
  <2>1. k \in 0 .. n /\ d \in Nat
    BY <1>1 DEF n
  <2>2. k + (d + 1) \in 1 .. n /\ (k + (d + 1)) - 1 = k + d /\ k + d \in 0 .. n
    BY <1>1, <2>1
  <2>3. N[k + (d + 1)] = N[k + d] + lens[k + (d + 1)] /\ N[k] <= N[k + d]
    BY <1>2, <2>1, <2>2
  <2>4. N[k + d] \in Nat /\ N[k] \in Nat /\ lens[k + (d + 1)] \in Nat
    BY <1>1, <1>2, <2>1, <2>2
  <2> QED BY <2>3, <2>4
<1>5. 0 .. n \subseteq S
  <2> HIDE DEF S
  <2>1. n \in Nat
    BY <1>1
  <2> QED BY <1>3, <1>4, <2>1, AllUpTo
<1>6. l - k \in 0 .. n /\ k + (l - k) = l /\ l <= n
  BY <1>1 DEF n
<1> QED BY <1>5, <1>6 DEF n, N

(* Each number of a code belongs to one of the lengths.                                *)
LEMMA LengthOfNumber ==
  ASSUME NEW lens \in [Lengths -> Nat], NEW id \in 1 .. Total(lens)
  PROVE  \E l \in Lengths : id - NumUpTo(lens)[l - 1] \in 1 .. lens[l]
<1> DEFINE n == MaxCodeLength
           N == NumUpTo(lens)
           S == {l \in 0 .. n : id <= N[l]}
<1>1. n \in Nat \ {0} /\ Lengths = 1 .. n /\ \A i \in 1 .. n : lens[i] \in Nat
  BY PrefixCodesAssumption DEF Lengths
<1>2. /\ N[0] = 0 /\ \A i \in 0 .. n : N[i] \in Nat
      /\ \A i \in 1 .. n : N[i] = N[i - 1] + lens[i]
  BY <1>1, NumIs
<1>3. id \in 1 .. N[n]
  BY DEF Total
<1> HIDE DEF n, N
<1>4. n \in S /\ S \in SUBSET Nat
  BY <1>1, <1>2, <1>3
<1>5. PICK l \in S : \A k \in S : l <= k
  <2> HIDE DEF S
  <2> QED BY <1>4, LeastNatural
<1>6. l # 0
  BY <1>2, <1>3, <1>5
<1>7. l \in 1 .. n /\ l - 1 \in 0 .. n
  BY <1>1, <1>5, <1>6
<1>8. l - 1 \notin S
  BY <1>1, <1>5, <1>7
<1>9. /\ N[l - 1] < id /\ id <= N[l] /\ N[l] = N[l - 1] + lens[l]
      /\ N[l - 1] \in Nat /\ N[l] \in Nat /\ lens[l] \in Nat
  BY SMTT(40), <1>1, <1>2, <1>3, <1>5, <1>7, <1>8
<1>10. id - N[l - 1] \in 1 .. lens[l]
  <2>1. id \in Int
    BY <1>2, <1>3
  <2> QED BY <1>9, <2>1
<1> QED BY <1>1, <1>7, <1>10 DEF N

(* generateCodeSymbols(): code i of length l comes after all that are shorter.        *)
LEMMA SymbolsAre ==
  ASSUME NEW lens \in [Lengths -> Nat]
  PROVE  LET symbols == Symbols(lens, FirstCode(lens)) IN
         /\ symbols \in Seq([code : Nat, len : Nat]) /\ Len(symbols) = Total(lens)
         /\ \A l \in Lengths : \A i \in 1 .. lens[l] :
              symbols[NumUpTo(lens)[l - 1] + i] = [code |-> FirstCode(lens)[l] + i - 1, len |-> l]
<1> DEFINE n == MaxCodeLength
           N == NumUpTo(lens)
           F == FirstCode(lens)
           T == [code : Nat, len : Nat]
           seqs == [l \in Lengths |-> [i \in 1 .. lens[l] |-> [code |-> F[l] + i - 1, len |-> l]]]
<1>1. n \in Nat \ {0} /\ Lengths = 1 .. n /\ \A l \in 1 .. n : lens[l] \in Nat
  BY PrefixCodesAssumption DEF Lengths
<1>2. \A l \in 1 .. n : F[l] \in Nat
  BY <1>1, FirstIs
<1>3. /\ N[0] = 0 /\ \A i \in 0 .. n : N[i] \in Nat
      /\ \A i \in 1 .. n : N[i] = N[i - 1] + lens[i]
  BY <1>1, NumIs
<1>4. Symbols(lens, F) = FlattenSeq(seqs)
  BY DEF Symbols
<1>5. N[n] = Total(lens)
  BY DEF Total
<1> HIDE DEF n, N, F
<1>6. ASSUME NEW l \in 1 .. n PROVE seqs[l] \in Seq(T) /\ Len(seqs[l]) = lens[l]
                                  /\ \A i \in 1 .. lens[l] : seqs[l][i] = [code |-> F[l] + i - 1, len |-> l]
  <2>1. lens[l] \in Nat /\ F[l] \in Nat /\ l \in Nat
    BY <1>1, <1>2
  <2>2. seqs[l] = [i \in 1 .. lens[l] |-> [code |-> F[l] + i - 1, len |-> l]]
    BY <1>1
  <2>3. \A i \in 1 .. lens[l] : [code |-> F[l] + i - 1, len |-> l] \in T
    BY <2>1
  <2> HIDE DEF seqs, T
  <2> QED BY <2>1, <2>2, <2>3
<1>7. ListsOver(seqs, n, T)
  <2>1. DOMAIN seqs = 1 .. n
    BY <1>1
  <2> HIDE DEF seqs, T
  <2> QED BY <1>6, <2>1 DEF ListsOver
<1> HIDE DEF seqs, T
<1>8. PICK G \in [0 .. n -> Seq(T)] : FlattensBy(seqs, n, G)
  BY <1>1, <1>7, FlattenRecursion
<1>9. G[0] = << >> /\ FlattenSeq(seqs) = G[n] /\ \A l \in 1 .. n : G[l] = G[l - 1] \o seqs[l]
  BY <1>8 DEF FlattensBy
<1> DEFINE Right(l) == /\ Len(G[l]) = N[l]
                       /\ \A k \in 1 .. l : \A i \in 1 .. lens[k] :
                            /\ N[k - 1] + i \in 1 .. N[l]
                            /\ G[l][N[k - 1] + i] = [code |-> F[k] + i - 1, len |-> k]
           S == {l \in 0 .. n : Right(l)}
<1>10. 0 \in S
  <2>1. 0 \in 0 .. n /\ Len(G[0]) = N[0] /\ ~\E k \in 1 .. 0 : TRUE
    BY <1>1, <1>3, <1>9
  <2> QED BY <2>1
<1>11. \A l \in 0 .. n - 1 : l \in S => l + 1 \in S
  <2> SUFFICES ASSUME NEW l \in 0 .. n - 1, Right(l) PROVE Right(l + 1)
    <3>1. \A l \in 0 .. n - 1 : l + 1 \in 0 .. n
      BY <1>1
    <3> HIDE DEF Right
    <3> QED BY <3>1
  <2>1. l \in 0 .. n /\ l + 1 \in 1 .. n /\ (l + 1) - 1 = l /\ l \in Nat /\ l + 1 \in 0 .. n
    BY <1>1
  <2> DEFINE g == G[l]
             s == seqs[l + 1]
             m == l + 1
  <2>2. G[m] = g \o s
    BY <1>9, <2>1
  <2>3. g \in Seq(T) /\ s \in Seq(T) /\ Len(g) = N[l] /\ Len(s) = lens[m]
    BY <1>6, <1>8, <2>1
  <2>4. \A i \in 1 .. lens[m] : s[i] = [code |-> F[m] + i - 1, len |-> m]
    BY <1>6, <2>1
  <2>5. N[m] = N[l] + lens[m] /\ N[l] \in Nat /\ lens[m] \in Nat /\ N[m] \in Nat
    BY <1>1, <1>3, <2>1
  <2>6. \A k \in 1 .. l : \A i \in 1 .. lens[k] :
          N[k - 1] + i \in 1 .. N[l] /\ g[N[k - 1] + i] = [code |-> F[k] + i - 1, len |-> k]
    OBVIOUS
  <2>10. m \in 1 .. n /\ m = l + 1
    BY <2>1
  <2> HIDE DEF g, s, m
  <2>7. Len(G[m]) = N[m] /\ (\A i \in 1 .. N[l] : G[m][i] = g[i]) /\ \A i \in 1 .. lens[m] : G[m][N[l] + i] = s[i]
    <3>1. /\ Len(g \o s) = Len(g) + Len(s)
          /\ \A i \in 1 .. Len(g) : (g \o s)[i] = g[i]
          /\ \A i \in 1 .. Len(s) : (g \o s)[Len(g) + i] = s[i]
      <4>1. g \in Seq(T) /\ s \in Seq(T)
        BY <2>3
      <4> HIDE DEF T
      <4> QED BY <4>1, ConcatIs
    <3> QED BY <2>2, <2>3, <2>5, <3>1
  <2>8. ASSUME NEW k \in 1 .. m, NEW i \in 1 .. lens[k]
        PROVE  N[k - 1] + i \in 1 .. N[m] /\ G[m][N[k - 1] + i] = [code |-> F[k] + i - 1, len |-> k]
    <3>1. CASE k = m
      <4>1. k - 1 = l /\ i \in 1 .. lens[m]
        BY <2>1, <2>10, <3>1
      <4>2. N[l] + i \in 1 .. N[m]
        BY <2>5, <4>1
      <4>3. G[m][N[l] + i] = [code |-> F[m] + i - 1, len |-> m]
        BY <2>4, <2>7, <4>1
      <4> QED BY <3>1, <4>1, <4>2, <4>3
    <3>2. CASE k # m
      <4>1. k \in 1 .. l
        BY <2>1, <2>10, <3>2
      <4>2. N[k - 1] + i \in 1 .. N[l] /\ g[N[k - 1] + i] = [code |-> F[k] + i - 1, len |-> k]
        BY <2>6, <4>1
      <4>3. N[k - 1] + i \in 1 .. N[m]
        BY <2>5, <4>2
      <4> QED BY <2>7, <4>2, <4>3
    <3> QED BY <3>1, <3>2
  <2>9. Right(m)
    BY <2>7, <2>8
  <2> QED BY <2>9 DEF m
<1>12. 0 .. n \subseteq S
  <2> HIDE DEF S
  <2>1. n \in Nat
    BY <1>1
  <2> QED BY <1>10, <1>11, <2>1, AllUpTo
<1>13. Right(n)
  <2>1. n \in 0 .. n
    BY <1>1
  <2> QED BY <1>12, <2>1
<1>14. G[n] \in Seq(T)
  BY <1>1, <1>8
<1> QED BY <1>1, <1>4, <1>5, <1>9, <1>13, <1>14 DEF n, N, F, T
-----------------------------------------------------------------------------
(* A code that HuffmanCode makes of a table it accepts, and what is known of it.      *)
GoodCode(code) ==
  /\ code = HuffmanCode(code.lens, code.values, code.full, code.bug16)
  /\ code.lens \in [Lengths -> Nat] /\ Accepted(code.lens) /\ code.full \in BOOLEAN
  /\ code.values \in Seq(IF code.full THEN 0 .. MaxDiffLength ELSE Nat)
  /\ Len(code.values) = Total(code.lens)

FirstCodes(code) ==
  /\ \A l \in Lengths : code.lens[l] \in Nat /\ code.first[l] \in Nat /\ code.before[l] \in Nat
  /\ code.first[1] = 0
  /\ \A l \in 2 .. MaxCodeLength : code.first[l] = 2 * (code.first[l - 1] + code.lens[l - 1])
  /\ \A l \in Lengths : code.first[l] + code.lens[l] <= TwoTo[l]

Numbered(code) ==
  /\ Len(code.values) \in Nat \ {0} /\ Len(code.symbols) = Len(code.values)
  /\ code.symbols \in Seq([code : Nat, len : Nat])
  /\ \A l \in Lengths : \A i \in 1 .. code.lens[l] :
       /\ code.before[l] + i \in 1 .. Len(code.values)
       /\ code.symbols[code.before[l] + i] = [code |-> code.first[l] + i - 1, len |-> l]
  /\ \A id \in 1 .. Len(code.values) : \E l \in Lengths : id - code.before[l] \in 1 .. code.lens[l]
  /\ \A k, l \in Lengths : k < l => code.before[k] + code.lens[k] <= code.before[l]

(* What HuffmanCode() makes of accepted numbers per length: codes in order, first ones
   as they are extrapolated, and the symbols numbered.                                 *)
LEMMA GoodCodeIs ==
  ASSUME NEW code, GoodCode(code)
  PROVE  FirstCodes(code) /\ Numbered(code)
<1> DEFINE n == MaxCodeLength
           lens == code.lens
           N == NumUpTo(lens)
           F == FirstCode(lens)
           Y == Symbols(lens, F)
           total == Total(lens)
<1>1. n \in Nat \ {0} /\ Lengths = 1 .. n /\ lens \in [Lengths -> Nat]
  BY PrefixCodesAssumption DEF Lengths, GoodCode
<1>2. /\ code.first = F /\ code.symbols = Y /\ code.before = [l \in Lengths |-> N[l - 1]]
      /\ Len(code.values) = total
  <2>1. code = HuffmanCode(code.lens, code.values, code.full, code.bug16)
    BY DEF GoodCode
  <2> DEFINE c == HuffmanCode(code.lens, code.values, code.full, code.bug16)
  <2>2. c.first = F /\ c.symbols = Y /\ c.before = [l \in Lengths |-> N[l - 1]]
    BY DEF HuffmanCode
  <2> HIDE DEF c, F, Y, N
  <2> QED BY <2>1, <2>2 DEF c, GoodCode
<1>3. /\ \A l \in 1 .. n : lens[l] \in Nat /\ F[l] \in Nat
      /\ F[1] = 0 /\ \A l \in 2 .. n : F[l] = 2 * (F[l - 1] + lens[l - 1])
  <2>1. F \in [1 .. n -> Nat] /\ F[1] = 0 /\ \A l \in 2 .. n : F[l] = 2 * (F[l - 1] + lens[l - 1])
    <3> HIDE DEF lens
    <3> QED BY <1>1, FirstIs
  <2> HIDE DEF F, n, lens
  <2> QED BY <1>1, <2>1
<1>4. /\ \A l \in 0 .. n : N[l] \in Nat
      /\ \A l \in 1 .. n : N[l] = N[l - 1] + lens[l]
      /\ N[n] = total
  BY <1>1, NumIs DEF Total
<1>5. \A l \in 1 .. n : F[l] + lens[l] <= TwoTo[l]
  BY <1>1, CodesFit DEF GoodCode
<1>6. /\ Y \in Seq([code : Nat, len : Nat]) /\ Len(Y) = total
      /\ \A l \in 1 .. n : \A i \in 1 .. lens[l] : Y[N[l - 1] + i] = [code |-> F[l] + i - 1, len |-> l]
  BY <1>1, SymbolsAre
<1>7. \A id \in 1 .. total : \E l \in 1 .. n : id - N[l - 1] \in 1 .. lens[l]
  BY <1>1, LengthOfNumber
<1>8. \A k \in 0 .. n, l \in 0 .. n : k <= l => N[k] <= N[l]
  BY <1>1, NumGrows
<1>9. total \in Nat \ {0}
  BY <1>1 DEF Accepted, GoodCode
<1> HIDE DEF n, N, F, Y, total
<1>10. \A l \in 1 .. n : code.before[l] = N[l - 1]
  BY <1>1, <1>2
<1>11. FirstCodes(code)
  <2>1. \A l \in 1 .. n : l - 1 \in 0 .. n /\ N[l - 1] \in Nat
    BY <1>1, <1>4
  <2> QED BY <1>1, <1>2, <1>3, <1>5, <1>10, <2>1 DEF FirstCodes, n
<1>12. Numbered(code)
  <2>1. ASSUME NEW l \in 1 .. n, NEW i \in 1 .. lens[l]
        PROVE  N[l - 1] + i \in 1 .. total
    <3>1. l \in 0 .. n /\ n \in 0 .. n /\ l <= n /\ l - 1 \in 0 .. n
      BY <1>1
    <3>2. N[l] <= N[n] /\ N[l] = N[l - 1] + lens[l] /\ N[l - 1] \in Nat /\ N[l] \in Nat /\ lens[l] \in Nat
      BY <1>3, <1>4, <1>8, <3>1
    <3> QED BY <1>4, <1>9, <3>2
  <2>2. ASSUME NEW k \in 1 .. n, NEW l \in 1 .. n, k < l
        PROVE  N[k - 1] + lens[k] <= N[l - 1]
    <3>1. k \in 0 .. n /\ l - 1 \in 0 .. n /\ k <= l - 1
      BY <1>1, <2>2
    <3> QED BY <1>4, <1>8, <3>1
  <2>3. Len(code.values) \in Nat \ {0} /\ Len(code.symbols) = Len(code.values) /\ code.symbols \in Seq([code : Nat, len : Nat])
    BY <1>2, <1>6, <1>9
  <2>4. \A l \in 1 .. n : \A i \in 1 .. code.lens[l] :
          /\ code.before[l] + i \in 1 .. Len(code.values)
          /\ code.symbols[code.before[l] + i] = [code |-> code.first[l] + i - 1, len |-> l]
    <3> TAKE l \in 1 .. n
    <3> TAKE i \in 1 .. code.lens[l]
    <3>1. i \in 1 .. lens[l] /\ code.before[l] = N[l - 1]
      BY <1>10
    <3>2. N[l - 1] + i \in 1 .. total /\ Y[N[l - 1] + i] = [code |-> F[l] + i - 1, len |-> l]
      BY <1>6, <2>1, <3>1
    <3> QED BY <1>2, <3>1, <3>2
  <2>5. \A id \in 1 .. Len(code.values) : \E l \in 1 .. n : id - code.before[l] \in 1 .. code.lens[l]
    BY <1>2, <1>7, <1>10
  <2>6. \A k, l \in 1 .. n : k < l => code.before[k] + code.lens[k] <= code.before[l]
    BY <1>10, <2>2
  <2> QED BY <1>1, <2>3, <2>4, <2>5, <2>6 DEF Numbered
<1> QED BY <1>11, <1>12

(* The longest code: there is one.                                                  *)
LEMMA LongestIs ==
  ASSUME NEW code, GoodCode(code)
  PROVE  /\ LongestCode(code.lens) \in Lengths /\ code.lens[LongestCode(code.lens)] > 0
         /\ \A l \in Lengths : code.lens[l] > 0 => l <= LongestCode(code.lens)
<1> DEFINE n == MaxCodeLength
           lens == code.lens
           S == {d \in 0 .. n - 1 : lens[n - d] > 0}
           Longest(l) == lens[l] > 0 /\ \A k \in l + 1 .. n : lens[k] = 0
<1>1. n \in Nat \ {0} /\ Lengths = 1 .. n /\ \A l \in 1 .. n : lens[l] \in Nat
  BY PrefixCodesAssumption DEF Lengths, GoodCode
<1>2. PICK k \in 1 .. n : lens[k] > 0
  <2>1. Numbered(code)
    BY GoodCodeIs
  <2>2. 1 \in 1 .. Len(code.values)
    BY <2>1 DEF Numbered
  <2>3. PICK l \in 1 .. n : 1 - code.before[l] \in 1 .. lens[l]
    BY <1>1, <2>1, <2>2 DEF Numbered
  <2> QED BY <1>1, <2>3
<1> HIDE DEF n, lens
<1>3. n - k \in S /\ S \in SUBSET Nat
  <2>1. n - (n - k) = k
    BY <1>1
  <2> QED BY <1>1, <1>2, <2>1
<1>4. PICK d \in S : \A m \in S : d <= m
  <2> HIDE DEF S
  <2> QED BY <1>3, LeastNatural
<1> DEFINE l == n - d
<1>5. l \in 1 .. n /\ lens[l] > 0
  BY <1>1, <1>4
<1>6. ASSUME NEW m \in l + 1 .. n PROVE lens[m] = 0
  <2>1. n - m \in 0 .. n - 1 /\ n - (n - m) = m /\ m \in 1 .. n /\ n - m < d
    BY <1>1, <1>4, <1>5
  <2>2. n - m \notin S
    <3>1. ~(d <= n - m)
      BY <1>1, <1>4, <2>1
    <3> QED BY <1>4, <3>1
  <2> QED BY <1>1, <2>1, <2>2
<1>7. Longest(l)
  BY <1>5, <1>6
<1> DEFINE L == CHOOSE j \in 1 .. n : Longest(j)
<1>8. L \in 1 .. n /\ Longest(L)
  <2> HIDE DEF Longest, l
  <2> QED BY <1>5, <1>7 DEF l
<1>9. L = LongestCode(lens)
  BY <1>1 DEF LongestCode, n
<1> HIDE DEF L
<1>10. ASSUME NEW m \in 1 .. n, lens[m] > 0 PROVE m <= L
  BY <1>1, <1>8, <1>10
<1> QED BY <1>1, <1>8, <1>9, <1>10 DEF lens
-----------------------------------------------------------------------------
(* Some bits begin with a code of length l if their value is one of the codes of it.  *)
HitAt(code, s, l) ==
  code.first[l] <= ValueOf(s)[l] /\ ValueOf(s)[l] < code.first[l] + code.lens[l]

IdAt(code, s, l) == code.before[l] + (1 + (ValueOf(s)[l] - code.first[l]))

(* As long as no code was met, the bits are larger than all codes of their length.    *)
LEMMA NotHitYet ==
  ASSUME NEW code, FirstCodes(code), NEW s \in Seq(Bit), NEW m \in Lengths, m <= Len(s),
         \A l \in 1 .. m : ~HitAt(code, s, l)
  PROVE  \A l \in 1 .. m : ValueOf(s)[l] >= code.first[l] + code.lens[l]
<1> DEFINE n == MaxCodeLength
           V == ValueOf(s)
           F == code.first
           C == code.lens
           S == {0} \cup {l \in 1 .. m : V[l] >= F[l] + C[l]}
<1>1. n \in Nat \ {0} /\ Lengths = 1 .. n /\ m \in 1 .. n
  BY PrefixCodesAssumption DEF Lengths
<1>2. /\ \A l \in 1 .. n : F[l] \in Nat /\ C[l] \in Nat
      /\ F[1] = 0 /\ \A l \in 2 .. n : F[l] = 2 * (F[l - 1] + C[l - 1])
  BY <1>1 DEF FirstCodes
<1>3. /\ \A l \in 0 .. m : V[l] \in Nat
      /\ \A l \in 1 .. m : V[l] = 2 * V[l - 1] + s[l] /\ s[l] \in {0, 1}
  <2>1. \A l \in 0 .. m : l \in 0 .. Len(s)
    BY <1>1
  <2>2. \A l \in 1 .. m : l \in 1 .. Len(s)
    BY <1>1
  <2>3. \A l \in 1 .. m : s[l] \in {0, 1}
    BY <2>2 DEF Bit
  <2>4. V \in [0 .. Len(s) -> Nat] /\ \A l \in 1 .. Len(s) : V[l] = 2 * V[l - 1] + s[l]
    BY ValueSteps
  <2> HIDE DEF V
  <2> QED BY <2>1, <2>2, <2>3, <2>4
<1>4. \A l \in 1 .. m : ~(F[l] <= V[l] /\ V[l] < F[l] + C[l])
  BY DEF HitAt
<1> HIDE DEF n, V, F, C
<1>5. \A k \in 0 .. m - 1 : k \in S => k + 1 \in S
  <2> SUFFICES ASSUME NEW k \in 0 .. m - 1, k \in S PROVE V[k + 1] >= F[k + 1] + C[k + 1]
    BY <1>1
  <2>1. k + 1 \in 1 .. m /\ k + 1 \in 1 .. n /\ (k + 1) - 1 = k /\ k \in 0 .. m
    BY <1>1
  <2>2. V[k + 1] \in Nat /\ V[k] \in Nat /\ V[k + 1] = 2 * V[k] + s[k + 1] /\ s[k + 1] \in {0, 1}
    BY <1>1, <1>3, <2>1
  <2>3. F[k + 1] \in Nat /\ C[k + 1] \in Nat /\ ~(F[k + 1] <= V[k + 1] /\ V[k + 1] < F[k + 1] + C[k + 1])
    BY <1>2, <1>4, <2>1
  <2>4. F[k + 1] <= V[k + 1]
    <3>1. CASE k = 0
      BY <1>2, <2>2, <3>1
    <3>2. CASE k # 0
      <4>1. k \in 1 .. m /\ k \in 1 .. n /\ k + 1 \in 2 .. n
        BY <1>1, <2>1, <3>2
      <4>2. F[k + 1] = 2 * (F[k] + C[k]) /\ F[k] \in Nat /\ C[k] \in Nat /\ V[k] >= F[k] + C[k]
        BY <1>2, <2>1, <3>2, <4>1
      <4> QED BY SMTT(40), <2>2, <4>2
    <3> QED BY <3>1, <3>2
  <2> QED BY <2>2, <2>3, <2>4
<1>6. 0 .. m \subseteq S
  <2>1. m \in Nat /\ 0 \in S
    BY <1>1
  <2> HIDE DEF S
  <2> QED BY <1>5, <2>1, AllUpTo
<1>7. \A l \in 1 .. m : V[l] >= F[l] + C[l]
  <2>1. \A l \in 1 .. m : l \in 0 .. m /\ l # 0
    BY <1>1
  <2> QED BY <1>6, <2>1
<1> QED BY <1>7 DEF V, F, C

(* Behind a code that was met the bits are smaller than all codes of their length.    *)
LEMMA BehindHit ==
  ASSUME NEW code, FirstCodes(code), NEW s \in Seq(Bit), NEW p \in Lengths,
         HitAt(code, s, p), p <= Len(s)
  PROVE  \A l \in Lengths : p < l /\ l <= Len(s) => ValueOf(s)[l] < code.first[l]
<1> DEFINE n == MaxCodeLength
           V == ValueOf(s)
           F == code.first
           C == code.lens
           S == {d \in Nat : d > 0 /\ p + d <= n /\ p + d <= Len(s) => V[p + d] < F[p + d]}
<1>1. n \in Nat \ {0} /\ Lengths = 1 .. n /\ p \in 1 .. n /\ p \in 1 .. Len(s) /\ Len(s) \in Nat
  BY PrefixCodesAssumption DEF Lengths
<1>2. /\ \A l \in 1 .. n : F[l] \in Nat /\ C[l] \in Nat
      /\ F[1] = 0 /\ \A l \in 2 .. n : F[l] = 2 * (F[l - 1] + C[l - 1])
  BY <1>1 DEF FirstCodes
<1>3. /\ \A l \in 0 .. Len(s) : V[l] \in Nat
      /\ \A l \in 1 .. Len(s) : V[l] = 2 * V[l - 1] + s[l] /\ s[l] \in {0, 1}
  BY <1>1, ValueSteps DEF Bit
<1>4. V[p] < F[p] + C[p]
  BY DEF HitAt
<1> HIDE DEF n, V, F, C
<1>5. \A d \in Nat : d \in S => d + 1 \in S
  <2> SUFFICES ASSUME NEW d \in Nat, d \in S, p + (d + 1) <= n, p + (d + 1) <= Len(s)
               PROVE  V[p + (d + 1)] < F[p + (d + 1)]
    OBVIOUS
  <2> DEFINE l == p + (d + 1)
             k == p + d
  <2>1. l \in 2 .. n /\ l - 1 = k /\ k \in 1 .. n /\ l \in 1 .. Len(s) /\ k \in 0 .. Len(s) /\ l \in 1 .. n /\ l \in 0 .. Len(s)
    BY <1>1
  <2>2. V[l] = 2 * V[k] + s[l] /\ s[l] \in {0, 1} /\ V[k] \in Nat /\ V[l] \in Nat
    BY <1>3, <2>1
  <2>3. F[l] = 2 * (F[k] + C[k]) /\ F[k] \in Nat /\ C[k] \in Nat
    BY <1>2, <2>1
  <2>4. V[k] < F[k] + C[k]
    <3>1. CASE d = 0
      <4>1. k = p
        BY <1>1, <3>1
      <4> QED BY <1>4, <4>1
    <3>2. CASE d # 0
      <4>1. d > 0 /\ p + d <= n /\ p + d <= Len(s)
        BY <1>1, <3>2
      <4>2. V[k] < F[k]
        BY <4>1
      <4> HIDE DEF k, l
      <4> QED BY <2>2, <2>3, <4>2
    <3> QED BY <3>1, <3>2
  <2> HIDE DEF k, l
  <2>5. V[l] < F[l]
    BY SMTT(40), <2>2, <2>3, <2>4
  <2> QED BY <2>5 DEF l
<1>6. Nat \subseteq S
  <2>1. 0 \in S
    OBVIOUS
  <2> HIDE DEF S
  <2> QED BY <1>5, <2>1, AllNaturals
<1>7. ASSUME NEW l \in 1 .. n, p < l, l <= Len(s) PROVE V[l] < F[l]
  <2>1. l - p \in Nat /\ l - p > 0 /\ p + (l - p) = l /\ l <= n
    BY <1>1, <1>7
  <2>2. l - p \in S
    BY <1>6, <2>1
  <2> QED BY <1>7, <2>1, <2>2
<1> QED BY <1>1, <1>7 DEF V, F, C

(* The bits have a code of one length only.                                            *)
LEMMA OneHit ==
  ASSUME NEW code, FirstCodes(code), NEW s \in Seq(Bit), NEW p \in Lengths, NEW l \in Lengths,
         HitAt(code, s, p), p <= Len(s), HitAt(code, s, l), l <= Len(s)
  PROVE  l = p
<1>1. p \in Nat /\ l \in Nat
  BY PrefixCodesAssumption DEF Lengths
<1>2. \A k \in Lengths : k <= Len(s) => ValueOf(s)[k] \in Nat /\ code.first[k] \in Nat
  <2>1. \A k \in Lengths : k <= Len(s) => k \in 0 .. Len(s)
    BY PrefixCodesAssumption DEF Lengths
  <2> QED BY <2>1, ValueSteps DEF FirstCodes
<1>3. CASE p < l
  BY <1>2, <1>3, BehindHit DEF HitAt
<1>4. CASE l < p
  BY <1>2, <1>4, BehindHit DEF HitAt
<1> QED BY <1>1, <1>3, <1>4

(* The bits of a code, and which bits begin with them.                               *)
LEMMA CodeBits ==
  ASSUME NEW code, GoodCode(code), NEW l \in Lengths, NEW i \in 1 .. code.lens[l]
  PROVE  LET bits == BitsOf(code.symbols[code.before[l] + i]) IN
         /\ bits \in Seq(Bit) /\ Len(bits) = l /\ FromBits(bits) = code.first[l] + i - 1
         /\ code.first[l] + i - 1 < TwoTo[l]
<1> DEFINE c == code.first[l] + i - 1
           y == code.symbols[code.before[l] + i]
<1>1. FirstCodes(code) /\ Numbered(code)
  BY GoodCodeIs
<1>2. y = [code |-> c, len |-> l]
  BY <1>1 DEF Numbered
<1>3. l \in Nat /\ c \in Nat /\ c < TwoTo[l]
  <2>1. l \in Nat
    BY PrefixCodesAssumption DEF Lengths
  <2>2. code.first[l] \in Nat /\ code.lens[l] \in Nat /\ code.first[l] + code.lens[l] <= TwoTo[l] /\ TwoTo[l] \in Nat
    BY <1>1, <2>1, TwoToIs DEF FirstCodes
  <2> QED BY <2>1, <2>2
<1> HIDE DEF c, y
<1>4. BitsOf(y) = ToBits(c, l)
  BY <1>2 DEF BitsOf
<1>5. ToBits(c, l) \in Seq(Bit) /\ Len(ToBits(c, l)) = l /\ FromBits(ToBits(c, l)) = c
  BY <1>3, BitsAre, ValueOfItsBits
<1> QED BY <1>3, <1>4, <1>5 DEF c, y

(* A symbol's bits begin the input exactly where the arithmetic on first codes finds
   that symbol.                                                                        *)
LEMMA MatchIs ==
  ASSUME NEW code, GoodCode(code), NEW s \in Seq(Bit), NEW l \in Lengths, l <= Len(s),
         NEW id \in 1 .. Len(code.symbols)
  PROVE  /\ BitsOf(code.symbols[id]) = SubSeq(s, 1, l) <=> HitAt(code, s, l) /\ id = IdAt(code, s, l)
         /\ HitAt(code, s, l) => IdAt(code, s, l) \in 1 .. Len(code.symbols)
                              /\ IdAt(code, s, l) \in code.before[l] + 1 .. code.before[l] + code.lens[l]
                              /\ code.symbols[IdAt(code, s, l)].len = l
<1> DEFINE V == ValueOf(s)[l]
           t == SubSeq(s, 1, l)
<1>1. FirstCodes(code) /\ Numbered(code)
  BY GoodCodeIs
<1>2. l \in Nat /\ l \in 0 .. Len(s) /\ code.first[l] \in Nat /\ code.lens[l] \in Nat /\ code.before[l] \in Nat
  <2>1. l \in Nat
    BY PrefixCodesAssumption DEF Lengths
  <2> QED BY <1>1, <2>1 DEF FirstCodes
<1>3. V \in Nat /\ t \in Seq(Bit) /\ Len(t) = l /\ FromBits(t) = V
  <2>1. FromBits(t) = V /\ V \in Nat
    BY <1>2, ValueOfTaken, ValueSteps
  <2>2. t \in Seq(Bit) /\ Len(t) = l
    BY <1>2
  <2> QED BY <2>1, <2>2
<1> HIDE DEF V, t
<1>4. HitAt(code, s, l) <=> code.first[l] <= V /\ V < code.first[l] + code.lens[l]
  BY DEF HitAt, V
<1>5. IdAt(code, s, l) = code.before[l] + (1 + (V - code.first[l]))
  BY DEF IdAt, V
<1>6. ASSUME HitAt(code, s, l)
      PROVE  LET i == 1 + (V - code.first[l]) IN
             /\ i \in 1 .. code.lens[l] /\ IdAt(code, s, l) = code.before[l] + i
             /\ BitsOf(code.symbols[IdAt(code, s, l)]) = t
             /\ code.symbols[IdAt(code, s, l)].len = l /\ IdAt(code, s, l) \in 1 .. Len(code.symbols)
             /\ IdAt(code, s, l) \in code.before[l] + 1 .. code.before[l] + code.lens[l]
  <2> DEFINE i == 1 + (V - code.first[l])
             bits == BitsOf(code.symbols[code.before[l] + i])
  <2>1. i \in 1 .. code.lens[l] /\ code.first[l] + i - 1 = V
    <3>1. code.first[l] <= V /\ V < code.first[l] + code.lens[l]
      BY <1>4, <1>6
    <3> DEFINE f == code.first[l]
               c == code.lens[l]
    <3>2. f \in Nat /\ c \in Nat /\ V \in Nat /\ f <= V /\ V < f + c
      BY <1>2, <1>3, <3>1
    <3> HIDE DEF f, c
    <3>3. 1 + (V - f) \in 1 .. c /\ f + (1 + (V - f)) - 1 = V
      BY <3>2
    <3> QED BY <3>3 DEF f, c
  <2>2. IdAt(code, s, l) = code.before[l] + i
    BY <1>5
  <2>5. IdAt(code, s, l) \in code.before[l] + 1 .. code.before[l] + code.lens[l]
    BY SMTT(40), <1>2, <2>1, <2>2
  <2> HIDE DEF i
  <2>3. bits \in Seq(Bit) /\ Len(bits) = l /\ FromBits(bits) = V
    BY <2>1, CodeBits
  <2>4. bits = t
    BY <1>3, <2>3, SameValue
  <2>6. code.before[l] + i \in 1 .. Len(code.symbols) /\ code.symbols[code.before[l] + i].len = l
    <3>1. code.symbols[code.before[l] + i] = [code |-> code.first[l] + i - 1, len |-> l]
      BY <1>1, <2>1 DEF Numbered
    <3>2. code.before[l] + i \in 1 .. Len(code.symbols)
      BY <1>1, <2>1 DEF Numbered
    <3> QED BY <3>1, <3>2
  <2> QED BY <2>1, <2>2, <2>4, <2>5, <2>6 DEF i
<1>7. ASSUME BitsOf(code.symbols[id]) = t
      PROVE  HitAt(code, s, l) /\ id = IdAt(code, s, l)
  <2>1. PICK k \in Lengths : id - code.before[k] \in 1 .. code.lens[k]
    BY <1>1 DEF Numbered
  <2> DEFINE i == id - code.before[k]
  <2>2. i \in 1 .. code.lens[k] /\ code.before[k] + i = id /\ code.before[k] \in Nat
    <3>1. code.before[k] \in Nat
      BY <1>1 DEF FirstCodes
    <3>2. id \in Nat
      BY <1>1 DEF Numbered
    <3> QED BY <2>1, <3>1, <3>2
  <2> HIDE DEF i
  <2>3. Len(t) = k /\ FromBits(t) = code.first[k] + i - 1
    BY <1>7, <2>2, CodeBits
  <2>4. k = l
    BY <1>3, <2>3
  <2>5. V = code.first[l] + i - 1 /\ i \in 1 .. code.lens[l] /\ id = code.before[l] + i
    BY <1>3, <2>2, <2>3, <2>4
  <2> DEFINE f == code.first[l]
             c == code.lens[l]
             d == code.before[l]
  <2>6. f \in Nat /\ c \in Nat /\ d \in Nat /\ V = f + i - 1 /\ i \in 1 .. c /\ id = d + i
    BY <1>2, <2>5
  <2> HIDE DEF f, c, d
  <2>7. f <= V /\ V < f + c /\ d + (1 + (V - f)) = id
    BY <2>6
  <2> QED BY <1>4, <1>5, <2>7 DEF f, c, d
<1>8. ASSUME HitAt(code, s, l), id = IdAt(code, s, l) PROVE BitsOf(code.symbols[id]) = t
  BY <1>6, <1>8
<1> QED BY <1>6, <1>7, <1>8 DEF t

(* The same for a beginning of any length.                                          *)
LEMMA CodeOf ==
  ASSUME NEW code, GoodCode(code), NEW id \in 1 .. Len(code.symbols)
  PROVE  /\ code.symbols[id].len \in Lengths /\ Len(BitsOf(code.symbols[id])) = code.symbols[id].len
         /\ BitsOf(code.symbols[id]) \in Seq(Bit)
         /\ code.symbols[id].code \in Nat /\ code.symbols[id].code < TwoTo[code.symbols[id].len]
         /\ id - code.before[code.symbols[id].len] \in 1 .. code.lens[code.symbols[id].len]
<1>1. FirstCodes(code) /\ Numbered(code)
  BY GoodCodeIs
<1>2. PICK k \in Lengths : id - code.before[k] \in 1 .. code.lens[k]
  BY <1>1 DEF Numbered
<1> DEFINE i == id - code.before[k]
<1>3. i \in 1 .. code.lens[k] /\ code.before[k] + i = id
  <2>1. code.before[k] \in Nat /\ id \in Nat
    BY <1>1 DEF FirstCodes, Numbered
  <2> QED BY <1>2, <2>1
<1> HIDE DEF i
<1>4. code.symbols[id] = [code |-> code.first[k] + i - 1, len |-> k]
  BY <1>1, <1>3 DEF Numbered
<1>5. LET bits == BitsOf(code.symbols[id]) IN bits \in Seq(Bit) /\ Len(bits) = k /\ code.first[k] + i - 1 < TwoTo[k]
  BY <1>3, CodeBits
<1>6. code.first[k] + i - 1 \in Nat
  <2>1. code.first[k] \in Nat
    BY <1>1 DEF FirstCodes
  <2> QED BY <1>3, <2>1
<1> QED BY <1>2, <1>4, <1>5, <1>6

(* The same, for IsPrefix().                                                           *)
LEMMA PrefixIs ==
  ASSUME NEW code, GoodCode(code), NEW s \in Seq(Bit), NEW id \in 1 .. Len(code.symbols)
  PROVE  IsPrefix(BitsOf(code.symbols[id]), s) <=>
           LET l == code.symbols[id].len IN l <= Len(s) /\ HitAt(code, s, l) /\ id = IdAt(code, s, l)
<1> DEFINE l == code.symbols[id].len
           b == BitsOf(code.symbols[id])
<1>1. l \in Lengths /\ Len(b) = l /\ b \in Seq(Bit) /\ l \in Nat
  BY CodeOf, PrefixCodesAssumption DEF Lengths
<1>2. l <= Len(s) => (b = SubSeq(s, 1, l) <=> HitAt(code, s, l) /\ id = IdAt(code, s, l))
  BY <1>1, MatchIs
<1>3. SubSeq(b, 1, l) = b
  <2> HIDE DEF b, l
  <2> QED BY <1>1
<1>4. IsPrefix(b, s) <=> Len(b) <= Len(s) /\ SubSeq(b, 1, Len(b)) = SubSeq(s, 1, Len(b))
  BY DEF IsPrefix
<1> HIDE DEF l, b
<1> QED BY <1>1, <1>2, <1>3, <1>4 DEF l, b
-----------------------------------------------------------------------------
(* What the decoders say: the code that was hit, whichever way it is looked for.       *)
SymbolAt(code, s, l) == Found(code.values[IdAt(code, s, l)], l)

(* PrefixCodeVectorDecoder finds the symbol that the first codes point at, or none.    *)
LEMMA VectorReads ==
  ASSUME NEW code, GoodCode(code), NEW s \in Seq(Bit), MaxCodeLength <= Len(s),
         NEW from \in 0 .. MaxCodeLength
  PROVE  /\ \A p \in from + 1 .. MaxCodeLength :
              HitAt(code, s, p) => VectorRead(code, s, from) = SymbolAt(code, s, p)
         /\ (\A p \in from + 1 .. MaxCodeLength : ~HitAt(code, s, p)) => VectorRead(code, s, from) = Bad
<1> DEFINE n == MaxCodeLength
           L == LongestCode(code.lens)
           Hits(l) == {id \in code.before[l] + 1 .. code.before[l] + code.lens[l] :
                         BitsOf(code.symbols[id]) = SubSeq(s, 1, l)}
           hits == {l \in from + 1 .. L : Hits(l) # {}}
           R == VectorRead(code, s, from)
<1>1. n \in Nat /\ Lengths = 1 .. n /\ L \in 1 .. n /\ (\A l \in 1 .. n : code.lens[l] > 0 => l <= L)
      /\ \A l \in from + 1 .. n : l \in 1 .. n /\ l <= Len(s)
  BY PrefixCodesAssumption, LongestIs DEF Lengths
<1>2. FirstCodes(code) /\ Numbered(code)
  BY GoodCodeIs
<1>3. ASSUME NEW l \in from + 1 .. n
      PROVE  Hits(l) = IF HitAt(code, s, l) THEN {IdAt(code, s, l)} ELSE {}
  <2>1. l \in Lengths /\ l <= Len(s) /\ l \in 1 .. n
    BY <1>1
  <2>2. 1 \in 1 .. Len(code.symbols)
    BY <1>2 DEF Numbered
  <2>3. HitAt(code, s, l) => IdAt(code, s, l) \in code.before[l] + 1 .. code.before[l] + code.lens[l]
                            /\ IdAt(code, s, l) \in 1 .. Len(code.symbols)
    BY <2>1, <2>2, MatchIs
  <2>4. \A id \in code.before[l] + 1 .. code.before[l] + code.lens[l] :
          BitsOf(code.symbols[id]) = SubSeq(s, 1, l) <=> HitAt(code, s, l) /\ id = IdAt(code, s, l)
    <3> TAKE id \in code.before[l] + 1 .. code.before[l] + code.lens[l]
    <3>1. code.before[l] \in Nat /\ code.lens[l] \in Nat
      BY <1>2, <2>1 DEF FirstCodes
    <3> DEFINE i == id - code.before[l]
    <3>2. i \in 1 .. code.lens[l] /\ code.before[l] + i = id
      BY SMTT(40), <3>1
    <3> HIDE DEF i
    <3>3. id \in 1 .. Len(code.symbols)
      BY <1>2, <2>1, <3>2 DEF Numbered
    <3> QED BY <2>1, <3>3, MatchIs
  <2> QED BY <2>3, <2>4
<1>4. \A l \in from + 1 .. n : HitAt(code, s, l) => l <= L
  <2> TAKE l \in from + 1 .. n
  <2>1. l \in Lengths /\ l <= Len(s) /\ l \in 0 .. Len(s)
    BY <1>1
  <2>2. code.first[l] \in Nat /\ code.lens[l] \in Nat /\ ValueOf(s)[l] \in Nat
    BY <1>2, <2>1, ValueSteps DEF FirstCodes
  <2>3. HitAt(code, s, l) => code.lens[l] > 0
    BY <2>2 DEF HitAt
  <2> QED BY <1>1, <2>1, <2>3
<1>5. R = IF hits = {} THEN Bad
          ELSE Found(code.values[CHOOSE id \in Hits(CHOOSE l \in hits : \A k \in hits : l <= k) : TRUE],
                     CHOOSE l \in hits : \A k \in hits : l <= k)
  BY DEF VectorRead
<1>9. L \in Nat /\ L <= n
  BY <1>1
<1> HIDE DEF L, n, Hits
<1>6. ASSUME NEW p \in from + 1 .. n, HitAt(code, s, p) PROVE R = SymbolAt(code, s, p)
  <2>1. \A l \in from + 1 .. n : HitAt(code, s, l) => l = p
    BY <1>1, <1>2, <1>6, OneHit
  <2>2. p \in from + 1 .. L
    BY <1>1, <1>4, <1>6, <1>9
  <2>3. Hits(p) = {IdAt(code, s, p)}
    BY <1>3, <1>6
  <2>4. hits = {p}
    <3>1. \A l \in from + 1 .. L : l \in from + 1 .. n
      BY <1>1, <1>9
    <3> QED BY <1>3, <2>1, <2>2, <2>3, <3>1
  <2> HIDE DEF hits
  <2>5. (CHOOSE l \in hits : \A k \in hits : l <= k) = p
    <3>1. p <= p
      BY <1>1
    <3> QED BY <2>4, <3>1
  <2>6. (CHOOSE id \in Hits(p) : TRUE) = IdAt(code, s, p)
    BY <2>3
  <2> QED BY <1>5, <2>4, <2>5, <2>6 DEF SymbolAt
<1>7. ASSUME \A p \in from + 1 .. n : ~HitAt(code, s, p) PROVE R = Bad
  <2>1. hits = {}
    <3>1. \A l \in from + 1 .. L : l \in from + 1 .. n
      BY <1>1, <1>9
    <3> QED BY <1>3, <1>7, <3>1
  <2> QED BY <1>5, <2>1
<1> QED BY <1>6, <1>7 DEF n, R

(* PrefixCodeLookupDecoder finds it, too.                                              *)
LEMMA LookupReads ==
  ASSUME NEW code, GoodCode(code), NEW s \in Seq(Bit), MaxCodeLength <= Len(s),
         NEW from \in 0 .. MaxCodeLength, \A l \in 1 .. from : ~HitAt(code, s, l)
  PROVE  /\ \A p \in from + 1 .. MaxCodeLength :
              HitAt(code, s, p) => LookupRead(code, s, from) = SymbolAt(code, s, p)
         /\ (\A p \in from + 1 .. MaxCodeLength : ~HitAt(code, s, p)) => LookupRead(code, s, from) = Bad
<1> DEFINE n == MaxCodeLength
           L == LongestCode(code.lens)
           V == ValueOf(s)
           F == code.first
           C == code.lens
           B == code.before
           Partial(l) == FromBits(SubSeq(s, 1, l))
           Goes(l) == l < L /\ (l = 0 \/ C[l] = 0 \/ Partial(l) > LargestCode(code, l))
           m == CHOOSE l \in from .. n : ~Goes(l) /\ \A k \in from .. l - 1 : Goes(k)
           R == LookupRead(code, s, from)
<1>1. n \in Nat /\ Lengths = 1 .. n /\ L \in 1 .. n /\ C[L] > 0 /\ (\A l \in 1 .. n : C[l] > 0 => l <= L)
      /\ from \in 0 .. n /\ Len(s) \in Nat /\ n <= Len(s)
  BY PrefixCodesAssumption, LongestIs DEF Lengths
<1>2. FirstCodes(code) /\ Numbered(code)
  BY GoodCodeIs
<1>3. \A l \in 1 .. n : V[l] \in Nat /\ Partial(l) = V[l] /\ l \in Nat
  <2> TAKE l \in 1 .. n
  <2>1. l \in 0 .. Len(s) /\ l \in Nat
    BY <1>1
  <2> QED BY <2>1, ValueOfTaken, ValueSteps
<1>4. \A l \in 1 .. n : F[l] \in Nat /\ C[l] \in Nat /\ B[l] \in Nat
  BY <1>1, <1>2 DEF FirstCodes
<1>5. R = IF m > L \/ Partial(m) > LargestCode(code, m) THEN Bad
          ELSE Found(code.values[1 + Partial(m) - CodeOffset(code, m)], m)
  BY DEF LookupRead
<1>6. \A l \in 1 .. n : LargestCode(code, l) = F[l] + C[l] - 1 /\ CodeOffset(code, l) = F[l] - B[l]
  BY DEF LargestCode, CodeOffset
<1>7. \A l \in 1 .. n : HitAt(code, s, l) <=> F[l] <= V[l] /\ V[l] < F[l] + C[l]
  BY DEF HitAt
<1>8. \A l \in 1 .. n : IdAt(code, s, l) = B[l] + (1 + (V[l] - F[l]))
  BY DEF IdAt
<1>9. ASSUME NEW q \in 1 .. n, \A l \in 1 .. q : ~HitAt(code, s, l)
      PROVE  \A l \in 1 .. q : V[l] >= F[l] + C[l]
  BY <1>1, <1>2, <1>9, NotHitYet
<1> HIDE DEF n, L, V, F, C, B, Partial
<1>10. ASSUME NEW l \in 1 .. n, V[l] >= F[l] + C[l]
       PROVE  Partial(l) > LargestCode(code, l)
  BY <1>3, <1>4, <1>6, <1>10
<1>11. ASSUME NEW l \in from .. n, ~Goes(l), \A k \in from .. l - 1 : Goes(k) PROVE m = l
  <2>1. \A k \in from .. n : ~Goes(k) /\ (\A j \in from .. k - 1 : Goes(j)) => k = l
    <3> TAKE k \in from .. n
    <3>1. k \in Int /\ l \in Int /\ from \in Int
      BY <1>1
    <3> HIDE DEF Goes
    <3>2. k < l => k \in from .. l - 1
      BY <3>1
    <3>3. l < k => l \in from .. k - 1
      BY <3>1
    <3> QED BY <1>11, <3>1, <3>2, <3>3
  <2> HIDE DEF Goes
  <2> QED BY <1>11, <2>1
<1>12. ASSUME NEW p \in from + 1 .. n, HitAt(code, s, p) PROVE R = SymbolAt(code, s, p)
  <2>1. p \in 1 .. n /\ p \in Nat /\ p \in from .. n
    BY <1>1
  <2>2. \A l \in 1 .. n : HitAt(code, s, l) => l = p
    <3> SUFFICES ASSUME NEW l \in 1 .. n, HitAt(code, s, l) PROVE l = p
      OBVIOUS
    <3>1. l \in Lengths /\ p \in Lengths /\ l <= Len(s) /\ p <= Len(s)
      BY <1>1, <2>1
    <3> QED BY <1>2, <1>12, <3>1, OneHit
  <2>3. F[p] <= V[p] /\ V[p] < F[p] + C[p] /\ V[p] \in Nat /\ F[p] \in Nat /\ C[p] \in Nat /\ B[p] \in Nat /\ Partial(p) = V[p]
    BY <1>3, <1>4, <1>7, <1>12, <2>1
  <2>4. p <= L
    BY <1>1, <2>1, <2>3
  <2>5. ~(Partial(p) > LargestCode(code, p)) /\ LargestCode(code, p) = F[p] + C[p] - 1
    BY <1>6, <2>1, <2>3
  <2>6. ~Goes(p)
    BY <2>1, <2>3, <2>5
  <2>7. ASSUME NEW k \in from .. p - 1 PROVE Goes(k)
    <3>1. k \in 0 .. n /\ k < L /\ k \in Nat /\ k < p
      BY <1>1, <2>1, <2>4
    <3>2. CASE k = 0
      BY <3>1, <3>2
    <3>3. CASE k # 0
      <4>1. k \in 1 .. n /\ \A l \in 1 .. k : l \in 1 .. n /\ l # p
        BY <1>1, <2>1, <3>1, <3>3
      <4>2. \A l \in 1 .. k : ~HitAt(code, s, l)
        BY <2>2, <4>1
      <4>3. V[k] >= F[k] + C[k]
        <5>1. k \in 1 .. k
          BY <4>1
        <5> QED BY <1>9, <4>1, <4>2, <5>1
      <4> QED BY <1>10, <3>1, <4>1, <4>3
    <3> QED BY <3>2, <3>3
  <2>8. m = p
    BY <1>11, <2>1, <2>6, <2>7
  <2> HIDE DEF m, Goes
  <2>9. ~(m > L) /\ R = Found(code.values[1 + V[p] - (F[p] - B[p])], p)
    <3>1. ~(p > L)
      BY <1>1, <2>1, <2>4
    <3>2. CodeOffset(code, p) = F[p] - B[p]
      BY <1>6, <2>1
    <3> QED BY <1>5, <2>3, <2>5, <2>8, <3>1, <3>2
  <2>10. IdAt(code, s, p) = 1 + V[p] - (F[p] - B[p])
    <3>1. IdAt(code, s, p) = B[p] + (1 + (V[p] - F[p]))
      BY <1>8, <2>1
    <3> QED BY <2>3, <3>1
  <2> QED BY <2>9, <2>10 DEF SymbolAt
<1>13. ASSUME \A p \in from + 1 .. n : ~HitAt(code, s, p) PROVE R = Bad
  <2>1. \A l \in 1 .. n : V[l] >= F[l] + C[l]
    <3>1. \A l \in 1 .. n : l \in 1 .. from \/ l \in from + 1 .. n
      BY <1>1
    <3>2. \A l \in 1 .. n : ~HitAt(code, s, l)
      BY <1>13, <3>1
    <3>3. n \in 1 .. n
      BY <1>1
    <3> QED BY <1>9, <3>2, <3>3
  <2>2. CASE from > L
    <3>1. ~Goes(from) /\ from \in from .. n /\ ~\E k \in from .. from - 1 : TRUE
      BY <1>1, <2>2
    <3>2. m = from
      BY <1>11, <3>1
    <3> QED BY <1>5, <2>2, <3>2
  <2>3. CASE from <= L
    <3>1. L \in from .. n /\ L \in Nat /\ from \in Nat /\ ~Goes(L)
      BY <1>1, <2>3
    <3>2. ASSUME NEW k \in from .. L - 1 PROVE Goes(k)
      <4>1. k < L /\ k \in 0 .. n
        BY <1>1, <3>1
      <4>2. CASE k = 0
        BY <4>1, <4>2
      <4>3. CASE k # 0
        <5>1. k \in 1 .. n
          BY <1>1, <4>1, <4>3
        <5> QED BY <1>10, <2>1, <4>1, <5>1
      <4> QED BY <4>2, <4>3
    <3>3. m = L
      BY <1>11, <3>1, <3>2
    <3>4. Partial(L) > LargestCode(code, L)
      BY <1>1, <1>10, <2>1
    <3> QED BY <1>5, <3>3, <3>4
  <2> QED BY <1>1, <2>2, <2>3
<1> QED BY <1>12, <1>13 DEF n, R

(* PrefixCodeTreeDecoder finds it, too.                                                *)
LEMMA TreeReads ==
  ASSUME NEW code, GoodCode(code), NEW s \in Seq(Bit), MaxCodeLength <= Len(s)
  PROVE  /\ \A p \in Lengths : HitAt(code, s, p) => TreeRead(code, s) = SymbolAt(code, s, p)
         /\ (\A p \in Lengths : ~HitAt(code, s, p)) => TreeRead(code, s) = Bad
<1> DEFINE Y == code.symbols
           Leaves(l) == {id \in 1 .. Len(Y) : BitsOf(Y[id]) = SubSeq(s, 1, l)}
           IsBranch(l) == \E id \in 1 .. Len(Y) : l < Y[id].len /\ IsPrefix(SubSeq(s, 1, l), BitsOf(Y[id]))
           hits == {l \in Lengths : Leaves(l) # {} /\ \A k \in 1 .. l - 1 : IsBranch(k)}
           R == TreeRead(code, s)
<1>1. FirstCodes(code) /\ Numbered(code) /\ MaxCodeLength \in Nat
  BY GoodCodeIs, PrefixCodesAssumption
<1>2. R = IF hits = {} THEN Bad
          ELSE Found(code.values[CHOOSE id \in Leaves(CHOOSE l \in hits : TRUE) : TRUE], CHOOSE l \in hits : TRUE)
  BY DEF TreeRead
<1>3. ASSUME NEW l \in Lengths
      PROVE  Leaves(l) = IF HitAt(code, s, l) THEN {IdAt(code, s, l)} ELSE {}
  <2>1. l <= Len(s)
    BY <1>1 DEF Lengths
  <2>2. 1 \in 1 .. Len(Y)
    BY <1>1 DEF Numbered
  <2>3. HitAt(code, s, l) => IdAt(code, s, l) \in 1 .. Len(Y)
    BY <2>1, <2>2, MatchIs
  <2>4. \A id \in 1 .. Len(Y) : BitsOf(Y[id]) = SubSeq(s, 1, l) <=> HitAt(code, s, l) /\ id = IdAt(code, s, l)
    BY <2>1, MatchIs
  <2> QED BY <2>3, <2>4
<1> HIDE DEF Leaves, R
<1>4. ASSUME NEW p \in Lengths, HitAt(code, s, p) PROVE R = SymbolAt(code, s, p)
  <2>1. p <= Len(s) /\ p \in Nat /\ p <= MaxCodeLength
    BY <1>1 DEF Lengths
  <2>2. \A l \in Lengths : Leaves(l) # {} => l = p
    <3>1. \A l \in Lengths : l <= Len(s)
      BY <1>1 DEF Lengths
    <3> QED BY <1>1, <1>3, <1>4, <2>1, <3>1, OneHit
  <2>3. Leaves(p) = {IdAt(code, s, p)}
    BY <1>3, <1>4
  <2> DEFINE id == IdAt(code, s, p)
             b == BitsOf(Y[id])
  <2>4. id \in 1 .. Len(Y) /\ Y[id].len = p /\ b = SubSeq(s, 1, p)
    <3>1. 1 \in 1 .. Len(Y)
      BY <1>1 DEF Numbered
    <3>2. id \in 1 .. Len(Y) /\ Y[id].len = p
      BY <1>4, <2>1, <3>1, MatchIs
    <3> QED BY <1>4, <2>1, <3>2, MatchIs
  <2>5. ASSUME NEW k \in 1 .. p - 1 PROVE IsBranch(k)
    <3> DEFINE t == SubSeq(s, 1, k)
    <3>1. k \in Nat /\ k < p /\ k <= Len(s)
      BY <2>1
    <3>2. t \in Seq(Bit) /\ Len(t) = k /\ \A i \in 1 .. k : t[i] = s[i]
      BY <3>1
    <3>3. b \in Seq(Bit) /\ Len(b) = p /\ \A i \in 1 .. p : b[i] = s[i]
      BY <2>1, <2>4
    <3> HIDE DEF b, t
    <3>4. SubSeq(t, 1, Len(t)) = SubSeq(b, 1, Len(t))
      <4> DEFINE tt == SubSeq(t, 1, k)
                 bb == SubSeq(b, 1, k)
      <4>1. tt \in Seq(Bit) /\ Len(tt) = k /\ \A i \in 1 .. k : tt[i] = t[i]
        BY <3>1, <3>2
      <4>2. bb \in Seq(Bit) /\ Len(bb) = k /\ \A i \in 1 .. k : bb[i] = b[i]
        BY <3>1, <3>3
      <4>3. \A i \in 1 .. k : i \in 1 .. p
        BY <2>1, <3>1
      <4> HIDE DEF tt, bb
      <4>4. tt = bb
        <5>1. \A i \in 1 .. Len(tt) : tt[i] = bb[i]
          BY <3>2, <3>3, <4>1, <4>2, <4>3
        <5> QED BY <4>1, <4>2, <5>1, SameSequence
      <4> QED BY <3>2, <4>4 DEF tt, bb
    <3>5. IsPrefix(t, b)
      BY <3>1, <3>2, <3>3, <3>4 DEF IsPrefix
    <3> HIDE DEF id
    <3> QED BY <2>4, <3>1, <3>5 DEF b, t
  <2> HIDE DEF IsBranch
  <2>6. hits = {p}
    BY <2>2, <2>3, <2>5
  <2> HIDE DEF hits
  <2>7. (CHOOSE l \in hits : TRUE) = p
    BY <2>6
  <2>8. (CHOOSE i \in Leaves(p) : TRUE) = id
    BY <2>3
  <2> QED BY <1>2, <2>6, <2>7, <2>8 DEF SymbolAt
<1>5. ASSUME \A p \in Lengths : ~HitAt(code, s, p) PROVE R = Bad
  <2>1. hits = {}
    BY <1>3, <1>5
  <2> QED BY <1>2, <2>1
<1> QED BY <1>4, <1>5 DEF R
-----------------------------------------------------------------------------
(* A window of some first bits: the same values, hits and pieces.                    *)
LEMMA TakenHits ==
  ASSUME NEW code, NEW s \in Seq(Bit), NEW m \in 0 .. Len(s), NEW l \in 0 .. m
  PROVE  LET t == SubSeq(s, 1, m) IN
         /\ t \in Seq(Bit) /\ Len(t) = m /\ ValueOf(t)[l] = ValueOf(s)[l]
         /\ HitAt(code, t, l) <=> HitAt(code, s, l)
         /\ IdAt(code, t, l) = IdAt(code, s, l)
<1> DEFINE t == SubSeq(s, 1, m)
<1>1. m \in Nat /\ m <= Len(s) /\ t \in Seq(Bit) /\ Len(t) = m /\ \A i \in 1 .. m : t[i] = s[i]
  OBVIOUS
<1> HIDE DEF t
<1>2. ValueOf(t)[l] = ValueOf(s)[l]
  BY <1>1, ValueOfBeginning
<1> QED BY <1>1, <1>2 DEF t, HitAt, IdAt

(* A piece of the first bits is a piece of the bits.                                   *)
LEMMA TakenPieces ==
  ASSUME NEW T, NEW s \in Seq(T), NEW m \in 0 .. Len(s), NEW a \in Nat, NEW b \in Nat, a + b <= m
  PROVE  SubSeq(SubSeq(s, 1, m), a + 1, a + b) = SubSeq(s, a + 1, a + b)
<1> DEFINE t == SubSeq(s, 1, m)
           u == SubSeq(t, a + 1, a + b)
           v == SubSeq(s, a + 1, a + b)
<1>1. m \in Nat /\ m <= Len(s) /\ t \in Seq(T) /\ Len(t) = m /\ \A i \in 1 .. m : t[i] = s[i]
  OBVIOUS
<1>2. v \in Seq(T) /\ Len(v) = b /\ \A i \in 1 .. b : v[i] = s[a + i]
  OBVIOUS
<1> HIDE DEF t
<1>3. u \in Seq(T) /\ Len(u) = b /\ \A i \in 1 .. b : u[i] = t[a + i]
  BY <1>1
<1> HIDE DEF u, v
<1>4. \A i \in 1 .. Len(u) : u[i] = v[i]
  <2>1. \A i \in 1 .. b : a + i \in 1 .. m
    BY <1>1
  <2> QED BY <1>1, <1>2, <1>3, <2>1
<1>5. u = v
  BY <1>2, <1>3, <1>4, SameSequence
<1> QED BY <1>5 DEF t, u, v

(* The symbol that some bits begin with.                                            *)
TheSymbol(code, s) ==
  IF \E l \in Lengths : HitAt(code, s, l)
    THEN SymbolAt(code, s, CHOOSE l \in Lengths : HitAt(code, s, l))
    ELSE Bad

(* The symbol a decoder looks for is the one that the first codes point at.            *)
LEMMA TheSymbolIs ==
  ASSUME NEW code, GoodCode(code), NEW s \in Seq(Bit), MaxCodeLength <= Len(s)
  PROVE  /\ \A p \in Lengths : HitAt(code, s, p) => TheSymbol(code, s) = SymbolAt(code, s, p)
         /\ (\A p \in Lengths : ~HitAt(code, s, p)) => TheSymbol(code, s) = Bad
<1>1. FirstCodes(code)
  BY GoodCodeIs
<1>2. \A l \in Lengths : l <= Len(s)
  BY PrefixCodesAssumption DEF Lengths
<1>3. \A p, l \in Lengths : HitAt(code, s, p) /\ HitAt(code, s, l) => l = p
  BY <1>1, <1>2, OneHit
<1>4. ASSUME NEW p \in Lengths, HitAt(code, s, p) PROVE TheSymbol(code, s) = SymbolAt(code, s, p)
  <2>1. (CHOOSE l \in Lengths : HitAt(code, s, l)) = p
    BY <1>3, <1>4
  <2> QED BY <1>4, <2>1 DEF TheSymbol
<1> QED BY <1>4 DEF TheSymbol

(* What the table of PrefixCodeLUTDecoder is about: the codes that fit its index.     *)
LEMMA TableHits ==
  ASSUME NEW code, GoodCode(code), NEW s \in Seq(Bit), NEW m \in Lengths, m <= Len(s),
         NEW d \in Lengths, d <= m
  PROVE  LET index == SubSeq(s, 1, m)
             hits == {i \in 1 .. Len(code.symbols) :
                        code.symbols[i].len <= d /\ IsPrefix(BitsOf(code.symbols[i]), index)}
         IN  /\ \A p \in 1 .. d : HitAt(code, s, p) =>
                  hits = {IdAt(code, s, p)} /\ code.symbols[IdAt(code, s, p)].len = p
             /\ (\A p \in 1 .. d : ~HitAt(code, s, p)) => hits = {}
<1> DEFINE index == SubSeq(s, 1, m)
           Y == code.symbols
           hits == {i \in 1 .. Len(Y) : Y[i].len <= d /\ IsPrefix(BitsOf(Y[i]), index)}
<1>1. FirstCodes(code) /\ Numbered(code) /\ MaxCodeLength \in Nat
  BY GoodCodeIs, PrefixCodesAssumption
<1>2. m \in Nat /\ d \in Nat /\ Len(s) \in Nat /\ m \in 0 .. Len(s) /\ d <= MaxCodeLength /\ Lengths = 1 .. MaxCodeLength
  BY <1>1 DEF Lengths
<1>3. index \in Seq(Bit) /\ Len(index) = m
  BY <1>2
<1>4. \A l \in 0 .. m : (HitAt(code, index, l) <=> HitAt(code, s, l)) /\ IdAt(code, index, l) = IdAt(code, s, l)
  BY <1>2, TakenHits
<1> HIDE DEF index
<1>5. \A i \in 1 .. Len(Y) : i \in hits <=> Y[i].len <= d /\ HitAt(code, s, Y[i].len) /\ i = IdAt(code, s, Y[i].len)
  <2> TAKE i \in 1 .. Len(Y)
  <2>1. Y[i].len \in Lengths /\ Y[i].len \in Nat
    BY <1>1, CodeOf DEF Lengths
  <2>2. IsPrefix(BitsOf(Y[i]), index) <=> Y[i].len <= m /\ HitAt(code, index, Y[i].len) /\ i = IdAt(code, index, Y[i].len)
    BY <1>3, PrefixIs
  <2>3. Y[i].len <= d => Y[i].len \in 0 .. m /\ Y[i].len <= m
    BY <1>2, <2>1
  <2> QED BY <1>4, <2>2, <2>3
<1>6. hits \subseteq 1 .. Len(Y)
  OBVIOUS
<1> HIDE DEF hits, Y
<1>7. ASSUME NEW p \in 1 .. d, HitAt(code, s, p) PROVE hits = {IdAt(code, s, p)} /\ Y[IdAt(code, s, p)].len = p
  <2>1. p \in Lengths /\ p <= Len(s) /\ p <= d
    BY <1>1, <1>2
  <2>2. 1 \in 1 .. Len(Y)
    BY <1>1 DEF Numbered, Y
  <2>3. IdAt(code, s, p) \in 1 .. Len(Y) /\ Y[IdAt(code, s, p)].len = p
    BY <1>7, <2>1, <2>2, MatchIs DEF Y
  <2>4. IdAt(code, s, p) \in hits
    BY <1>5, <1>7, <2>1, <2>3
  <2>5. ASSUME NEW i \in hits PROVE i = IdAt(code, s, p)
    <3>1. i \in 1 .. Len(Y) /\ Y[i].len <= d /\ HitAt(code, s, Y[i].len) /\ i = IdAt(code, s, Y[i].len)
      BY <1>5, <1>6
    <3>2. Y[i].len \in Lengths
      BY <3>1, CodeOf DEF Y
    <3>3. Y[i].len <= Len(s)
      BY <1>2, <3>1, <3>2
    <3>4. Y[i].len = p
      BY <1>1, <1>7, <2>1, <3>1, <3>2, <3>3, OneHit
    <3> QED BY <3>1, <3>4
  <2> QED BY <2>3, <2>4, <2>5
<1>8. ASSUME \A p \in 1 .. d : ~HitAt(code, s, p) PROVE hits = {}
  <2> SUFFICES ASSUME NEW i \in hits PROVE FALSE
    OBVIOUS
  <2>1. i \in 1 .. Len(Y) /\ Y[i].len <= d /\ HitAt(code, s, Y[i].len)
    BY <1>5, <1>6
  <2>2. Y[i].len \in Lengths
    BY <2>1, CodeOf DEF Y
  <2> QED BY <1>2, <1>8, <2>1, <2>2
<1> QED BY <1>7, <1>8 DEF hits, Y, index

(* The fields of what was found.                                                       *)
LEMMA FoundIs ==
  ASSUME NEW v, NEW u
  PROVE  /\ Found(v, u).value = v /\ Found(v, u).used = u
         /\ u # 0 => Found(v, u) # Bad
BY DEF Found, Bad

(* An item of a sequence.                                                              *)
LEMMA ItemIs ==
  ASSUME NEW T, NEW s \in Seq(T), NEW i \in 1 .. Len(s)
  PROVE  s[i] \in T
OBVIOUS

(* The values of a code: lengths of differences, if it is a full one.                 *)
LEMMA ValueAt ==
  ASSUME NEW code, GoodCode(code), NEW s \in Seq(Bit), NEW p \in Lengths, p <= Len(s), HitAt(code, s, p)
  PROVE  /\ IdAt(code, s, p) \in 1 .. Len(code.values)
         /\ code.full => code.values[IdAt(code, s, p)] \in 0 .. MaxDiffLength
         /\ code.values[IdAt(code, s, p)] \in Nat
<1>1. Numbered(code)
  BY GoodCodeIs
<1>2. 1 \in 1 .. Len(code.symbols) /\ Len(code.symbols) = Len(code.values)
  BY <1>1 DEF Numbered
<1>3. IdAt(code, s, p) \in 1 .. Len(code.values)
  BY <1>2, MatchIs
<1>4. code.values \in Seq(IF code.full THEN 0 .. MaxDiffLength ELSE Nat)
  BY DEF GoodCode
<1>5. code.values[IdAt(code, s, p)] \in IF code.full THEN 0 .. MaxDiffLength ELSE Nat
  <2> DEFINE T == IF code.full THEN 0 .. MaxDiffLength ELSE Nat
             v == code.values
             i == IdAt(code, s, p)
  <2>1. v \in Seq(T) /\ i \in 1 .. Len(v)
    BY <1>3, <1>4
  <2> HIDE DEF T, v, i
  <2>2. v[i] \in T
    BY <2>1, ItemIs
  <2> QED BY <2>2 DEF T, v, i
<1>6. MaxDiffLength \in Nat
  BY PrefixCodesAssumption
<1>7. CASE code.full
  BY <1>3, <1>5, <1>6, <1>7
<1>8. CASE ~code.full
  BY <1>3, <1>5, <1>6, <1>8
<1> QED BY <1>7, <1>8
-----------------------------------------------------------------------------
(* PrefixCodeLUTDecoder: its table says what ProcessSymbol would make of the symbol, as far
   as the bits of it suffice, and leaves the rest to the decoder behind it.         *)
LEMMA LUTDecodes ==
  ASSUME NEW code, GoodCode(code), NEW s \in Seq(Bit), MaxCodeLength <= Len(s), NEW rest,
         (\A l \in 1 .. LookupDepth : ~HitAt(code, s, l)) => rest = TheSymbol(code, s)
  PROVE  LUTDecode(code, s, rest) = ProcessSymbol(code, s, TheSymbol(code, s))
<1> DEFINE D == LookupDepth
           index == SubSeq(s, 1, D)
           Y == code.symbols
           hits == {i \in 1 .. Len(Y) : Y[i].len <= D /\ IsPrefix(BitsOf(Y[i]), index)}
           e == LUTEntry(code, index)
           R == LUTDecode(code, s, rest)
           P == ProcessSymbol(code, s, TheSymbol(code, s))
<1>1. /\ D \in Lengths /\ D \in Nat /\ D <= Len(s) /\ D \in 0 .. Len(s) /\ D <= MaxCodeLength
      /\ MaxDiffLength \in Nat \ {0} /\ MaxCodeLength \in Nat /\ Lengths = 1 .. MaxCodeLength
  BY PrefixCodesAssumption DEF Lengths
<1>2. R = IF e.flag THEN Found(e.value, e.used)
          ELSE IF Found(e.value, e.used) # Bad THEN ProcessSymbol(code, s, Found(e.value, e.used))
          ELSE ProcessSymbol(code, s, rest)
  BY DEF LUTDecode
<1>3. /\ \A p \in 1 .. D : HitAt(code, s, p) => hits = {IdAt(code, s, p)} /\ Y[IdAt(code, s, p)].len = p
      /\ (\A p \in 1 .. D : ~HitAt(code, s, p)) => hits = {}
  BY SMTT(40), <1>1, TableHits
<1>4. hits = {} => e = Entry(FALSE, Bad)
  BY DEF LUTEntry
<1>5. ASSUME NEW i, hits = {i}
      PROVE  LET len == Y[i].len
                 n == code.values[i]
                 diff == FromBits(SubSeq(index, len + 1, len + n))
             IN  e = IF ~code.full \/ (len + n > LookupDepth /\ n # MaxDiffLength)
                       THEN Entry(~code.full, Found(n, len))
                     ELSE Entry(TRUE, Found(IF n = 0 THEN 0 ELSE IF n = MaxDiffLength THEN Smallest ELSE Extend(diff, n),
                                            len + DiffBits(code, n)))
  <2> DEFINE E(j) == LET len == Y[j].len
                         n == code.values[j]
                         diff == FromBits(SubSeq(index, len + 1, len + n))
                     IN  IF ~code.full \/ (len + n > LookupDepth /\ n # MaxDiffLength)
                           THEN Entry(~code.full, Found(n, len))
                         ELSE Entry(TRUE, Found(IF n = 0 THEN 0 ELSE IF n = MaxDiffLength THEN Smallest ELSE Extend(diff, n),
                                                len + DiffBits(code, n)))
  <2>1. e = IF hits = {} THEN Entry(FALSE, Bad) ELSE E(CHOOSE j \in hits : TRUE)
    BY DEF LUTEntry
  <2>2. hits # {} /\ (CHOOSE j \in hits : TRUE) = i
    <3> HIDE DEF hits
    <3> QED BY <1>5
  <2>3. e = E(i)
    <3> HIDE DEF E, e, hits
    <3> QED BY <2>1, <2>2
  <2> QED BY <2>3
<1> HIDE DEF hits, e, R, index, Y
<1>6. CASE \A l \in 1 .. D : ~HitAt(code, s, l)
  <2>1. rest = TheSymbol(code, s)
    BY <1>6
  <2>2. e = Entry(FALSE, Bad)
    BY <1>3, <1>4, <1>6
  <2>3. e.flag = FALSE /\ Found(e.value, e.used) = Bad
    BY <2>2 DEF Bad, Entry, Found
  <2> QED BY <1>2, <2>1, <2>3 DEF R
<1>7. CASE \E l \in 1 .. D : HitAt(code, s, l)
  <2>1. PICK p \in 1 .. D : HitAt(code, s, p)
    BY <1>7
  <2> DEFINE id == IdAt(code, s, p)
             n == code.values[id]
             y == Found(n, p)
             short == FromBits(SubSeq(index, p + 1, p + n))
             diff == FromBits(SubSeq(s, p + 1, p + n))
  <2>2. p \in Lengths /\ p \in Nat \ {0} /\ p <= Len(s) /\ p <= D
    BY <1>1, <2>1
  <2>3. TheSymbol(code, s) = y
    BY <2>1, <2>2, TheSymbolIs DEF SymbolAt
  <2>4. y # Bad /\ y.value = n /\ y.used = p
    BY <2>2, FoundIs
  <2>5. n \in Nat /\ (code.full => n <= MaxDiffLength) /\ code.full \in BOOLEAN
    <3>1. n \in Nat /\ (code.full => n \in 0 .. MaxDiffLength)
      BY <2>1, <2>2, ValueAt
    <3> QED BY <1>1, <3>1 DEF GoodCode
  <2>6. hits = {id} /\ Y[id].len = p
    BY <1>3, <2>1
  <2>7. e = IF ~code.full \/ (p + n > D /\ n # MaxDiffLength)
              THEN Entry(~code.full, y)
            ELSE Entry(TRUE, Found(IF n = 0 THEN 0 ELSE IF n = MaxDiffLength THEN Smallest ELSE Extend(short, n),
                                   p + DiffBits(code, n)))
    <3> DEFINE E(len) == IF ~code.full \/ (len + n > D /\ n # MaxDiffLength)
                           THEN Entry(~code.full, Found(n, len))
                         ELSE Entry(TRUE, Found(IF n = 0 THEN 0 ELSE IF n = MaxDiffLength THEN Smallest
                                                ELSE Extend(FromBits(SubSeq(index, len + 1, len + n)), n),
                                                len + DiffBits(code, n)))
    <3>1. e = E(Y[id].len)
      <4> HIDE DEF id
      <4> QED BY <1>5, <2>6
    <3>2. e = E(p)
      <4> HIDE DEF E, id
      <4> QED BY <2>6, <3>1
    <3> QED BY <3>2
  <2>8. P = IF ~code.full THEN y
            ELSE IF n = MaxDiffLength THEN Found(Smallest, p + IF code.bug16 THEN MaxDiffLength ELSE 0)
            ELSE Found(IF n = 0 THEN 0 ELSE Extend(diff, n), p + n)
    <3> HIDE DEF y, n
    <3> QED BY <2>3, <2>4 DEF ProcessSymbol, n
  <2>9. p + n <= D => short = diff
    <3>1. p + n <= D => SubSeq(index, p + 1, p + n) = SubSeq(s, p + 1, p + n)
      <4> HIDE DEF n
      <4> QED BY <1>1, <2>2, <2>5, TakenPieces DEF index
    <3> QED BY <3>1
  <2> HIDE DEF n, y, short, diff, P, id
  <2>10. CASE ~code.full
    <3>1. e = Entry(TRUE, y)
      BY <2>7, <2>10
    <3>2. e.flag = TRUE /\ Found(e.value, e.used) = y
      <4>1. y = Found(n, p)
        BY DEF y
      <4> QED BY <3>1, <4>1 DEF Entry, Found
    <3> QED BY <1>2, <2>8, <2>10, <3>2 DEF R, P
  <2>11. CASE code.full /\ p + n > D /\ n # MaxDiffLength
    <3>1. e = Entry(FALSE, y)
      BY <2>7, <2>11
    <3>2. e.flag = FALSE /\ Found(e.value, e.used) = y
      <4>1. y = Found(n, p)
        BY DEF y
      <4> QED BY <3>1, <4>1 DEF Entry, Found
    <3>3. R = ProcessSymbol(code, s, y)
      BY <1>2, <2>4, <3>2
    <3> QED BY <2>3, <3>3 DEF R
  <2>12. CASE code.full /\ (p + n <= D \/ n = MaxDiffLength)
    <3> DEFINE v == IF n = 0 THEN 0 ELSE IF n = MaxDiffLength THEN Smallest ELSE Extend(short, n)
               u == p + DiffBits(code, n)
    <3>1. e = Entry(TRUE, Found(v, u))
      <4>1. ~(p + n > D /\ n # MaxDiffLength)
        BY <1>1, <2>2, <2>5, <2>12
      <4> QED BY <2>7, <2>12, <4>1
    <3>2. R = Found(v, u)
      <4>1. e.flag = TRUE /\ e.value = v /\ e.used = u
        <5> HIDE DEF v, u
        <5> QED BY <3>1 DEF Entry, Found
      <4> HIDE DEF v, u
      <4> QED BY <1>2, <4>1
    <3>3. P = Found(v, u)
      <4>1. CASE n = MaxDiffLength
        BY <1>1, <2>8, <2>12, <4>1 DEF DiffBits
      <4>2. CASE n # MaxDiffLength
        <5>1. short = diff
          BY <2>9, <2>12, <4>2
        <5> QED BY <2>8, <2>12, <4>2, <5>1 DEF DiffBits
      <4> QED BY <4>1, <4>2
    <3> QED BY <3>2, <3>3 DEF R, P
  <2> QED BY <1>1, <2>2, <2>5, <2>10, <2>11, <2>12
<1> QED BY <1>6, <1>7

(* Decoders with and without a lookup table decode the same.                           *)
LEMMA DecodeIs ==
  ASSUME NEW code, GoodCode(code), NEW s \in Seq(Bit), MaxCodeLength <= Len(s)
  PROVE  /\ Decode(code, s) = ProcessSymbol(code, s, TheSymbol(code, s))
         /\ OtherDecoders(code, s) = {Decode(code, s)}
<1> DEFINE n == MaxCodeLength
           D == LookupDepth
           P == ProcessSymbol(code, s, TheSymbol(code, s))
<1>1. n \in Nat /\ Lengths = 1 .. n /\ D \in 0 .. n /\ 0 \in 0 .. n
  BY PrefixCodesAssumption DEF Lengths
<1>2. ASSUME NEW from \in 0 .. n, \A l \in 1 .. from : ~HitAt(code, s, l)
      PROVE  VectorRead(code, s, from) = TheSymbol(code, s) /\ LookupRead(code, s, from) = TheSymbol(code, s)
  <2>1. \A l \in 1 .. n : l \in 1 .. from \/ l \in from + 1 .. n
    BY <1>1
  <2>3. \A l \in from + 1 .. n : l \in Lengths
    BY <1>1
  <2>2. CASE \E p \in from + 1 .. n : HitAt(code, s, p)
    <3>1. PICK p \in from + 1 .. n : HitAt(code, s, p)
      BY <2>2
    <3>2. TheSymbol(code, s) = SymbolAt(code, s, p)
      BY <2>3, <3>1, TheSymbolIs
    <3>3. VectorRead(code, s, from) = SymbolAt(code, s, p)
      BY <3>1, VectorReads
    <3>4. LookupRead(code, s, from) = SymbolAt(code, s, p)
      BY <1>2, <3>1, LookupReads
    <3> QED BY <3>2, <3>3, <3>4
  <2>4. CASE \A p \in from + 1 .. n : ~HitAt(code, s, p)
    <3>1. \A p \in Lengths : ~HitAt(code, s, p)
      BY <1>1, <1>2, <2>1, <2>4
    <3>2. TheSymbol(code, s) = Bad
      BY <3>1, TheSymbolIs
    <3>3. VectorRead(code, s, from) = Bad
      BY <2>4, VectorReads
    <3>4. LookupRead(code, s, from) = Bad
      BY <1>2, <2>4, LookupReads
    <3> QED BY <3>2, <3>3, <3>4
  <2> QED BY <2>2, <2>4
<1>3. VectorRead(code, s, 0) = TheSymbol(code, s) /\ LookupRead(code, s, 0) = TheSymbol(code, s)
  BY <1>1, <1>2
<1>4. TreeRead(code, s) = TheSymbol(code, s)
  BY TheSymbolIs, TreeReads
<1>5. /\ (\A l \in 1 .. D : ~HitAt(code, s, l)) => VectorRead(code, s, D) = TheSymbol(code, s)
      /\ (\A l \in 1 .. D : ~HitAt(code, s, l)) => LookupRead(code, s, D) = TheSymbol(code, s)
  BY <1>1, <1>2
<1>6. LUTDecode(code, s, LookupRead(code, s, D)) = P
  BY <1>5, LUTDecodes
<1>7. LUTDecode(code, s, VectorRead(code, s, D)) = P
  BY <1>5, LUTDecodes
<1>8. Decode(code, s) = P
  BY <1>6 DEF Decode
<1> QED BY <1>3, <1>4, <1>7, <1>8 DEF OtherDecoders
-----------------------------------------------------------------------------
(* The table of PanasonicV8Decompressor: what it reads behind the code.               *)
V8Symbol2(code, s, p) ==
  LET n == code.values[IdAt(code, s, p)]
  IN  Found(IF n = 0 THEN 0 ELSE Extend(FromBits(SubSeq(s, p + 1, p + n)), n), p + n)

(* The table of PanasonicV8Decompressor finds what the first codes point at.           *)
LEMMA V8DecodeIs ==
  ASSUME NEW code, GoodCode(code), IsV8(code), NEW s \in Seq(Bit), MaxCodeLength <= Len(s)
  PROVE  /\ \A p \in Lengths : HitAt(code, s, p) => V8Decode(code.symbols, s) = V8Symbol2(code, s, p)
         /\ (\A p \in Lengths : ~HitAt(code, s, p)) => V8Decode(code.symbols, s) = Bad
<1> DEFINE M == MaxCodeLength
           index == SubSeq(s, 1, M)
           Y == code.symbols
           hits == {i \in 1 .. Len(Y) : IsPrefix(BitsOf(Y[i]), index)}
           e == V8Entry(Y, index)
           R == V8Decode(Y, s)
<1>1. Numbered(code) /\ M \in Nat \ {0} /\ M \in Lengths /\ M <= M /\ Lengths = 1 .. M
  BY GoodCodeIs, PrefixCodesAssumption DEF Lengths
<1>2. hits = {i \in 1 .. Len(Y) : Y[i].len <= M /\ IsPrefix(BitsOf(Y[i]), index)}
  <2>1. \A i \in 1 .. Len(Y) : Y[i].len <= M
    BY <1>1, CodeOf
  <2> QED BY <2>1
<1>3. /\ \A p \in 1 .. M : HitAt(code, s, p) => hits = {IdAt(code, s, p)} /\ Y[IdAt(code, s, p)].len = p
      /\ (\A p \in 1 .. M : ~HitAt(code, s, p)) => hits = {}
  BY <1>1, <1>2, TableHits
<1>4. e = IF hits = {} THEN Sentinel ELSE V8Symbol(Y, CHOOSE i \in hits : \A k \in hits : i <= k)
  BY DEF V8Entry
<1>5. R = IF e = Sentinel THEN Bad
          ELSE Found(IF e.value = 0 THEN 0
                     ELSE Extend(FromBits(SubSeq(s, e.len + 1, e.len + e.value)), e.value), e.len + e.value)
  BY DEF V8Decode
<1>6. /\ \A i \in 1 .. Len(Y) : V8Symbol(Y, i) # Sentinel
      /\ \A i \in 1 .. Len(code.values) : code.values[i] = i - 1
  <2>1. code.values = [i \in 1 .. Len(code.values) |-> i - 1] /\ V8TableAccepted(Y)
    BY DEF IsV8
  <2> DEFINE v == code.values
  <2>2. \A i \in 1 .. Len(v) : v[i] = i - 1
    <3>1. v = [i \in 1 .. Len(v) |-> i - 1]
      BY <2>1
    <3> HIDE DEF v
    <3> QED BY <3>1
  <2> QED BY <2>1, <2>2 DEF V8TableAccepted
<1> HIDE DEF hits, e, R, Y, index
<1>7. ASSUME NEW p \in Lengths, HitAt(code, s, p) PROVE R = V8Symbol2(code, s, p)
  <2> DEFINE id == IdAt(code, s, p)
             n == code.values[id]
  <2>1. hits = {id} /\ Y[id].len = p /\ p <= Len(s)
    BY <1>1, <1>3, <1>7
  <2>2. id \in 1 .. Len(code.values) /\ id \in 1 .. Len(Y) /\ id \in Nat
    <3>1. id \in 1 .. Len(code.values)
      BY <1>7, <2>1, ValueAt
    <3> QED BY <1>1, <3>1 DEF Numbered, Y
  <2> HIDE DEF id
  <2>3. (CHOOSE i \in hits : \A k \in hits : i <= k) = id /\ hits # {}
    BY <2>1, <2>2
  <2>4. e = V8Symbol(Y, id) /\ e # Sentinel
    BY <1>4, <1>6, <2>2, <2>3
  <2>5. e.len = p /\ e.value = n
    BY <1>6, <2>1, <2>2, <2>4 DEF V8Symbol
  <2> HIDE DEF n
  <2>6. R = Found(IF n = 0 THEN 0 ELSE Extend(FromBits(SubSeq(s, p + 1, p + n)), n), p + n)
    BY <1>5, <2>4, <2>5
  <2> QED BY <2>6 DEF n, id, V8Symbol2
<1>8. ASSUME \A p \in Lengths : ~HitAt(code, s, p) PROVE R = Bad
  BY <1>1, <1>3, <1>4, <1>5, <1>8
<1> QED BY <1>7, <1>8 DEF R, Y

(* It says what the others say, where it has no difference of the largest length.      *)
LEMMA V8Agrees ==
  ASSUME NEW code, GoodCode(code), NEW s \in Seq(Bit), MaxCodeLength <= Len(s)
  PROVE  V8Decoders(code, s) \subseteq {Decode(code, s)}
<1> SUFFICES ASSUME IsV8(code), MaxDiffLength \notin Range(code.values)
             PROVE  V8Decode(code.symbols, s) = Decode(code, s)
  BY DEF V8Decoders
<1> DEFINE P == ProcessSymbol(code, s, TheSymbol(code, s))
<1>1. Decode(code, s) = P
  BY DecodeIs
<1>2. CASE \E p \in Lengths : HitAt(code, s, p)
  <2>1. PICK p \in Lengths : HitAt(code, s, p)
    BY <1>2
  <2> DEFINE id == IdAt(code, s, p)
             n == code.values[id]
             y == Found(n, p)
  <2>2. p <= Len(s) /\ p # 0
    BY PrefixCodesAssumption DEF Lengths
  <2>3. n # MaxDiffLength
    <3>1. id \in 1 .. Len(code.values)
      BY <2>1, <2>2, ValueAt
    <3>2. DOMAIN code.values = 1 .. Len(code.values)
      <4> DEFINE T == IF code.full THEN 0 .. MaxDiffLength ELSE Nat
                 v == code.values
      <4>1. v \in Seq(T)
        BY DEF GoodCode
      <4> HIDE DEF v, T
      <4>2. DOMAIN v = 1 .. Len(v)
        BY <4>1
      <4> QED BY <4>2 DEF v
    <3> QED BY <3>1, <3>2 DEF Range
  <2>4. TheSymbol(code, s) = y /\ y # Bad /\ y.value = n /\ y.used = p
    BY <2>1, <2>2, TheSymbolIs, FoundIs DEF SymbolAt
  <2>5. V8Decode(code.symbols, s) = Found(IF n = 0 THEN 0 ELSE Extend(FromBits(SubSeq(s, p + 1, p + n)), n), p + n)
    BY <2>1, V8DecodeIs DEF V8Symbol2
  <2>6. code.full
    BY DEF IsV8
  <2> HIDE DEF n, y, id
  <2>7. P = Found(IF n = 0 THEN 0 ELSE Extend(FromBits(SubSeq(s, p + 1, p + n)), n), p + n)
    BY <2>3, <2>4, <2>6 DEF ProcessSymbol
  <2> QED BY <1>1, <2>5, <2>7
<1>3. CASE \A p \in Lengths : ~HitAt(code, s, p)
  <2>1. TheSymbol(code, s) = Bad /\ V8Decode(code.symbols, s) = Bad
    BY <1>3, TheSymbolIs, V8DecodeIs
  <2> QED BY <1>1, <2>1 DEF ProcessSymbol
<1> QED BY <1>2, <1>3

(* PrefixCode::verifyCodeSymbols(): what HuffmanCode accepts is a prefix code.          *)
LEMMA CodesVerified ==
  ASSUME NEW code, GoodCode(code)
  PROVE  Verified(code.symbols)
<1> DEFINE Y == code.symbols
<1>1. FirstCodes(code) /\ Numbered(code)
  BY GoodCodeIs
<1>2. /\ Lengths \subseteq Nat /\ Len(Y) \in Nat
      /\ \A l \in Lengths : code.before[l] \in Nat /\ code.lens[l] \in Nat
  BY <1>1, PrefixCodesAssumption DEF Lengths, FirstCodes, Numbered
<1>3. \A id \in 1 .. Len(Y) : /\ Y[id].len \in Lengths /\ Y[id].code < TwoTo[Y[id].len]
                              /\ id - code.before[Y[id].len] \in 1 .. code.lens[Y[id].len]
  BY CodeOf
<1>4. ASSUME NEW p \in 1 .. Len(Y), NEW q \in 1 .. Len(Y), p < q PROVE Y[p].len <= Y[q].len
  <2> DEFINE k == Y[p].len
             l == Y[q].len
  <2>1. k \in Lengths /\ l \in Lengths /\ p - code.before[k] \in 1 .. code.lens[k] /\ q - code.before[l] \in 1 .. code.lens[l]
    BY <1>3
  <2> HIDE DEF k, l
  <2>2. CASE l < k
    <3>1. code.before[l] + code.lens[l] <= code.before[k]
      BY <1>1, <2>1, <2>2 DEF Numbered
    <3>2. code.before[l] \in Nat /\ code.lens[l] \in Nat /\ code.before[k] \in Nat
      BY <1>2, <2>1
    <3> DEFINE a == code.before[l]
               b == code.before[k]
               c == code.lens[l]
               d == code.lens[k]
    <3>3. a \in Nat /\ b \in Nat /\ c \in Nat /\ d \in Nat /\ p - b \in 1 .. d /\ q - a \in 1 .. c /\ a + c <= b
      BY <1>2, <2>1, <3>1, <3>2
    <3>4. p \in Nat /\ q \in Nat /\ p < q
      BY <1>2, <1>4
    <3> HIDE DEF a, b, c, d
    <3> QED BY <3>3, <3>4
  <2>3. CASE ~(l < k)
    <3>1. k \in Nat /\ l \in Nat
      BY <1>2, <2>1
    <3>2. k <= l
      <4> HIDE DEF Y
      <4> QED BY <2>3, <3>1
    <3> QED BY <3>2 DEF k, l
  <2> QED BY <2>2, <2>3
<1>5. ASSUME NEW p \in 1 .. Len(Y), NEW q \in 1 .. Len(Y), p < q,
             IsPrefix(BitsOf(Y[p]), BitsOf(Y[q]))
      PROVE  FALSE
  <2> DEFINE k == Y[p].len
             l == Y[q].len
             s == BitsOf(Y[q])
  <2>1. k \in Lengths /\ l \in Lengths /\ s \in Seq(Bit) /\ Len(s) = l /\ l \in Nat /\ k \in Nat
    BY <1>2, CodeOf
  <2>2. k <= l /\ HitAt(code, s, k) /\ p = IdAt(code, s, k)
    BY <1>5, <2>1, PrefixIs
  <2>3. IsPrefix(s, s)
    <3> HIDE DEF s, l, k
    <3> QED BY <2>1 DEF IsPrefix
  <2>4. HitAt(code, s, l) /\ q = IdAt(code, s, l)
    BY <2>1, <2>3, PrefixIs
  <2> HIDE DEF s, l, k
  <2>5. k = l
    BY <1>1, <2>1, <2>2, <2>4, OneHit
  <2>6. p = q
    BY <2>2, <2>4, <2>5
  <2> QED BY <1>2, <1>5, <2>6
<1> HIDE DEF Y
<1>6. \A i \in 2 .. Len(Y) : Y[i - 1].len <= Y[i].len
  <2> TAKE i \in 2 .. Len(Y)
  <2>1. i \in 1 .. Len(Y) /\ i - 1 \in 1 .. Len(Y) /\ i - 1 < i
    BY <1>2
  <2> QED BY <1>4, <2>1
<1>7. \A q \in 2 .. Len(Y) : \A p \in 1 .. q - 1 : ~IsPrefix(BitsOf(Y[p]), BitsOf(Y[q]))
  <2> TAKE q \in 2 .. Len(Y)
  <2> TAKE p \in 1 .. q - 1
  <2>1. q \in 1 .. Len(Y) /\ p \in 1 .. Len(Y) /\ p < q
    BY <1>2
  <2> QED BY <1>5, <2>1
<1> QED BY <1>3, <1>6, <1>7 DEF Verified, Y

(* All of DecodersAgree that is about a code.                                       *)
LEMMA CodesAgree ==
  ASSUME NEW code, GoodCode(code)
  PROVE  /\ Verified(code.symbols)
         /\ \A bits \in Windows : OtherDecoders(code, bits) \cup V8Decoders(code, bits) = {Decode(code, bits)}
<1>1. ASSUME NEW bits \in Windows
      PROVE  OtherDecoders(code, bits) \cup V8Decoders(code, bits) = {Decode(code, bits)}
  <2>1. PICK v \in 0 .. TwoTo[MaxGetBits] - 1 : bits = ToBits(v, MaxGetBits)
    BY DEF Windows
  <2>2. MaxGetBits \in Nat /\ MaxCodeLength <= MaxGetBits
    BY BitStreamsAssumption, PrefixCodesAssumption DEF MaxGetBits
  <2>3. v \in Nat
    BY <2>1, <2>2, TwoToIs
  <2>4. bits \in Seq(Bit) /\ Len(bits) = MaxGetBits
    BY <2>1, <2>2, <2>3, BitsAre
  <2>5. OtherDecoders(code, bits) = {Decode(code, bits)} /\ V8Decoders(code, bits) \subseteq {Decode(code, bits)}
    BY <2>2, <2>4, DecodeIs, V8Agrees
  <2> QED BY <2>5
<1> QED BY <1>1, CodesVerified
-----------------------------------------------------------------------------
(* Differences: reduce() makes bits of them, as many as they need, and extend() the
   difference of the bits.                                                          *)
LEMMA ActiveBitsAre ==
  ASSUME NEW x \in Nat, x < TwoTo[MaxDiffLength]
  PROVE  LET k == ActiveBits(x) IN
         k \in 0 .. MaxDiffLength /\ x < TwoTo[k] /\ (k = 0 \/ x >= TwoTo[k - 1])
<1> DEFINE n == MaxDiffLength
           S == {k \in 0 .. n : x < TwoTo[k]}
           OK(k) == x < TwoTo[k] /\ (k = 0 \/ x >= TwoTo[k - 1])
<1>1. n \in Nat
  BY PrefixCodesAssumption
<1>2. n \in S /\ S \in SUBSET Nat
  BY <1>1
<1>3. PICK k \in S : \A m \in S : k <= m
  <2> HIDE DEF S
  <2> QED BY <1>2, LeastNatural
<1>4. k \in 0 .. n /\ OK(k)
  <2>1. CASE k = 0
    BY <2>1
  <2>2. CASE k # 0
    <3>1. k - 1 \in 0 .. n /\ k - 1 \in Nat /\ ~(k <= k - 1)
      BY <1>1, <2>2
    <3>2. k - 1 \notin S
      BY <1>3, <3>1
    <3>3. TwoTo[k - 1] \in Nat
      BY <3>1, TwoToIs
    <3> QED BY <3>1, <3>2, <3>3
  <2> QED BY <2>1, <2>2
<1> DEFINE A == CHOOSE a \in 0 .. n : OK(a)
<1>5. A \in 0 .. n /\ OK(A)
  <2> HIDE DEF OK, n
  <2> QED BY <1>4
<1>6. ActiveBits(x) = A
  BY DEF ActiveBits
<1> HIDE DEF A
<1> QED BY <1>5, <1>6

(* A difference's bits and length, and that extend() undoes them.                      *)
LEMMA ReduceIs ==
  ASSUME NEW v \in Smallest .. -Smallest - 1
  PROVE  LET d == Reduce(v)
             n == Len(d)
         IN  /\ d \in Seq(Bit) /\ n \in 0 .. MaxDiffLength /\ (n = 0 => v = 0)
             /\ n # 0 => Extend(FromBits(d), n) = v
             /\ n = MaxDiffLength => v = Smallest
<1> DEFINE M == MaxDiffLength
           d == Reduce(v)
           T == TwoTo[M - 1]
<1>1. M \in Nat \ {0} /\ M - 1 \in Nat /\ (M - 1) + 1 = M
  BY PrefixCodesAssumption
<1>2. T \in Nat \ {0} /\ TwoTo[M] = 2 * T /\ Smallest = -T
  BY <1>1, TwoToIs DEF Smallest
<1> HIDE DEF T
<1>3. v \in Int /\ -T <= v /\ v < T
  BY <1>2
<1>4. CASE v >= 0
  <2> DEFINE n == ActiveBits(v)
  <2>1. v \in Nat /\ v < TwoTo[M]
    BY <1>2, <1>3, <1>4
  <2>2. n \in 0 .. M /\ v < TwoTo[n] /\ (n = 0 \/ v >= TwoTo[n - 1])
    BY <2>1, ActiveBitsAre
  <2>3. d = ToBits(v, n)
    BY <1>4 DEF Reduce
  <2> HIDE DEF d, n
  <2>4. n \in Nat /\ TwoTo[n] \in Nat
    BY <1>1, <2>2, TwoToIs
  <2>5. d \in Seq(Bit) /\ Len(d) = n /\ FromBits(d) = v
    BY <2>1, <2>2, <2>3, <2>4, BitsAre, ValueOfItsBits
  <2>6. n = 0 => v = 0
    BY <2>1, <2>2, TwoToIs
  <2>7. n # 0 => TwoTo[n - 1] \in Nat /\ ~(v < TwoTo[n - 1])
    <3>1. n # 0 => n - 1 \in Nat
      BY <2>4
    <3> QED BY <2>1, <2>2, <3>1, TwoToIs
  <2>8. n # 0 => Extend(v, n) = v
    BY <2>7 DEF Extend
  <2>9. n # M
    <3> SUFFICES ASSUME n = M PROVE FALSE
      OBVIOUS
    <3>1. v >= T
      BY <1>1, <2>2 DEF T
    <3> QED BY <1>2, <1>3, <3>1
  <2> QED BY <2>2, <2>5, <2>6, <2>8, <2>9 DEF d
<1>5. CASE v < 0
  <2> DEFINE n == ActiveBits(-v)
             w == v + TwoTo[n] - 1
             H == TwoTo[n - 1]
  <2>1. -v \in Nat /\ -v < TwoTo[M] /\ -v >= 1
    BY <1>2, <1>3, <1>5
  <2>2. n \in 0 .. M /\ -v < TwoTo[n] /\ (n = 0 \/ -v >= TwoTo[n - 1])
    BY <2>1, ActiveBitsAre
  <2>3. d = ToBits(w, n)
    BY <1>3, <1>5 DEF Reduce
  <2> HIDE DEF d, n
  <2>4. n # 0
    BY <2>1, <2>2, TwoToIs
  <2>5. n \in Nat /\ n - 1 \in Nat /\ (n - 1) + 1 = n
    BY <1>1, <2>2, <2>4
  <2>6. H \in Nat \ {0} /\ TwoTo[n] = 2 * H
    BY <2>5, TwoToIs
  <2> HIDE DEF H
  <2>7. w = v + 2 * H - 1 /\ w \in Nat /\ w < H /\ w < TwoTo[n]
    <3>1. -v < 2 * H /\ -v >= H
      BY <2>2, <2>4, <2>6 DEF H
    <3> QED BY <1>3, <1>5, <2>6, <3>1
  <2> HIDE DEF w
  <2>8. d \in Seq(Bit) /\ Len(d) = n /\ FromBits(d) = w
    BY <2>3, <2>5, <2>7, BitsAre, ValueOfItsBits
  <2>9. Extend(w, n) = v
    <3>1. w < TwoTo[n - 1]
      BY <2>7 DEF H
    <3>2. w - (TwoTo[n] - 1) = v
      BY <1>3, <2>6, <2>7
    <3> QED BY <3>1, <3>2 DEF Extend
  <2>10. n = M => v = Smallest
    <3> SUFFICES ASSUME n = M PROVE v = -T
      BY <1>2
    <3>1. -v >= T
      BY <2>2, <2>4 DEF T
    <3> QED BY <1>2, <1>3, <3>1
  <2> QED BY <2>2, <2>4, <2>8, <2>9, <2>10 DEF d
<1> QED BY <1>3, <1>4, <1>5

(* There is a code for a value, and what begins with it is read as the value.         *)
LEMMA CodeFor ==
  ASSUME NEW code, GoodCode(code), NEW v, v \in Range(code.values)
  PROVE  LET id == IdOf(code, v) IN
         id \in 1 .. Len(code.symbols) /\ id \in 1 .. Len(code.values) /\ code.values[id] = v
<1> DEFINE V == code.values
           OK(i) == V[i] = v /\ \A k \in 1 .. i - 1 : V[k] # v
           S == {i \in 1 .. Len(V) : V[i] = v}
<1>1. Numbered(code)
  BY GoodCodeIs
<1>2. DOMAIN V = 1 .. Len(V) /\ Len(V) \in Nat
  <2> DEFINE T == IF code.full THEN 0 .. MaxDiffLength ELSE Nat
  <2>1. V \in Seq(T)
    BY DEF GoodCode
  <2> HIDE DEF V, T
  <2> QED BY <2>1
<1> HIDE DEF V
<1>3. S # {} /\ S \in SUBSET Nat
  <2>1. \E i \in 1 .. Len(V) : V[i] = v
    BY <1>2 DEF Range, V
  <2> QED BY <1>2, <2>1
<1>4. PICK i \in S : \A m \in S : i <= m
  <2> HIDE DEF S
  <2> QED BY <1>3, LeastNatural
<1>5. OK(i)
  <2>1. \A k \in 1 .. i - 1 : k \in 1 .. Len(V) /\ ~(i <= k)
    BY <1>2
  <2> QED BY <1>4, <2>1
<1> DEFINE A == CHOOSE a \in 1 .. Len(V) : OK(a)
<1>6. A \in 1 .. Len(V) /\ OK(A)
  <2>1. i \in 1 .. Len(V)
    OBVIOUS
  <2> HIDE DEF OK, S
  <2> QED BY <1>5, <2>1
<1>7. IdOf(code, v) = A
  BY DEF IdOf, V
<1> HIDE DEF A
<1> QED BY <1>1, <1>6, <1>7 DEF Numbered, V

(* The code of a symbol, at the beginning of the input, is found to be that symbol's.  *)
LEMMA PutIsRead ==
  ASSUME NEW code, GoodCode(code), NEW id \in 1 .. Len(code.symbols), NEW s \in Seq(Bit), MaxCodeLength <= Len(s),
         \A i \in 1 .. Len(BitsOf(code.symbols[id])) : s[i] = BitsOf(code.symbols[id])[i]
  PROVE  LET l == Len(BitsOf(code.symbols[id])) IN
         l \in Lengths /\ HitAt(code, s, l) /\ id = IdAt(code, s, l)
<1> DEFINE b == BitsOf(code.symbols[id])
           l == Len(b)
           t == SubSeq(s, 1, l)
<1>1. b \in Seq(Bit) /\ l \in Lengths
  BY CodeOf
<1>2. l \in Nat /\ l <= Len(s)
  BY <1>1, PrefixCodesAssumption DEF Lengths
<1> HIDE DEF b
<1>3. t \in Seq(Bit) /\ Len(t) = l /\ \A i \in 1 .. l : t[i] = s[i]
  BY <1>2
<1> HIDE DEF t
<1>4. b = t
  <2>1. \A i \in 1 .. Len(b) : b[i] = t[i]
    BY <1>3 DEF b
  <2> QED BY <1>1, <1>3, <2>1, SameSequence
<1> QED BY <1>1, <1>2, <1>4, MatchIs DEF b, t

(* A sequence of two.                                                                  *)
LEMMA PairIs ==
  ASSUME NEW T, NEW a \in T, NEW b \in T
  PROVE  << a, b >> \in Seq(T) /\ Len(<< a, b >>) = 2 /\ << a, b >>[1] = a /\ << a, b >>[2] = b
OBVIOUS

(* A sequence of one.                                                                  *)
LEMMA OneIs ==
  ASSUME NEW T, NEW a \in T
  PROVE  << a >> \in Seq(T) /\ Len(<< a >>) = 1 /\ << a >>[1] = a
OBVIOUS

(* Flat() of two sequences.                                                            *)
LEMMA FlatTwo ==
  ASSUME NEW T, NEW a \in Seq(T), NEW b \in Seq(T)
  PROVE  Flat(<< a, b >>) = a \o b
<1> DEFINE x == << a, b >>
<1>1. x \in Seq(Seq(T)) /\ Len(x) = 2 /\ x[1] = a /\ x[2] = b
  BY PairIs
<1> HIDE DEF x
<1>2. PICK F \in [0 .. 2 -> Seq(T)] : FlattensBy(x, 2, F)
  BY ZenonT(60), <1>1, FlatSteps
<1>3. F[0] = << >> /\ F[1] = F[0] \o a /\ F[2] = F[1] \o b /\ Flat(x) = F[2]
  <2>1. F[0] = << >> /\ Flat(x) = F[2] /\ \A i \in 1 .. 2 : F[i] = F[i - 1] \o x[i]
    BY <1>2 DEF FlattensBy, Flat
  <2>2. 1 \in 1 .. 2 /\ 2 \in 1 .. 2 /\ 1 - 1 = 0 /\ 2 - 1 = 1
    OBVIOUS
  <2>3. F[1] = F[0] \o x[1] /\ F[2] = F[1] \o x[2]
    BY <2>1, <2>2
  <2> QED BY <1>1, <2>1, <2>3
<1>4. << >> \o a = a
  BY ConcatEmpty
<1> QED BY <1>3, <1>4 DEF x

(* What is put for a value: the bits of a code, and maybe those of a difference.       *)
Difference(code, v) ==
  IF code.full /\ (Len(Reduce(v)) # MaxDiffLength \/ code.bug16) THEN Reduce(v) ELSE << >>

CodedBy(code, v) == IdOf(code, IF code.full THEN Len(Reduce(v)) ELSE v)

(* What is put for a value: the code of its symbol and, in a full decoder, the bits of
   the difference.                                                                     *)
LEMMA EncodeIs ==
  ASSUME NEW code, GoodCode(code), NEW v \in Encodable(code)
  PROVE  LET b == BitsOf(code.symbols[CodedBy(code, v)])
             d == Difference(code, v)
             e == Encode(code, v)
         IN  /\ CodedBy(code, v) \in 1 .. Len(code.symbols)
             /\ code.values[CodedBy(code, v)] = IF code.full THEN Len(Reduce(v)) ELSE v
             /\ code.full => v \in Smallest .. -Smallest - 1
             /\ b \in Seq(Bit) /\ Len(b) \in Lengths /\ d \in Seq(Bit) /\ Len(d) \in 0 .. MaxDiffLength
             /\ Flat(e) = b \o d /\ e \in Seq(Seq(Bit)) /\ Len(e) \in {1, 2}
             /\ e[1] = b /\ (Len(e) = 2 => e[2] = d)
<1> DEFINE u == IF code.full THEN Len(Reduce(v)) ELSE v
           id == CodedBy(code, v)
           b == BitsOf(code.symbols[id])
           d == Difference(code, v)
           e == Encode(code, v)
<1>1. u \in Range(code.values) /\ (code.full => v \in Smallest .. -Smallest - 1)
  BY DEF Encodable
<1>2. id \in 1 .. Len(code.symbols) /\ code.values[id] = u
  <2> HIDE DEF u
  <2>1. id = IdOf(code, u)
    BY DEF CodedBy, u
  <2> QED BY <1>1, <2>1, CodeFor
<1>3. b \in Seq(Bit) /\ Len(b) \in Lengths
  BY <1>2, CodeOf
<1>4. d \in Seq(Bit) /\ Len(d) \in 0 .. MaxDiffLength
  <2>1. CASE code.full /\ (Len(Reduce(v)) # MaxDiffLength \/ code.bug16)
    <3>1. Reduce(v) \in Seq(Bit) /\ Len(Reduce(v)) \in 0 .. MaxDiffLength
      BY <1>1, <2>1, ReduceIs
    <3> QED BY <2>1, <3>1 DEF Difference
  <2>2. CASE ~(code.full /\ (Len(Reduce(v)) # MaxDiffLength \/ code.bug16))
    <3>1. d = << >>
      BY <2>2 DEF Difference
    <3>2. << >> \in Seq(Bit) /\ Len(<< >>) = 0 /\ 0 \in 0 .. MaxDiffLength
      BY PrefixCodesAssumption
    <3> HIDE DEF d
    <3> QED BY <3>1, <3>2
  <2> QED BY <2>1, <2>2
<1>5. Flat(e) = b \o d /\ e \in Seq(Seq(Bit)) /\ Len(e) \in {1, 2} /\ e[1] = b /\ (Len(e) = 2 => e[2] = d)
  <2>1. CASE code.full /\ (Len(Reduce(v)) # MaxDiffLength \/ code.bug16)
    <3>1. e = << b, d >>
      BY <2>1 DEF Encode, Difference, CodedBy
    <3> HIDE DEF e, b, d
    <3>2. Flat(<< b, d >>) = b \o d
      BY <1>3, <1>4, FlatTwo
    <3>3. << b, d >> \in Seq(Seq(Bit)) /\ Len(<< b, d >>) = 2 /\ << b, d >>[1] = b /\ << b, d >>[2] = d
      BY <1>3, <1>4, PairIs
    <3> QED BY <3>1, <3>2, <3>3
  <2>2. CASE ~(code.full /\ (Len(Reduce(v)) # MaxDiffLength \/ code.bug16))
    <3>1. e = << b >>
      BY <2>2 DEF Encode, CodedBy
    <3>2. d = << >>
      BY <2>2 DEF Difference
    <3> HIDE DEF e, b, d
    <3>3. Flat(<< b >>) = b /\ b \o << >> = b
      BY <1>3, FlatOne, ConcatEmpty
    <3>4. << b >> \in Seq(Seq(Bit)) /\ Len(<< b >>) = 1 /\ << b >>[1] = b
      BY <1>3, OneIs
    <3> QED BY <3>1, <3>2, <3>3, <3>4
  <2> QED BY <2>1, <2>2
<1> QED BY <1>1, <1>2, <1>3, <1>4, <1>5

(* The decoders read back what was encoded, whatever comes behind it.                  *)
LEMMA EncodedIsRead ==
  ASSUME NEW code, GoodCode(code), NEW v \in Encodable(code), NEW s \in Seq(Bit),
         MaxCodeLength + MaxDiffLength <= Len(s),
         \A i \in 1 .. Len(Flat(Encode(code, v))) : s[i] = Flat(Encode(code, v))[i]
  PROVE  /\ Decode(code, s) = Found(v, Len(Flat(Encode(code, v))))
         /\ IsV8(code) => V8Decode(code.symbols, s) = Found(v, Len(Flat(Encode(code, v))))
<1> DEFINE id == CodedBy(code, v)
           b == BitsOf(code.symbols[id])
           d == Difference(code, v)
           l == Len(b)
           r == Reduce(v)
           n == Len(r)
           E == Len(Flat(Encode(code, v)))
           P == ProcessSymbol(code, s, TheSymbol(code, s))
<1>1. /\ id \in 1 .. Len(code.symbols) /\ code.values[id] = (IF code.full THEN n ELSE v)
      /\ code.full => v \in Smallest .. -Smallest - 1
      /\ b \in Seq(Bit) /\ l \in Lengths /\ d \in Seq(Bit) /\ Len(d) \in 0 .. MaxDiffLength
      /\ Flat(Encode(code, v)) = b \o d
  BY EncodeIs
<1>2. MaxCodeLength \in Nat /\ MaxDiffLength \in Nat \ {0} /\ l \in Nat \ {0} /\ l <= MaxCodeLength /\ MaxCodeLength <= Len(s)
      /\ Len(s) \in Nat
  BY <1>1, PrefixCodesAssumption DEF Lengths
<1>3. /\ E = l + Len(d)
      /\ \A i \in 1 .. l : s[i] = b[i]
      /\ \A i \in 1 .. Len(d) : s[l + i] = d[i]
  <2> DEFINE f == Flat(Encode(code, v))
  <2>1. \A i \in 1 .. Len(f) : s[i] = f[i]
    OBVIOUS
  <2>2. f = b \o d
    BY <1>1
  <2> HIDE DEF f, b, d
  <2>3. Len(f) = l + Len(d) /\ (\A i \in 1 .. l : f[i] = b[i]) /\ \A i \in 1 .. Len(d) : f[l + i] = d[i]
    BY <1>1, <2>2, ConcatIs
  <2>4. \A i \in 1 .. l : i \in 1 .. Len(f)
    BY <1>1, <1>2, <2>3
  <2>5. \A i \in 1 .. Len(d) : l + i \in 1 .. Len(f)
    BY <1>1, <1>2, <2>3
  <2> QED BY <2>1, <2>3, <2>4, <2>5 DEF f
<1>4. HitAt(code, s, l) /\ id = IdAt(code, s, l)
  <2> HIDE DEF id
  <2> QED BY <1>1, <1>2, <1>3, PutIsRead
<1>5. TheSymbol(code, s) = Found(code.values[id], l)
  <2> HIDE DEF id, l
  <2> QED BY <1>1, <1>2, <1>4, TheSymbolIs DEF SymbolAt
<1>6. Decode(code, s) = P
  BY <1>2, DecodeIs
<1>7. IsV8(code) => V8Decode(code.symbols, s) = V8Symbol2(code, s, l)
  <2> HIDE DEF l
  <2> QED BY <1>1, <1>2, <1>4, V8DecodeIs
<1>8. code.full => /\ r \in Seq(Bit) /\ n \in 0 .. MaxDiffLength /\ (n = 0 => v = 0)
                   /\ n # 0 => Extend(FromBits(r), n) = v
                   /\ n = MaxDiffLength => v = Smallest
  BY <1>1, ReduceIs
<1>9. d = IF code.full /\ (n # MaxDiffLength \/ code.bug16) THEN r ELSE << >>
  BY DEF Difference
<1> HIDE DEF id, b, d, l, r, E
<1>10. CASE ~code.full
  <2>1. d = << >> /\ E = l
    BY <1>2, <1>3, <1>9, <1>10
  <2>2. TheSymbol(code, s) = Found(v, l)
    BY <1>1, <1>5, <1>10
  <2>3. P = Found(v, E) /\ ~IsV8(code)
    BY <1>10, <2>1, <2>2 DEF ProcessSymbol, IsV8
  <2> QED BY <1>6, <2>3 DEF E
<1>11. CASE code.full /\ n = MaxDiffLength /\ ~code.bug16
  <2>1. d = << >> /\ E = l /\ v = Smallest
    BY <1>2, <1>3, <1>8, <1>9, <1>11
  <2>2. TheSymbol(code, s) = Found(n, l) /\ Found(n, l) # Bad /\ Found(n, l).value = n /\ Found(n, l).used = l
    BY <1>1, <1>2, <1>5, <1>11, FoundIs
  <2>3. P = Found(Smallest, l + 0)
    BY <1>11, <2>2 DEF ProcessSymbol
  <2>4. ~IsV8(code)
    <3> SUFFICES ASSUME IsV8(code) PROVE FALSE
      OBVIOUS
    <3>1. MaxDiffLength \in Range(code.values)
      <4>1. code.values[id] = MaxDiffLength
        BY <1>1, <1>11
      <4>2. id \in 1 .. Len(code.values)
        BY <1>1, GoodCodeIs DEF Numbered
      <4>3. DOMAIN code.values = 1 .. Len(code.values)
        <5> DEFINE w == code.values
        <5>1. w = [i \in 1 .. Len(w) |-> i - 1]
          BY DEF IsV8
        <5> HIDE DEF w
        <5>2. DOMAIN w = 1 .. Len(w)
          BY <5>1
        <5> QED BY <5>2 DEF w
      <4> QED BY <4>1, <4>2, <4>3 DEF Range
    <3> QED BY <1>11, <3>1 DEF IsV8
  <2> QED BY <1>2, <1>6, <2>1, <2>3, <2>4 DEF E
<1>12. CASE code.full /\ (n # MaxDiffLength \/ code.bug16)
  <2>1. d = r /\ E = l + n /\ n \in Nat /\ r \in Seq(Bit) /\ n <= MaxDiffLength
    BY <1>2, <1>3, <1>8, <1>9, <1>12
  <2>2. SubSeq(s, l + 1, l + n) = r
    <3> DEFINE t == SubSeq(s, l + 1, l + n)
    <3>1. t \in Seq(Bit) /\ Len(t) = n /\ \A i \in 1 .. n : t[i] = s[l + i]
      <4> DEFINE q == l + n
      <4>1. q \in Nat /\ l \in Nat /\ l <= q /\ q <= Len(s) /\ q - l = n
        <5> HIDE DEF n
        <5> QED BY <1>2, <2>1
      <4> HIDE DEF q
      <4>2. SubSeq(s, l + 1, q) \in Seq(Bit) /\ Len(SubSeq(s, l + 1, q)) = q - l
            /\ \A i \in 1 .. q - l : SubSeq(s, l + 1, q)[i] = s[l + i]
        BY <4>1, BeginningIs
      <4> QED BY <4>1, <4>2 DEF q
    <3> HIDE DEF t
    <3>2. \A i \in 1 .. Len(t) : t[i] = r[i]
      BY <1>3, <2>1, <3>1
    <3>3. t = r
      BY <2>1, <3>1, <3>2, SameSequence
    <3> QED BY <3>3 DEF t
  <2>3. TheSymbol(code, s) = Found(n, l) /\ Found(n, l) # Bad /\ Found(n, l).value = n /\ Found(n, l).used = l
    BY <1>1, <1>2, <1>5, <1>12, FoundIs
  <2> HIDE DEF n
  <2>4. P = Found(v, E)
    <3>1. CASE n = MaxDiffLength
      <4>1. P = Found(Smallest, l + MaxDiffLength)
        BY <1>12, <2>3, <3>1 DEF ProcessSymbol
      <4> QED BY <1>8, <1>12, <2>1, <3>1, <4>1 DEF n
    <3>2. CASE n # MaxDiffLength
      <4>1. P = Found(IF n = 0 THEN 0 ELSE Extend(FromBits(SubSeq(s, l + 1, l + n)), n), l + n)
        BY <1>12, <2>3, <3>2 DEF ProcessSymbol
      <4>2. (IF n = 0 THEN 0 ELSE Extend(FromBits(r), n)) = v
        BY <1>8, <1>12 DEF n
      <4> QED BY <2>1, <2>2, <4>1, <4>2
    <3> QED BY <3>1, <3>2
  <2>5. V8Symbol2(code, s, l) = Found(v, E)
    <3>1. code.values[IdAt(code, s, l)] = n
      BY <1>1, <1>4, <1>12 DEF n
    <3>2. V8Symbol2(code, s, l) = Found(IF n = 0 THEN 0 ELSE Extend(FromBits(SubSeq(s, l + 1, l + n)), n), l + n)
      BY <3>1 DEF V8Symbol2
    <3>3. (IF n = 0 THEN 0 ELSE Extend(FromBits(r), n)) = v
      BY <1>8, <1>12 DEF n
    <3> QED BY <2>1, <2>2, <3>2, <3>3
  <2> QED BY <1>6, <1>7, <2>4, <2>5 DEF E
<1>13. code.full \in BOOLEAN
  BY DEF GoodCode
<1> QED BY <1>10, <1>11, <1>12, <1>13
-----------------------------------------------------------------------------
(* What is put one behind the other: where each piece is in the whole.                *)
BuiltBy(H, W, n, T) ==
  /\ H[0] = << >>
  /\ \A i \in 1 .. n : W[i] \in Seq(T) /\ H[i] = H[i - 1] \o W[i]

BuiltLengths(H, W, n, T) ==
  /\ \A i \in 0 .. n : H[i] \in Seq(T)
  /\ \A i \in 1 .. n : Len(H[i]) = Len(H[i - 1]) + Len(W[i])

InPlace(H, W, n) ==
  \A m \in 0 .. n : \A i \in 1 .. m : \A j \in 1 .. Len(W[i]) :
    Len(H[i - 1]) + j \in 1 .. Len(H[m]) /\ H[m][Len(H[i - 1]) + j] = W[i][j]

(* The beginnings of a concatenation are sequences, as long as what is in them.        *)
LEMMA BuiltTyped ==
  ASSUME NEW T, NEW n \in Nat, NEW H, NEW W, BuiltBy(H, W, n, T)
  PROVE  BuiltLengths(H, W, n, T)
<1> DEFINE D == Seq(T)
<1>1. \A i \in 1 .. n : H[i - 1] \in D => H[i] \in D
  <2> SUFFICES ASSUME NEW i \in 1 .. n, H[i - 1] \in Seq(T) PROVE H[i] \in Seq(T)
    OBVIOUS
  <2> DEFINE u == H[i - 1]
             v == W[i]
  <2>1. u \in Seq(T) /\ v \in Seq(T) /\ H[i] = u \o v
    BY DEF BuiltBy
  <2> HIDE DEF u, v
  <2> QED BY <2>1, ConcatIs
<1>2. H[0] \in D /\ n \in Nat
  BY DEF BuiltBy
<1>3. \A i \in 0 .. n : H[i] \in D
  <2> HIDE DEF D
  <2> QED BY Zenon, <1>1, <1>2, TypedUpTo
<1>4. ASSUME NEW i \in 1 .. n PROVE Len(H[i]) = Len(H[i - 1]) + Len(W[i])
  <2> DEFINE u == H[i - 1]
             v == W[i]
  <2>1. u \in Seq(T)
    <3>1. i - 1 \in 0 .. n
      OBVIOUS
    <3> QED BY <1>3, <3>1
  <2>2. v \in Seq(T) /\ H[i] = u \o v
    BY DEF BuiltBy
  <2> HIDE DEF u, v
  <2>3. Len(H[i]) = Len(u) + Len(v)
    BY <2>1, <2>2, ConcatIs
  <2> QED BY <2>3 DEF u, v
<1> QED BY <1>3, <1>4 DEF BuiltLengths

(* The items of part i of a concatenation are behind its first i - 1 parts.            *)
LEMMA BuiltPlaces ==
  ASSUME NEW T, NEW n \in Nat, NEW H, NEW W, BuiltBy(H, W, n, T)
  PROVE  InPlace(H, W, n)
<1> DEFINE Right(m) == \A i \in 1 .. m : \A j \in 1 .. Len(W[i]) :
                         Len(H[i - 1]) + j \in 1 .. Len(H[m]) /\ H[m][Len(H[i - 1]) + j] = W[i][j]
           S == {m \in 0 .. n : Right(m)}
<1>1. /\ \A i \in 0 .. n : H[i] \in Seq(T)
      /\ \A i \in 1 .. n : Len(H[i]) = Len(H[i - 1]) + Len(W[i])
  <2>1. BuiltLengths(H, W, n, T)
    BY BuiltTyped
  <2> QED BY <2>1 DEF BuiltLengths
<1>2. 0 \in S
  <2>1. Right(0) /\ 0 \in 0 .. n
    OBVIOUS
  <2> QED BY <2>1
<1>3. \A k \in 0 .. n - 1 : k \in S => k + 1 \in S
  <2> SUFFICES ASSUME NEW k \in 0 .. n - 1, Right(k) PROVE Right(k + 1)
    <3>1. \A k \in 0 .. n - 1 : k + 1 \in 0 .. n
      OBVIOUS
    <3> HIDE DEF Right
    <3> QED BY <3>1
  <2> DEFINE m == k + 1
             u == H[k]
             v == W[m]
  <2>1. m \in 1 .. n /\ m - 1 = k /\ k \in 0 .. n /\ k \in Nat
    OBVIOUS
  <2>2. u \in Seq(T) /\ v \in Seq(T) /\ H[m] = u \o v
    BY <1>1, <2>1 DEF BuiltBy
  <2>3. \A i \in 1 .. k : \A j \in 1 .. Len(W[i]) : Len(H[i - 1]) + j \in 1 .. Len(u) /\ u[Len(H[i - 1]) + j] = W[i][j]
    OBVIOUS
  <2> HIDE DEF u, v
  <2>4. /\ Len(H[m]) = Len(u) + Len(v) /\ (\A i \in 1 .. Len(u) : H[m][i] = u[i])
        /\ \A i \in 1 .. Len(v) : H[m][Len(u) + i] = v[i]
    BY <2>2, ConcatIs
  <2>5. Len(u) \in Nat /\ Len(v) \in Nat
    BY <2>2
  <2>6. ASSUME NEW i \in 1 .. m, NEW j \in 1 .. Len(W[i])
        PROVE  Len(H[i - 1]) + j \in 1 .. Len(H[m]) /\ H[m][Len(H[i - 1]) + j] = W[i][j]
    <3>1. CASE i = m
      <4>1. i - 1 = k /\ j \in 1 .. Len(v)
        BY <2>1, <3>1 DEF v
      <4>2. Len(H[i - 1]) = Len(u) /\ W[i] = v
        BY <3>1, <4>1 DEF u, v
      <4>3. Len(u) + j \in 1 .. Len(H[m])
        BY <2>4, <2>5, <4>1
      <4> QED BY <2>4, <4>1, <4>2, <4>3
    <3>2. CASE i # m
      <4>1. i \in 1 .. k
        BY <2>1, <3>2
      <4> DEFINE p == Len(H[i - 1]) + j
      <4>2. p \in 1 .. Len(u) /\ u[p] = W[i][j]
        BY <2>3, <4>1
      <4> HIDE DEF p
      <4>3. p \in 1 .. Len(H[m]) /\ H[m][p] = W[i][j]
        BY <2>4, <2>5, <4>2
      <4> QED BY <4>3 DEF p
    <3> QED BY <3>1, <3>2
  <2> HIDE DEF m
  <2>7. Right(m)
    BY <2>6
  <2> HIDE DEF Right
  <2> QED BY <2>7 DEF m
<1>4. 0 .. n \subseteq S
  <2> HIDE DEF S
  <2> QED BY <1>2, <1>3, AllUpTo
<1> QED BY <1>4 DEF InPlace

(* A longer beginning is not shorter.                                                  *)
LEMMA BuiltGrows ==
  ASSUME NEW T, NEW n \in Nat, NEW H, NEW W, BuiltBy(H, W, n, T), NEW k \in 0 .. n, NEW m \in 0 .. n, k <= m
  PROVE  Len(H[k]) <= Len(H[m])
<1> DEFINE S == {d \in 0 .. n : k + d <= n => Len(H[k]) <= Len(H[k + d])}
<1>1. /\ \A i \in 0 .. n : Len(H[i]) \in Nat
      /\ \A i \in 1 .. n : Len(H[i]) = Len(H[i - 1]) + Len(W[i]) /\ Len(W[i]) \in Nat
  <2>0. BuiltLengths(H, W, n, T)
    BY BuiltTyped
  <2>1. \A i \in 0 .. n : H[i] \in Seq(T)
    BY <2>0 DEF BuiltLengths
  <2>2. \A i \in 1 .. n : W[i] \in Seq(T)
    BY DEF BuiltBy
  <2>3. \A i \in 1 .. n : Len(H[i]) = Len(H[i - 1]) + Len(W[i])
    BY <2>0 DEF BuiltLengths
  <2>4. \A i \in 0 .. n : Len(H[i]) \in Nat
    BY <2>1
  <2>5. \A i \in 1 .. n : Len(W[i]) \in Nat
    BY <2>2
  <2> QED BY <2>3, <2>4, <2>5
<1>2. 0 \in S
  <2>1. k + 0 = k /\ 0 \in 0 .. n
    OBVIOUS
  <2> QED BY <1>1, <2>1
<1>3. \A d \in 0 .. n - 1 : d \in S => d + 1 \in S
  <2> SUFFICES ASSUME NEW d \in 0 .. n - 1, d \in S, k + (d + 1) <= n PROVE Len(H[k]) <= Len(H[k + (d + 1)])
    OBVIOUS
  <2>1. k + (d + 1) \in 1 .. n /\ (k + (d + 1)) - 1 = k + d /\ k + d \in 0 .. n /\ k + d <= n
    OBVIOUS
  <2>2. Len(H[k + (d + 1)]) = Len(H[k + d]) + Len(W[k + (d + 1)]) /\ Len(W[k + (d + 1)]) \in Nat
    BY <1>1, <2>1
  <2>3. Len(H[k]) <= Len(H[k + d]) /\ Len(H[k + d]) \in Nat /\ Len(H[k]) \in Nat
    <3>1. Len(H[k]) <= Len(H[k + d])
      BY <2>1
    <3>2. Len(H[k + d]) \in Nat /\ Len(H[k]) \in Nat
      BY <1>1, <2>1
    <3> QED BY <3>1, <3>2
  <2>4. Len(H[k]) <= Len(H[k + (d + 1)])
    <3> DEFINE x == Len(H[k])
               y == Len(H[k + d])
               z == Len(H[k + (d + 1)])
               w == Len(W[k + (d + 1)])
    <3>1. x \in Nat /\ y \in Nat /\ w \in Nat /\ x <= y /\ z = y + w
      BY <2>2, <2>3
    <3> HIDE DEF x, y, z, w
    <3>2. x <= z
      BY <3>1
    <3> QED BY <3>2 DEF x, z
  <2> QED BY <2>4
<1>4. 0 .. n \subseteq S
  <2> HIDE DEF S
  <2> QED BY <1>2, <1>3, AllUpTo
<1>5. m - k \in 0 .. n /\ k + (m - k) = m
  OBVIOUS
<1>6. m - k \in S
  BY <1>4, <1>5
<1> QED BY <1>5, <1>6

(* The pieces of what FlattenSeq makes.                                             *)
LEMMA FlatBuilt ==
  ASSUME NEW T, NEW seqs \in Seq(Seq(T))
  PROVE  \E H : BuiltBy(H, seqs, Len(seqs), T) /\ Flat(seqs) = H[Len(seqs)]
<1>1. PICK F \in [0 .. Len(seqs) -> Seq(T)] : FlattensBy(seqs, Len(seqs), F)
  BY FlatSteps
<1>2. \A i \in 1 .. Len(seqs) : seqs[i] \in Seq(T)
  OBVIOUS
<1> QED BY <1>1, <1>2 DEF FlattensBy, BuiltBy, Flat

(* Pieces of the same length lie in rows.                                           *)
InRows(seqs, n, b) ==
  \A i \in 1 .. n : \A j \in 1 .. b :
    (i - 1) * b + j \in 1 .. Len(Flat(seqs)) /\ Flat(seqs)[(i - 1) * b + j] = seqs[i][j]

(* Flat() of sequences of the same length has them in rows.                            *)
LEMMA FlatInRows ==
  ASSUME NEW T, NEW seqs, seqs \in Seq(Seq(T)), NEW n \in 0 .. Len(seqs), Len(seqs) = n,
         NEW b \in Nat, \A i \in 1 .. n : Len(seqs[i]) = b
  PROVE  Flat(seqs) \in Seq(T) /\ Len(Flat(seqs)) = n * b /\ InRows(seqs, n, b)
<1>1. PICK H : BuiltBy(H, seqs, n, T) /\ Flat(seqs) = H[n]
  BY FlatBuilt
<1>2. n \in Nat
  OBVIOUS
<1>3. /\ \A i \in 0 .. n : H[i] \in Seq(T)
      /\ \A i \in 1 .. n : Len(H[i]) = Len(H[i - 1]) + Len(seqs[i])
  <2>1. BuiltLengths(H, seqs, n, T)
    BY <1>1, <1>2, BuiltTyped
  <2> QED BY <2>1 DEF BuiltLengths
<1> DEFINE S == {i \in 0 .. n : Len(H[i]) = i * b}
<1>4. 0 \in S
  <2>1. H[0] = << >> /\ 0 * b = 0 /\ 0 \in 0 .. n
    BY <1>1, <1>2 DEF BuiltBy
  <2> QED BY <2>1
<1>5. \A k \in 0 .. n - 1 : k \in S => k + 1 \in S
  <2> TAKE k \in 0 .. n - 1
  <2>1. k + 1 \in 1 .. n /\ (k + 1) - 1 = k /\ k \in Nat /\ k + 1 \in 0 .. n
    BY <1>2
  <2>2. (k + 1) * b = k * b + b
    BY <2>1
  <2>3. Len(H[k + 1]) = Len(H[k]) + b
    BY <1>3, <2>1
  <2> QED BY <2>1, <2>2, <2>3
<1>6. \A i \in 0 .. n : Len(H[i]) = i * b
  <2>1. 0 .. n \subseteq S
    <3> HIDE DEF S
    <3> QED BY <1>2, <1>4, <1>5, AllUpTo
  <2> QED BY <2>1
<1>7. n \in 0 .. n
  BY <1>2
<1>8. ASSUME NEW i \in 1 .. n, NEW j \in 1 .. b
      PROVE  (i - 1) * b + j \in 1 .. Len(H[n]) /\ H[n][(i - 1) * b + j] = seqs[i][j]
  <2>1. j \in 1 .. Len(seqs[i])
    OBVIOUS
  <2>2. Len(H[i - 1]) + j \in 1 .. Len(H[n]) /\ H[n][Len(H[i - 1]) + j] = seqs[i][j]
    <3>1. InPlace(H, seqs, n)
      BY <1>1, <1>2, BuiltPlaces
    <3> QED BY <1>7, <2>1, <3>1 DEF InPlace
  <2>3. Len(H[i - 1]) = (i - 1) * b
    <3>1. i - 1 \in 0 .. n
      BY <1>2
    <3> QED BY <1>6, <3>1
  <2> QED BY <2>2, <2>3
<1>9. InRows(seqs, n, b)
  BY <1>1, <1>8 DEF InRows
<1> QED BY <1>1, <1>3, <1>6, <1>7, <1>9
-----------------------------------------------------------------------------
(* The messages, and what is put for their values.                                  *)
LEMMA Sizes ==
  /\ ByteBits \in Nat \ {0} /\ MaxGetBits = 4 * ByteBits /\ CacheSize = 8 * ByteBits
  /\ MaxGetBits \in Nat \ {0} /\ CacheSize \in Nat
  /\ MaxCodeLength \in Nat \ {0} /\ MaxDiffLength \in Nat \ {0}
  /\ MaxCodeLength + MaxDiffLength <= MaxGetBits /\ MaxCodeLength <= MaxGetBits /\ MaxDiffLength <= MaxGetBits
<1>1. ByteBits \in Nat \ {0} /\ MaxCodeLength \in Nat \ {0} /\ MaxDiffLength \in Nat \ {0}
  BY BitStreamsAssumption, PrefixCodesAssumption
<1>2. MaxGetBits = 4 * ByteBits /\ CacheSize = 8 * ByteBits
  BY <1>1 DEF MaxGetBits, CacheSize
<1>3. MaxCodeLength + MaxDiffLength <= MaxGetBits
  BY BitStreamsAssumption
<1> QED BY <1>1, <1>2, <1>3

MessageOK(o, m) ==
  /\ o \in Orders /\ m = [code |-> m.code, values |-> m.values]
  /\ m.code = NoCode => m.values \in Seq(BitStrings)
  /\ m.code # NoCode => /\ GoodCode(m.code) /\ m.values \in Seq(Encodable(m.code)) /\ o \in WithCodes
                        /\ o = "RevMSB" => IsV8(m.code)

(* The messages of the initial states are those the lemmas are about.                  *)
LEMMA InitMessage ==
  ASSUME Init
  PROVE  MessageOK(order, message)
<1>1. CASE message \in FieldMessages
  <2>1. message = [code |-> NoCode, values |-> message.values] /\ message.values \in Seq(BitStrings)
    BY <1>1, MessagesAssumption
  <2>2. message.code = NoCode
    BY <2>1
  <2> QED BY <2>1, <2>2 DEF Init, MessageOK
<1>2. CASE order \in WithCodes /\ message \in SymbolMessages
  <2> DEFINE m == message
  <2>1. /\ m = [code |-> m.code, values |-> m.values] /\ m.code # NoCode
        /\ m.code = HuffmanCode(m.code.lens, m.code.values, m.code.full, m.code.bug16)
        /\ m.code.lens \in [Lengths -> Nat] /\ m.code.full \in BOOLEAN
        /\ m.code.values \in Seq(IF m.code.full THEN 0 .. MaxDiffLength ELSE Nat)
        /\ Len(m.code.values) = Total(m.code.lens)
        /\ m.values \in Seq(Encodable(m.code))
    BY <1>2, MessagesAssumption
  <2>2. Accepted(m.code.lens) /\ (order = "RevMSB" => IsV8(m.code)) /\ order \in Orders
    BY <2>1 DEF Init
  <2>3. GoodCode(m.code)
    BY <2>1, <2>2 DEF GoodCode
  <2> QED BY <1>2, <2>1, <2>2, <2>3 DEF MessageOK
<1> QED BY <1>1, <1>2 DEF Init

(* The bits of a value of a message, and those of the first ones.                    *)
ValueBits(o, m, i) ==
  IF m.code = NoCode THEN Ordered(o, m.values[i]) ELSE Flat(Encode(m.code, m.values[i]))

AllValueBits(o, m) == [i \in 1 .. Len(m.values) |-> ValueBits(o, m, i)]

BitsUpTo(o, m) == CHOOSE H : /\ BuiltBy(H, AllValueBits(o, m), Len(m.values), Bit)
                             /\ Flat(Puts(o, m)) = H[Len(m.values)]

EndOf(o, m, i) == Len(BitsUpTo(o, m)[i])

(* A bit string is a sequence of at most MaxGetBits.                                   *)
LEMMA BitStringIs ==
  ASSUME NEW s \in BitStrings
  PROVE  s \in Seq(Bit) /\ Len(s) <= MaxGetBits
<1>1. PICK n \in 0 .. MaxGetBits : s \in [1 .. n -> {0, 1}]
  BY DEF BitStrings
<1>2. n \in Nat /\ n <= MaxGetBits
  BY Sizes
<1>3. s \in Seq(Bit) /\ Len(s) = n
  BY <1>1, <1>2 DEF Bit
<1> QED BY <1>2, <1>3

(* Ordered() keeps length and bits, and undoes itself.                                 *)
LEMMA OrderedIs ==
  ASSUME NEW T, NEW o, NEW s \in Seq(T)
  PROVE  /\ Ordered(o, s) \in Seq(T) /\ Len(Ordered(o, s)) = Len(s) /\ Ordered(o, Ordered(o, s)) = s
         /\ \A i \in 1 .. Len(s) : Ordered(o, s)[i] = IF o = "LSB" THEN s[Len(s) - i + 1] ELSE s[i]
BY Turned DEF Ordered

(* The bits of a value fit a put and a get.                                            *)
LEMMA ValueBitsAre ==
  ASSUME NEW o, NEW m, MessageOK(o, m), NEW i \in 1 .. Len(m.values)
  PROVE  ValueBits(o, m, i) \in Seq(Bit) /\ Len(ValueBits(o, m, i)) \in 0 .. MaxGetBits
<1>1. CASE m.code = NoCode
  <2> DEFINE v == m.values
             s == m.values[i]
  <2>1. v \in Seq(BitStrings) /\ i \in 1 .. Len(v)
    BY <1>1 DEF MessageOK
  <2> HIDE DEF v
  <2>2. v[i] \in BitStrings
    BY <2>1, ItemIs
  <2>3. s \in Seq(Bit) /\ Len(s) <= MaxGetBits
    BY <2>2, BitStringIs DEF v
  <2> HIDE DEF s
  <2>4. Ordered(o, s) \in Seq(Bit) /\ Len(Ordered(o, s)) = Len(s) /\ Len(s) \in Nat
    BY <2>3, OrderedIs
  <2>5. ValueBits(o, m, i) = Ordered(o, s)
    BY <1>1 DEF ValueBits, s
  <2> QED BY <2>3, <2>4, <2>5, Sizes
<1>2. CASE m.code # NoCode
  <2> DEFINE v == m.values
             c == m.code
             E == Encodable(c)
  <2>1. v \in Seq(E) /\ i \in 1 .. Len(v) /\ GoodCode(c)
    BY <1>2 DEF MessageOK
  <2> HIDE DEF v, E
  <2>2. v[i] \in E
    BY <2>1, ItemIs
  <2> DEFINE b == BitsOf(c.symbols[CodedBy(c, v[i])])
             d == Difference(c, v[i])
  <2>3. /\ b \in Seq(Bit) /\ Len(b) \in Lengths /\ d \in Seq(Bit) /\ Len(d) \in 0 .. MaxDiffLength
        /\ Flat(Encode(c, v[i])) = b \o d
    BY <2>1, <2>2, EncodeIs DEF E
  <2> HIDE DEF b, d
  <2>4. b \o d \in Seq(Bit) /\ Len(b \o d) = Len(b) + Len(d)
    BY <2>3, ConcatIs
  <2>5. Len(b) + Len(d) \in 0 .. MaxGetBits
    BY <2>3, Sizes DEF Lengths
  <2>6. ValueBits(o, m, i) = b \o d
    BY <1>2, <2>3 DEF ValueBits, v
  <2> QED BY <2>4, <2>5, <2>6
<1> QED BY <1>1, <1>2

(* All of what is put is bit strings that fit a put.                                 *)
LEMMA PutsAre ==
  ASSUME NEW o, NEW m, MessageOK(o, m)
  PROVE  /\ Puts(o, m) \in Seq(Seq(Bit)) /\ Len(m.values) \in Nat
         /\ \A i \in 1 .. Len(Puts(o, m)) : Len(Puts(o, m)[i]) \in 0 .. MaxGetBits
         /\ \E H : /\ BuiltBy(H, AllValueBits(o, m), Len(m.values), Bit)
                   /\ Flat(Puts(o, m)) = H[Len(m.values)]
<1> DEFINE n == Len(m.values)
           P == Puts(o, m)
           V == AllValueBits(o, m)
<1>1. n \in Nat /\ DOMAIN m.values = 1 .. n
  <2> DEFINE v == m.values
  <2>1. v \in Seq(BitStrings) \/ v \in Seq(Encodable(m.code))
    BY DEF MessageOK
  <2> HIDE DEF v
  <2>2. Len(v) \in Nat /\ DOMAIN v = 1 .. Len(v)
    BY <2>1
  <2> QED BY <2>2 DEF v
<1> HIDE DEF n
<1>2. \A i \in 1 .. n : V[i] = ValueBits(o, m, i) /\ V[i] \in Seq(Bit) /\ Len(V[i]) \in 0 .. MaxGetBits
  BY ValueBitsAre DEF AllValueBits, n
<1>3. V = [i \in 1 .. n |-> V[i]]
  BY DEF AllValueBits, n
<1> HIDE DEF V
<1>4. CASE m.code = NoCode
  <2>1. P = V
    <3>1. P = [i \in 1 .. n |-> Ordered(o, m.values[i])]
      BY <1>1, <1>4 DEF Puts
    <3>2. \A i \in 1 .. n : V[i] = Ordered(o, m.values[i])
      BY <1>2, <1>4 DEF ValueBits
    <3> HIDE DEF P
    <3> QED BY <1>3, <3>1, <3>2
  <2> HIDE DEF P
  <2>2. V \in Seq(Seq(Bit)) /\ Len(V) = n
    <3> DEFINE T == Seq(Bit)
    <3>1. \A i \in 1 .. n : V[i] \in T
      BY <1>2
    <3> HIDE DEF T
    <3>2. V \in Seq(T) /\ Len(V) = n
      BY <1>1, <1>3, <3>1
    <3> QED BY <3>2 DEF T
  <2>3. PICK H : BuiltBy(H, V, n, Bit) /\ Flat(V) = H[n]
    <3>1. \E H : BuiltBy(H, V, Len(V), Bit) /\ Flat(V) = H[Len(V)]
      BY <2>2, FlatBuilt
    <3> QED BY <2>2, <3>1
  <2> QED BY <1>1, <1>2, <2>1, <2>2, <2>3 DEF n, P, V
<1>5. CASE m.code # NoCode
  <2> DEFINE c == m.code
             v == m.values
             E == Encodable(c)
             Q == [i \in 1 .. n |-> Encode(c, v[i])]
  <2>1. v \in Seq(E) /\ GoodCode(c) /\ Len(v) = n
    BY <1>5 DEF MessageOK, n
  <2>2. P = Flat(Q)
    BY <1>1, <1>5 DEF Puts
  <2> HIDE DEF E, v, P
  <2>3. ASSUME NEW i \in 1 .. n
        PROVE  /\ Q[i] = Encode(c, v[i]) /\ Q[i] \in Seq(Seq(Bit)) /\ V[i] = Flat(Q[i])
               /\ \A j \in 1 .. Len(Q[i]) : Len(Q[i][j]) \in 0 .. MaxGetBits
    <3>1. v[i] \in E
      BY <2>1, ItemIs
    <3> DEFINE e == Encode(c, v[i])
               b == BitsOf(c.symbols[CodedBy(c, v[i])])
               d == Difference(c, v[i])
    <3>2. /\ e \in Seq(Seq(Bit)) /\ Len(e) \in {1, 2} /\ e[1] = b /\ (Len(e) = 2 => e[2] = d)
          /\ Len(b) \in Lengths /\ Len(d) \in 0 .. MaxDiffLength
      BY <2>1, <3>1, EncodeIs DEF E
    <3>3. Q[i] = e
      OBVIOUS
    <3>4. V[i] = Flat(e)
      BY <1>2, <1>5 DEF ValueBits, v
    <3> HIDE DEF e, b, d
    <3>5. Len(b) \in 0 .. MaxGetBits /\ Len(d) \in 0 .. MaxGetBits
      BY <3>2, Sizes DEF Lengths
    <3>6. \A j \in 1 .. Len(e) : Len(e[j]) \in 0 .. MaxGetBits
      <4>1. \A j \in 1 .. Len(e) : j = 1 \/ (j = 2 /\ Len(e) = 2)
        <5> DEFINE k == Len(e)
        <5>1. k = 1 \/ k = 2
          BY <3>2
        <5> HIDE DEF k
        <5>2. \A j \in 1 .. k : j = 1 \/ (j = 2 /\ k = 2)
          BY <5>1
        <5> QED BY <5>2 DEF k
      <4> QED BY <3>2, <3>5, <4>1
    <3> HIDE DEF Q
    <3> QED BY <3>2, <3>3, <3>4, <3>6 DEF e
  <2>4. Q \in Seq(Seq(Seq(Bit))) /\ Len(Q) = n
    <3> DEFINE T == Seq(Seq(Bit))
    <3>1. \A i \in 1 .. n : Q[i] \in T
      BY <2>3
    <3>2. Q = [i \in 1 .. n |-> Q[i]]
      OBVIOUS
    <3> HIDE DEF T, Q
    <3>3. Q \in Seq(T) /\ Len(Q) = n
      BY <1>1, <3>1, <3>2
    <3> QED BY <3>3 DEF T
  <2> HIDE DEF Q
  <2>5. PICK F : BuiltBy(F, Q, n, Seq(Bit)) /\ Flat(Q) = F[n]
    <3>1. \E F : BuiltBy(F, Q, Len(Q), Seq(Bit)) /\ Flat(Q) = F[Len(Q)]
      BY <2>4, FlatBuilt
    <3> QED BY <2>4, <3>1
  <2>6. \A i \in 0 .. n : F[i] \in Seq(Seq(Bit))
    <3>1. BuiltLengths(F, Q, n, Seq(Bit))
      BY <1>1, <2>5, BuiltTyped
    <3> QED BY <3>1 DEF BuiltLengths
  <2> DEFINE H == [i \in 0 .. n |-> Flat(F[i])]
  <2>7. BuiltBy(H, V, n, Bit) /\ Flat(P) = H[n]
    <3>1. H[0] = << >>
      <4>1. F[0] = << >>
        BY <2>5 DEF BuiltBy
      <4>2. 0 \in 0 .. n
        BY <1>1
      <4> QED BY <4>1, <4>2, FlatEmpty
    <3>2. ASSUME NEW i \in 1 .. n PROVE V[i] \in Seq(Bit) /\ H[i] = H[i - 1] \o V[i]
      <4>1. i \in 0 .. n /\ i - 1 \in 0 .. n
        BY <1>1
      <4>2. F[i] = F[i - 1] \o Q[i]
        BY <2>5 DEF BuiltBy
      <4>3. H[i] = Flat(F[i]) /\ H[i - 1] = Flat(F[i - 1])
        BY <4>1
      <4> DEFINE f == F[i - 1]
                 q == Q[i]
      <4>4. f \in Seq(Seq(Bit)) /\ q \in Seq(Seq(Bit))
        BY <2>3, <2>6, <4>1
      <4> HIDE DEF H, f, q
      <4>5. Flat(f \o q) = Flat(f) \o Flat(q)
        BY <4>4, FlatAppend
      <4> QED BY <1>2, <2>3, <4>2, <4>3, <4>5 DEF f, q
    <3>3. Flat(P) = H[n]
      <4>1. n \in 0 .. n
        BY <1>1
      <4> QED BY <2>2, <2>5, <4>1
    <3> HIDE DEF H
    <3> QED BY <3>1, <3>2, <3>3 DEF BuiltBy
  <2>8. P \in Seq(Seq(Bit))
    <3>1. n \in 0 .. n
      BY <1>1
    <3> QED BY <2>2, <2>5, <2>6, <3>1
  <2>9. \A k \in 1 .. Len(P) : Len(P[k]) \in 0 .. MaxGetBits
    <3> DEFINE B == {b \in Seq(Bit) : Len(b) \in 0 .. MaxGetBits}
    <3>1. \A i \in 1 .. n : Q[i] \in Seq(B)
      <4> TAKE i \in 1 .. n
      <4> DEFINE q == Q[i]
      <4>1. q \in Seq(Seq(Bit)) /\ \A j \in 1 .. Len(q) : Len(q[j]) \in 0 .. MaxGetBits
        BY <2>3
      <4> HIDE DEF q
      <4>2. \A j \in 1 .. Len(q) : q[j] \in B
        <5> TAKE j \in 1 .. Len(q)
        <5>1. q[j] \in Seq(Bit)
          BY <4>1, ItemIs
        <5> QED BY <4>1, <5>1
      <4>3. q = [j \in 1 .. Len(q) |-> q[j]] /\ Len(q) \in Nat
        BY <4>1
      <4> HIDE DEF B
      <4>4. q \in Seq(B)
        BY <4>2, <4>3
      <4> QED BY <4>4 DEF q
    <3>2. Q \in Seq(Seq(B))
      <4> DEFINE T == Seq(B)
      <4>1. \A i \in 1 .. n : Q[i] \in T
        BY <3>1
      <4>2. Q = [i \in 1 .. n |-> Q[i]]
        <5>1. Q = [i \in 1 .. Len(Q) |-> Q[i]]
          <6> DEFINE R == Seq(Seq(Bit))
          <6>1. Q \in Seq(R)
            BY <2>4
          <6> HIDE DEF R
          <6> QED BY <6>1
        <5> QED BY <2>4, <5>1
      <4> HIDE DEF T
      <4>3. Q \in Seq(T)
        BY <1>1, <4>1, <4>2
      <4> QED BY <4>3 DEF T
    <3> HIDE DEF B
    <3>3. P \in Seq(B)
      BY <2>2, <3>2, FlatIs
    <3>4. \A k \in 1 .. Len(P) : P[k] \in B
      BY <3>3, ItemIs
    <3> QED BY <3>4 DEF B
  <2> HIDE DEF H
  <2> QED BY <1>1, <2>7, <2>8, <2>9 DEF n, P, V
<1> QED BY <1>4, <1>5

(* Where the values of a message end, and where their bits are.                      *)
EndsOK(o, m) ==
  LET n == Len(m.values)
      S == Flat(Puts(o, m))
  IN  /\ n \in Nat /\ S \in Seq(Bit)
      /\ EndOf(o, m, 0) = 0 /\ EndOf(o, m, n) = Len(S)
      /\ \A i \in 0 .. n : EndOf(o, m, i) \in Nat
      /\ \A i \in 1 .. n : EndOf(o, m, i) = EndOf(o, m, i - 1) + Len(ValueBits(o, m, i))
      /\ \A i \in 1 .. n : \A j \in 1 .. Len(ValueBits(o, m, i)) :
           EndOf(o, m, i - 1) + j \in 1 .. Len(S) /\ S[EndOf(o, m, i - 1) + j] = ValueBits(o, m, i)[j]

(* Where the values end: in the order of the values, and the bits of each are in front
   of its end.                                                                         *)
LEMMA EndsAre ==
  ASSUME NEW o, NEW m, MessageOK(o, m)
  PROVE  /\ EndsOK(o, m)
         /\ \A k \in 0 .. Len(m.values), i \in 0 .. Len(m.values) : k <= i => EndOf(o, m, k) <= EndOf(o, m, i)
<1> DEFINE n == Len(m.values)
           S == Flat(Puts(o, m))
           V == AllValueBits(o, m)
           H == BitsUpTo(o, m)
<1>1. n \in Nat /\ \E G : BuiltBy(G, V, n, Bit) /\ S = G[n]
  BY PutsAre
<1>2. BuiltBy(H, V, n, Bit) /\ S = H[n]
  <2> HIDE DEF V, n, S
  <2>1. H = CHOOSE G : BuiltBy(G, V, n, Bit) /\ S = G[n]
    BY DEF BitsUpTo, V, n, S
  <2> HIDE DEF H
  <2> QED BY <1>1, <2>1
<1>3. \A i \in 0 .. n : EndOf(o, m, i) = Len(H[i])
  BY DEF EndOf
<1>4. \A i \in 1 .. n : V[i] = ValueBits(o, m, i)
  BY DEF AllValueBits
<1> HIDE DEF n, S, V, H
<1>5. BuiltLengths(H, V, n, Bit) /\ InPlace(H, V, n)
  BY <1>1, <1>2, BuiltTyped, BuiltPlaces
<1>6. \A k \in 0 .. n, i \in 0 .. n : k <= i => Len(H[k]) <= Len(H[i])
  BY <1>1, <1>2, BuiltGrows
<1>7. /\ \A i \in 0 .. n : H[i] \in Seq(Bit)
      /\ \A i \in 1 .. n : Len(H[i]) = Len(H[i - 1]) + Len(V[i])
      /\ H[0] = << >>
  BY <1>2, <1>5 DEF BuiltLengths, BuiltBy
<1>8. n \in 0 .. n /\ 0 \in 0 .. n /\ \A i \in 1 .. n : i - 1 \in 0 .. n /\ i \in 0 .. n
  BY <1>1
<1>9. ASSUME NEW i \in 1 .. n, NEW j \in 1 .. Len(V[i])
      PROVE  Len(H[i - 1]) + j \in 1 .. Len(S) /\ S[Len(H[i - 1]) + j] = V[i][j]
  BY <1>2, <1>5, <1>8 DEF InPlace
<1>10. EndsOK(o, m)
  <2>1. S \in Seq(Bit) /\ EndOf(o, m, 0) = 0 /\ EndOf(o, m, n) = Len(S)
    BY <1>2, <1>3, <1>7, <1>8
  <2>2. \A i \in 0 .. n : EndOf(o, m, i) \in Nat
    BY <1>3, <1>7
  <2>3. \A i \in 1 .. n : EndOf(o, m, i) = EndOf(o, m, i - 1) + Len(ValueBits(o, m, i))
    BY <1>3, <1>4, <1>7, <1>8
  <2>4. \A i \in 1 .. n : \A j \in 1 .. Len(ValueBits(o, m, i)) :
           EndOf(o, m, i - 1) + j \in 1 .. Len(S) /\ S[EndOf(o, m, i - 1) + j] = ValueBits(o, m, i)[j]
    BY <1>3, <1>4, <1>8, <1>9
  <2> QED BY <1>1, <2>1, <2>2, <2>3, <2>4 DEF EndsOK, n, S
<1>11. \A k \in 0 .. n, i \in 0 .. n : k <= i => EndOf(o, m, k) <= EndOf(o, m, i)
  BY <1>3, <1>6
<1> QED BY <1>10, <1>11 DEF n

(* Deliver's `ends` are those ends.                                                    *)
LEMMA EndsIs ==
  ASSUME MessageOK(order, message)
  PROVE  \A i \in 0 .. Len(message.values) : Ends[i] = EndOf(order, message, i)
<1> DEFINE m == message
           o == order
           n == Len(m.values)
           PutsOf(i) == Puts(o, [m EXCEPT !.values = << @[i] >>])
           L == [i \in 1 .. n |-> Len(Flat(PutsOf(i)))]
           Rec(f) == [i \in 0 .. n |-> IF i = 0 THEN 0 ELSE f[i - 1] + Len(Flat(PutsOf(i)))]
           G == [p \in (1 .. n) \X Nat |-> p[2] + L[p[1]]]
           O == Ends
<1>1. EndsOK(o, m) /\ n \in Nat
  <2>1. EndsOK(o, m)
    BY EndsAre
  <2> QED BY <2>1 DEF EndsOK
<1>2. \A i \in 1 .. n : Len(Flat(PutsOf(i))) = Len(ValueBits(o, m, i)) /\ Len(ValueBits(o, m, i)) \in Nat
  <2> TAKE i \in 1 .. n
  <2> DEFINE v == m.values[i]
             e == [m EXCEPT !.values = << @[i] >>]
             b == ValueBits(o, m, i)
  <2>1. b \in Seq(Bit)
    BY ValueBitsAre
  <2>2. e.code = m.code /\ e.values = << v >>
    <3>1. m = [code |-> m.code, values |-> m.values]
      BY DEF MessageOK
    <3> QED BY <3>1
  <2>3. DOMAIN << v >> = 1 .. 1 /\ << v >>[1] = v
    OBVIOUS
  <2> HIDE DEF e, v
  <2>4. CASE m.code = NoCode
    <3>1. PutsOf(i) = [k \in DOMAIN e.values |-> Ordered(o, e.values[k])]
      BY <2>2, <2>4 DEF Puts, e
    <3>2. PutsOf(i) = [k \in 1 .. 1 |-> b]
      <4>1. b = Ordered(o, v)
        BY <2>4 DEF ValueBits, v
      <4>2. \A k \in 1 .. 1 : Ordered(o, e.values[k]) = b
        BY <2>2, <2>3, <4>1
      <4> HIDE DEF b
      <4> QED BY <2>2, <2>3, <3>1, <4>2
    <3>3. PutsOf(i) = << b >>
      <4> HIDE DEF b
      <4>1. [k \in 1 .. 1 |-> b] = << b >>
        OBVIOUS
      <4> QED BY <3>2, <4>1
    <3> HIDE DEF b
    <3>4. Flat(PutsOf(i)) = b
      BY <2>1, <3>3, FlatOne
    <3> QED BY <2>1, <3>4 DEF b
  <2>5. CASE m.code # NoCode
    <3> DEFINE c == Encode(m.code, v)
    <3>1. PutsOf(i) = Flat([k \in DOMAIN e.values |-> Encode(e.code, e.values[k])])
      BY <2>2, <2>5 DEF Puts, e
    <3>2. [k \in DOMAIN e.values |-> Encode(e.code, e.values[k])] = << c >>
      <4>1. \A k \in 1 .. 1 : Encode(e.code, e.values[k]) = c
        BY <2>2, <2>3
      <4> HIDE DEF c
      <4>2. [k \in DOMAIN e.values |-> Encode(e.code, e.values[k])] = [k \in 1 .. 1 |-> c]
        BY <2>2, <2>3, <4>1
      <4>3. [k \in 1 .. 1 |-> c] = << c >>
        OBVIOUS
      <4> QED BY <4>2, <4>3
    <3>3. c \in Seq(Seq(Bit))
      <4> DEFINE w == m.values
                 E == Encodable(m.code)
      <4>1. w \in Seq(E) /\ i \in 1 .. Len(w) /\ GoodCode(m.code)
        BY <2>5 DEF MessageOK
      <4> HIDE DEF w, E
      <4>2. w[i] \in E
        BY <4>1, ItemIs
      <4> QED BY <4>1, <4>2, EncodeIs DEF w, E, v
    <3> HIDE DEF c
    <3>4. Flat(<< c >>) = c
      BY <3>3, FlatOne
    <3>5. PutsOf(i) = c
      BY <3>1, <3>2, <3>4
    <3>6. Flat(PutsOf(i)) = b
      BY <2>5, <3>5 DEF ValueBits, c, v
    <3> HIDE DEF b
    <3> QED BY <2>1, <3>6 DEF b
  <2> QED BY <2>4, <2>5
<1>3. O = CHOOSE f : f = Rec(f)
  BY DEF Ends
<1> HIDE DEF PutsOf, O
<1>4. L \in [1 .. n -> Nat] /\ \A i \in 1 .. n : L[i] = Len(Flat(PutsOf(i)))
  BY <1>2
<1> HIDE DEF L, n
<1>5. G \in [(1 .. n) \X Nat -> Nat] /\ \A i \in 1 .. n, k \in Nat : G[<<i, k>>] = k + L[i]
  BY <1>4
<1> HIDE DEF G
<1>6. PICK g \in [0 .. n -> Nat] : Recurs(g, n, 0, G)
  BY <1>1, <1>5, Recursion
<1>7. g = Rec(g)
  <2>1. \A i \in 0 .. n : g[i] = IF i = 0 THEN 0 ELSE g[i - 1] + Len(Flat(PutsOf(i)))
    <3>1. \A i \in 1 .. n : g[i - 1] \in Nat
      BY <1>1, <1>6
    <3>2. g[0] = 0 /\ \A i \in 1 .. n : g[i] = g[i - 1] + L[i]
      BY <1>5, <1>6, <3>1 DEF Recurs
    <3> QED BY <1>1, <1>4, <3>2
  <2> QED BY <1>6, <2>1
<1>8. O = Rec(O)
  <2> HIDE DEF Rec
  <2> QED BY <1>3, <1>7
<1>9. \A i \in 0 .. n : O[i] = IF i = 0 THEN 0 ELSE O[i - 1] + Len(Flat(PutsOf(i)))
  BY <1>8
<1> HIDE DEF Rec
<1>10. O[0] = 0 /\ \A i \in 1 .. n : O[i] = O[i - 1] + Len(ValueBits(o, m, i))
  <2>1. 0 \in 0 .. n /\ \A i \in 1 .. n : i \in 0 .. n /\ i # 0
    BY <1>1
  <2>2. \A i \in 1 .. n : Len(Flat(PutsOf(i))) = Len(ValueBits(o, m, i))
    BY <1>2 DEF n
  <2> QED BY <1>9, <2>1, <2>2
<1> DEFINE F == [i \in 0 .. n |-> EndOf(o, m, i)]
<1>11. \A i \in 0 .. n : O[i] = F[i]
  <2>1. O[0] = F[0]
    <3>1. 0 \in 0 .. n /\ EndOf(o, m, 0) = 0
      BY <1>1 DEF EndsOK
    <3> QED BY <1>10, <3>1
  <2>2. \A i \in 0 .. n - 1 : O[i] = F[i] => O[i + 1] = F[i + 1]
    <3> SUFFICES ASSUME NEW i \in 0 .. n - 1, O[i] = F[i] PROVE O[i + 1] = F[i + 1]
      OBVIOUS
    <3>1. i + 1 \in 1 .. n /\ (i + 1) - 1 = i /\ i \in 0 .. n /\ i + 1 \in 0 .. n
      BY <1>1
    <3>2. EndOf(o, m, i + 1) = EndOf(o, m, i) + Len(ValueBits(o, m, i + 1))
      BY <1>1, <3>1 DEF EndsOK, n
    <3>3. O[i + 1] = O[i] + Len(ValueBits(o, m, i + 1))
      BY <1>10, <3>1
    <3> QED BY <3>1, <3>2, <3>3
  <2>3. n \in Nat
    BY <1>1
  <2> HIDE DEF F
  <2> QED BY ZenonT(60), <2>1, <2>2, <2>3, EqualUpTo
<1> QED BY <1>11 DEF n, O

(* The bits of some fields in a row.                                                *)
LEMMA LonePiece ==
  ASSUME NEW T, NEW s \in Seq(T), NEW a \in 1 .. Len(s), NEW k \in a .. Len(s)
  PROVE  SubSeq(s, a, k) = SubSeq(s, a, k - 1) \o << s[k] >> /\ SubSeq(s, a, k - 1) \in Seq(T)
<1> DEFINE t == SubSeq(s, a, k)
           u == SubSeq(s, a, k - 1)
           v == << s[k] >>
<1>1. a \in Nat /\ k \in Nat /\ Len(s) \in Nat /\ a <= k /\ k <= Len(s) /\ a >= 1
  OBVIOUS
<1>2. t \in Seq(T) /\ Len(t) = k - a + 1 /\ \A i \in 1 .. k - a + 1 : t[i] = s[a + i - 1]
  BY <1>1
<1>3. u \in Seq(T) /\ Len(u) = k - a /\ \A i \in 1 .. k - a : u[i] = s[a + i - 1]
  BY <1>1
<1>4. v \in Seq(T) /\ Len(v) = 1 /\ v[1] = s[k]
  OBVIOUS
<1> HIDE DEF t, u, v
<1>5. u \o v \in Seq(T) /\ Len(u \o v) = k - a + 1
  <2>1. u \o v \in Seq(T) /\ Len(u \o v) = Len(u) + Len(v)
    BY <1>3, <1>4, ConcatIs
  <2> DEFINE w == u \o v
  <2>2. w \in Seq(T) /\ Len(w) = Len(u) + Len(v)
    BY <2>1
  <2> HIDE DEF w
  <2>3. Len(w) = k - a + 1
    BY <1>1, <1>3, <1>4, <2>2
  <2> QED BY <2>2, <2>3 DEF w
<1>6. ASSUME NEW i \in 1 .. Len(t) PROVE t[i] = (u \o v)[i]
  <2>1. i \in 1 .. k - a + 1
    BY <1>2
  <2>2. (u \o v)[i] = IF i <= Len(u) THEN u[i] ELSE v[i - Len(u)]
    <3>1. i \in 1 .. Len(u) + Len(v)
      BY <1>1, <1>3, <1>4, <2>1
    <3> QED BY <1>3, <1>4, <3>1, ConcatItem
  <2>3. CASE i <= k - a
    BY <1>1, <1>2, <1>3, <2>1, <2>2, <2>3
  <2>4. CASE ~(i <= k - a)
    <3>1. i = k - a + 1 /\ i - Len(u) = 1 /\ a + i - 1 = k /\ ~(i <= Len(u))
      BY <1>1, <1>3, <2>1, <2>4
    <3> QED BY <1>2, <1>4, <2>1, <2>2, <3>1
  <2> QED BY <2>3, <2>4
<1>7. t = u \o v
  BY <1>2, <1>5, <1>6, SameSequence
<1> QED BY <1>3, <1>7 DEF t, u, v

(* An empty piece.                                                                     *)
LEMMA NoPiece ==
  ASSUME NEW T, NEW s \in Seq(T), NEW a \in Nat \ {0}
  PROVE  SubSeq(s, a, a - 1) = << >>
<1> DEFINE t == SubSeq(s, a, a - 1)
           e == a - 1
<1>1. Len(s) \in Nat /\ e \in Nat /\ e < a
  OBVIOUS
<1>2. t \in Seq(T) /\ Len(t) = 0
  BY <1>1
<1> HIDE DEF t
<1>3. t = << >>
  BY <1>2
<1> QED BY <1>3 DEF t

(* The fields that are skipped have the bits between two ends.                         *)
LEMMA SkipLength ==
  ASSUME NEW o, NEW m, MessageOK(o, m), m.code = NoCode, NEW a \in 1 .. Len(m.values), NEW k \in a .. Len(m.values)
  PROVE  Len(Flat(SubSeq(m.values, a, k))) = EndOf(o, m, k) - EndOf(o, m, a - 1)
<1> DEFINE v == m.values
           n == Len(v)
           L(e) == Len(Flat(SubSeq(v, a, e)))
           S == {d \in 0 .. n : (a - 1) + d <= n => L((a - 1) + d) = EndOf(o, m, (a - 1) + d) - EndOf(o, m, a - 1)}
<1>1. v \in Seq(BitStrings) /\ n \in Nat /\ EndsOK(o, m)
  <2>1. v \in Seq(BitStrings)
    BY DEF MessageOK
  <2>2. EndsOK(o, m)
    BY EndsAre
  <2> QED BY <2>1, <2>2 DEF EndsOK
<1>2. v \in Seq(Seq(Bit)) /\ a \in 1 .. n /\ k \in a .. n
  <2>1. BitStrings \subseteq Seq(Bit)
    BY BitStringIs
  <2> DEFINE T == Seq(Bit)
             U == BitStrings
  <2>2. U \subseteq T /\ v \in Seq(U)
    BY <1>1, <2>1
  <2> HIDE DEF T, U, v
  <2>3. v \in Seq(T)
    BY <2>2
  <2> QED BY <2>3 DEF T, v
<1>3. \A i \in 1 .. n : ValueBits(o, m, i) = Ordered(o, v[i])
  BY DEF ValueBits
<1>4. /\ \A i \in 0 .. n : EndOf(o, m, i) \in Nat
      /\ \A i \in 1 .. n : EndOf(o, m, i) = EndOf(o, m, i - 1) + Len(ValueBits(o, m, i))
  BY <1>1 DEF EndsOK
<1> HIDE DEF v
<1>5. \A i \in 1 .. n : v[i] \in Seq(Bit) /\ Len(ValueBits(o, m, i)) = Len(v[i]) /\ Len(v[i]) \in Nat
  <2> TAKE i \in 1 .. n
  <2>1. v[i] \in Seq(Bit)
    BY <1>2, ItemIs
  <2> QED BY <1>3, <2>1, OrderedIs
<1> HIDE DEF n
<1>6. 0 \in S
  <2>1. SubSeq(v, a, a - 1) = << >>
    <3>1. a \in Nat \ {0}
      BY <1>1, <1>2
    <3> DEFINE T == Seq(Bit)
    <3>2. v \in Seq(T)
      BY <1>2
    <3> HIDE DEF T
    <3> QED BY <3>1, <3>2, NoPiece
  <2>2. L(a - 1) = 0
    <3>1. Flat(SubSeq(v, a, a - 1)) = << >>
      BY <2>1, FlatEmpty
    <3>2. Len(Flat(SubSeq(v, a, a - 1))) = 0
      BY <3>1
    <3> QED BY <3>2
  <2>3. (a - 1) + 0 = a - 1 /\ a - 1 \in 0 .. n /\ 0 \in 0 .. n
    BY <1>1, <1>2
  <2>4. EndOf(o, m, a - 1) \in Nat
    BY <1>4, <2>3
  <2> HIDE DEF L
  <2> QED BY <2>2, <2>3, <2>4
<1>7. \A d \in 0 .. n - 1 : d \in S => d + 1 \in S
  <2> SUFFICES ASSUME NEW d \in 0 .. n - 1, d \in S, (a - 1) + (d + 1) <= n
               PROVE  L((a - 1) + (d + 1)) = EndOf(o, m, (a - 1) + (d + 1)) - EndOf(o, m, a - 1)
    BY <1>1
  <2> DEFINE e == (a - 1) + (d + 1)
             f == (a - 1) + d
  <2>1. e \in a .. n /\ e \in 1 .. n /\ e - 1 = f /\ f <= n /\ f \in 0 .. n /\ a - 1 \in 0 .. n
    BY <1>1, <1>2
  <2>2. L(f) = EndOf(o, m, f) - EndOf(o, m, a - 1)
    BY <2>1
  <2> HIDE DEF e, f
  <2>3. SubSeq(v, a, e) = SubSeq(v, a, f) \o << v[e] >> /\ SubSeq(v, a, f) \in Seq(Seq(Bit))
    <3>1. a \in 1 .. Len(v) /\ e \in a .. Len(v)
      BY <1>2, <2>1 DEF n
    <3> QED BY <1>2, <2>1, <3>1, LonePiece
  <2> DEFINE x == SubSeq(v, a, f)
             y == << v[e] >>
  <2>4. x \in Seq(Seq(Bit)) /\ y \in Seq(Seq(Bit)) /\ Flat(y) = v[e]
    <3>1. v[e] \in Seq(Bit)
      BY <1>5, <2>1
    <3> QED BY <2>3, <3>1, OneIs, FlatOne
  <2> HIDE DEF x, y
  <2>5. Flat(x \o y) = Flat(x) \o Flat(y)
    BY <2>4, FlatAppend
  <2>6. Flat(x) \in Seq(Bit)
    BY <2>4, FlatIs
  <2>7. Len(Flat(x) \o v[e]) = Len(Flat(x)) + Len(v[e])
    <3>1. v[e] \in Seq(Bit)
      BY <1>5, <2>1
    <3> DEFINE z == v[e]
               g == Flat(x)
    <3>2. z \in Seq(Bit) /\ g \in Seq(Bit)
      BY <2>6, <3>1
    <3> HIDE DEF z, g
    <3>3. Len(g \o z) = Len(g) + Len(z)
      BY <3>2, ConcatIs
    <3> QED BY <3>3 DEF z, g
  <2>8. L(e) = L(f) + Len(v[e])
    BY <2>3, <2>4, <2>5, <2>7 DEF x, y
  <2>9. EndOf(o, m, e) = EndOf(o, m, f) + Len(v[e]) /\ EndOf(o, m, f) \in Nat /\ EndOf(o, m, a - 1) \in Nat /\ Len(v[e]) \in Nat
    BY <1>4, <1>5, <2>1
  <2> HIDE DEF L
  <2>10. L(e) = EndOf(o, m, e) - EndOf(o, m, a - 1)
    BY <2>2, <2>8, <2>9
  <2> QED BY <2>10 DEF e
<1>8. 0 .. n \subseteq S
  <2>1. n \in Nat
    BY <1>1
  <2> HIDE DEF S
  <2> QED BY <1>6, <1>7, <2>1, AllUpTo
<1>9. k - (a - 1) \in 0 .. n /\ (a - 1) + (k - (a - 1)) = k /\ k <= n
  BY <1>1, <1>2
<1>10. L(k) = EndOf(o, m, k) - EndOf(o, m, a - 1)
  <2>1. k - (a - 1) \in S
    BY <1>8, <1>9
  <2> HIDE DEF L
  <2> QED BY <1>9, <2>1
<1> QED BY <1>10 DEF v

(* The bytes of an input, zeros behind its end, and where the data bytes of it begin: those
   of a JPEG scan may be followed by a stuffing byte.                              *)
At(in, i) == IF i < Len(in) THEN in[i + 1] ELSE 0
Width(in, i) == IF At(in, i) = FF THEN 2 ELSE 1

PlacesIn(in, g) == g \in [Nat -> Nat] /\ g[0] = 0 /\ \A k \in Nat : g[k + 1] = g[k] + Width(in, g[k])
Places(in) == CHOOSE g : PlacesIn(in, g)
Place(o, in, d) == IF o = "JPEG" THEN Places(in)[d] ELSE d

MarkerAt(in, d) == At(in, Places(in)[d]) = FF /\ At(in, Places(in)[d] + 1) # 0

(* Data byte d, and bit k of the data.                                              *)
DataAt(o, in, d) ==
  CASE o = "JPEG"   -> At(in, Places(in)[d])
    [] o = "MSB32"  -> At(in, 4 * (d \div 4) + (3 - (d % 4)))
    [] o = "MSB16"  -> At(in, 2 * (d \div 2) + (1 - (d % 2)))
    [] o = "RevMSB" -> IF 4 * (d \div 4) + 4 <= Len(in) THEN Reversed(At(in, d)) ELSE At(in, d)
    [] OTHER -> At(in, d)

TapeBit(o, in, k) == BitsOfByte(o, DataAt(o, in, k \div ByteBits))[(k % ByteBits) + 1]

(* There is such a function of places.                                              *)
LEMMA PlacesAre == ASSUME NEW in PROVE PlacesIn(in, Places(in))
<1> DEFINE G == [p \in (Nat \ {0}) \X Nat |-> p[2] + Width(in, p[2])]
<1>1. \A i \in Nat : Width(in, i) \in {1, 2}
  BY DEF Width
<1>2. \A p \in (Nat \ {0}) \X Nat : p[2] + Width(in, p[2]) \in Nat
  BY <1>1
<1>3. G \in [(Nat \ {0}) \X Nat -> Nat]
  BY <1>2
<1>4. \A k \in Nat \ {0}, x \in Nat : G[<<k, x>>] = x + Width(in, x)
  OBVIOUS
<1> HIDE DEF G
<1>5. PICK g \in [Nat -> Nat] : RecursAll(g, 0, G)
  BY <1>3, NatRecursion
<1>6. g[0] = 0 /\ \A k \in Nat \ {0} : g[k] = G[<<k, g[k - 1]>>]
  BY <1>5 DEF RecursAll
<1>7. ASSUME NEW k \in Nat PROVE g[k + 1] = g[k] + Width(in, g[k])
  <2>1. k + 1 \in Nat \ {0} /\ (k + 1) - 1 = k /\ g[k] \in Nat
    OBVIOUS
  <2>2. g[k + 1] = G[<<k + 1, g[k]>>]
    BY <1>6, <2>1
  <2> QED BY <1>4, <2>1, <2>2
<1>8. PlacesIn(in, g)
  BY <1>6, <1>7 DEF PlacesIn
<1> QED BY <1>8 DEF Places

(* Places go up by one or two.                                                      *)
LEMMA PlaceSteps ==
  ASSUME NEW o, NEW in, NEW d \in Nat
  PROVE  /\ Place(o, in, d) \in Nat /\ Place(o, in, 0) = 0
         /\ Place(o, in, d + 1) \in {Place(o, in, d) + 1, Place(o, in, d) + 2}
         /\ o = "JPEG" => Place(o, in, d) = Places(in)[d] /\ Place(o, in, d + 1) = Place(o, in, d) + Width(in, Place(o, in, d))
<1> DEFINE g == Places(in)
<1>1. PlacesIn(in, g)
  BY PlacesAre
<1>2. g \in [Nat -> Nat] /\ g[0] = 0 /\ g[d + 1] = g[d] + Width(in, g[d])
  BY <1>1 DEF PlacesIn
<1>3. Width(in, g[d]) \in {1, 2} /\ g[d] \in Nat
  BY <1>2 DEF Width
<1>4. CASE o = "JPEG"
  BY <1>2, <1>3, <1>4 DEF Place
<1>5. CASE o # "JPEG"
  BY <1>5 DEF Place
<1> QED BY <1>4, <1>5

(* Places grow by one or two for each data byte.                                       *)
LEMMA PlaceGrows ==
  ASSUME NEW o, NEW in, NEW c \in Nat, NEW d \in Nat, c <= d
  PROVE  /\ Place(o, in, c) \in Nat /\ Place(o, in, d) \in Nat
         /\ Place(o, in, c) + (d - c) <= Place(o, in, d)
         /\ Place(o, in, d) <= Place(o, in, c) + 2 * (d - c)
<1> DEFINE P(k) == Place(o, in, k)
           S == {k \in Nat : P(c) + k <= P(c + k) /\ P(c + k) <= P(c) + 2 * k}
<1>1. \A k \in Nat : P(k) \in Nat /\ P(k + 1) \in {P(k) + 1, P(k) + 2}
  BY PlaceSteps
<1> HIDE DEF P
<1>2. 0 \in S
  BY <1>1
<1>3. ASSUME NEW k \in Nat, k \in S PROVE k + 1 \in S
  <2>1. c + k \in Nat /\ (c + k) + 1 = c + (k + 1)
    OBVIOUS
  <2>2. P(c + k) \in Nat /\ P(c + (k + 1)) \in {P(c + k) + 1, P(c + k) + 2} /\ P(c) \in Nat
    BY <1>1, <2>1
  <2> QED BY <1>3, <2>2
<1>4. Nat \subseteq S
  <2> HIDE DEF S
  <2> QED BY <1>2, <1>3, AllNaturals
<1>5. d - c \in Nat /\ c + (d - c) = d
  OBVIOUS
<1>6. d - c \in S
  BY <1>4, <1>5
<1>7. P(c) + (d - c) <= P(d) /\ P(d) <= P(c) + 2 * (d - c)
  BY <1>5, <1>6
<1> QED BY <1>1, <1>7 DEF P

(* A later place is that of a later byte.                                           *)
LEMMA PlaceOrder ==
  ASSUME NEW o, NEW in, NEW c \in Nat, NEW d \in Nat
  PROVE  /\ Place(o, in, c) < Place(o, in, d) => c < d
         /\ Place(o, in, c) = Place(o, in, d) => c = d
         /\ c < d => Place(o, in, c) < Place(o, in, d)
         /\ d <= Place(o, in, d)
<1> DEFINE x == Place(o, in, c)
           y == Place(o, in, d)
<1>1. x \in Nat /\ y \in Nat
  BY PlaceSteps
<1>2. d <= y
  <2>1. Place(o, in, 0) + (d - 0) <= y /\ Place(o, in, 0) = 0
    BY PlaceGrows, PlaceSteps
  <2> HIDE DEF y
  <2> QED BY <1>1, <2>1
<1>3. c <= d => x + (d - c) <= y
  BY PlaceGrows
<1>4. d <= c => y + (c - d) <= x
  BY PlaceGrows
<1> HIDE DEF x, y
<1>5. (x < y => c < d) /\ (x = y => c = d) /\ (c < d => x < y)
  BY <1>1, <1>3, <1>4
<1> QED BY <1>2, <1>5 DEF x, y

(* The places of two inputs are the same as far as their bytes are.                 *)
LEMMA SamePlaces ==
  ASSUME NEW in, NEW jn, NEW p \in Nat, \A i \in 0 .. p - 1 : At(in, i) = At(jn, i), NEW d \in Nat,
         d > 0 => Place("JPEG", in, d - 1) < p
  PROVE  \A k \in 0 .. d : Place("JPEG", in, k) = Place("JPEG", jn, k)
<1> DEFINE S == {k \in 0 .. d : Place("JPEG", in, k) = Place("JPEG", jn, k)}
<1>1. 0 \in S
  BY PlaceSteps
<1>2. ASSUME NEW k \in 0 .. d - 1, k \in S PROVE k + 1 \in S
  <2>1. k \in Nat /\ d - 1 \in Nat /\ k <= d - 1 /\ k + 1 \in 0 .. d
    OBVIOUS
  <2>2. Place("JPEG", in, k) \in Nat /\ Place("JPEG", in, k) <= Place("JPEG", in, d - 1) /\ Place("JPEG", in, d - 1) \in Nat
    BY <2>1, PlaceGrows
  <2>3. Place("JPEG", in, k) \in 0 .. p - 1
    BY <2>1, <2>2
  <2>4. Place("JPEG", in, k) = Place("JPEG", jn, k)
    BY <1>2
  <2>5. At(in, Place("JPEG", in, k)) = At(jn, Place("JPEG", in, k))
    BY <2>3
  <2>6. Width(in, Place("JPEG", in, k)) = Width(jn, Place("JPEG", jn, k))
    BY <2>4, <2>5 DEF Width
  <2>7. /\ Place("JPEG", in, k + 1) = Place("JPEG", in, k) + Width(in, Place("JPEG", in, k))
        /\ Place("JPEG", jn, k + 1) = Place("JPEG", jn, k) + Width(jn, Place("JPEG", jn, k))
    BY <2>1, PlaceSteps
  <2> QED BY <2>1, <2>4, <2>6, <2>7
<1>3. 0 .. d \subseteq S
  <2> HIDE DEF S
  <2> QED BY <1>1, <1>2, AllUpTo
<1> QED BY <1>3

(* The bytes that matter are bytes.                                                    *)
LEMMA BytesAre == FF \in Byte /\ 0 \in Byte /\ FF # 0 /\ Byte \subseteq Nat
<1>1. ByteBits \in Nat \ {0}
  BY Sizes
<1>2. TwoTo[ByteBits - 1] \in Nat \ {0} /\ TwoTo[(ByteBits - 1) + 1] = 2 * TwoTo[ByteBits - 1]
  BY <1>1, TwoToIs
<1>3. (ByteBits - 1) + 1 = ByteBits
  BY <1>1
<1> QED BY <1>2, <1>3 DEF FF, Byte

(* A byte of an input, or the zero behind it.                                          *)
LEMMA AtIs ==
  ASSUME NEW in \in Seq(Byte), NEW i \in Nat
  PROVE  At(in, i) \in Byte
<1>1. CASE i < Len(in)
  <2>1. i + 1 \in 1 .. Len(in)
    BY <1>1
  <2> QED BY <1>1, <2>1 DEF At
<1>2. CASE ~(i < Len(in))
  BY <1>2, BytesAre DEF At
<1> QED BY <1>1, <1>2

(* The bits of a byte, and the byte of its bits.                                    *)
LEMMA ByteToBits ==
  ASSUME NEW o, NEW b \in Byte
  PROVE  BitsOfByte(o, b) \in Seq(Bit) /\ Len(BitsOfByte(o, b)) = ByteBits
<1>1. b \in Nat /\ ByteBits \in Nat
  BY BytesAre, Sizes
<1>2. ToBits(b, ByteBits) \in Seq(Bit) /\ Len(ToBits(b, ByteBits)) = ByteBits
  BY <1>1, BitsAre
<1> QED BY <1>2, OrderedIs DEF BitsOfByte

(* The value of ByteBits bits is a byte.                                               *)
LEMMA ByteFromBits ==
  ASSUME NEW s \in Seq(Bit), Len(s) = ByteBits
  PROVE  FromBits(s) \in Byte
<1>1. FromBits(s) \in Nat /\ FromBits(s) < TwoTo[ByteBits] /\ TwoTo[ByteBits] \in Nat
  BY FromBitsBelow, TwoToIs, Sizes
<1> QED BY <1>1 DEF Byte

(* The byte written for ByteBits bits of the cache is read as those bits, in every
   order.                                                                              *)
LEMMA ByteIsRead ==
  ASSUME NEW o, NEW s \in Seq(Bit), Len(s) = ByteBits
  PROVE  ByteOf(o, s) \in Byte /\ BitsOfByte(o, ByteOf(o, s)) = s
<1> DEFINE t == Ordered(o, s)
<1>1. t \in Seq(Bit) /\ Len(t) = ByteBits /\ Ordered(o, t) = s
  BY OrderedIs
<1> HIDE DEF t
<1>2. FromBits(t) \in Byte /\ ToBits(FromBits(t), ByteBits) = t
  BY <1>1, ByteFromBits, BitsOfItsValue
<1> QED BY <1>1, <1>2 DEF t, ByteOf, BitsOfByte

(* A byte turned round twice is that byte.                                             *)
LEMMA ReversedTwice ==
  ASSUME NEW b \in Byte
  PROVE  Reversed(b) \in Byte /\ Reversed(Reversed(b)) = b
<1> DEFINE s == ToBits(b, ByteBits)
           t == Reverse(s)
<1>1. b \in Nat /\ ByteBits \in Nat /\ b < TwoTo[ByteBits]
  <2>1. TwoTo[ByteBits] \in Nat /\ ByteBits \in Nat
    BY TwoToIs, Sizes
  <2> QED BY <2>1 DEF Byte
<1>2. s \in Seq(Bit) /\ Len(s) = ByteBits
  BY <1>1, BitsAre
<1>3. FromBits(s) = b
  BY <1>1, ValueOfItsBits
<1> HIDE DEF s
<1>4. t \in Seq(Bit) /\ Len(t) = ByteBits /\ Reverse(t) = s
  BY <1>2, Turned
<1> HIDE DEF t
<1>5. FromBits(t) \in Byte /\ ToBits(FromBits(t), ByteBits) = t
  BY <1>4, ByteFromBits, BitsOfItsValue
<1>6. Reversed(b) = FromBits(t)
  BY DEF s, t, Reversed
<1>7. Reversed(FromBits(t)) = FromBits(Reverse(t))
  BY <1>5 DEF Reversed
<1> QED BY <1>3, <1>4, <1>5, <1>6, <1>7

(* Data bytes are bytes.                                                               *)
LEMMA DataIs ==
  ASSUME NEW o \in Orders, NEW in \in Seq(Byte), NEW d \in Nat
  PROVE  DataAt(o, in, d) \in Byte
<1>1. d \div 4 \in Nat /\ d % 4 \in 0 .. 3 /\ d \div 2 \in Nat /\ d % 2 \in 0 .. 1
  OBVIOUS
<1>2. \A i \in Nat : At(in, i) \in Byte /\ Reversed(At(in, i)) \in Byte
  BY AtIs, ReversedTwice
<1>3. 4 * (d \div 4) + (3 - (d % 4)) \in Nat /\ 2 * (d \div 2) + (1 - (d % 2)) \in Nat
  BY <1>1
<1>4. Places(in)[d] \in Nat
  BY PlacesAre DEF PlacesIn
<1> QED BY <1>2, <1>3, <1>4 DEF DataAt, Orders

(* What a load gets: the next bytes, zeros behind the end.                          *)
LEMMA PaddedIs ==
  ASSUME NEW o \in Orders, NEW in \in Seq(Byte), NEW pos \in Nat
  PROVE  /\ Padded(o, in, pos) \in Seq(Byte) /\ Len(Padded(o, in, pos)) = MaxProcessBytes(o)
         /\ \A i \in 1 .. MaxProcessBytes(o) : Padded(o, in, pos)[i] = At(in, pos + (i - 1))
<1> DEFINE q == Min2(pos, Len(in))
           n == Len(in)
           p == MaxProcessBytes(o)
           u == SubSeq(in, q + 1, n)
           z == Zeros(p)
           w == u \o z
<1>1. q \in Nat /\ q <= n /\ n \in Nat /\ p \in {4, 8} /\ q = IF pos <= n THEN pos ELSE n
  BY DEF Min2, MaxProcessBytes
<1>2. z \in Seq(Byte) /\ Len(z) = p /\ \A i \in 1 .. p : z[i] = 0
  <2> HIDE DEF p
  <2>1. 0 \in Byte
    BY BytesAre
  <2> QED BY <1>1, <2>1 DEF Zeros
<1>3. Padded(o, in, pos) = SubSeq(w, 1, p)
  BY DEF Padded, Take, Drop
<1> HIDE DEF q, p, z
<1>4. u \in Seq(Byte) /\ Len(u) = n - q /\ \A i \in 1 .. n - q : u[i] = in[q + i]
  <2> HIDE DEF n
  <2>1. n <= Len(in)
    BY DEF n
  <2> QED BY <1>1, <2>1, BeginningIs
<1> HIDE DEF u
<1>5. w \in Seq(Byte) /\ Len(w) = Len(u) + p
  BY <1>2, <1>4, ConcatIs
<1>6. ASSUME NEW i \in 1 .. p PROVE w[i] = At(in, pos + (i - 1))
  <2>1. w[i] = IF i <= Len(u) THEN u[i] ELSE z[i - Len(u)]
    <3>1. i \in 1 .. Len(u) + Len(z)
      BY <1>1, <1>2, <1>4
    <3> QED BY <1>2, <1>4, <3>1, ConcatItem
  <2>2. CASE i <= Len(u)
    <3>1. q = pos /\ i \in 1 .. n - q /\ pos + (i - 1) < n /\ (pos + (i - 1)) + 1 = q + i
      BY <1>1, <1>4, <2>2
    <3> QED BY <1>4, <2>1, <2>2, <3>1 DEF At
  <2>3. CASE ~(i <= Len(u))
    <3>1. ~(pos + (i - 1) < n) /\ i - Len(u) \in 1 .. p
      BY <1>1, <1>4, <2>3
    <3> QED BY <1>2, <2>1, <2>3, <3>1 DEF At
  <2> QED BY <2>2, <2>3
<1> HIDE DEF w
<1>7. SubSeq(w, 1, p) \in Seq(Byte) /\ Len(SubSeq(w, 1, p)) = p /\ \A i \in 1 .. p : SubSeq(w, 1, p)[i] = w[i]
  <2>1. p <= Len(w) /\ p \in Nat
    BY <1>1, <1>4, <1>5
  <2> QED BY <1>5, <2>1
<1> QED BY <1>3, <1>6, <1>7 DEF p

(* Flat() of the bits of some bytes.                                                   *)
LEMMA ByteRows ==
  ASSUME NEW g, g \in Seq(Seq(Bit)), NEW n \in 0 .. 4, Len(g) = n, \A i \in 1 .. n : Len(g[i]) = ByteBits
  PROVE  Flat(g) \in Seq(Bit) /\ Len(Flat(g)) = n * ByteBits /\ InRows(g, n, ByteBits)
<1>1. n \in 0 .. Len(g) /\ ByteBits \in Nat
  BY Sizes
<1> QED BY <1>1, FlatInRows

(* The bits of c are those of the data from bit u on.                                *)
BitsFrom(o, in, c, u) == \A k \in 1 .. Len(c) : c[k] = TapeBit(o, in, u + (k - 1))

(* The bits of the data bytes from d on, up to four.                                 *)
DataBits(o, in, d, n) == Flat([i \in 1 .. n |-> BitsOfByte(o, DataAt(o, in, d + (i - 1)))])

(* The bits of data bytes in a row are the data's bits from the first of them on.      *)
LEMMA BitsInARow ==
  ASSUME NEW o \in Orders, NEW in \in Seq(Byte), NEW d \in Nat, NEW n \in 0 .. 4
  PROVE  /\ DataBits(o, in, d, n) \in Seq(Bit) /\ Len(DataBits(o, in, d, n)) = n * ByteBits
         /\ BitsFrom(o, in, DataBits(o, in, d, n), d * ByteBits)
<1> DEFINE B == ByteBits
           f == [i \in 1 .. n |-> BitsOfByte(o, DataAt(o, in, d + (i - 1)))]
<1>0. DataBits(o, in, d, n) = Flat(f) /\ f = [i \in 1 .. n |-> BitsOfByte(o, DataAt(o, in, d + (i - 1)))]
  BY DEF DataBits
<1> HIDE DEF f
<1>1. B \in Nat \ {0}
  BY Sizes
<1>2. \A i \in 1 .. n : f[i] \in Seq(Bit) /\ Len(f[i]) = B
  <2> TAKE i \in 1 .. n
  <2>1. d + (i - 1) \in Nat
    OBVIOUS
  <2>2. DataAt(o, in, d + (i - 1)) \in Byte
    BY <2>1, DataIs
  <2> QED BY <1>0, <2>2, ByteToBits
<1>3. f \in Seq(Seq(Bit)) /\ Len(f) = n
  <2> DEFINE T == Seq(Bit)
  <2>1. \A i \in 1 .. n : f[i] \in T
    BY <1>2
  <2> HIDE DEF T
  <2>2. f \in Seq(T) /\ Len(f) = n
    BY <1>0, <2>1
  <2> QED BY <2>2 DEF T
<1> HIDE DEF B
<1>4. /\ Flat(f) \in Seq(Bit) /\ Len(Flat(f)) = n * B
      /\ \A i \in 1 .. n : \A j \in 1 .. B : Flat(f)[(i - 1) * B + j] = f[i][j]
  <2>1. n \in 0 .. Len(f) /\ B \in Nat
    BY <1>1, <1>3
  <2>2. \A i \in 1 .. n : Len(f[i]) = B
    BY <1>2
  <2>3. Flat(f) \in Seq(Bit) /\ Len(Flat(f)) = n * B /\ InRows(f, n, B)
    BY <1>3, <2>2, ByteRows DEF B
  <2> QED BY <2>3 DEF InRows
<1>5. ASSUME NEW k \in 1 .. n * B PROVE Flat(f)[k] = TapeBit(o, in, d * B + (k - 1))
  <2> DEFINE q == (k - 1) \div B
             r == (k - 1) % B
  <2>1. k - 1 \in Nat /\ q \in Nat /\ r \in 0 .. B - 1 /\ k - 1 = q * B + r
    <3>1. n * B \in Nat
      BY <1>1, TimesNat
    <3>2. k - 1 \in Nat
      BY <3>1
    <3> QED BY <1>1, <3>2, DivMod
  <2> HIDE DEF q, r
  <2>2. q < n
    <3>1. SUFFICES ASSUME ~(q < n) PROVE FALSE
      OBVIOUS
    <3> DEFINE x == n * B
               y == q * B
    <3>2. x <= y
      <4>1. n \in Nat /\ (n = q \/ n < q)
        BY <2>1, <3>1
      <4>2. n * B + B <= q * B \/ n = q
        BY <1>1, <2>1, <4>1, NextRow
      <4>3. n * B \in Nat /\ q * B \in Nat
        BY <1>1, <2>1, <4>1, TimesNat
      <4> HIDE DEF x, y
      <4>4. x + B <= y \/ x = y
        BY <4>2 DEF x, y
      <4>5. x \in Nat /\ y \in Nat
        BY <4>3 DEF x, y
      <4> QED BY <1>1, <4>4, <4>5
    <3>3. x \in Nat /\ y \in Nat /\ k - 1 = y + r
      BY <1>1, <2>1, TimesNat
    <3>4. k \in 1 .. x
      OBVIOUS
    <3> HIDE DEF x, y
    <3> QED BY <2>1, <3>2, <3>3, <3>4
  <2> DEFINE i == q + 1
             j == r + 1
  <2>3. i \in 1 .. n /\ j \in 1 .. B /\ i - 1 = q /\ j - 1 = r
    BY <1>1, <2>1, <2>2
  <2>4. (i - 1) * B + j = k
    <3> DEFINE y == q * B
    <3>1. y \in Nat /\ k - 1 = y + r
      BY <1>1, <2>1, TimesNat
    <3> HIDE DEF y
    <3>2. y + (r + 1) = k
      BY <2>1, <3>1
    <3> QED BY <2>3, <3>2 DEF y
  <2>5. Flat(f)[k] = f[i][j]
    BY <1>4, <2>3, <2>4
  <2>6. f[i] = BitsOfByte(o, DataAt(o, in, d + q))
    BY <1>0, <2>3
  <2>7. d * B + (k - 1) = (d + q) * B + r
    <3>1. (d + q) * B = d * B + q * B /\ d * B \in Nat /\ q * B \in Nat
      BY <1>1, <2>1, TimesNat
    <3> DEFINE x == d * B
               y == q * B
               z == (d + q) * B
    <3>2. z = x + y /\ x \in Nat /\ y \in Nat /\ k - 1 = y + r
      BY <2>1, <3>1
    <3> HIDE DEF x, y, z
    <3>3. x + (k - 1) = z + r
      BY <2>1, <3>2
    <3> QED BY <3>3 DEF x, z
  <2>8. ((d + q) * B + r) \div B = d + q /\ ((d + q) * B + r) % B = r
    <3>1. d + q \in Nat
      BY <2>1
    <3> QED BY <1>1, <2>1, <3>1, QuotientIs
  <2>9. TapeBit(o, in, d * B + (k - 1)) = BitsOfByte(o, DataAt(o, in, d + q))[r + 1]
    BY <2>7, <2>8 DEF TapeBit, B
  <2> QED BY <2>5, <2>6, <2>9
<1> QED BY <1>0, <1>4, <1>5 DEF B, BitsFrom

(* A load of the orders but JPEG begins at a multiple of this.                       *)
Step(o) == IF o = "RevMSB" THEN 4 ELSE MinLoadStep(o)

(* The bytes of a load, gone through in the order of the chunk, are data bytes.        *)
LEMMA LoadIs ==
  ASSUME NEW o \in Orders \ {"JPEG"}, NEW in \in Seq(Byte), NEW d \in Nat, d % Step(o) = 0, NEW i \in 1 .. 4
  PROVE  Chunk(o, Loaded(o, in, d))[i] = DataAt(o, in, d + (i - 1))
<1> DEFINE bytes == Padded(o, in, d)
<1>1. bytes \in Seq(Byte) /\ Len(bytes) = 4 /\ \A k \in 1 .. 4 : bytes[k] = At(in, d + (k - 1))
  <2>1. MaxProcessBytes(o) = 4
    BY DEF MaxProcessBytes
  <2>2. /\ Padded(o, in, d) \in Seq(Byte) /\ Len(Padded(o, in, d)) = MaxProcessBytes(o)
        /\ \A k \in 1 .. MaxProcessBytes(o) : Padded(o, in, d)[k] = At(in, d + (k - 1))
    <3>1. o \in Orders
      OBVIOUS
    <3> QED BY <3>1, PaddedIs
  <2> QED BY <2>1, <2>2
<1> HIDE DEF bytes
<1>2. CASE o = "RevMSB"
  <2>1. d % 4 = 0
    BY <1>2 DEF Step
  <2>2. 4 * ((d + (i - 1)) \div 4) = d
    BY <2>1
  <2>3. LoadsInside(o, in, d) <=> d + 4 <= Len(in)
    BY <1>2 DEF LoadsInside, MaxProcessBytes
  <2>4. Chunk(o, Loaded(o, in, d)) = Loaded(o, in, d)
    BY <1>2 DEF Chunk
  <2>5. Loaded(o, in, d) = IF d + 4 <= Len(in) THEN [k \in DOMAIN bytes |-> Reversed(bytes[k])] ELSE bytes
    BY <1>2, <2>3 DEF Loaded, bytes
  <2>6. DOMAIN bytes = 1 .. 4
    BY <1>1
  <2>7. DataAt(o, in, d + (i - 1)) = IF d + 4 <= Len(in) THEN Reversed(At(in, d + (i - 1))) ELSE At(in, d + (i - 1))
    BY <1>2, <2>2 DEF DataAt
  <2> QED BY <1>1, <2>4, <2>5, <2>6, <2>7
<1>3. CASE o # "RevMSB"
  <2>1. Loaded(o, in, d) = bytes
    BY <1>3 DEF Loaded, bytes
  <2>2. CASE o = "MSB32"
    <3>1. d % 4 = 0
      BY <2>2 DEF Step, MinLoadStep
    <3>2. Chunk(o, bytes)[i] = bytes[4 - i + 1]
      <4>1. Chunk(o, bytes) = Reverse(bytes)
        BY <2>2 DEF Chunk
      <4>2. Reverse(bytes)[i] = bytes[Len(bytes) - i + 1]
        BY ZenonT(60), <1>1, Turned
      <4> QED BY <1>1, <4>1, <4>2
    <3>3. 4 * ((d + (i - 1)) \div 4) + (3 - ((d + (i - 1)) % 4)) = d + ((4 - i + 1) - 1) /\ 4 - i + 1 \in 1 .. 4
      BY <3>1
    <3>4. DataAt(o, in, d + (i - 1)) = At(in, d + ((4 - i + 1) - 1))
      BY <2>2, <3>3 DEF DataAt
    <3> QED BY <1>1, <2>1, <3>2, <3>3, <3>4
  <2>3. CASE o = "MSB16"
    <3> DEFINE k == IF i % 2 = 1 THEN i + 1 ELSE i - 1
    <3>1. d % 2 = 0
      BY <2>3 DEF Step, MinLoadStep
    <3>2. Chunk(o, bytes)[i] = bytes[k]
      BY <2>3 DEF Chunk
    <3>3. k \in 1 .. 4
      OBVIOUS
    <3>4. 2 * ((d + (i - 1)) \div 2) + (1 - ((d + (i - 1)) % 2)) = d + (k - 1)
      BY <3>1
    <3>5. DataAt(o, in, d + (i - 1)) = At(in, d + (k - 1))
      BY <2>3, <3>4 DEF DataAt
    <3> HIDE DEF k
    <3> QED BY <1>1, <2>1, <3>2, <3>3, <3>5
  <2>4. CASE o \in {"LSB", "MSB"}
    BY <1>1, <2>1, <2>4 DEF Chunk, DataAt
  <2> QED BY <1>3, <2>2, <2>3, <2>4 DEF Orders
<1> QED BY <1>2, <1>3

(* fillCache() of the JPEG reader finds the data bytes where they begin.              *)
LEMMA StartsAre ==
  ASSUME NEW in \in Seq(Byte), NEW d \in Nat
  PROVE  LET P(k) == Place("JPEG", in, k)
             bytes == Padded("JPEG", in, P(d))
             start == Starts(bytes)
         IN  /\ \A k \in 1 .. 5 : start[k] - 1 = P(d + (k - 1)) - P(d)
             /\ \A k \in 1 .. 4 : /\ bytes[start[k]] = At(in, P(d + (k - 1)))
                                  /\ bytes[start[k] + 1] = At(in, P(d + (k - 1)) + 1)
<1> DEFINE P(k) == Place("JPEG", in, k)
           bytes == Padded("JPEG", in, P(d))
           start == Starts(bytes)
<1>1. \A k \in Nat : P(k) \in Nat /\ P(k + 1) = P(k) + Width(in, P(k))
  BY PlaceSteps
<1>2. \A i \in 1 .. 8 : bytes[i] = At(in, P(d) + (i - 1))
  <2>1. "JPEG" \in Orders /\ MaxProcessBytes("JPEG") = 8 /\ P(d) \in Nat
    BY <1>1 DEF Orders, MaxProcessBytes
  <2> HIDE DEF P
  <2> QED BY ZenonT(60), <2>1, PaddedIs
<1> HIDE DEF bytes, P
<1>3. ASSUME NEW k \in Nat, NEW at \in 1 .. 8, at - 1 = P(k) - P(d)
      PROVE  After(bytes, at) - 1 = P(k + 1) - P(d) /\ After(bytes, at) \in {at + 1, at + 2}
  <2> DEFINE x == P(k)
             y == P(d)
  <2>0. x \in Nat /\ y \in Nat /\ P(k + 1) = x + Width(in, x) /\ at - 1 = x - y
    BY <1>1, <1>3
  <2> HIDE DEF x, y
  <2>1. bytes[at] = At(in, x)
    <3>1. y + (at - 1) = x
      BY <2>0
    <3>2. bytes[at] = At(in, y + (at - 1))
      BY <1>2 DEF y
    <3> QED BY <3>1, <3>2
  <2>2. After(bytes, at) = at + Width(in, x)
    BY <2>1 DEF After, Width
  <2>3. Width(in, x) \in {1, 2}
    BY DEF Width
  <2>4. After(bytes, at) - 1 = (x + Width(in, x)) - y
    BY <2>0, <2>2, <2>3
  <2>5. After(bytes, at) \in {at + 1, at + 2}
    BY <2>2, <2>3
  <2> QED BY <2>0, <2>4, <2>5 DEF y
<1> DEFINE a1 == 1
           a2 == After(bytes, 1)
           a3 == After(bytes, After(bytes, 1))
           a4 == After(bytes, After(bytes, After(bytes, 1)))
           a5 == After(bytes, After(bytes, After(bytes, After(bytes, 1))))
<1>4. start[1] = a1 /\ start[2] = a2 /\ start[3] = a3 /\ start[4] = a4 /\ start[5] = a5
  BY DEF Starts
<1>5. a1 \in 1 .. 1 /\ a1 - 1 = P(d) - P(d)
  BY <1>1
<1>6. a2 \in 2 .. 3 /\ a2 - 1 = P(d + 1) - P(d)
  BY <1>3, <1>5
<1>7. a3 \in 3 .. 5 /\ a3 - 1 = P((d + 1) + 1) - P(d)
  <2>1. After(bytes, a2) = a3
    OBVIOUS
  <2> HIDE DEF a2, a3
  <2> QED BY <1>3, <1>6, <2>1
<1>8. a4 \in 4 .. 7 /\ a4 - 1 = P((d + 2) + 1) - P(d)
  <2>1. After(bytes, a3) = a4 /\ (d + 1) + 1 = d + 2
    OBVIOUS
  <2> HIDE DEF a3, a4
  <2> QED BY <1>3, <1>7, <2>1
<1>9. a5 \in 5 .. 9 /\ a5 - 1 = P((d + 3) + 1) - P(d)
  <2>1. After(bytes, a4) = a5 /\ (d + 2) + 1 = d + 3
    OBVIOUS
  <2> HIDE DEF a4, a5
  <2> QED BY <1>3, <1>8, <2>1
<1> HIDE DEF a1, a2, a3, a4, a5, start
<1>10. \A k \in 1 .. 5 : start[k] - 1 = P(d + (k - 1)) - P(d)
  <2> TAKE k \in 1 .. 5
  <2>1. d + (1 - 1) = d /\ d + (2 - 1) = d + 1 /\ d + (3 - 1) = (d + 1) + 1 /\ d + (4 - 1) = (d + 2) + 1 /\ d + (5 - 1) = (d + 3) + 1
    OBVIOUS
  <2>2. k = 1 \/ k = 2 \/ k = 3 \/ k = 4 \/ k = 5
    OBVIOUS
  <2>3. CASE k = 1
    BY <1>4, <1>5, <2>1, <2>3
  <2>4. CASE k = 2
    BY <1>4, <1>6, <2>1, <2>4
  <2>5. CASE k = 3
    BY <1>4, <1>7, <2>1, <2>5
  <2>6. CASE k = 4
    BY <1>4, <1>8, <2>1, <2>6
  <2>7. CASE k = 5
    BY <1>4, <1>9, <2>1, <2>7
  <2> QED BY <2>2, <2>3, <2>4, <2>5, <2>6, <2>7
<1>11. \A k \in 1 .. 4 : start[k] \in 1 .. 7
  <2>1. a1 \in 1 .. 7 /\ a2 \in 1 .. 7 /\ a3 \in 1 .. 7 /\ a4 \in 1 .. 7
    BY <1>5, <1>6, <1>7, <1>8
  <2> TAKE k \in 1 .. 4
  <2>2. k = 1 \/ k = 2 \/ k = 3 \/ k = 4
    OBVIOUS
  <2> QED BY <1>4, <2>1, <2>2
<1>12. ASSUME NEW k \in 1 .. 4
       PROVE  bytes[start[k]] = At(in, P(d + (k - 1))) /\ bytes[start[k] + 1] = At(in, P(d + (k - 1)) + 1)
  <2>1. start[k] - 1 = P(d + (k - 1)) - P(d) /\ start[k] \in 1 .. 7
    BY SMTT(40), <1>10, <1>11
  <2>2. P(d) \in Nat /\ P(d + (k - 1)) \in Nat
    <3>1. d + (k - 1) \in Nat
      OBVIOUS
    <3> QED BY <1>1, <3>1
  <2>3. P(d) + (start[k] - 1) = P(d + (k - 1)) /\ P(d) + ((start[k] + 1) - 1) = P(d + (k - 1)) + 1
    <3> DEFINE x == P(d)
               y == P(d + (k - 1))
               z == start[k]
    <3>1. x \in Nat /\ y \in Nat /\ z - 1 = y - x /\ z \in 1 .. 7
      BY <2>1, <2>2
    <3> HIDE DEF x, y, z
    <3>2. x + (z - 1) = y /\ x + ((z + 1) - 1) = y + 1
      BY <3>1
    <3> QED BY <3>2 DEF x, y, z
  <2>4. start[k] \in 1 .. 8 /\ start[k] + 1 \in 1 .. 8
    BY <2>1
  <2> QED BY <1>2, <2>3, <2>4
<1> QED BY <1>10, <1>12 DEF bytes, P, start

(* A load of the JPEG reader, with no marker in the way, or at the first one.         *)
JpegLoads(in, r, d) ==
  /\ (\A i \in 1 .. 4 : ~MarkerAt(in, d + (i - 1))) =>
       JpegFilled(in, r) = [r EXCEPT !.cache = @ \o DataBits("JPEG", in, d, 4), !.pos = Place("JPEG", in, d + 4)]
  /\ \A j \in 1 .. 4 : MarkerAt(in, d + (j - 1)) /\ (\A i \in 1 .. j - 1 : ~MarkerAt(in, d + (i - 1))) =>
       LET bits == DataBits("JPEG", in, d, j - 1)
       IN  JpegFilled(in, r) =
             [r EXCEPT !.cache = (@ \o bits) \o Zeros(CacheSize - Len(r.cache) - Len(bits)),
                       !.pos = Len(in) + (5 - j),
                       !.endPos = IF @ = Unknown THEN Place("JPEG", in, d + (j - 1)) ELSE Overwritten]

(* BitStreamerJPEG::fillCache(), in terms of the places of data bytes: four of them, or
   those in front of a marker.                                                         *)
LEMMA JpegLoadIs ==
  ASSUME NEW in \in Seq(Byte), NEW d \in Nat, NEW r, r.pos = Place("JPEG", in, d)
  PROVE  JpegLoads(in, r, d)
<1> DEFINE P(k) == Place("JPEG", in, k)
           bytes == Padded("JPEG", in, r.pos)
           start == Starts(bytes)
           IsMarker(i) == bytes[start[i]] = FF /\ bytes[start[i] + 1] # 0
           markers == {i \in 1 .. 4 : IsMarker(i) /\ \A k \in 1 .. i - 1 : ~IsMarker(k)}
           data == IF markers = {} THEN 4 ELSE (CHOOSE i \in markers : TRUE) - 1
           bits == Flat([i \in 1 .. data |-> BitsOfByte("JPEG", bytes[start[i]])])
           p == start[data + 1] - 1
<1>1. JpegFilled(in, r) =
        IF markers = {} THEN [r EXCEPT !.cache = @ \o bits, !.pos = @ + p]
        ELSE [r EXCEPT !.cache = @ \o bits \o Zeros(CacheSize - Len(r.cache) - Len(bits)),
                       !.pos = AllConsumed(in, r, p, data),
                       !.endPos = IF @ = Unknown THEN MarkerPlace(r, p) ELSE Overwritten]
  BY DEF JpegFilled
<1>2. /\ \A k \in 1 .. 5 : start[k] - 1 = P(d + (k - 1)) - P(d)
      /\ \A k \in 1 .. 4 : /\ bytes[start[k]] = At(in, P(d + (k - 1)))
                           /\ bytes[start[k] + 1] = At(in, P(d + (k - 1)) + 1)
  BY StartsAre
<1>3. \A k \in Nat : P(k) \in Nat /\ P(k) = Places(in)[k]
  BY PlaceSteps
<1>4. r.pos = P(d) /\ Len(in) \in Nat
  OBVIOUS
<1> HIDE DEF bytes, start, P
<1>5. \A i \in 1 .. 4 : IsMarker(i) <=> MarkerAt(in, d + (i - 1))
  <2> TAKE i \in 1 .. 4
  <2>1. d + (i - 1) \in Nat
    OBVIOUS
  <2>2. P(d + (i - 1)) = Places(in)[d + (i - 1)]
    BY <1>3, <2>1
  <2> QED BY <1>2, <2>2 DEF MarkerAt
<1> HIDE DEF IsMarker
<1>6. ASSUME NEW n \in 0 .. 4, data = n PROVE bits = DataBits("JPEG", in, d, n)
  <2>1. \A i \in 1 .. n : bytes[start[i]] = DataAt("JPEG", in, d + (i - 1))
    <3> TAKE i \in 1 .. n
    <3>1. i \in 1 .. 4 /\ d + (i - 1) \in Nat
      OBVIOUS
    <3>2. bytes[start[i]] = At(in, P(d + (i - 1))) /\ P(d + (i - 1)) = Places(in)[d + (i - 1)]
      BY <1>2, <1>3, <3>1
    <3> QED BY <3>2 DEF DataAt
  <2>2. bits = Flat([i \in 1 .. n |-> BitsOfByte("JPEG", bytes[start[i]])])
    BY <1>6
  <2>3. [i \in 1 .. n |-> BitsOfByte("JPEG", bytes[start[i]])] = [i \in 1 .. n |-> BitsOfByte("JPEG", DataAt("JPEG", in, d + (i - 1)))]
    BY <2>1
  <2> QED BY <2>2, <2>3 DEF DataBits
<1>7. ASSUME \A i \in 1 .. 4 : ~MarkerAt(in, d + (i - 1))
      PROVE  JpegFilled(in, r) = [r EXCEPT !.cache = @ \o DataBits("JPEG", in, d, 4), !.pos = P(d + 4)]
  <2>1. markers = {}
    BY <1>5, <1>7
  <2>2. data = 4
    BY <2>1
  <2>3. bits = DataBits("JPEG", in, d, 4)
    BY <1>6, <2>2
  <2>4. r.pos + p = P(d + 4)
    <3>1. p = P(d + 4) - P(d)
      <4>1. 5 \in 1 .. 5 /\ d + (5 - 1) = d + 4 /\ data + 1 = 5
        BY <2>2
      <4> QED BY <1>2, <4>1
    <3>2. P(d + 4) \in Nat /\ P(d) \in Nat
      <4>1. d + 4 \in Nat
        OBVIOUS
      <4> QED BY <1>3, <4>1
    <3> QED BY <1>4, <3>1, <3>2
  <2> HIDE DEF markers, data, bits, p
  <2> QED BY <1>1, <2>1, <2>3, <2>4
<1>8. ASSUME NEW j \in 1 .. 4, MarkerAt(in, d + (j - 1)), \A i \in 1 .. j - 1 : ~MarkerAt(in, d + (i - 1))
      PROVE  JpegFilled(in, r) =
               [r EXCEPT !.cache = (@ \o DataBits("JPEG", in, d, j - 1)) \o Zeros(CacheSize - Len(r.cache) - Len(DataBits("JPEG", in, d, j - 1))),
                         !.pos = Len(in) + (5 - j),
                         !.endPos = IF @ = Unknown THEN P(d + (j - 1)) ELSE Overwritten]
  <2>1. j \in markers
    <3>1. IsMarker(j)
      BY <1>5, <1>8
    <3>2. \A k \in 1 .. j - 1 : ~IsMarker(k)
      <4> TAKE k \in 1 .. j - 1
      <4>1. k \in 1 .. 4
        OBVIOUS
      <4> QED BY <1>5, <1>8, <4>1
    <3> QED BY <3>1, <3>2
  <2>2. \A i \in markers : i = j
    <3> SUFFICES ASSUME NEW i \in markers, i # j PROVE FALSE
      OBVIOUS
    <3>1. i \in 1 .. 4 /\ IsMarker(i) /\ \A k \in 1 .. i - 1 : ~IsMarker(k)
      OBVIOUS
    <3>2. IsMarker(j) /\ \A k \in 1 .. j - 1 : ~IsMarker(k)
      BY <2>1
    <3>3. i < j \/ j < i
      BY <3>1
    <3>4. i \in 1 .. j - 1 \/ j \in 1 .. i - 1
      BY <3>1, <3>3
    <3> QED BY <3>1, <3>2, <3>4
  <2>3. markers # {} /\ data = j - 1
    <3> HIDE DEF markers
    <3> QED BY <2>1, <2>2
  <2>4. bits = DataBits("JPEG", in, d, j - 1)
    BY SMTT(40), <1>6, <2>3
  <2>5. p = P(d + (j - 1)) - P(d) /\ P(d + (j - 1)) \in Nat /\ P(d) \in Nat
    <3>1. j \in 1 .. 5 /\ data + 1 = j /\ d + (j - 1) \in Nat
      BY <2>3
    <3> QED BY <1>2, <1>3, <3>1
  <2>6. MarkerPlace(r, p) = P(d + (j - 1))
    <3> HIDE DEF p
    <3> QED BY <1>4, <2>5 DEF MarkerPlace
  <2>7. AllConsumed(in, r, p, data) = Len(in) + (5 - j)
    <3> HIDE DEF p, data
    <3>1. P(d) \in Nat
      BY <1>3
    <3> QED BY <1>4, <2>3, <3>1 DEF AllConsumed
  <2> HIDE DEF markers, data, bits, p
  <2> QED BY <1>1, <2>3, <2>4, <2>6, <2>7
<1> QED BY <1>7, <1>8 DEF JpegLoads, P

(* The bits of c are those of the data from bit u on, as far as there are D bytes of it. *)
TapeOn(o, in, D, c, u) ==
  \A i \in 1 .. Len(c) : u + (i - 1) < D * ByteBits => c[i] = TapeBit(o, in, u + (i - 1))

(* Bits of the data, and behind them the bits that follow in the data.                 *)
LEMMA TapeLonger ==
  ASSUME NEW o, NEW in, NEW D \in Nat, NEW c \in Seq(Bit), NEW s \in Seq(Bit), NEW u \in Nat,
         TapeOn(o, in, D, c, u), TapeOn(o, in, D, s, u + Len(c))
  PROVE  c \o s \in Seq(Bit) /\ Len(c \o s) = Len(c) + Len(s) /\ TapeOn(o, in, D, c \o s, u)
<1> DEFINE w == c \o s
<1>1. w \in Seq(Bit) /\ Len(w) = Len(c) + Len(s) /\ Len(c) \in Nat /\ Len(s) \in Nat
  BY ConcatIs
<1>2. \A i \in 1 .. Len(c) + Len(s) : w[i] = IF i <= Len(c) THEN c[i] ELSE s[i - Len(c)]
  BY ConcatItem
<1> HIDE DEF w
<1>3. ASSUME NEW i \in 1 .. Len(w), u + (i - 1) < D * ByteBits PROVE w[i] = TapeBit(o, in, u + (i - 1))
  <2>1. i \in 1 .. Len(c) + Len(s)
    BY <1>1
  <2>2. CASE i <= Len(c)
    <3>1. i \in 1 .. Len(c) /\ w[i] = c[i]
      BY <1>1, <1>2, <2>1, <2>2
    <3> QED BY <1>3, <3>1 DEF TapeOn
  <2>3. CASE ~(i <= Len(c))
    <3> DEFINE k == i - Len(c)
    <3>1. k \in 1 .. Len(s) /\ w[i] = s[k] /\ (u + Len(c)) + (k - 1) = u + (i - 1)
      BY <1>1, <1>2, <2>1, <2>3
    <3> HIDE DEF k
    <3> QED BY <1>3, <3>1 DEF TapeOn
  <2> QED BY <2>2, <2>3
<1>4. TapeOn(o, in, D, w, u)
  BY <1>3 DEF TapeOn
<1> QED BY <1>1, <1>4 DEF w

(* Bits of the data without the first n.                                               *)
LEMMA TapeShorter ==
  ASSUME NEW o, NEW in, NEW D \in Nat, NEW c \in Seq(Bit), NEW u \in Nat, TapeOn(o, in, D, c, u), NEW n \in 0 .. Len(c)
  PROVE  Drop(c, n) \in Seq(Bit) /\ Len(Drop(c, n)) = Len(c) - n /\ TapeOn(o, in, D, Drop(c, n), u + n)
<1> DEFINE w == Drop(c, n)
<1>1. w \in Seq(Bit) /\ Len(w) = Len(c) - n /\ \A i \in 1 .. Len(c) - n : w[i] = c[n + i]
  BY BeginningIs DEF Drop
<1> HIDE DEF w
<1>2. ASSUME NEW i \in 1 .. Len(w), (u + n) + (i - 1) < D * ByteBits PROVE w[i] = TapeBit(o, in, (u + n) + (i - 1))
  <2> DEFINE k == n + i
  <2>1. k \in 1 .. Len(c) /\ w[i] = c[k] /\ (u + n) + (i - 1) = u + (k - 1)
    BY <1>1
  <2> HIDE DEF k
  <2> QED BY <1>2, <2>1 DEF TapeOn
<1>3. TapeOn(o, in, D, w, u + n)
  BY <1>2 DEF TapeOn
<1> QED BY <1>1, <1>3 DEF w

(* Behind the data there is nothing that bits must be.                                 *)
LEMMA TapeBeyond ==
  ASSUME NEW o, NEW in, NEW D \in Nat, NEW c \in Seq(Bit), NEW u \in Nat, D * ByteBits <= u
  PROVE  TapeOn(o, in, D, c, u)
<1> DEFINE x == D * ByteBits
<1>1. x \in Nat
  BY Sizes, TimesNat
<1> HIDE DEF x
<1>2. \A i \in 1 .. Len(c) : ~(u + (i - 1) < x)
  BY <1>1 DEF x
<1> QED BY <1>2 DEF TapeOn, x

(* The bits of data bytes are on the tape of the data.                                 *)
LEMMA TapeData ==
  ASSUME NEW o \in Orders, NEW in \in Seq(Byte), NEW D \in Nat, NEW d \in Nat, NEW n \in 0 .. 4
  PROVE  /\ DataBits(o, in, d, n) \in Seq(Bit) /\ Len(DataBits(o, in, d, n)) = n * ByteBits
         /\ TapeOn(o, in, D, DataBits(o, in, d, n), d * ByteBits)
<1> DEFINE c == DataBits(o, in, d, n)
           u == d * ByteBits
<1>1. c \in Seq(Bit) /\ Len(c) = n * ByteBits /\ BitsFrom(o, in, c, u)
  BY BitsInARow
<1> HIDE DEF c, u
<1>2. TapeOn(o, in, D, c, u)
  BY <1>1 DEF BitsFrom, TapeOn
<1> QED BY <1>1, <1>2 DEF c, u

(* Past the end of its input the JPEG reader finds zeros, and no marker.             *)
LEMMA JpegPastEnd ==
  ASSUME NEW in \in Seq(Byte), NEW r, r.pos \in Nat, Len(in) <= r.pos
  PROVE  \E z \in Seq(Bit) : /\ Len(z) = 4 * ByteBits
                             /\ JpegFilled(in, r) = [r EXCEPT !.cache = @ \o z, !.pos = @ + 4]
<1> DEFINE bytes == Padded("JPEG", in, r.pos)
           start == Starts(bytes)
           IsMarker(i) == bytes[start[i]] = FF /\ bytes[start[i] + 1] # 0
           markers == {i \in 1 .. 4 : IsMarker(i) /\ \A k \in 1 .. i - 1 : ~IsMarker(k)}
           data == IF markers = {} THEN 4 ELSE (CHOOSE i \in markers : TRUE) - 1
           bits == Flat([i \in 1 .. data |-> BitsOfByte("JPEG", bytes[start[i]])])
           p == start[data + 1] - 1
<1>1. JpegFilled(in, r) =
        IF markers = {} THEN [r EXCEPT !.cache = @ \o bits, !.pos = @ + p]
        ELSE [r EXCEPT !.cache = @ \o bits \o Zeros(CacheSize - Len(r.cache) - Len(bits)),
                       !.pos = AllConsumed(in, r, p, data),
                       !.endPos = IF @ = Unknown THEN MarkerPlace(r, p) ELSE Overwritten]
  BY DEF JpegFilled
<1>2. \A i \in 1 .. 8 : bytes[i] = 0
  <2>1. \A i \in 1 .. 8 : bytes[i] = At(in, r.pos + (i - 1))
    <3>1. "JPEG" \in Orders /\ MaxProcessBytes("JPEG") = 8
      BY DEF Orders, MaxProcessBytes
    <3>2. \A i \in 1 .. MaxProcessBytes("JPEG") : Padded("JPEG", in, r.pos)[i] = At(in, r.pos + (i - 1))
      BY <3>1, PaddedIs
    <3> QED BY <3>1, <3>2
  <2>2. \A i \in 1 .. 8 : At(in, r.pos + (i - 1)) = 0
    <3> DEFINE x == r.pos
    <3>1. x \in Nat /\ Len(in) <= x /\ Len(in) \in Nat
      OBVIOUS
    <3> HIDE DEF x
    <3>2. \A i \in 1 .. 8 : ~(x + (i - 1) < Len(in))
      BY <3>1
    <3> QED BY <3>2 DEF At, x
  <2> QED BY <2>1, <2>2
<1>3. FF # 0
  BY BytesAre
<1> HIDE DEF bytes
<1>4. start = << 1, 2, 3, 4, 5 >>
  <2>1. \A at \in 1 .. 8 : After(bytes, at) = at + 1
    BY <1>2, <1>3 DEF After
  <2>2. After(bytes, 1) = 2 /\ After(bytes, 2) = 3 /\ After(bytes, 3) = 4 /\ After(bytes, 4) = 5
    BY <2>1
  <2> QED BY <2>2 DEF Starts
<1> HIDE DEF start
<1>5. \A i \in 1 .. 4 : start[i] = i /\ bytes[start[i]] = 0
  <2>1. start[1] = 1 /\ start[2] = 2 /\ start[3] = 3 /\ start[4] = 4
    BY <1>4
  <2> TAKE i \in 1 .. 4
  <2>2. i = 1 \/ i = 2 \/ i = 3 \/ i = 4
    OBVIOUS
  <2> QED BY <1>2, <2>1, <2>2
<1>6. markers = {}
  BY <1>3, <1>5
<1>7. data = 4
  BY <1>6
<1>8. p = 4
  <2>1. start[5] = 5
    BY <1>4
  <2> HIDE DEF data
  <2> QED BY <1>7, <2>1
<1> DEFINE g == [i \in 1 .. 4 |-> BitsOfByte("JPEG", bytes[start[i]])]
<1>9. bits = Flat(g)
  BY <1>7
<1>10. g \in Seq(Seq(Bit)) /\ Len(g) = 4 /\ \A i \in 1 .. 4 : Len(g[i]) = ByteBits
  <2> DEFINE T == Seq(Bit)
             z == BitsOfByte("JPEG", 0)
  <2>1. z \in T /\ Len(z) = ByteBits
    BY BytesAre, ByteToBits
  <2> HIDE DEF T, z
  <2>2. \A i \in 1 .. 4 : g[i] = z
    BY <1>5 DEF z
  <2>3. g \in Seq(T) /\ Len(g) = 4
    BY <1>5, <2>1 DEF z
  <2> QED BY <2>1, <2>2, <2>3 DEF T
<1> HIDE DEF g
<1>11. Flat(g) \in Seq(Bit) /\ Len(Flat(g)) = 4 * ByteBits
  <2>1. 4 \in 0 .. 4
    OBVIOUS
  <2> QED BY <1>10, <2>1, ByteRows
<1>12. JpegFilled(in, r) = [r EXCEPT !.cache = @ \o Flat(g), !.pos = @ + 4]
  <2> HIDE DEF markers, bits, p, data
  <2> QED BY <1>1, <1>6, <1>8, <1>9
<1> QED BY <1>11, <1>12

(* A reader on its way: its cache holds the bits from the next one on; no marker was come
   across and the cache ends where the next load begins, or the first marker was, and
   behind it there are zeros.                                                      *)
Gotten == Seq(Bit) \cup Int

Readers == [cache : Seq(Bit), pos : Nat, endPos : Nat \cup {Unknown}, used : Nat, got : Seq(Gotten), threw : BOOLEAN]

Furthest(o, in) == Len(in) + 3 * MaxProcessBytes(o)

NoMarkerBefore(in, d) == \A k \in Nat : k < d => ~MarkerAt(in, k)

(* An input with D bytes of data.                                                   *)
InputOK(o, in, D) ==
  /\ o \in Orders /\ in \in Seq(Byte) /\ D \in Nat
  /\ o = "JPEG" => NoMarkerBefore(in, D) /\ Place(o, in, D) <= Len(in) + 1
  /\ o # "JPEG" => D <= Len(in)

Unmarked(o, in, r, d) ==
  /\ d \in Nat /\ r.endPos = Unknown /\ r.pos = Place(o, in, d)
  /\ r.used + Len(r.cache) = d * ByteBits
  /\ o = "JPEG" => NoMarkerBefore(in, d)
  /\ o # "JPEG" => d % Step(o) = 0

Marked(o, in, r, m) ==
  /\ m \in Nat /\ o = "JPEG" /\ MarkerAt(in, m) /\ NoMarkerBefore(in, m) /\ r.endPos = Place(o, in, m)
  /\ Len(in) <= r.pos /\ r.used + Len(r.cache) <= r.pos * ByteBits + CacheSize
  /\ (m + (r.pos - Len(in))) * ByteBits <= r.used + Len(r.cache)

Reading(o, in, D, r) ==
  /\ r \in Readers /\ Len(r.cache) <= CacheSize /\ ~r.threw /\ r.pos <= Furthest(o, in)
  /\ TapeOn(o, in, D, r.cache, r.used)
  /\ (\E d \in Nat : Unmarked(o, in, r, d)) \/ (\E m \in Nat : Marked(o, in, r, m))

Stopped(o, in, r) ==
  /\ r \in Readers /\ Len(r.cache) <= CacheSize /\ r.threw
  /\ r.used <= Furthest(o, in) * ByteBits + CacheSize

(* Products grow with a factor.                                                        *)
LEMMA TimesGrow ==
  ASSUME NEW a \in Nat, NEW b \in Nat, NEW n \in Nat, a <= b
  PROVE  a * n <= b * n /\ a * n \in Nat /\ b * n \in Nat
<1>1. a * n \in Nat /\ b * n \in Nat
  BY TimesNat
<1>2. CASE a = b
  BY <1>1, <1>2
<1>3. CASE a # b
  <2>1. a * n + n <= b * n
    BY <1>3, NextRow
  <2> DEFINE x == a * n
             y == b * n
  <2>2. x \in Nat /\ y \in Nat /\ x + n <= y
    BY <1>1, <2>1
  <2> HIDE DEF x, y
  <2>3. x <= y
    BY <2>2
  <2> QED BY <1>1, <2>3 DEF x, y
<1> QED BY <1>2, <1>3

(* The furthest a reader's position can be.                                            *)
LEMMA FurthestIs ==
  ASSUME NEW o, NEW in \in Seq(Byte)
  PROVE  /\ Furthest(o, in) \in Nat /\ Furthest(o, in) = Len(in) + 3 * MaxProcessBytes(o)
         /\ MaxProcessBytes(o) = IF o = "JPEG" THEN 8 ELSE 4
BY DEF Furthest, MaxProcessBytes

(* A reader has got no more than what it has loaded.                                *)
LEMMA ReadingLimit ==
  ASSUME NEW o, NEW in, NEW D, InputOK(o, in, D), NEW r, Reading(o, in, D, r)
  PROVE  r.used <= Furthest(o, in) * ByteBits + CacheSize
<1> DEFINE F == Furthest(o, in)
           c == Len(r.cache)
           u == r.used
           p == r.pos
<1>1. F \in Nat /\ ByteBits \in Nat /\ CacheSize \in Nat
  BY FurthestIs, Sizes DEF InputOK
<1>2. c \in Nat /\ u \in Nat /\ p \in Nat /\ p <= F
  BY DEF Reading, Readers
<1>3. u + c <= p * ByteBits + CacheSize
  <2>1. CASE \E d \in Nat : Unmarked(o, in, r, d)
    <3>1. PICK d \in Nat : Unmarked(o, in, r, d)
      BY <2>1
    <3>2. d <= p /\ u + c = d * ByteBits
      BY <3>1, PlaceOrder DEF Unmarked
    <3>3. d * ByteBits <= p * ByteBits /\ d * ByteBits \in Nat /\ p * ByteBits \in Nat
      BY <1>1, <1>2, <3>2, TimesGrow
    <3> DEFINE x == d * ByteBits
               y == p * ByteBits
    <3> HIDE DEF x, y
    <3>4. x \in Nat /\ y \in Nat /\ x <= y /\ u + c = x
      BY <3>2, <3>3 DEF x, y
    <3> HIDE DEF u, c, p
    <3>5. u + c <= y + CacheSize
      BY <1>1, <3>4
    <3> QED BY <3>5 DEF y
  <2>2. CASE \E m \in Nat : Marked(o, in, r, m)
    BY <2>2 DEF Marked
  <2> QED BY <2>1, <2>2 DEF Reading
<1>4. p * ByteBits <= F * ByteBits /\ p * ByteBits \in Nat /\ F * ByteBits \in Nat
  <2> HIDE DEF F, p
  <2> QED BY <1>1, <1>2, TimesGrow
<1> DEFINE x == p * ByteBits
           y == F * ByteBits
<1> HIDE DEF F, c, u, p
<1>5. x \in Nat /\ y \in Nat /\ x <= y /\ u + c <= x + CacheSize
  BY <1>3, <1>4
<1> HIDE DEF x, y
<1>6. u <= y + CacheSize
  BY <1>1, <1>2, <1>5
<1> QED BY <1>6 DEF u, y, F

(* More bits in the cache.                                                          *)
Gains(o, in, D, r, f, s, p, e) ==
  /\ r \in Readers /\ TapeOn(o, in, D, r.cache, r.used)
  /\ s \in Seq(Bit) /\ TapeOn(o, in, D, s, r.used + Len(r.cache))
  /\ D \in Nat /\ p \in Nat /\ e \in Nat \cup {Unknown}
  /\ f = [r EXCEPT !.cache = r.cache \o s, !.pos = p, !.endPos = e]

(* A load that only appends bits of the data to the cache.                             *)
LEMMA MoreCache ==
  ASSUME NEW o, NEW in, NEW D, NEW r, NEW f, NEW s, NEW p, NEW e, Gains(o, in, D, r, f, s, p, e)
  PROVE  /\ f \in Readers /\ f.cache = r.cache \o s /\ f.pos = p /\ f.endPos = e
         /\ f.used = r.used /\ f.got = r.got /\ (f.threw <=> r.threw)
         /\ Len(f.cache) = Len(r.cache) + Len(s) /\ TapeOn(o, in, D, f.cache, f.used)
<1>1. r \in Readers /\ r.cache \in Seq(Bit) /\ r.used \in Nat /\ s \in Seq(Bit) /\ D \in Nat
  BY DEF Readers, Gains
<1> DEFINE w == r.cache \o s
<1>2. w \in Seq(Bit) /\ Len(w) = Len(r.cache) + Len(s) /\ TapeOn(o, in, D, w, r.used)
  <2>1. TapeOn(o, in, D, r.cache, r.used) /\ TapeOn(o, in, D, s, r.used + Len(r.cache))
    BY DEF Gains
  <2> QED BY <1>1, <2>1, TapeLonger
<1>3. f = [r EXCEPT !.cache = w, !.pos = p, !.endPos = e] /\ p \in Nat /\ e \in Nat \cup {Unknown}
  BY DEF Gains
<1> HIDE DEF w
<1>4. /\ f \in Readers /\ f.cache = w /\ f.pos = p /\ f.endPos = e
      /\ f.used = r.used /\ f.got = r.got /\ (f.threw <=> r.threw)
  BY <1>1, <1>2, <1>3 DEF Readers
<1> QED BY <1>2, <1>4 DEF w

(* What a load that is allowed makes of a reader with less than MaxGetBits.          *)
LoadOK(o, in, D, r, f) ==
  /\ Reading(o, in, D, f) /\ f.got = r.got /\ f.used = r.used /\ MaxGetBits <= Len(f.cache)

(* A load of another order than JPEG's keeps the reader in step with the data.         *)
LEMMA PlainFilled ==
  ASSUME NEW o, NEW in, NEW D, InputOK(o, in, D), NEW r, Reading(o, in, D, r), Len(r.cache) < MaxGetBits,
         MayLoad(o, in, r.pos), o # "JPEG"
  PROVE  LoadOK(o, in, D, r, Filled(o, in, r))
<1>1. PICK d \in Nat : Unmarked(o, in, r, d)
  BY DEF Reading, Marked
<1>2. o \in Orders \ {"JPEG"} /\ in \in Seq(Byte) /\ D \in Nat /\ r \in Readers
  BY DEF InputOK, Reading
<1>3. r.pos = d /\ d % Step(o) = 0 /\ r.used + Len(r.cache) = d * ByteBits /\ r.endPos = Unknown
  BY <1>1, <1>2 DEF Unmarked, Place
<1> DEFINE s == DataBits(o, in, d, 4)
           bytes == Chunk(o, Loaded(o, in, d))
           f == Filled(o, in, r)
<1>4. s = Flat([i \in 1 .. 4 |-> BitsOfByte(o, bytes[i])])
  <2>1. \A i \in 1 .. 4 : bytes[i] = DataAt(o, in, d + (i - 1))
    BY <1>2, <1>3, LoadIs
  <2> HIDE DEF bytes
  <2>2. [i \in 1 .. 4 |-> BitsOfByte(o, bytes[i])] = [i \in 1 .. 4 |-> BitsOfByte(o, DataAt(o, in, d + (i - 1)))]
    BY <2>1
  <2> QED BY <2>2 DEF DataBits
<1>5. s \in Seq(Bit) /\ Len(s) = 4 * ByteBits /\ TapeOn(o, in, D, s, d * ByteBits)
  <2>1. o \in Orders /\ 4 \in 0 .. 4
    BY <1>2
  <2> QED BY <1>2, <2>1, TapeData
<1>6. f = [r EXCEPT !.cache = r.cache \o s, !.pos = d + 4]
  <2>1. f = [r EXCEPT !.cache = @ \o Flat([i \in 1 .. 4 |-> BitsOfByte(o, bytes[i])]), !.pos = @ + 4]
    BY <1>3 DEF Filled
  <2> HIDE DEF f, s, bytes
  <2> QED BY <1>3, <1>4, <2>1
<1> HIDE DEF s, bytes, f
<1>7. f = [r EXCEPT !.cache = r.cache \o s, !.pos = d + 4, !.endPos = r.endPos]
  BY <1>2, <1>6 DEF Readers
<1>8. /\ f \in Readers /\ f.pos = d + 4 /\ f.endPos = Unknown /\ f.used = r.used /\ f.got = r.got /\ (f.threw <=> r.threw)
      /\ Len(f.cache) = Len(r.cache) + Len(s) /\ TapeOn(o, in, D, f.cache, f.used)
  <2>1. TapeOn(o, in, D, r.cache, r.used) /\ TapeOn(o, in, D, s, r.used + Len(r.cache))
    BY <1>3, <1>5 DEF Reading
  <2>2. d + 4 \in Nat /\ r.endPos \in Nat \cup {Unknown}
    BY <1>3
  <2>3. Gains(o, in, D, r, f, s, d + 4, r.endPos)
    BY <1>2, <1>5, <1>7, <2>1, <2>2 DEF Gains
  <2> QED BY <1>3, <2>3, MoreCache
<1>9. Len(f.cache) <= CacheSize /\ MaxGetBits <= Len(f.cache) /\ f.used + Len(f.cache) = (d + 4) * ByteBits
  <2> DEFINE x == d * ByteBits
             y == (d + 4) * ByteBits
             c == Len(r.cache)
             u == r.used
             b == ByteBits
  <2>1. y = x + 4 * b /\ x \in Nat /\ b \in Nat /\ MaxGetBits = 4 * b /\ CacheSize = 8 * b
    BY Sizes, TimesNat
  <2>2. c \in Nat /\ u \in Nat /\ c < MaxGetBits /\ u + c = x
    BY <1>2, <1>3 DEF Readers
  <2>3. Len(f.cache) = c + 4 * b /\ f.used = u
    BY <1>5, <1>8
  <2> HIDE DEF x, y, c, u, b
  <2>4. Len(f.cache) <= CacheSize /\ MaxGetBits <= Len(f.cache) /\ f.used + Len(f.cache) = y
    BY <2>1, <2>2, <2>3
  <2> QED BY <2>4 DEF y
<1>10. d + 4 <= Furthest(o, in)
  <2>1. Furthest(o, in) = Len(in) + 3 * 4 /\ MaxProcessBytes(o) = 4 /\ Len(in) \in Nat
    BY <1>2, FurthestIs
  <2>2. d <= Len(in) + 2 * 4
    BY <1>3, <2>1 DEF MayLoad
  <2> QED BY <2>1, <2>2
<1>11. (d + 4) % Step(o) = 0
  <2>1. Step(o) \in {1, 2, 4}
    BY DEF Step, MinLoadStep
  <2>2. CASE Step(o) = 1
    BY <2>2
  <2>3. CASE Step(o) = 2
    BY <1>3, <2>3
  <2>4. CASE Step(o) = 4
    BY <1>3, <2>4
  <2> QED BY <2>1, <2>2, <2>3, <2>4
<1>12. Unmarked(o, in, f, d + 4)
  BY <1>2, <1>8, <1>9, <1>11 DEF Unmarked, Place
<1>13. Reading(o, in, D, f)
  <2>1. ~f.threw /\ d + 4 \in Nat
    BY <1>8 DEF Reading
  <2> QED BY <1>8, <1>9, <1>10, <1>12, <2>1 DEF Reading
<1> QED BY <1>8, <1>9, <1>13 DEF LoadOK, f

(* Before the first marker, and when it is not in the load.                          *)
LEMMA JpegFilledOn ==
  ASSUME NEW o, NEW in, NEW D, InputOK(o, in, D), NEW r, Reading(o, in, D, r), Len(r.cache) < MaxGetBits,
         MayLoad(o, in, r.pos), o = "JPEG", NEW d, Unmarked(o, in, r, d), \A i \in 1 .. 4 : ~MarkerAt(in, d + (i - 1))
  PROVE  LoadOK(o, in, D, r, Filled(o, in, r))
<1>2. o \in Orders /\ in \in Seq(Byte) /\ D \in Nat /\ r \in Readers /\ d \in Nat
  BY DEF InputOK, Reading, Unmarked
<1>3. r.pos = Place(o, in, d) /\ NoMarkerBefore(in, d) /\ r.used + Len(r.cache) = d * ByteBits /\ r.endPos = Unknown
  BY <1>2 DEF Unmarked
<1> DEFINE s == DataBits(o, in, d, 4)
           f == Filled(o, in, r)
           p == Place(o, in, d + 4)
<1>5. s \in Seq(Bit) /\ Len(s) = 4 * ByteBits /\ TapeOn(o, in, D, s, d * ByteBits)
  <2>1. 4 \in 0 .. 4
    OBVIOUS
  <2> QED BY <1>2, <2>1, TapeData
<1>6. f = [r EXCEPT !.cache = r.cache \o s, !.pos = p]
  <2>1. JpegLoads(in, r, d)
    BY <1>2, <1>3, JpegLoadIs
  <2>2. f = JpegFilled(in, r)
    BY DEF Filled
  <2>3. JpegFilled(in, r) = [r EXCEPT !.cache = @ \o s, !.pos = p]
    BY <2>1 DEF JpegLoads
  <2> HIDE DEF f, s, p
  <2> QED BY <2>2, <2>3
<1>10. p \in Nat /\ p <= r.pos + 8 /\ r.pos \in Nat
  <2>1. d + 4 \in Nat /\ d <= d + 4
    BY <1>2
  <2> DEFINE q == Place(o, in, d)
  <2>2. q \in Nat /\ p \in Nat /\ p <= q + 2 * ((d + 4) - d)
    BY <1>2, <2>1, PlaceGrows
  <2> HIDE DEF p, q
  <2>3. p <= q + 8
    BY <1>2, <2>2
  <2> QED BY <1>3, <2>2, <2>3 DEF q
<1> HIDE DEF s, f, p
<1>7. f = [r EXCEPT !.cache = r.cache \o s, !.pos = p, !.endPos = r.endPos]
  BY <1>2, <1>6 DEF Readers
<1>8. /\ f \in Readers /\ f.pos = p /\ f.endPos = Unknown /\ f.used = r.used /\ f.got = r.got /\ (f.threw <=> r.threw)
      /\ Len(f.cache) = Len(r.cache) + Len(s) /\ TapeOn(o, in, D, f.cache, f.used)
  <2>1. TapeOn(o, in, D, r.cache, r.used) /\ TapeOn(o, in, D, s, r.used + Len(r.cache))
    BY <1>3, <1>5 DEF Reading
  <2>2. r.endPos \in Nat \cup {Unknown}
    BY <1>3
  <2>3. Gains(o, in, D, r, f, s, p, r.endPos)
    BY <1>2, <1>5, <1>7, <1>10, <2>1, <2>2 DEF Gains
  <2> QED BY <1>3, <2>3, MoreCache
<1>9. Len(f.cache) <= CacheSize /\ MaxGetBits <= Len(f.cache) /\ f.used + Len(f.cache) = (d + 4) * ByteBits
  <2> DEFINE x == d * ByteBits
             y == (d + 4) * ByteBits
             c == Len(r.cache)
             u == r.used
             b == ByteBits
  <2>1. y = x + 4 * b /\ x \in Nat /\ b \in Nat /\ MaxGetBits = 4 * b /\ CacheSize = 8 * b
    BY <1>2, Sizes, TimesNat
  <2>2. c \in Nat /\ u \in Nat /\ c < MaxGetBits /\ u + c = x
    BY <1>2, <1>3 DEF Readers
  <2>3. Len(f.cache) = c + 4 * b /\ f.used = u
    BY <1>5, <1>8
  <2> HIDE DEF x, y, c, u, b
  <2>4. Len(f.cache) <= CacheSize /\ MaxGetBits <= Len(f.cache) /\ f.used + Len(f.cache) = y
    BY <2>1, <2>2, <2>3
  <2> QED BY <2>4 DEF y
<1>11. p <= Furthest(o, in)
  <2>1. Furthest(o, in) = Len(in) + 3 * 8 /\ MaxProcessBytes(o) = 8 /\ Len(in) \in Nat
    BY <1>2, FurthestIs
  <2>2. r.pos <= Len(in) + 2 * 8
    BY <2>1 DEF MayLoad
  <2> QED BY <1>10, <2>1, <2>2
<1>12. NoMarkerBefore(in, d + 4)
  <2> SUFFICES ASSUME NEW k \in Nat, k < d + 4 PROVE ~MarkerAt(in, k)
    BY DEF NoMarkerBefore
  <2>1. CASE k < d
    BY <1>3, <2>1 DEF NoMarkerBefore
  <2>2. CASE ~(k < d)
    <3> DEFINE i == (k - d) + 1
    <3>1. i \in 1 .. 4 /\ d + (i - 1) = k
      BY <1>2, <2>2
    <3> HIDE DEF i
    <3> QED BY <3>1
  <2> QED BY <2>1, <2>2
<1>13. Unmarked(o, in, f, d + 4)
  BY <1>2, <1>8, <1>9, <1>12 DEF Unmarked, p
<1>14. Reading(o, in, D, f)
  <2>1. ~f.threw /\ d + 4 \in Nat
    BY <1>2, <1>8 DEF Reading
  <2> QED BY <1>8, <1>9, <1>11, <1>13, <2>1 DEF Reading
<1> QED BY <1>8, <1>9, <1>14 DEF LoadOK, f

(* Zeros behind the data.                                                           *)
Behind(o, in, D, c, s, z, x, w) ==
  /\ w = (c \o s) \o z
  /\ D \in Nat /\ c \in Seq(Bit) /\ s \in Seq(Bit) /\ z \in Seq(Bit) /\ x \in Nat
  /\ TapeOn(o, in, D, s, x) /\ TapeOn(o, in, D, z, x + Len(s))

(* The zeros behind a marker may stand for data that are not there.                    *)
LEMMA ZerosBehind ==
  ASSUME NEW o, NEW in, NEW D, NEW c, NEW s, NEW z, NEW x, NEW w, Behind(o, in, D, c, s, z, x, w)
  PROVE  \E t \in Seq(Bit) : Len(t) = Len(s) + Len(z) /\ TapeOn(o, in, D, t, x) /\ w = c \o t
<1>1. /\ D \in Nat /\ c \in Seq(Bit) /\ s \in Seq(Bit) /\ z \in Seq(Bit) /\ x \in Nat
      /\ TapeOn(o, in, D, s, x) /\ TapeOn(o, in, D, z, x + Len(s))
  BY DEF Behind
<1>2. s \o z \in Seq(Bit) /\ Len(s \o z) = Len(s) + Len(z) /\ TapeOn(o, in, D, s \o z, x)
  BY <1>1, TapeLonger
<1>3. w = c \o (s \o z)
  <2>1. c \o (s \o z) = (c \o s) \o z
    BY SMTT(40), <1>1, ConcatThree
  <2> QED BY <2>1 DEF Behind
<1> QED BY <1>2, <1>3

(* The first marker is in the load: zeros follow the data before it.                  *)
LEMMA JpegFilledMarker ==
  ASSUME NEW o, NEW in, NEW D, InputOK(o, in, D), NEW r, Reading(o, in, D, r), Len(r.cache) < MaxGetBits,
         MayLoad(o, in, r.pos), o = "JPEG", NEW d, Unmarked(o, in, r, d), NEW j \in 1 .. 4,
         MarkerAt(in, d + (j - 1)), \A i \in 1 .. j - 1 : ~MarkerAt(in, d + (i - 1))
  PROVE  LoadOK(o, in, D, r, Filled(o, in, r))
<1>2. o \in Orders /\ in \in Seq(Byte) /\ D \in Nat /\ r \in Readers /\ d \in Nat
  BY DEF InputOK, Reading, Unmarked
<1>3. r.pos = Place(o, in, d) /\ NoMarkerBefore(in, d) /\ r.used + Len(r.cache) = d * ByteBits /\ r.endPos = Unknown
  BY <1>2 DEF Unmarked
<1> DEFINE s == DataBits(o, in, d, j - 1)
           f == Filled(o, in, r)
           p == Len(in) + (5 - j)
           m == d + (j - 1)
           e == Place(o, in, m)
           z == Zeros(CacheSize - Len(r.cache) - Len(s))
           w == (r.cache \o s) \o z
           x == d * ByteBits
           b == ByteBits
           c == Len(r.cache)
           u == r.used
<1>1. /\ b \in Nat \ {0} /\ MaxGetBits = 4 * b /\ CacheSize = 8 * b /\ x \in Nat
      /\ c \in Nat /\ u \in Nat /\ c < MaxGetBits /\ u + c = x
  BY <1>2, <1>3, Sizes, TimesNat DEF Readers
<1>5. s \in Seq(Bit) /\ Len(s) = (j - 1) * ByteBits /\ TapeOn(o, in, D, s, d * ByteBits)
  <2>1. j - 1 \in 0 .. 4
    OBVIOUS
  <2> QED BY ZenonT(60), <1>2, <2>1, TapeData
<1>6. f = [r EXCEPT !.cache = w, !.pos = p, !.endPos = e]
  <2>1. JpegLoads(in, r, d)
    BY <1>2, <1>3, JpegLoadIs
  <2>2. f = JpegFilled(in, r)
    BY DEF Filled
  <2>3. JpegFilled(in, r) = [r EXCEPT !.cache = (@ \o s) \o z, !.pos = p, !.endPos = IF @ = Unknown THEN e ELSE Overwritten]
    BY <2>1 DEF JpegLoads
  <2> HIDE DEF f, s, p, z, e
  <2> QED BY <1>3, <2>2, <2>3
<1>7. m \in Nat /\ e \in Nat /\ p \in Nat /\ Len(in) <= p /\ p <= Len(in) + 4 /\ Len(in) \in Nat
  <2>1. m \in Nat
    BY <1>2
  <2>2. e \in Nat
    <3> HIDE DEF m
    <3> QED BY <2>1, PlaceSteps
  <2> QED BY <1>2, <2>1, <2>2
<1>8. MarkerAt(in, m) /\ NoMarkerBefore(in, m)
  <2> SUFFICES ASSUME NEW k \in Nat, k < m PROVE ~MarkerAt(in, k)
    BY DEF NoMarkerBefore
  <2>1. CASE k < d
    BY <1>3, <2>1 DEF NoMarkerBefore
  <2>2. CASE ~(k < d)
    <3> DEFINE i == (k - d) + 1
    <3>1. i \in 1 .. j - 1 /\ d + (i - 1) = k
      BY <1>2, <2>2
    <3> HIDE DEF i
    <3> QED BY <3>1
  <2> QED BY <2>1, <2>2
<1>9. D <= m
  <2>1. NoMarkerBefore(in, D)
    BY DEF InputOK
  <2>2. ~(m < D)
    BY <1>7, <1>8, <2>1 DEF NoMarkerBefore
  <2> QED BY <1>2, <1>7, <2>2
<1>10. d <= Len(in)
  <2>1. e < Len(in)
    <3>1. At(in, e) # 0
      <4>1. At(in, e) = FF
        <5> HIDE DEF m
        <5>1. e = Places(in)[m]
          BY <1>7, PlaceSteps
        <5> QED BY <1>8, <5>1 DEF MarkerAt
      <4> QED BY <4>1, BytesAre
    <3> HIDE DEF e
    <3> QED BY <3>1 DEF At
  <2>2. m <= e
    BY <1>7, PlaceOrder
  <2>3. d <= m
    BY <1>2
  <2> HIDE DEF m, e
  <2> QED BY <1>2, <1>7, <2>1, <2>2, <2>3
<1> HIDE DEF w, s, f, p, e, x, c, u
<1>11. z \in Seq(Bit) /\ Len(s) + Len(z) = 8 * b - c /\ Len(s) \in Nat /\ Len(s) <= 3 * b
  <2>1. Len(s) \in Nat /\ Len(s) <= 3 * b
    <3>1. (j - 1) * b \in {0, b, 2 * b, 3 * b}
      <4>1. j = 1 \/ j = 2 \/ j = 3 \/ j = 4
        OBVIOUS
      <4> QED BY <1>1, <4>1
    <3> HIDE DEF b
    <3> QED BY <1>1, <1>5, <3>1 DEF b
  <2> DEFINE n == CacheSize - Len(r.cache) - Len(s)
  <2>2. n \in Nat /\ n = 8 * b - c - Len(s)
    <3> HIDE DEF b
    <3> QED BY <1>1, <2>1 DEF c
  <2> HIDE DEF n
  <2>3. Zeros(n) \in Seq(Bit) /\ Len(Zeros(n)) = n
    BY <2>2 DEF Zeros, Bit
  <2>4. z = Zeros(n)
    BY DEF n
  <2> HIDE DEF z, b
  <2> QED BY <1>1, <2>1, <2>2, <2>3, <2>4
<1> HIDE DEF z, b, m
<1>12. PICK t \in Seq(Bit) : Len(t) = 8 * b - c /\ TapeOn(o, in, D, t, x) /\ w = r.cache \o t
  <2>1. TapeOn(o, in, D, z, x + Len(s))
    <3>1. x + Len(s) = m * b
      <4>1. x = d * b /\ Len(s) = (j - 1) * b
        BY <1>5 DEF x, b
      <4>2. (d + (j - 1)) * b = d * b + (j - 1) * b
        BY <1>1, <1>2
      <4> QED BY <4>1, <4>2 DEF m
    <3>2. D * b <= m * b
      BY <1>1, <1>2, <1>7, <1>9, TimesGrow
    <3> DEFINE y == x + Len(s)
    <3>3. y \in Nat /\ D * ByteBits <= y
      BY <1>1, <1>11, <3>1, <3>2 DEF b
    <3> HIDE DEF y
    <3>4. TapeOn(o, in, D, z, y)
      BY <1>2, <1>11, <3>3, TapeBeyond
    <3> QED BY <3>4 DEF y
  <2>2. TapeOn(o, in, D, s, x)
    BY <1>5 DEF x
  <2>3. r.cache \in Seq(Bit)
    BY <1>2 DEF Readers
  <2>4. Behind(o, in, D, r.cache, s, z, x, w)
    BY <1>1, <1>2, <1>5, <1>11, <2>1, <2>2, <2>3 DEF Behind, w
  <2>5. \E t \in Seq(Bit) : Len(t) = Len(s) + Len(z) /\ TapeOn(o, in, D, t, x) /\ w = r.cache \o t
    <3> DEFINE q == r.cache
    <3>1. Behind(o, in, D, q, s, z, x, w)
      BY <2>4
    <3> HIDE DEF q
    <3>2. \E t \in Seq(Bit) : Len(t) = Len(s) + Len(z) /\ TapeOn(o, in, D, t, x) /\ w = q \o t
      BY SMTT(40), <3>1, ZerosBehind
    <3> QED BY <3>2 DEF q
  <2> QED BY <1>11, <2>5
<1>13. f = [r EXCEPT !.cache = r.cache \o t, !.pos = p, !.endPos = e]
  BY <1>6, <1>12
<1>14. /\ f \in Readers /\ f.pos = p /\ f.endPos = e /\ f.used = r.used /\ f.got = r.got /\ (f.threw <=> r.threw)
       /\ Len(f.cache) = Len(r.cache) + Len(t) /\ TapeOn(o, in, D, f.cache, f.used)
  <2>1. TapeOn(o, in, D, r.cache, r.used) /\ TapeOn(o, in, D, t, r.used + Len(r.cache))
    BY <1>1, <1>12 DEF Reading, u, c
  <2>2. Gains(o, in, D, r, f, t, p, e)
    BY <1>2, <1>7, <1>12, <1>13, <2>1 DEF Gains
  <2> QED BY <2>2, MoreCache
<1>15. Len(f.cache) = CacheSize /\ f.used = u
  BY <1>1, <1>12, <1>14 DEF c, u
<1>16. f.used + Len(f.cache) <= f.pos * ByteBits + CacheSize
  <2> DEFINE y == p * b
  <2>1. x <= y /\ y \in Nat
    <3>1. d <= p
      BY <1>2, <1>7, <1>10
    <3> QED BY <1>1, <1>2, <1>7, <3>1, TimesGrow DEF x, b
  <2> HIDE DEF y
  <2>2. f.used + Len(f.cache) <= y + CacheSize
    BY <1>1, <1>15, <2>1
  <2> QED BY <1>14, <2>2 DEF y, b
<1>17. (m + (f.pos - Len(in))) * ByteBits <= f.used + Len(f.cache)
  <2>1. m + (f.pos - Len(in)) = d + 4
    BY <1>2, <1>7, <1>14 DEF m, p
  <2>2. (d + 4) * b = x + 4 * b
    BY <1>1, <1>2 DEF x, b
  <2>3. x + 4 * b <= f.used + Len(f.cache)
    BY <1>1, <1>15
  <2> QED BY <2>1, <2>2, <2>3 DEF b
<1>18. Marked(o, in, f, m)
  BY <1>7, <1>8, <1>14, <1>16, <1>17 DEF Marked, e
<1>19. p <= Furthest(o, in)
  <2>1. Furthest(o, in) = Len(in) + 3 * 8
    BY <1>2, FurthestIs
  <2> QED BY <1>7, <2>1
<1>20. Reading(o, in, D, f) /\ MaxGetBits <= Len(f.cache)
  <2>1. ~f.threw
    BY <1>14 DEF Reading
  <2>2. CacheSize <= CacheSize /\ MaxGetBits <= CacheSize
    BY <1>1
  <2> QED BY <1>7, <1>14, <1>15, <1>18, <1>19, <2>1, <2>2 DEF Reading
<1> QED BY <1>14, <1>20 DEF LoadOK, f

(* Behind the marker there are zeros.                                               *)
LEMMA JpegFilledPast ==
  ASSUME NEW o, NEW in, NEW D, InputOK(o, in, D), NEW r, Reading(o, in, D, r), Len(r.cache) < MaxGetBits,
         MayLoad(o, in, r.pos), NEW m, Marked(o, in, r, m)
  PROVE  LoadOK(o, in, D, r, Filled(o, in, r))
<1>1. o \in Orders /\ in \in Seq(Byte) /\ D \in Nat /\ r \in Readers /\ o = "JPEG" /\ r.pos \in Nat
  BY DEF InputOK, Reading, Readers, Marked
<1>2. /\ m \in Nat /\ MarkerAt(in, m) /\ NoMarkerBefore(in, m) /\ r.endPos = Place(o, in, m) /\ r.endPos \in Nat
      /\ Len(in) <= r.pos /\ Len(in) \in Nat
  <2>1. m \in Nat
    BY DEF Marked
  <2>2. Place(o, in, m) \in Nat
    BY <2>1, PlaceSteps
  <2> QED BY <1>1, <2>1, <2>2 DEF Marked
<1> DEFINE f == Filled(o, in, r)
           c == Len(r.cache)
           u == r.used
           p == r.pos
           b == ByteBits
           n == Len(in)
           x == p * b
           y == (m + (p - n)) * b
<1>3. PICK z \in Seq(Bit) : Len(z) = 4 * b /\ JpegFilled(in, r) = [r EXCEPT !.cache = @ \o z, !.pos = @ + 4]
  BY <1>1, <1>2, JpegPastEnd
<1>4. /\ b \in Nat \ {0} /\ MaxGetBits = 4 * b /\ CacheSize = 8 * b /\ c \in Nat /\ u \in Nat /\ c < MaxGetBits
      /\ p \in Nat /\ x \in Nat /\ n \in Nat /\ n <= p
  BY <1>1, <1>2, Sizes, TimesNat DEF Readers
<1>5. u + c <= x + CacheSize /\ y <= u + c /\ y \in Nat
  <2>1. m + (p - n) \in Nat
    <3> HIDE DEF p, n
    <3> QED BY <1>2, <1>4
  <2>2. y \in Nat
    <3> DEFINE q == m + (p - n)
    <3>1. q \in Nat
      BY <2>1
    <3> HIDE DEF q
    <3>2. q * b \in Nat
      BY <1>4, <3>1, TimesNat
    <3> QED BY <3>2 DEF q
  <2> QED BY <2>2 DEF Marked
<1>6. f = [r EXCEPT !.cache = r.cache \o z, !.pos = p + 4, !.endPos = r.endPos]
  <2>1. f = JpegFilled(in, r)
    BY <1>1 DEF Filled
  <2> HIDE DEF f
  <2> QED BY <1>1, <1>3, <2>1 DEF Readers
<1>7. D * b <= u + c
  <2>1. D <= m
    <3>1. NoMarkerBefore(in, D)
      BY <1>1 DEF InputOK
    <3>2. ~(m < D)
      BY <1>2, <3>1 DEF NoMarkerBefore
    <3> QED BY <1>1, <1>2, <3>2
  <2> DEFINE q == m + (p - n)
  <2>2. D <= q /\ q \in Nat
    <3> HIDE DEF p, n
    <3> QED BY <1>1, <1>2, <1>4, <2>1
  <2> HIDE DEF q
  <2>3. D * b <= q * b /\ D * b \in Nat
    BY <1>1, <1>4, <2>2, TimesGrow
  <2>4. q * b = y
    BY DEF q
  <2> DEFINE w == D * b
  <2>5. w <= y /\ w \in Nat
    BY <2>3, <2>4
  <2> HIDE DEF w, y
  <2> HIDE DEF u, c
  <2>6. w <= u + c
    BY <1>4, <1>5, <2>5
  <2> QED BY <2>6 DEF w
<1> HIDE DEF f
<1>8. /\ f \in Readers /\ f.pos = p + 4 /\ f.endPos = r.endPos /\ f.used = r.used /\ f.got = r.got /\ (f.threw <=> r.threw)
      /\ Len(f.cache) = Len(r.cache) + Len(z) /\ TapeOn(o, in, D, f.cache, f.used)
  <2>1. TapeOn(o, in, D, r.cache, r.used)
    BY DEF Reading
  <2>2. TapeOn(o, in, D, z, r.used + Len(r.cache))
    <3> DEFINE v == u + c
    <3>1. v \in Nat /\ D * ByteBits <= v
      BY <1>4, <1>7
    <3> HIDE DEF v
    <3>2. TapeOn(o, in, D, z, v)
      BY <1>1, <3>1, TapeBeyond
    <3> QED BY <3>2 DEF v
  <2>3. Gains(o, in, D, r, f, z, p + 4, r.endPos)
    BY SMTT(40), <1>1, <1>2, <1>4, <1>6, <2>1, <2>2 DEF Gains
  <2> QED BY <2>3, MoreCache
<1> HIDE DEF c, u, p, n, x, y, b
<1>9. Len(f.cache) = c + 4 * b /\ f.used = u /\ f.pos = p + 4
  BY <1>3, <1>8 DEF c, u
<1>10. (p + 4) * b = x + 4 * b /\ (m + ((p + 4) - n)) * b = y + 4 * b
  <2>1. (p + 4) * b = x + 4 * b
    BY <1>4 DEF x
  <2> DEFINE q == m + (p - n)
  <2>2. m + ((p + 4) - n) = q + 4 /\ q \in Nat
    BY <1>2, <1>4
  <2> HIDE DEF q
  <2>3. (q + 4) * b = q * b + 4 * b
    BY <1>4, <2>2
  <2> QED BY <2>1, <2>2, <2>3 DEF q, y
<1>11. Marked(o, in, f, m)
  <2>1. n <= p + 4 /\ u + (c + 4 * b) <= (x + 4 * b) + CacheSize /\ y + 4 * b <= u + (c + 4 * b)
    BY <1>4, <1>5
  <2> QED BY <1>1, <1>2, <1>8, <1>9, <1>10, <2>1 DEF Marked, n, b
<1>12. p + 4 <= Furthest(o, in)
  <2>1. Furthest(o, in) = n + 3 * 8 /\ MaxProcessBytes(o) = 8
    BY <1>1, FurthestIs DEF n
  <2>2. p <= n + 2 * 8
    BY <2>1 DEF MayLoad, n, p
  <2> QED BY <1>4, <2>1, <2>2
<1>13. c + 4 * b <= CacheSize /\ MaxGetBits <= c + 4 * b
  BY <1>4
<1>14. Reading(o, in, D, f)
  <2>1. ~f.threw
    BY <1>8 DEF Reading
  <2> QED BY <1>2, <1>8, <1>9, <1>11, <1>12, <1>13, <2>1 DEF Reading
<1> QED BY <1>8, <1>9, <1>13, <1>14 DEF LoadOK, f

(* Before it gives up a reader is well past the data.                                *)
LEMMA WellPast ==
  ASSUME NEW o, NEW in, NEW D, InputOK(o, in, D), NEW r, Reading(o, in, D, r), ~MayLoad(o, in, r.pos)
  PROVE  \E q \in Nat : D + 4 <= q /\ q * ByteBits <= r.used + Len(r.cache)
<1> DEFINE n == Len(in)
           p == r.pos
<1>1. o \in Orders /\ in \in Seq(Byte) /\ D \in Nat /\ n \in Nat /\ p \in Nat
  BY DEF InputOK, Reading, Readers
<1>2. n + 2 * MaxProcessBytes(o) < p /\ MaxProcessBytes(o) = IF o = "JPEG" THEN 8 ELSE 4
  <2>1. ~(p <= n + 2 * MaxProcessBytes(o))
    BY DEF MayLoad
  <2> HIDE DEF n, p
  <2> QED BY <1>1, <2>1 DEF MaxProcessBytes
<1> HIDE DEF n, p
<1>3. ASSUME NEW d \in Nat, Unmarked(o, in, r, d)
      PROVE  D + 4 <= d /\ d * ByteBits <= r.used + Len(r.cache)
  <2>1. p = Place(o, in, d) /\ d * ByteBits = r.used + Len(r.cache)
    BY <1>3 DEF Unmarked, p
  <2>2. d * ByteBits \in Nat
    BY Sizes, TimesNat
  <2>3. D + 4 <= d
    <3>1. CASE o # "JPEG"
      <4>1. p = d /\ D <= n
        BY <2>1, <3>1 DEF Place, InputOK, n
      <4> QED BY <1>1, <1>2, <3>1, <4>1
    <3>2. CASE o = "JPEG"
      <4> DEFINE e == Place(o, in, D)
      <4>1. e \in Nat /\ e <= n + 1
        BY <1>1, <3>2, PlaceSteps DEF InputOK, n
      <4>2. D <= d => p <= e + 2 * (d - D)
        BY <1>1, <2>1, PlaceGrows
      <4>3. e < p => D < d
        BY <1>1, <2>1, PlaceOrder
      <4> HIDE DEF e
      <4>4. e < p
        BY <1>1, <1>2, <3>2, <4>1
      <4> QED BY <1>1, <1>2, <3>2, <4>1, <4>2, <4>3, <4>4
    <3> QED BY <3>1, <3>2
  <2> DEFINE x == d * ByteBits
  <2>4. x <= r.used + Len(r.cache)
    <3>1. x \in Nat /\ x = r.used + Len(r.cache)
      BY <2>1, <2>2
    <3> HIDE DEF x
    <3> QED BY <3>1
  <2> QED BY <2>3, <2>4
<1>4. ASSUME NEW m \in Nat, Marked(o, in, r, m)
      PROVE  D + 4 <= m + (p - n) /\ m + (p - n) \in Nat /\ (m + (p - n)) * ByteBits <= r.used + Len(r.cache)
  <2>1. o = "JPEG" /\ MarkerAt(in, m) /\ (m + (p - n)) * ByteBits <= r.used + Len(r.cache)
    BY <1>4 DEF Marked, p, n
  <2>2. NoMarkerBefore(in, D)
    BY <2>1 DEF InputOK
  <2>3. ~(m < D)
    BY <2>1, <2>2 DEF NoMarkerBefore
  <2> QED BY <1>1, <1>2, <2>1, <2>3
<1>5. CASE \E d \in Nat : Unmarked(o, in, r, d)
  BY <1>3, <1>5
<1>6. CASE \E m \in Nat : Marked(o, in, r, m)
  <2> DEFINE Q(q) == q * ByteBits
  <2>1. PICK m \in Nat : Marked(o, in, r, m)
    BY <1>6
  <2>2. D + 4 <= m + (p - n) /\ m + (p - n) \in Nat /\ Q(m + (p - n)) <= r.used + Len(r.cache)
    BY <1>4, <2>1
  <2> HIDE DEF Q
  <2>3. \E q \in Nat : D + 4 <= q /\ Q(q) <= r.used + Len(r.cache)
    BY <2>2
  <2> QED BY <2>3 DEF Q
<1> QED BY <1>5, <1>6 DEF Reading

(* Every load that is allowed keeps the reader in step with the data.                  *)
LEMMA LoadsAreOK ==
  ASSUME NEW o, NEW in, NEW D, InputOK(o, in, D), NEW r, Reading(o, in, D, r), Len(r.cache) < MaxGetBits,
         MayLoad(o, in, r.pos)
  PROVE  LoadOK(o, in, D, r, Filled(o, in, r))
<1>1. CASE o # "JPEG"
  BY <1>1, PlainFilled
<1>2. ASSUME o = "JPEG", NEW d \in Nat, Unmarked(o, in, r, d) PROVE LoadOK(o, in, D, r, Filled(o, in, r))
  <2>1. CASE \A i \in 1 .. 4 : ~MarkerAt(in, d + (i - 1))
    BY <1>2, <2>1, JpegFilledOn
  <2>2. CASE ~ \A i \in 1 .. 4 : ~MarkerAt(in, d + (i - 1))
    <3> DEFINE S == {i \in 1 .. 4 : MarkerAt(in, d + (i - 1))}
    <3>1. S \in SUBSET Nat /\ S # {}
      <4>1. PICK i \in 1 .. 4 : MarkerAt(in, d + (i - 1))
        BY <2>2
      <4>2. i \in S
        BY <4>1
      <4>3. 1 .. 4 \subseteq Nat /\ S \subseteq 1 .. 4
        OBVIOUS
      <4> HIDE DEF S
      <4> QED BY <4>2, <4>3, Zenon
    <3>2. PICK j \in S : \A i \in S : j <= i
      <4> HIDE DEF S
      <4> QED BY <3>1, LeastNatural
    <3>3. j \in 1 .. 4 /\ MarkerAt(in, d + (j - 1))
      BY <3>2
    <3>4. ASSUME NEW i \in 1 .. j - 1 PROVE ~MarkerAt(in, d + (i - 1))
      <4>1. i \in 1 .. 4 /\ ~(j <= i)
        BY <3>3
      <4>2. i \notin S
        BY <3>2, <4>1
      <4> QED BY <4>1, <4>2
    <3> QED BY <1>2, <3>3, <3>4, JpegFilledMarker
  <2> QED BY <2>1, <2>2
<1>3. ASSUME NEW m \in Nat, Marked(o, in, r, m) PROVE LoadOK(o, in, D, r, Filled(o, in, r))
  BY <1>3, JpegFilledPast
<1> QED BY <1>1, <1>2, <1>3 DEF Reading

(* A reader on the way, or one that gave up behind the data, which has got g.         *)
Going(o, in, D, g, s) ==
  /\ s \in Readers /\ s.got = g
  /\ s.threw => Stopped(o, in, s) /\ D * ByteBits <= s.used
  /\ ~s.threw => Reading(o, in, D, s)

FillOK(o, in, D, r, n, f) ==
  Going(o, in, D, r.got, f) /\ f.used = r.used /\ (~f.threw => n <= Len(f.cache))

(* fill() has as many bits in the cache as it was asked for, or the reader gave up
   behind the data.                                                                    *)
LEMMA FillIs ==
  ASSUME NEW o, NEW in, NEW D, InputOK(o, in, D), NEW r, Reading(o, in, D, r), NEW n \in 0 .. MaxGetBits
  PROVE  FillOK(o, in, D, r, n, Fill(o, in, r, n))
<1> DEFINE f == Fill(o, in, r, n)
           c == Len(r.cache)
<1>1. r \in Readers /\ ~r.threw /\ c \in Nat /\ r.used \in Nat /\ n \in Nat /\ n <= MaxGetBits /\ MaxGetBits \in Nat
  <2>1. r \in Readers /\ ~r.threw
    BY DEF Reading
  <2> QED BY <2>1, Sizes DEF Readers
<1>2. CASE c >= n
  <2>1. f = r
    BY <1>2 DEF Fill
  <2>2. n <= c
    <3> HIDE DEF c
    <3> QED BY <1>1, <1>2
  <2>3. Going(o, in, D, r.got, r)
    BY <1>1 DEF Going
  <2> HIDE DEF f
  <2> QED BY <2>1, <2>2, <2>3 DEF FillOK, f
<1>3. CASE ~(c >= n) /\ MayLoad(o, in, r.pos)
  <2>1. f = Filled(o, in, r)
    BY <1>1, <1>3 DEF Fill
  <2>2. Len(r.cache) < MaxGetBits
    <3> HIDE DEF c
    <3>1. c < MaxGetBits
      BY <1>1, <1>3
    <3> QED BY <3>1 DEF c
  <2>3. LoadOK(o, in, D, r, f)
    BY <1>3, <2>1, <2>2, LoadsAreOK
  <2> HIDE DEF f
  <2>4. f \in Readers /\ ~f.threw /\ Reading(o, in, D, f) /\ f.got = r.got /\ f.used = r.used /\ MaxGetBits <= Len(f.cache)
    BY <2>3 DEF LoadOK, Reading
  <2>5. Going(o, in, D, r.got, f)
    BY <2>4 DEF Going
  <2> DEFINE k == Len(f.cache)
  <2>6. k \in Nat /\ MaxGetBits <= k
    BY <2>4 DEF Readers
  <2> HIDE DEF k
  <2>7. n <= k
    BY <1>1, <2>6
  <2> QED BY <2>4, <2>5, <2>7 DEF FillOK, f, k
<1>4. CASE ~(c >= n) /\ ~MayLoad(o, in, r.pos)
  <2>1. f = [r EXCEPT !.threw = TRUE]
    BY <1>1, <1>4 DEF Fill
  <2>2. PICK q \in Nat : D + 4 <= q /\ q * ByteBits <= r.used + Len(r.cache)
    BY <1>4, WellPast
  <2>3. r.used <= Furthest(o, in) * ByteBits + CacheSize
    BY ReadingLimit
  <2>4. D * ByteBits <= r.used
    <3> DEFINE x == D * ByteBits
               y == q * ByteBits
               b == ByteBits
               u == r.used
    <3>1. D \in Nat /\ b \in Nat /\ MaxGetBits = 4 * b
      BY Sizes DEF InputOK
    <3>2. x + 4 * b <= y /\ x \in Nat /\ y \in Nat
      <4>1. (D + 4) * b <= q * b /\ D + 4 \in Nat /\ q * b \in Nat
        BY <2>2, <3>1, TimesGrow
      <4>2. (D + 4) * b = D * b + 4 * b /\ D * b \in Nat
        BY <3>1, TimesNat
      <4> QED BY <4>1, <4>2
    <3>3. y <= u + c /\ u \in Nat
      BY <1>1, <2>2
    <3> HIDE DEF x, y, b, u, c
    <3>4. x <= u
      BY <1>1, <1>4, <3>1, <3>2, <3>3
    <3> QED BY <3>4 DEF x, u
  <2> HIDE DEF f
  <2>5. f \in Readers /\ f.threw /\ f.got = r.got /\ f.used = r.used /\ f.cache = r.cache
    BY <1>1, <2>1 DEF Readers
  <2>6. Stopped(o, in, f)
    BY <2>3, <2>5 DEF Stopped, Reading
  <2>7. Going(o, in, D, r.got, f)
    BY <2>4, <2>5, <2>6 DEF Going
  <2> QED BY <2>5, <2>7 DEF FillOK, f
<1> QED BY <1>2, <1>3, <1>4

SkipOK(o, in, D, r, n, s) ==
  /\ Going(o, in, D, r.got, s) /\ ~s.threw /\ s.used = r.used + n
  /\ s = [r EXCEPT !.cache = s.cache, !.used = r.used + n]

(* skipBitsNoFill() takes bits that are in the cache.                                  *)
LEMMA SkipIs ==
  ASSUME NEW o, NEW in, NEW D, InputOK(o, in, D), NEW r, Reading(o, in, D, r), NEW n \in 0 .. Len(r.cache)
  PROVE  SkipOK(o, in, D, r, n, SkipNoFill(r, n))
<1> DEFINE s == SkipNoFill(r, n)
           c == r.cache
           t == Drop(c, n)
           u == r.used
           v == u + n
<1>1. r \in Readers /\ ~r.threw /\ c \in Seq(Bit) /\ u \in Nat /\ TapeOn(o, in, D, c, u) /\ D \in Nat /\ Len(c) <= CacheSize
  <2>1. r \in Readers /\ ~r.threw /\ TapeOn(o, in, D, r.cache, r.used) /\ Len(r.cache) <= CacheSize
    BY DEF Reading
  <2> QED BY <2>1 DEF Readers, InputOK
<1>2. s = [r EXCEPT !.cache = t, !.used = v]
  BY <1>1 DEF SkipNoFill
<1>3. n \in 0 .. Len(c) /\ Len(c) \in Nat /\ n \in Nat /\ v \in Nat
  <2>1. Len(c) \in Nat
    BY <1>1
  <2> QED BY <1>1, <2>1
<1> HIDE DEF c, u, s
<1>4. t \in Seq(Bit) /\ Len(t) = Len(c) - n /\ TapeOn(o, in, D, t, u + n)
  BY <1>1, <1>3, TapeShorter
<1> HIDE DEF t, v
<1>5. /\ s \in Readers /\ s.cache = t /\ s.used = v /\ s.pos = r.pos /\ s.endPos = r.endPos /\ s.got = r.got /\ (s.threw <=> r.threw)
  BY <1>1, <1>2, <1>3, <1>4 DEF Readers
<1>6. s.used + Len(s.cache) = u + Len(c) /\ Len(s.cache) <= CacheSize
  <2> DEFINE k == Len(c)
  <2>1. CacheSize \in Nat /\ k \in Nat /\ n <= k /\ k <= CacheSize
    BY <1>1, <1>3, Sizes
  <2>2. s.used = u + n /\ Len(s.cache) = k - n
    BY <1>4, <1>5 DEF v
  <2> HIDE DEF k
  <2>3. (u + n) + (k - n) = u + k /\ k - n <= CacheSize
    BY <1>1, <1>3, <2>1
  <2> QED BY <2>2, <2>3 DEF k
<1>7. \A d \in Nat : Unmarked(o, in, r, d) => Unmarked(o, in, s, d)
  BY <1>5, <1>6 DEF Unmarked, u, c
<1>8. \A m \in Nat : Marked(o, in, r, m) => Marked(o, in, s, m)
  BY <1>5, <1>6 DEF Marked, u, c
<1>9. Reading(o, in, D, s)
  <2>1. r.pos <= Furthest(o, in) /\ ((\E d \in Nat : Unmarked(o, in, r, d)) \/ (\E m \in Nat : Marked(o, in, r, m)))
    BY DEF Reading
  <2>2. TapeOn(o, in, D, s.cache, s.used)
    BY <1>4, <1>5 DEF v
  <2> QED BY <1>1, <1>5, <1>6, <1>7, <1>8, <2>1, <2>2 DEF Reading
<1>10. Going(o, in, D, r.got, s)
  BY <1>1, <1>5, <1>9 DEF Going
<1>11. SkipOK(o, in, D, r, n, s)
  BY <1>1, <1>2, <1>5, <1>10 DEF SkipOK, v, u
<1> QED BY <1>11 DEF s

(* fill() and skip n bits, from a reader that may have given up.                      *)
Skipped(o, in, s, n) == SkipNoFill(Fill(o, in, s, n), n)

(* The reader goes on in step with the data, by the bits that were skipped.            *)
LEMMA SkippedIs ==
  ASSUME NEW o, NEW in, NEW D, InputOK(o, in, D), NEW g, NEW r, Going(o, in, D, g, r), NEW n \in 0 .. MaxGetBits
  PROVE  /\ Going(o, in, D, g, Skipped(o, in, r, n))
         /\ ~Skipped(o, in, r, n).threw => ~r.threw /\ Skipped(o, in, r, n).used = r.used + n
<1> DEFINE s == Skipped(o, in, r, n)
           f == Fill(o, in, r, n)
<1>1. CASE r.threw
  <2>1. f = r
    BY <1>1 DEF Fill
  <2>2. s = r
    BY <1>1, <2>1 DEF Skipped, SkipNoFill
  <2> QED BY <1>1, <2>2
<1>2. CASE ~r.threw
  <2>1. Reading(o, in, D, r) /\ r.got = g
    BY <1>2 DEF Going
  <2>2. FillOK(o, in, D, r, n, f)
    BY <2>1, FillIs
  <2>3. s = SkipNoFill(f, n)
    BY DEF Skipped
  <2> HIDE DEF f, s
  <2>4. Going(o, in, D, g, f) /\ f.used = r.used /\ (~f.threw => n <= Len(f.cache))
    BY <2>1, <2>2 DEF FillOK
  <2>5. CASE f.threw
    <3>1. s = f
      BY <2>3, <2>5 DEF SkipNoFill
    <3> QED BY <2>4, <2>5, <3>1 DEF s
  <2>6. CASE ~f.threw
    <3>1. Reading(o, in, D, f) /\ f.got = g /\ f \in Readers
      BY <2>4, <2>6 DEF Going
    <3>2. n \in 0 .. Len(f.cache)
      <4> DEFINE k == Len(f.cache)
      <4>1. k \in Nat /\ n <= k
        BY <2>4, <2>6, <3>1 DEF Readers
      <4>2. n \in Nat
        BY Sizes
      <4> HIDE DEF k
      <4>3. n \in 0 .. k
        BY <4>1, <4>2
      <4> QED BY <4>3 DEF k
    <3>3. SkipOK(o, in, D, f, n, s)
      BY <2>3, <3>1, <3>2, SkipIs
    <3>4. Going(o, in, D, g, s) /\ s.used = f.used + n
      BY <3>1, <3>3 DEF SkipOK
    <3> QED BY <1>2, <2>4, <3>4 DEF s
  <2> QED BY <2>5, <2>6
<1> QED BY <1>1, <1>2

(* What a decoder finds: at most the bits that it was given.                          *)
IsSymbol(y) == y.used \in 0 .. MaxGetBits /\ y.value \in Int

(* A difference that was read is an integer.                                           *)
LEMMA DifferenceIs ==
  ASSUME NEW s \in Seq(Bit), NEW p \in Nat, NEW n \in Nat, p + n <= Len(s)
  PROVE  (IF n = 0 THEN 0 ELSE Extend(FromBits(SubSeq(s, p + 1, p + n)), n)) \in Int
<1> DEFINE d == FromBits(SubSeq(s, p + 1, p + n))
<1>1. SubSeq(s, p + 1, p + n) \in Seq(Bit)
  <2>1. \A i \in p + 1 .. p + n : i \in 1 .. Len(s)
    OBVIOUS
  <2> QED BY <2>1
<1>2. d \in Nat
  BY <1>1, FromBitsBelow
<1>3. CASE n # 0
  <2>1. TwoTo[n - 1] \in Nat /\ TwoTo[n] \in Nat
    <3>1. n - 1 \in Nat
      BY <1>3
    <3> QED BY <3>1, TwoToIs
  <2> HIDE DEF d
  <2>2. Extend(d, n) \in Int
    BY <1>2, <2>1 DEF Extend
  <2> QED BY <1>3, <2>2 DEF d
<1> QED BY <1>3

(* That there is no such code is a symbol, too.                                        *)
LEMMA BadIs == IsSymbol(Bad) /\ Bad.used = 0
  BY FoundIs, Sizes DEF IsSymbol, Bad

(* What was found is a symbol.                                                         *)
LEMMA SymbolIs ==
  ASSUME NEW v \in Int, NEW u \in 0 .. MaxGetBits
  PROVE  IsSymbol(Found(v, u))
  BY FoundIs DEF IsSymbol

(* What a decoder finds has a value, and no more bits than it was given.               *)
LEMMA DecodedIs ==
  ASSUME NEW code, GoodCode(code), NEW s \in Seq(Bit), Len(s) = MaxGetBits
  PROVE  IsSymbol(Decode(code, s)) /\ (IsV8(code) => IsSymbol(V8Decode(code.symbols, s)))
<1> DEFINE P == ProcessSymbol(code, s, TheSymbol(code, s))
<1>1. Decode(code, s) = P /\ MaxCodeLength <= Len(s)
  BY Sizes, DecodeIs
<1>2. CASE \E p \in Lengths : HitAt(code, s, p)
  <2>1. PICK p \in Lengths : HitAt(code, s, p)
    BY <1>2
  <2> DEFINE id == IdAt(code, s, p)
             n == code.values[id]
             y == Found(n, p)
             d == IF n = 0 THEN 0 ELSE Extend(FromBits(SubSeq(s, p + 1, p + n)), n)
  <2>2. p \in Nat /\ p <= MaxCodeLength /\ p # 0 /\ p <= Len(s) /\ p <= MaxGetBits
    BY Sizes DEF Lengths
  <2>3. n \in Nat /\ (code.full => n \in 0 .. MaxDiffLength)
    BY <2>1, <2>2, ValueAt
  <2>4. TheSymbol(code, s) = y /\ y # Bad /\ y.value = n /\ y.used = p
    BY <1>1, <2>1, <2>2, TheSymbolIs, FoundIs DEF SymbolAt
  <2>5. code.full => p + n <= Len(s) /\ p + n \in 0 .. MaxGetBits /\ p + MaxDiffLength \in 0 .. MaxGetBits
    <3> HIDE DEF n
    <3> QED BY <2>2, <2>3, Sizes
  <2>6. code.full => d \in Int
    <3> HIDE DEF n
    <3> QED BY <2>2, <2>3, <2>5, DifferenceIs
  <2>7. IsV8(code) => V8Decode(code.symbols, s) = Found(d, p + n) /\ code.full
    BY <1>1, <2>1, V8DecodeIs DEF V8Symbol2, IsV8
  <2> HIDE DEF n, id
  <2>8. CASE ~code.full
    <3> HIDE DEF y
    <3>1. P = y
      BY <2>4, <2>8 DEF ProcessSymbol
    <3>2. p \in 0 .. MaxGetBits /\ n \in Int
      BY <2>2, <2>3, Sizes
    <3>3. IsSymbol(y)
      BY <3>2, SymbolIs DEF y
    <3> QED BY <1>1, <2>7, <2>8, <3>1, <3>3
  <2>9. CASE code.full
    <3> HIDE DEF y
    <3>1. Smallest \in Int
      <4>1. MaxDiffLength - 1 \in Nat
        BY Sizes
      <4>2. TwoTo[MaxDiffLength - 1] \in Nat
        BY <4>1, TwoToIs
      <4> QED BY <4>2 DEF Smallest
    <3>2. P = IF n = MaxDiffLength THEN Found(Smallest, p + IF code.bug16 THEN MaxDiffLength ELSE 0)
              ELSE Found(d, p + n)
      BY <2>4, <2>9 DEF ProcessSymbol
    <3>3. p + (IF code.bug16 THEN MaxDiffLength ELSE 0) \in 0 .. MaxGetBits
      BY <2>2, <2>5, <2>9, Sizes
    <3> DEFINE k == p + (IF code.bug16 THEN MaxDiffLength ELSE 0)
    <3>4. IsSymbol(Found(Smallest, k))
      <4> HIDE DEF k
      <4>1. k \in 0 .. MaxGetBits
        BY <3>3 DEF k
      <4> QED BY <3>1, <4>1, SymbolIs
    <3>5. IsSymbol(Found(d, p + n))
      <4> HIDE DEF d
      <4> QED BY <2>5, <2>6, <2>9, SymbolIs
    <3>6. IsSymbol(P)
      <4> HIDE DEF d, P
      <4> QED BY <3>2, <3>4, <3>5
    <3> QED BY <1>1, <2>7, <3>5, <3>6
  <2> QED BY <2>8, <2>9
<1>3. CASE \A p \in Lengths : ~HitAt(code, s, p)
  <2>1. TheSymbol(code, s) = Bad
    BY <1>1, <1>3, TheSymbolIs
  <2>2. IsV8(code) => V8Decode(code.symbols, s) = Bad
    BY <1>1, <1>3, V8DecodeIs
  <2>3. P = Bad
    BY <2>1 DEF ProcessSymbol
  <2> QED BY <1>1, <2>2, <2>3, BadIs
<1> QED BY <1>2, <1>3

(* The readers on the way of skipManyBits(), one more for every MaxGetBits.           *)
SkippedWhole(o, in, r, whole) ==
  LET after[i \in 0 .. whole] == IF i = 0 THEN r ELSE Skipped(o, in, after[i - 1], MaxGetBits)
  IN  after

(* The recursion of the whole chunks that are skipped.                                 *)
LEMMA WholeIs ==
  ASSUME NEW o, NEW in, NEW D, InputOK(o, in, D), NEW r, Reading(o, in, D, r), NEW n \in Nat
  PROVE  /\ SkippedWhole(o, in, r, n)[0] = r
         /\ \A i \in 1 .. n : SkippedWhole(o, in, r, n)[i] = Skipped(o, in, SkippedWhole(o, in, r, n)[i - 1], MaxGetBits)
<1> DEFINE g0 == r.got
           T == {s \in Readers : Going(o, in, D, g0, s)}
           F(s) == Skipped(o, in, s, MaxGetBits)
           G == [p \in (1 .. n) \X T |-> F(p[2])]
           Rec(f) == [i \in 0 .. n |-> IF i = 0 THEN r ELSE F(f[i - 1])]
           O == SkippedWhole(o, in, r, n)
<1>1. r \in T
  BY DEF Going, Reading
<1>2. \A s \in T : F(s) \in T
  <2> SUFFICES ASSUME NEW s \in T PROVE F(s) \in T
    OBVIOUS
  <2>1. Going(o, in, D, g0, s) /\ MaxGetBits \in 0 .. MaxGetBits
    BY Sizes
  <2> HIDE DEF g0
  <2>2. Going(o, in, D, g0, F(s))
    BY <2>1, SkippedIs
  <2> QED BY <2>2 DEF Going
<1>3. O = CHOOSE f : f = Rec(f)
  BY DEF SkippedWhole
<1> HIDE DEF T, F, O
<1>4. G \in [(1 .. n) \X T -> T] /\ \A i \in 1 .. n, s \in T : G[<<i, s>>] = F(s)
  BY <1>2
<1> HIDE DEF G
<1>5. PICK g \in [0 .. n -> T] : Recurs(g, n, r, G)
  BY <1>1, <1>4, Recursion
<1>6. g = Rec(g)
  <2>1. \A i \in 0 .. n : g[i] = IF i = 0 THEN r ELSE F(g[i - 1])
    <3>1. \A i \in 1 .. n : g[i - 1] \in T
      BY <1>5
    <3>2. g[0] = r /\ \A i \in 1 .. n : g[i] = F(g[i - 1])
      BY <1>4, <1>5, <3>1 DEF Recurs
    <3> QED BY <3>2
  <2> QED BY <1>5, <2>1
<1>7. O = Rec(O)
  <2> HIDE DEF Rec
  <2> QED BY <1>3, <1>6
<1>8. \A i \in 0 .. n : O[i] = IF i = 0 THEN r ELSE F(O[i - 1])
  BY <1>7
<1>9. O[0] = r /\ \A i \in 1 .. n : O[i] = F(O[i - 1])
  <2>1. 0 \in 0 .. n /\ \A i \in 1 .. n : i \in 0 .. n /\ i # 0
    OBVIOUS
  <2> QED BY <1>8, <2>1
<1> QED BY <1>9 DEF O, F

(* A reader that was told to skip n bits.                                           *)
WentOn(o, in, D, r, n, s) ==
  Going(o, in, D, r.got, s) /\ (~s.threw => s.used = r.used + n)

(* After n chunks the reader has gone on by n * MaxGetBits.                            *)
LEMMA WholeSkipped ==
  ASSUME NEW o, NEW in, NEW D, InputOK(o, in, D), NEW r, Reading(o, in, D, r), NEW n \in Nat
  PROVE  WentOn(o, in, D, r, n * MaxGetBits, SkippedWhole(o, in, r, n)[n])
<1> DEFINE O == SkippedWhole(o, in, r, n)
           S == {k \in 0 .. n : WentOn(o, in, D, r, k * MaxGetBits, O[k])}
<1>1. O[0] = r /\ \A i \in 1 .. n : O[i] = Skipped(o, in, O[i - 1], MaxGetBits)
  BY WholeIs
<1>2. MaxGetBits \in Nat /\ r.used \in Nat /\ MaxGetBits \in 0 .. MaxGetBits
  BY Sizes DEF Reading, Readers
<1> HIDE DEF O
<1>3. 0 \in S
  <2>1. Going(o, in, D, r.got, r)
    BY DEF Going, Reading
  <2>2. 0 * MaxGetBits = 0 /\ r.used + 0 = r.used
    BY <1>2
  <2>3. WentOn(o, in, D, r, 0 * MaxGetBits, r)
    BY <2>1, <2>2 DEF WentOn
  <2> QED BY <1>1, <2>3
<1>4. ASSUME NEW k \in 0 .. n - 1, k \in S PROVE k + 1 \in S
  <2> DEFINE s == O[k]
             t == O[k + 1]
  <2>1. t = Skipped(o, in, s, MaxGetBits)
    <3>1. k + 1 \in 1 .. n /\ (k + 1) - 1 = k
      OBVIOUS
    <3> QED BY <1>1, <3>1
  <2>2. WentOn(o, in, D, r, k * MaxGetBits, s)
    BY <1>4
  <2> HIDE DEF s, t
  <2>3. Going(o, in, D, r.got, s)
    BY <2>2 DEF WentOn
  <2>4. Going(o, in, D, r.got, t) /\ (~t.threw => ~s.threw /\ t.used = s.used + MaxGetBits)
    <3> DEFINE g == r.got
    <3>1. Going(o, in, D, g, s)
      BY <2>3
    <3> HIDE DEF g
    <3>2. Going(o, in, D, g, t) /\ (~t.threw => ~s.threw /\ t.used = s.used + MaxGetBits)
      BY <1>2, <2>1, <3>1, SkippedIs
    <3> QED BY <3>2 DEF g
  <2>5. (k + 1) * MaxGetBits = k * MaxGetBits + MaxGetBits /\ k * MaxGetBits \in Nat
    BY <1>2, TimesNat
  <2>6. ~t.threw => t.used = r.used + (k + 1) * MaxGetBits
    <3> DEFINE x == k * MaxGetBits
               u == r.used
    <3>1. ~t.threw => t.used = (u + x) + MaxGetBits
      BY <2>2, <2>4 DEF WentOn
    <3>2. x \in Nat /\ u \in Nat
      BY <1>2, <2>5
    <3> HIDE DEF x, u
    <3>3. (u + x) + MaxGetBits = u + (x + MaxGetBits)
      BY <1>2, <3>2
    <3> QED BY <2>5, <3>1, <3>3 DEF x, u
  <2>7. WentOn(o, in, D, r, (k + 1) * MaxGetBits, t)
    BY <2>4, <2>6 DEF WentOn
  <2>8. k + 1 \in 0 .. n
    OBVIOUS
  <2> QED BY <2>7, <2>8 DEF t
<1> HIDE DEF S
<1>5. n \in S
  BY <1>3, <1>4, AllUpTo
<1> QED BY <1>5 DEF S, O

(* skipManyBits() goes on by the bits it was asked for, whatever their number.         *)
LEMMA SkipManyIs ==
  ASSUME NEW o, NEW in, NEW D, InputOK(o, in, D), NEW r, Reading(o, in, D, r), NEW n \in Nat
  PROVE  WentOn(o, in, D, r, n, SkipManyBits(o, in, r, n))
<1> DEFINE whole == n \div MaxGetBits
           rest == n % MaxGetBits
           s == SkippedWhole(o, in, r, whole)[whole]
           t == SkipManyBits(o, in, r, n)
           x == whole * MaxGetBits
           u == r.used
           g == r.got
<1>1. whole \in Nat /\ rest \in 0 .. MaxGetBits - 1 /\ n = x + rest /\ u \in Nat
  BY Sizes, DivMod DEF Reading, Readers
<1>2. t = IF rest = 0 THEN s ELSE Skipped(o, in, s, rest)
  BY DEF SkipManyBits, SkippedWhole, Skipped
<1>3. WentOn(o, in, D, r, x, s)
  <2> HIDE DEF whole
  <2> QED BY <1>1, WholeSkipped
<1>4. x \in Nat /\ rest \in Nat /\ rest \in 0 .. MaxGetBits
  BY <1>1, Sizes, TimesNat
<1> HIDE DEF whole, rest, s, t, x
<1>5. CASE rest = 0
  <2>1. t = s /\ n = x
    BY <1>1, <1>2, <1>4, <1>5
  <2> QED BY <1>3, <2>1 DEF t
<1>6. CASE rest # 0
  <2>1. t = Skipped(o, in, s, rest)
    BY <1>2, <1>6
  <2>2. Going(o, in, D, g, s) /\ (~s.threw => s.used = u + x)
    BY <1>3 DEF WentOn
  <2> HIDE DEF g, u
  <2>3. Going(o, in, D, g, t) /\ (~t.threw => ~s.threw /\ t.used = s.used + rest)
    BY <1>4, <2>1, <2>2, SkippedIs
  <2>4. (u + x) + rest = u + n
    BY <1>1, <1>4
  <2>5. ~t.threw => t.used = u + n
    BY <2>2, <2>3, <2>4
  <2> QED BY <2>3, <2>5 DEF WentOn, g, u, t
<1> QED BY <1>5, <1>6

(* Where reload() goes back to: a multiple of the step, no more than a chunk back.      *)
LEMMA BackIs ==
  ASSUME NEW o \in Orders \ {"JPEG", "RevMSB"}, NEW d \in Nat, d % Step(o) = 0, NEW u \in Nat, NEW c \in Nat,
         u + c = d * ByteBits
  PROVE  LET back == BytesBack(o, c)
         IN  /\ back \in Nat /\ back <= d /\ (d - back) % Step(o) = 0
             /\ back * ByteBits - c \in 0 .. MaxGetBits - 1
             /\ (d - back) * ByteBits + (back * ByteBits - c) = u
<1> DEFINE b == ByteBits
           t == Step(o)
           w == b * t
           q == (c + w - 1) \div w
           e == d \div t
           back == t * q
<1>1. b \in Nat \ {0} /\ MaxGetBits = 4 * b /\ t \in {1, 2, 4} /\ t = MinLoadStep(o)
  BY Sizes DEF Step, MinLoadStep
<1>2. BytesBack(o, c) = back
  BY <1>1 DEF BytesBack, StepBits
<1>3. w \in Nat \ {0} /\ w <= 4 * b
  <2> HIDE DEF b, t
  <2> QED BY <1>1
<1>4. e \in Nat /\ d = e * t
  <2>1. d = e * t + (d % t) /\ e \in Nat
    <3>1. t \in Nat \ {0}
      BY <1>1
    <3> HIDE DEF t
    <3> QED BY <3>1, DivMod
  <2>2. e * t \in Nat
    <3> HIDE DEF t, e
    <3> QED BY <1>1, <2>1
  <2> DEFINE x == e * t
  <2>3. d = x + 0 /\ x \in Nat
    BY <2>1, <2>2
  <2> HIDE DEF x
  <2>4. d = x
    BY <2>3
  <2> QED BY <2>1, <2>4 DEF x
<1> HIDE DEF b, t, w, e
<1>5. q \in Nat /\ c <= q * w /\ q * w <= c + w - 1 /\ q * w \in Nat
  <2> DEFINE y == c + w - 1
  <2>1. y \in Nat
    BY <1>3
  <2>2. q \in Nat /\ y % w \in 0 .. w - 1 /\ y = q * w + (y % w)
    <3>1. q = y \div w
      OBVIOUS
    <3> HIDE DEF y, q
    <3> QED BY <1>3, <2>1, <3>1, DivMod
  <2> HIDE DEF q
  <2>3. q * w \in Nat
    BY <1>3, <2>2, TimesNat
  <2> DEFINE z == q * w
             k == y % w
  <2>4. z \in Nat /\ k \in 0 .. w - 1 /\ y = z + k
    BY <2>2, <2>3
  <2> HIDE DEF z, k
  <2>5. c <= z /\ z <= c + w - 1
    BY <1>3, <2>4
  <2>6. q \in Nat
    BY <2>2
  <2> QED BY <2>4, <2>5, <2>6 DEF z
<1> HIDE DEF q
<1>6. e * w = d * b /\ e * w \in Nat
  <2>1. e * (b * t) = (e * t) * b
    BY <1>1, <1>4
  <2>2. e * w \in Nat
    BY <1>3, <1>4, TimesNat
  <2>3. e * w = d * b
    BY <1>4, <2>1 DEF w
  <2> QED BY <2>2, <2>3
<1>7. q <= e
  <2> SUFFICES ASSUME e < q PROVE FALSE
    BY <1>4, <1>5
  <2>1. e * w + w <= q * w
    BY <1>3, <1>4, <1>5, NextRow
  <2>2. u + c = e * w
    BY <1>6 DEF b
  <2> DEFINE x == e * w
             z == q * w
  <2>3. x \in Nat /\ z \in Nat /\ x + w <= z /\ u + c = x /\ z <= c + w - 1
    BY <1>5, <1>6, <2>1, <2>2
  <2> HIDE DEF x, z
  <2> QED BY <1>3, <2>3
<1>8. d - back = (e - q) * t /\ e - q \in Nat /\ back \in Nat /\ back <= d
  <2> DEFINE r == e - q
  <2>1. r \in Nat /\ e = q + r
    BY <1>4, <1>5, <1>7
  <2> HIDE DEF r
  <2>2. e * t = q * t + r * t /\ q * t \in Nat /\ r * t \in Nat /\ t * q = q * t
    <3>1. t \in Nat
      BY <1>1
    <3>2. (q + r) * t = q * t + r * t /\ t * q = q * t
      BY <1>5, <2>1, <3>1
    <3>3. q * t \in Nat /\ r * t \in Nat
      BY <1>5, <2>1, <3>1, TimesNat
    <3> QED BY <2>1, <3>2, <3>3
  <2> DEFINE x == q * t
             y == r * t
  <2>3. d = x + y /\ x \in Nat /\ y \in Nat /\ back = x
    BY <1>4, <2>2
  <2> HIDE DEF x, y, back
  <2>4. d - back = y /\ back \in Nat /\ back <= d
    BY <2>3
  <2> QED BY <2>1, <2>4 DEF r, y
<1>9. (d - back) % t = 0
  <2> DEFINE r == e - q
  <2>1. r \in Nat /\ d - back = r * t
    BY <1>8
  <2> HIDE DEF r, back
  <2>2. (r * t) % t = 0
    <3>1. t = 1 \/ t = 2 \/ t = 4
      BY <1>1
    <3> QED BY <2>1, <3>1
  <2> QED BY <2>1, <2>2
<1>10. back * b = q * w
  BY <1>1, <1>5 DEF w
<1>11. back * b - c \in 0 .. MaxGetBits - 1
  <2> DEFINE z == q * w
  <2>1. z \in Nat /\ c <= z /\ z <= c + w - 1
    BY <1>5
  <2> HIDE DEF z
  <2>2. z - c \in 0 .. MaxGetBits - 1
    BY <1>1, <1>3, <2>1
  <2> QED BY <1>10, <2>2 DEF z
<1>12. (d - back) * b + (back * b - c) = u
  <2> HIDE DEF back
  <2> DEFINE r == d - back
  <2>1. r \in Nat /\ d = r + back
    BY <1>8
  <2> HIDE DEF r
  <2>2. d * b = r * b + back * b /\ r * b \in Nat /\ back * b \in Nat
    BY <1>1, <1>8, <2>1
  <2> DEFINE x == r * b
             y == back * b
  <2>3. u + c = x + y /\ x \in Nat /\ y \in Nat
    BY <2>2 DEF b
  <2> HIDE DEF x, y
  <2>4. x + (y - c) = u
    BY <2>3
  <2> QED BY <2>4 DEF x, y, r
<1> QED BY <1>2, <1>8, <1>9, <1>11, <1>12 DEF b, t

(* reload() goes on by no bits at all: the cache is filled anew with what was in it.   *)
LEMMA ReloadIs ==
  ASSUME NEW o, NEW in, NEW D, InputOK(o, in, D), NEW r, Reading(o, in, D, r), o \notin {"JPEG", "RevMSB"}
  PROVE  WentOn(o, in, D, r, 0, Reloaded(o, in, r))
<1>1. o \in Orders \ {"JPEG", "RevMSB"} /\ in \in Seq(Byte) /\ D \in Nat /\ r \in Readers /\ ~r.threw
  BY DEF InputOK, Reading
<1>2. PICK d \in Nat : Unmarked(o, in, r, d)
  BY <1>1 DEF Reading, Marked
<1> DEFINE c == Len(r.cache)
           u == r.used
           back == BytesBack(o, c)
           k == back * ByteBits - c
           p == d - back
           v == p * ByteBits
           old == [r EXCEPT !.cache = << >>, !.pos = p]
           new == [r EXCEPT !.cache = << >>, !.pos = p, !.used = v]
           f == Fill(o, in, old, MaxGetBits)
           h == Fill(o, in, new, MaxGetBits)
           s == Reloaded(o, in, r)
<1>3. r.pos = d /\ d % Step(o) = 0 /\ u + c = d * ByteBits /\ r.endPos = Unknown
  BY <1>1, <1>2 DEF Unmarked, Place
<1>4. u \in Nat /\ c \in Nat /\ r.got \in Seq(Gotten)
  BY <1>1 DEF Readers
<1>5. back \in Nat /\ back <= d /\ p % Step(o) = 0 /\ k \in 0 .. MaxGetBits - 1 /\ v + k = u
  <2> HIDE DEF u, c
  <2> QED BY <1>1, <1>3, <1>4, BackIs
<1>6. s = [f EXCEPT !.cache = Drop(@, k)]
  <2>1. p = r.pos - back
    BY <1>3
  <2> QED BY <1>1, <2>1 DEF Reloaded, Readers
<1> HIDE DEF back
<1>7. p \in Nat /\ p <= d /\ v \in Nat
  <2>1. p \in Nat /\ p <= d
    BY <1>2, <1>5
  <2> HIDE DEF p
  <2> QED BY <2>1, Sizes, TimesNat
<1> HIDE DEF p, v, k, c, u
<1>8. /\ new \in Readers /\ new.cache = << >> /\ new.pos = p /\ new.used = v /\ new.got = r.got /\ ~new.threw /\ new.endPos = Unknown
      /\ old \in Readers /\ old.cache = << >> /\ old.pos = p /\ old.used = u /\ old.got = r.got /\ ~old.threw
      /\ old = [new EXCEPT !.used = u] /\ << >> \in Seq(Bit)
  <2>1. << >> \in Seq(Bit)
    OBVIOUS
  <2> DEFINE T == Seq(Bit)
             W == Seq(Gotten)
             z == << >>
             A == [cache : T, pos : Nat, endPos : Nat \cup {Unknown}, used : Nat, got : W, threw : BOOLEAN]
  <2>2. r \in A /\ z \in T /\ ~r.threw /\ r.endPos = Unknown /\ r.used = u
    BY <1>1, <1>3, <2>1 DEF Readers, u
  <2>3. new = [r EXCEPT !.cache = z, !.pos = p, !.used = v] /\ old = [r EXCEPT !.cache = z, !.pos = p]
    OBVIOUS
  <2> HIDE DEF T, W, z, new, old
  <2>4. new \in A /\ new.cache = z /\ new.pos = p /\ new.used = v /\ new.got = r.got /\ new.endPos = r.endPos /\ new.threw = r.threw
    BY <1>7, <2>2, <2>3
  <2>5. old \in A /\ old.cache = z /\ old.pos = p /\ old.used = u /\ old.got = r.got /\ old.threw = r.threw
    BY <1>7, <2>2, <2>3
  <2>6. old = [new EXCEPT !.used = u]
    BY <2>2, <2>3
  <2>7. A = Readers
    BY DEF T, W, Readers
  <2> QED BY <2>1, <2>2, <2>4, <2>5, <2>6, <2>7 DEF z
<1> HIDE DEF new, old
<1>9. Reading(o, in, D, new)
  <2>1. Unmarked(o, in, new, p)
    <3>1. new.used + Len(new.cache) = p * ByteBits
      BY <1>7, <1>8 DEF v
    <3> QED BY <1>1, <1>5, <1>7, <1>8, <3>1 DEF Unmarked, Place
  <2>2. TapeOn(o, in, D, << >>, v)
    BY DEF TapeOn
  <2>3. p <= Furthest(o, in)
    <3>1. d <= Furthest(o, in) /\ Furthest(o, in) \in Nat
      BY <1>1, <1>3, FurthestIs DEF Reading
    <3> QED BY <1>2, <1>7, <3>1
  <2>4. Len(<< >>) <= CacheSize
    BY Sizes
  <2> QED BY <1>7, <1>8, <2>1, <2>2, <2>3, <2>4 DEF Reading
<1>10. CASE MayLoad(o, in, p)
  <2>1. h = Filled(o, in, new) /\ f = Filled(o, in, old)
    BY <1>8, <1>10, Sizes DEF Fill
  <2> DEFINE x == Flat([i \in 1 .. 4 |-> BitsOfByte(o, Chunk(o, Loaded(o, in, p))[i])])
  <2>2. h = [new EXCEPT !.cache = << >> \o x, !.pos = p + 4] /\ f = [old EXCEPT !.cache = << >> \o x, !.pos = p + 4]
    <3>1. Filled(o, in, new) = [new EXCEPT !.cache = @ \o x, !.pos = @ + 4]
      BY <1>1, <1>8 DEF Filled
    <3>2. Filled(o, in, old) = [old EXCEPT !.cache = @ \o x, !.pos = @ + 4]
      BY <1>1, <1>8 DEF Filled
    <3> HIDE DEF x, h, f
    <3> QED BY <1>8, <2>1, <3>1, <3>2 DEF Readers
  <2> DEFINE y == << >> \o x
  <2> HIDE DEF x
  <2>3. FillOK(o, in, D, new, MaxGetBits, h)
    BY <1>9, Sizes, FillIs
  <2>4. Going(o, in, D, r.got, h) /\ h.used = v /\ ~h.threw /\ MaxGetBits <= Len(h.cache) /\ h \in Readers
    <3>1. ~h.threw
      <4> HIDE DEF h
      <4> QED BY <1>8, <2>2 DEF Readers
    <3> QED BY <1>8, <2>3, <3>1 DEF FillOK, Going
  <2> HIDE DEF y
  <2>5. f = [h EXCEPT !.used = u] /\ f.cache = h.cache
    <3> HIDE DEF h, f
    <3> QED BY <1>8, <2>2, <2>4 DEF Readers, y
  <2> HIDE DEF h, f
  <2>6. s = SkipNoFill(h, k)
    <3>1. SkipNoFill(h, k) = [h EXCEPT !.cache = Drop(@, k), !.used = u]
      BY <1>5, <2>4 DEF SkipNoFill
    <3> HIDE DEF s
    <3> QED BY <1>6, <2>4, <2>5, <3>1 DEF Readers
  <2>7. Reading(o, in, D, h) /\ k \in 0 .. Len(h.cache) /\ h.got = r.got
    <3> DEFINE w == Len(h.cache)
    <3>1. w \in Nat /\ MaxGetBits <= w
      BY <2>4 DEF Readers
    <3> HIDE DEF w
    <3>2. k \in 0 .. w
      BY <1>5, <3>1, Sizes
    <3> QED BY <2>4, <3>2 DEF Going, w
  <2>8. SkipOK(o, in, D, h, k, s)
    BY <2>6, <2>7, SkipIs
  <2>9. Going(o, in, D, r.got, s) /\ s.used = u
    BY <1>5, <2>4, <2>7, <2>8 DEF SkipOK
  <2>10. u = u + 0
    BY <1>4 DEF u
  <2> QED BY <2>9, <2>10 DEF WentOn, u
<1>11. CASE ~MayLoad(o, in, p)
  <2>1. f = [old EXCEPT !.threw = TRUE]
    BY <1>8, <1>11, Sizes DEF Fill
  <2>2. Drop(<< >>, k) = << >>
    <3>1. k \in Nat
      BY <1>5, Sizes
    <3> QED BY <3>1 DEF Drop
  <2> HIDE DEF f, s
  <2>3. s \in Readers /\ s.cache = << >> /\ s.threw /\ s.used = u /\ s.got = r.got
    BY <1>4, <1>6, <1>8, <2>1, <2>2 DEF Readers, u
  <2>4. Stopped(o, in, s)
    <3>1. u <= Furthest(o, in) * ByteBits + CacheSize
      BY ReadingLimit DEF u
    <3>2. Len(<< >>) <= CacheSize
      BY Sizes
    <3> QED BY <2>3, <3>1, <3>2 DEF Stopped
  <2>5. D * ByteBits <= u
    <3>1. PICK q \in Nat : D + 4 <= q /\ q * ByteBits <= new.used + Len(new.cache)
      BY <1>8, <1>9, <1>11, WellPast
    <3>2. q * ByteBits <= v
      BY <1>7, <1>8, <3>1
    <3>3. D * ByteBits <= q * ByteBits /\ D * ByteBits \in Nat /\ q * ByteBits \in Nat
      BY <1>1, <3>1, Sizes, TimesGrow
    <3> DEFINE x == D * ByteBits
               y == q * ByteBits
    <3>4. x <= y /\ x \in Nat /\ y \in Nat /\ y <= v
      BY <3>2, <3>3
    <3> HIDE DEF x, y
    <3>5. x <= u
      BY <1>5, <1>7, <3>4, Sizes
    <3> QED BY <3>5 DEF x
  <2>6. Going(o, in, D, r.got, s)
    BY <2>3, <2>4, <2>5 DEF Going
  <2> QED BY <2>3, <2>6 DEF WentOn, s
<1> QED BY <1>10, <1>11

(* What a reader has got does not matter to how it goes on.                           *)
LEMMA GotIs ==
  ASSUME NEW o, NEW in, NEW D, NEW g, NEW s, Going(o, in, D, g, s), NEW w \in Seq(Gotten)
  PROVE  /\ Going(o, in, D, w, [s EXCEPT !.got = w]) /\ [s EXCEPT !.got = w].used = s.used
         /\ [s EXCEPT !.got = w].threw <=> s.threw
<1> DEFINE t == [s EXCEPT !.got = w]
<1>1. s \in Readers
  BY DEF Going
<1>2. /\ t \in Readers /\ t.got = w /\ t.used = s.used /\ t.cache = s.cache /\ t.pos = s.pos /\ t.endPos = s.endPos
      /\ (t.threw <=> s.threw)
  BY <1>1 DEF Readers
<1> HIDE DEF t
<1>3. CASE s.threw
  <2>1. Stopped(o, in, s) /\ D * ByteBits <= s.used
    BY <1>3 DEF Going
  <2>2. Stopped(o, in, t)
    BY <1>2, <2>1 DEF Stopped
  <2>3. Going(o, in, D, w, t)
    BY <1>2, <1>3, <2>1, <2>2 DEF Going
  <2> QED BY <1>2, <2>3 DEF t
<1>4. CASE ~s.threw
  <2>1. Reading(o, in, D, s)
    BY <1>4 DEF Going
  <2>2. \A d \in Nat : Unmarked(o, in, s, d) => Unmarked(o, in, t, d)
    BY <1>2 DEF Unmarked
  <2>3. \A m \in Nat : Marked(o, in, s, m) => Marked(o, in, t, m)
    BY <1>2 DEF Marked
  <2>4. Reading(o, in, D, t)
    BY <1>2, <2>1, <2>2, <2>3 DEF Reading
  <2>5. Going(o, in, D, w, t)
    BY <1>2, <1>4, <2>4 DEF Going
  <2> QED BY <1>2, <2>5 DEF t
<1> QED BY <1>3, <1>4

(* A reader that got one value more, of n bits.                                       *)
Took(o, in, D, r, x, n, s) ==
  /\ Reading(o, in, D, s) /\ s.got = Append(r.got, x) /\ s.used = r.used + n /\ ~s.threw

(* A value is taken off the cache.                                                     *)
LEMMA TookIs ==
  ASSUME NEW o, NEW in, NEW D, InputOK(o, in, D), NEW r, NEW f, Reading(o, in, D, f), f.got = r.got, f.used = r.used,
         NEW n \in 0 .. Len(f.cache), NEW x \in Gotten
  PROVE  Took(o, in, D, r, x, n, [SkipNoFill(f, n) EXCEPT !.got = Append(@, x)])
<1> DEFINE h == SkipNoFill(f, n)
           w == Append(f.got, x)
           s == [h EXCEPT !.got = w]
<1>1. SkipOK(o, in, D, f, n, h)
  BY SkipIs
<1>2. w \in Seq(Gotten)
  BY DEF Reading, Readers
<1> HIDE DEF h, w
<1>3. Going(o, in, D, f.got, h) /\ ~h.threw /\ h.used = f.used + n /\ h.got = f.got
  BY <1>1 DEF SkipOK, Going
<1> DEFINE g == f.got
<1>4. Going(o, in, D, g, h)
  BY <1>3
<1> HIDE DEF g
<1>5. Going(o, in, D, w, s) /\ s.used = h.used /\ ~s.threw
  BY <1>2, <1>3, <1>4, GotIs
<1>6. s = [h EXCEPT !.got = Append(@, x)]
  BY <1>3 DEF w
<1> HIDE DEF s
<1>7. Took(o, in, D, r, x, n, s)
  BY <1>3, <1>5 DEF Took, Going, w
<1> QED BY <1>6, <1>7 DEF h

(* getBits(): n bits, which are those of the data.                                    *)
FieldRead(o, in, r, n) ==
  LET f == Fill(o, in, r, n)
  IN  IF f.threw THEN f
      ELSE [SkipNoFill(f, n) EXCEPT !.got = Append(@, Ordered(o, Take(f.cache, n)))]

(* The first bits of bits of the data.                                                 *)
LEMMA TapeBegins ==
  ASSUME NEW o, NEW in, NEW D, NEW c \in Seq(Bit), NEW u, TapeOn(o, in, D, c, u), NEW n \in 0 .. Len(c)
  PROVE  Take(c, n) \in Seq(Bit) /\ Len(Take(c, n)) = n /\ TapeOn(o, in, D, Take(c, n), u)
<1> DEFINE t == Take(c, n)
<1>1. t \in Seq(Bit) /\ Len(t) = n /\ \A i \in 1 .. n : t[i] = c[i] /\ i \in 1 .. Len(c)
  BY DEF Take
<1> HIDE DEF t
<1>2. TapeOn(o, in, D, t, u)
  BY <1>1 DEF TapeOn
<1> QED BY <1>1, <1>2 DEF t

(* getBits(n) takes the next n bits of the data.                                       *)
LEMMA FieldIs ==
  ASSUME NEW o, NEW in, NEW D, InputOK(o, in, D), NEW r, Reading(o, in, D, r), NEW n \in 0 .. MaxGetBits,
         NEW s, s = FieldRead(o, in, r, n)
  PROVE  \/ s.threw /\ Going(o, in, D, r.got, s)
         \/ \E t \in Seq(Bit) : Len(t) = n /\ TapeOn(o, in, D, t, r.used) /\ Took(o, in, D, r, Ordered(o, t), n, s)
<1> DEFINE f == Fill(o, in, r, n)
           t == Take(f.cache, n)
<1>1. Going(o, in, D, r.got, f) /\ f.used = r.used /\ (~f.threw => n <= Len(f.cache))
  BY FillIs DEF FillOK
<1>2. s = IF f.threw THEN f ELSE [SkipNoFill(f, n) EXCEPT !.got = Append(@, Ordered(o, t))]
  BY DEF FieldRead
<1> HIDE DEF f
<1>3. CASE f.threw
  BY <1>1, <1>2, <1>3
<1>4. CASE ~f.threw
  <2>1. Reading(o, in, D, f) /\ f.got = r.got /\ f \in Readers /\ TapeOn(o, in, D, f.cache, r.used)
    BY <1>1, <1>4 DEF Going, Reading
  <2>2. n \in 0 .. Len(f.cache) /\ f.cache \in Seq(Bit)
    <3> DEFINE k == Len(f.cache)
    <3>1. k \in Nat /\ n <= k /\ n \in Nat /\ f.cache \in Seq(Bit)
      BY <1>1, <1>4, <2>1, Sizes DEF Readers
    <3> HIDE DEF k
    <3>2. n \in 0 .. k
      BY <3>1
    <3> QED BY <3>1, <3>2 DEF k
  <2>3. t \in Seq(Bit) /\ Len(t) = n /\ TapeOn(o, in, D, t, r.used)
    <3> DEFINE c == f.cache
               u == r.used
    <3>1. c \in Seq(Bit) /\ TapeOn(o, in, D, c, u) /\ n \in 0 .. Len(c)
      BY <2>1, <2>2
    <3> HIDE DEF c, u
    <3>2. Take(c, n) \in Seq(Bit) /\ Len(Take(c, n)) = n /\ TapeOn(o, in, D, Take(c, n), u)
      BY <3>1, TapeBegins
    <3> QED BY <3>2 DEF c, u
  <2> HIDE DEF t
  <2> DEFINE x == Ordered(o, t)
  <2>4. x \in Gotten
    BY <2>3, OrderedIs DEF Gotten
  <2> HIDE DEF x
  <2>5. s = [SkipNoFill(f, n) EXCEPT !.got = Append(@, x)]
    BY <1>2, <1>4 DEF x
  <2>6. Took(o, in, D, r, x, n, s)
    BY <1>1, <2>1, <2>2, <2>4, <2>5, TookIs
  <2> QED BY <2>3, <2>6 DEF x
<1> QED BY <1>3, <1>4

(* A symbol: what the decoder makes of the next MaxGetBits.                            *)
SymbolOf(o, code, bits) == IF o = "RevMSB" THEN V8Decode(code.symbols, bits) ELSE Decode(code, bits)

SymbolRead(o, in, r, code) ==
  LET f == Fill(o, in, r, MaxGetBits)
      symbol == SymbolOf(o, code, Take(f.cache, MaxGetBits))
  IN  IF f.threw \/ symbol = Bad THEN [f EXCEPT !.threw = TRUE]
      ELSE [SkipNoFill(f, symbol.used) EXCEPT !.got = Append(@, symbol.value)]

(* A decoder takes the bits of a symbol off the data, as many as it says.              *)
LEMMA SymbolReadIs ==
  ASSUME NEW o, NEW in, NEW D, InputOK(o, in, D), NEW r, Reading(o, in, D, r), NEW code, GoodCode(code),
         o = "RevMSB" => IsV8(code), NEW s, s = SymbolRead(o, in, r, code)
  PROVE  \/ s.threw /\ Stopped(o, in, s) /\ s.got = r.got
         \/ \E t \in Seq(Bit) :
              /\ Len(t) = MaxGetBits /\ TapeOn(o, in, D, t, r.used)
              /\ Took(o, in, D, r, SymbolOf(o, code, t).value, SymbolOf(o, code, t).used, s)
<1> DEFINE n == MaxGetBits
           f == Fill(o, in, r, n)
           t == Take(f.cache, n)
           y == SymbolOf(o, code, t)
<1>1. Going(o, in, D, r.got, f) /\ f.used = r.used /\ (~f.threw => n <= Len(f.cache)) /\ n \in Nat
  BY Sizes, FillIs DEF FillOK
<1>2. s = IF f.threw \/ y = Bad THEN [f EXCEPT !.threw = TRUE] ELSE [SkipNoFill(f, y.used) EXCEPT !.got = Append(@, y.value)]
  BY DEF SymbolRead
<1>3. f.used <= Furthest(o, in) * ByteBits + CacheSize /\ f \in Readers /\ Len(f.cache) <= CacheSize /\ f.got = r.got
  BY <1>1, ReadingLimit DEF Going, Stopped, Reading
<1> HIDE DEF f
<1>4. CASE f.threw \/ y = Bad
  <2>1. s = [f EXCEPT !.threw = TRUE]
    BY <1>2, <1>4
  <2>2. s \in Readers /\ s.threw /\ s.used = f.used /\ s.cache = f.cache /\ s.got = f.got
    BY <1>3, <2>1 DEF Readers
  <2>3. Stopped(o, in, s)
    BY <1>3, <2>2 DEF Stopped
  <2> QED BY <1>3, <2>2, <2>3
<1>5. CASE ~(f.threw \/ y = Bad)
  <2>1. Reading(o, in, D, f) /\ f.got = r.got /\ f \in Readers /\ TapeOn(o, in, D, f.cache, r.used)
    BY <1>1, <1>5 DEF Going, Reading
  <2> DEFINE k == Len(f.cache)
  <2>2. k \in Nat /\ n <= k /\ f.cache \in Seq(Bit)
    BY <1>1, <1>5, <2>1 DEF Readers
  <2>3. n \in 0 .. k
    <3> HIDE DEF k
    <3> QED BY <1>1, <2>2
  <2>4. t \in Seq(Bit) /\ Len(t) = n /\ TapeOn(o, in, D, t, r.used)
    <3> DEFINE c == f.cache
               u == r.used
    <3>1. c \in Seq(Bit) /\ TapeOn(o, in, D, c, u) /\ n \in 0 .. Len(c)
      BY <2>1, <2>2, <2>3
    <3> HIDE DEF c, u
    <3>2. Take(c, n) \in Seq(Bit) /\ Len(Take(c, n)) = n /\ TapeOn(o, in, D, Take(c, n), u)
      BY <3>1, TapeBegins
    <3> QED BY <3>2 DEF c, u
  <2> HIDE DEF t
  <2>5. IsSymbol(y)
    BY <2>4, DecodedIs DEF SymbolOf
  <2> DEFINE x == y.value
             m == y.used
  <2>6. x \in Gotten /\ m \in 0 .. k
    <3>1. x \in Int /\ m \in 0 .. n
      BY <2>5 DEF IsSymbol
    <3> HIDE DEF x, m, k
    <3>2. m \in 0 .. k
      BY <1>1, <2>2, <3>1
    <3> QED BY <3>1, <3>2 DEF Gotten
  <2>7. s = [SkipNoFill(f, m) EXCEPT !.got = Append(@, x)]
    BY <1>2, <1>5
  <2> HIDE DEF x, m, y
  <2>8. Took(o, in, D, r, x, m, s)
    BY <1>1, <2>1, <2>6, <2>7, TookIs
  <2> QED BY <2>4, <2>8 DEF x, m, y
<1> QED BY <1>4, <1>5

(* The data of an input are the bits that were put, as far as it has them.             *)
Content(o, m, in, D) ==
  \A k \in Nat : k < D * ByteBits /\ k < EndOf(o, m, Len(m.values)) => TapeBit(o, in, k) = Flat(Puts(o, m))[k + 1]

(* D bytes of data came, which are what `held` says of them.                           *)
Has(o, m, in, D, h) ==
  /\ MessageOK(o, m) /\ InputOK(o, in, D) /\ Content(o, m, in, D)
  /\ h.values \in 0 .. Len(m.values) /\ EndOf(o, m, h.values) <= D * ByteBits
  /\ h.bits \in Nat /\ h.bits <= D * ByteBits
  /\ h.marker # Unknown =>
       /\ o = "JPEG" /\ h.values = Len(m.values) /\ MarkerAt(in, D) /\ Place(o, in, D) = h.marker
       /\ D * ByteBits < EndOf(o, m, Len(m.values)) + ByteBits

(* The reader got the values of the message, as far as they are held.                  *)
ReaderOK(o, m, in, D, h, r) ==
  /\ r \in Readers
  /\ r.threw => Stopped(o, in, r) /\ (m.code = NoCode => D * ByteBits <= r.used)
  /\ ~r.threw => Reading(o, in, D, r)
  /\ ~r.threw /\ Len(r.got) <= h.values => r.used = EndOf(o, m, Len(r.got))
  /\ ~r.threw /\ h.values = Len(m.values) /\ Len(m.values) <= Len(r.got) => EndOf(o, m, Len(m.values)) <= r.used
  /\ \A i \in 1 .. Len(r.got) : i <= h.values => r.got[i] = m.values[i]

(* The bits at the end of the value before are those of the value.                     *)
LEMMA ValueOnTape ==
  ASSUME NEW o, NEW m, MessageOK(o, m), NEW in, NEW D \in Nat, Content(o, m, in, D), NEW i \in 1 .. Len(m.values),
         EndOf(o, m, i) <= D * ByteBits, NEW t \in Seq(Bit), TapeOn(o, in, D, t, EndOf(o, m, i - 1)),
         Len(ValueBits(o, m, i)) <= Len(t)
  PROVE  \A j \in 1 .. Len(ValueBits(o, m, i)) : t[j] = ValueBits(o, m, i)[j]
<1> DEFINE v == ValueBits(o, m, i)
           S == Flat(Puts(o, m))
           e == EndOf(o, m, i)
           b == EndOf(o, m, i - 1)
           z == EndOf(o, m, Len(m.values))
           x == D * ByteBits
<1>1. EndsOK(o, m)
  BY EndsAre
<1>2. e = b + Len(v) /\ e \in Nat /\ b \in Nat /\ z = Len(S) /\ i \in 0 .. Len(m.values) /\ S \in Seq(Bit)
      /\ \A j \in 1 .. Len(v) : b + j \in 1 .. Len(S) /\ S[b + j] = v[j]
  <2>1. Len(m.values) \in Nat
    BY <1>1 DEF EndsOK
  <2>2. i \in 0 .. Len(m.values) /\ i - 1 \in 0 .. Len(m.values)
    BY <2>1
  <2> QED BY <1>1, <2>2 DEF EndsOK
<1>3. v \in Seq(Bit) /\ Len(v) \in Nat /\ x \in Nat /\ Len(t) \in Nat
  BY ValueBitsAre, Sizes, TimesNat
<1>4. \A k \in Nat : k < x /\ k < z => TapeBit(o, in, k) = S[k + 1]
  BY DEF Content
<1>5. \A j \in 1 .. Len(t) : b + (j - 1) < x => t[j] = TapeBit(o, in, b + (j - 1))
  BY DEF TapeOn
<1>6. e <= x /\ Len(v) <= Len(t)
  OBVIOUS
<1> HIDE DEF v, S, e, b, z, x
<1>7. ASSUME NEW j \in 1 .. Len(v) PROVE t[j] = v[j]
  <2> DEFINE k == b + (j - 1)
  <2>1. k \in Nat /\ k < x /\ k < z /\ k + 1 = b + j /\ j \in 1 .. Len(t)
    BY <1>2, <1>3, <1>6
  <2>2. t[j] = TapeBit(o, in, k)
    BY <1>5, <2>1
  <2> HIDE DEF k
  <2>3. TapeBit(o, in, k) = S[k + 1]
    BY <1>4, <2>1
  <2> QED BY <1>2, <2>1, <2>2, <2>3
<1> QED BY <1>7 DEF v

(* One value more.                                                                   *)
LEMMA Progress ==
  ASSUME NEW o, NEW m, NEW in, NEW D, NEW h, Has(o, m, in, D, h), NEW r, ReaderOK(o, m, in, D, h, r), ~r.threw,
         NEW x, NEW n \in Nat, NEW s, Took(o, in, D, r, x, n, s),
         Len(r.got) + 1 <= h.values => x = m.values[Len(r.got) + 1] /\ EndOf(o, m, Len(r.got) + 1) = EndOf(o, m, Len(r.got)) + n
  PROVE  ReaderOK(o, m, in, D, h, s)
<1> DEFINE w == r.got
           i == Len(w) + 1
           q == h.values
           N == Len(m.values)
<1>1. r \in Readers /\ w \in Seq(Gotten) /\ Len(w) \in Nat /\ r.used \in Nat
  BY DEF ReaderOK, Readers
<1>2. q \in Nat /\ N \in Nat /\ q <= N /\ EndOf(o, m, N) \in Nat
  <2>1. EndsOK(o, m)
    BY EndsAre DEF Has
  <2>2. N \in Nat /\ EndOf(o, m, N) \in Nat
    BY <2>1 DEF EndsOK
  <2> QED BY <2>2 DEF Has
<1>3. s \in Readers /\ ~s.threw /\ Reading(o, in, D, s) /\ s.got = Append(w, x) /\ s.used = r.used + n
  BY DEF Took, Reading
<1>4. s.got \in Seq(Gotten)
  BY <1>3 DEF Readers
<1> HIDE DEF w
<1>5. Len(s.got) = i
  BY <1>1, <1>3
<1>6. i <= q => s.used = EndOf(o, m, i)
  <2>1. i <= q => Len(w) <= q
    BY <1>1, <1>2
  <2> QED BY <1>3, <2>1 DEF ReaderOK, w
<1>7. q = N /\ N <= i => EndOf(o, m, N) <= s.used
  <2>1. CASE i = N
    BY <1>2, <1>6, <2>1
  <2>2. CASE i # N
    <3>1. q = N /\ N <= i => N <= Len(w)
      BY <1>1, <1>2, <2>2
    <3>2. q = N /\ N <= i => EndOf(o, m, N) <= r.used
      BY <3>1 DEF ReaderOK, w
    <3> QED BY <1>1, <1>2, <1>3, <3>2
  <2> QED BY <2>1, <2>2
<1>8. ASSUME NEW k \in 1 .. Len(s.got), k <= q PROVE s.got[k] = m.values[k]
  <2>1. CASE k = i
    <3>1. s.got[k] = x
      BY <1>1, <1>3, <2>1
    <3> QED BY <1>8, <2>1, <3>1 DEF w
  <2>2. CASE k # i
    <3>1. k \in 1 .. Len(w) /\ s.got[k] = w[k]
      BY <1>1, <1>3, <1>5, <2>2
    <3> QED BY <1>8, <3>1 DEF ReaderOK, w
  <2> QED BY <2>1, <2>2
<1> QED BY <1>3, <1>5, <1>6, <1>7, <1>8 DEF ReaderOK

(* A field that is held is read as it was put.                                         *)
LEMMA FieldStep ==
  ASSUME NEW o, NEW m, NEW in, NEW D, NEW h, Has(o, m, in, D, h), NEW r, ReaderOK(o, m, in, D, h, r), ~r.threw,
         m.code = NoCode, Next1(r) <= Len(m.values), NEW s, s = FieldRead(o, in, r, Len(m.values[Next1(r)]))
  PROVE  ReaderOK(o, m, in, D, h, s)
<1> DEFINE i == Next1(r)
           v == m.values[i]
           n == Len(v)
           b == ValueBits(o, m, i)
<1>1. r \in Readers /\ Len(r.got) \in Nat /\ Reading(o, in, D, r) /\ InputOK(o, in, D) /\ D \in Nat /\ MessageOK(o, m)
      /\ Content(o, m, in, D)
  BY DEF ReaderOK, Readers, Has, InputOK
<1>2. i \in 1 .. Len(m.values) /\ i - 1 = Len(r.got) /\ m.values \in Seq(BitStrings) /\ Len(m.values) \in Nat
  BY <1>1 DEF Next1, MessageOK
<1> HIDE DEF i
<1>3. v \in BitStrings
  <2> DEFINE T == BitStrings
             w == m.values
  <2>1. w \in Seq(T)
    BY <1>2
  <2> HIDE DEF T, w
  <2>2. w[i] \in T
    BY <1>2, <2>1, ItemIs DEF w
  <2> QED BY <2>2 DEF T, w
<1>4. v \in Seq(Bit) /\ n \in 0 .. MaxGetBits
  <2>1. v \in Seq(Bit) /\ n <= MaxGetBits
    BY <1>3, BitStringIs
  <2> QED BY <2>1, Sizes
<1>5. b = Ordered(o, v) /\ b \in Seq(Bit) /\ Len(b) = n /\ Ordered(o, b) = v
  <2>1. b = Ordered(o, v)
    BY DEF ValueBits
  <2> HIDE DEF v
  <2> QED BY <1>4, <2>1, OrderedIs
<1>6. EndOf(o, m, i) = EndOf(o, m, i - 1) + n
  <2>1. EndsOK(o, m)
    BY <1>1, EndsAre
  <2> QED BY <1>2, <1>5, <2>1 DEF EndsOK
<1>7. s = FieldRead(o, in, r, n)
  BY DEF i
<1> HIDE DEF v, n, b
<1>8. CASE s.threw /\ Going(o, in, D, r.got, s)
  <2>1. s \in Readers /\ Stopped(o, in, s) /\ D * ByteBits <= s.used /\ s.got = r.got
    BY <1>8 DEF Going
  <2> QED BY <1>8, <2>1 DEF ReaderOK
<1>9. CASE \E t \in Seq(Bit) : Len(t) = n /\ TapeOn(o, in, D, t, r.used) /\ Took(o, in, D, r, Ordered(o, t), n, s)
  <2>1. PICK t \in Seq(Bit) : Len(t) = n /\ TapeOn(o, in, D, t, r.used) /\ Took(o, in, D, r, Ordered(o, t), n, s)
    BY <1>9
  <2>2. ASSUME i <= h.values PROVE Ordered(o, t) = v
    <3>1. EndOf(o, m, i) <= D * ByteBits
      <4>1. EndOf(o, m, i) <= EndOf(o, m, h.values) /\ EndOf(o, m, i) \in Nat /\ EndOf(o, m, h.values) \in Nat
        <5>1. h.values \in 0 .. Len(m.values) /\ i \in 0 .. Len(m.values)
          BY <1>2 DEF Has
        <5> QED BY <1>1, <2>2, <5>1, EndsAre DEF EndsOK
      <4>2. EndOf(o, m, h.values) <= D * ByteBits /\ D * ByteBits \in Nat
        BY <1>1, Sizes, TimesNat DEF Has
      <4> DEFINE x == D * ByteBits
                 y == EndOf(o, m, i)
                 z == EndOf(o, m, h.values)
      <4>3. x \in Nat /\ y \in Nat /\ z \in Nat /\ y <= z /\ z <= x
        BY <4>1, <4>2
      <4> HIDE DEF x, y, z
      <4>4. y <= x
        BY <4>3
      <4> QED BY <4>4 DEF x, y
    <3>2. r.used = EndOf(o, m, i - 1)
      <4>1. Len(r.got) <= h.values
        <5>1. h.values \in Nat
          BY <1>2 DEF Has
        <5> QED BY <1>1, <1>2, <2>2, <5>1
      <4> QED BY <1>2, <4>1 DEF ReaderOK
    <3>3. TapeOn(o, in, D, t, EndOf(o, m, i - 1)) /\ Len(b) <= Len(t)
      BY <1>4, <1>5, <2>1, <3>2
    <3>4. \A j \in 1 .. Len(b) : t[j] = b[j]
      BY <1>1, <1>2, <3>1, <3>3, ValueOnTape DEF b
    <3>5. t = b
      BY <1>5, <2>1, <3>4, SameSequence
    <3> QED BY <1>5, <3>5
  <2>3. n \in Nat
    BY <1>4, Sizes
  <2> DEFINE x == Ordered(o, t)
  <2>4. Took(o, in, D, r, x, n, s) /\ (i <= h.values => x = v)
    BY <2>1, <2>2
  <2> HIDE DEF x
  <2>5. i = Len(r.got) + 1
    BY DEF i, Next1
  <2> QED BY <1>2, <1>6, <2>3, <2>4, <2>5, Progress DEF v
<1> QED BY <1>1, <1>4, <1>7, <1>8, <1>9, FieldIs

(* Past the last value a reader reads on.                                             *)
LEMMA BeyondStep ==
  ASSUME NEW o, NEW m, NEW in, NEW D, NEW h, Has(o, m, in, D, h), NEW r, ReaderOK(o, m, in, D, h, r), ~r.threw,
         Len(m.values) < Next1(r), NEW s, s = FieldRead(o, in, r, MaxGetBits)
  PROVE  ReaderOK(o, m, in, D, h, s)
<1> DEFINE n == MaxGetBits
<1>1. r \in Readers /\ Len(r.got) \in Nat /\ Reading(o, in, D, r) /\ InputOK(o, in, D)
  BY DEF ReaderOK, Readers, Has
<1>2. n \in Nat /\ n \in 0 .. MaxGetBits
  BY Sizes
<1>3. CASE s.threw /\ Going(o, in, D, r.got, s)
  <2>1. s \in Readers /\ Stopped(o, in, s) /\ D * ByteBits <= s.used /\ s.got = r.got
    BY <1>3 DEF Going
  <2> QED BY <1>3, <2>1 DEF ReaderOK
<1>4. CASE \E t \in Seq(Bit) : Len(t) = n /\ TapeOn(o, in, D, t, r.used) /\ Took(o, in, D, r, Ordered(o, t), n, s)
  <2>1. PICK t \in Seq(Bit) : Took(o, in, D, r, Ordered(o, t), n, s)
    BY <1>4
  <2>2. ~(Len(r.got) + 1 <= h.values)
    <3>1. EndsOK(o, m)
      BY EndsAre DEF Has
    <3>2. h.values \in 0 .. Len(m.values) /\ Len(m.values) \in Nat
      BY <3>1 DEF Has, EndsOK
    <3>3. Len(m.values) < Len(r.got) + 1
      BY DEF Next1
    <3> QED BY <1>1, <3>2, <3>3
  <2> DEFINE x == Ordered(o, t)
  <2>3. Took(o, in, D, r, x, n, s)
    BY <2>1
  <2> HIDE DEF x, n
  <2> QED BY <1>2, <2>2, <2>3, Progress
<1>5. s = FieldRead(o, in, r, n)
  OBVIOUS
<1> HIDE DEF n
<1> QED BY <1>1, <1>2, <1>3, <1>4, <1>5, FieldIs

(* A symbol that is held is read as it was put.                                        *)
LEMMA SymbolStep ==
  ASSUME NEW o, NEW m, NEW in, NEW D, NEW h, Has(o, m, in, D, h), NEW r, ReaderOK(o, m, in, D, h, r), ~r.threw,
         m.code # NoCode, Next1(r) <= Len(m.values), NEW s, s = SymbolRead(o, in, r, m.code)
  PROVE  ReaderOK(o, m, in, D, h, s)
<1> DEFINE i == Next1(r)
           code == m.code
           v == m.values[i]
           b == ValueBits(o, m, i)
           n == Len(b)
<1>1. r \in Readers /\ Len(r.got) \in Nat /\ Reading(o, in, D, r) /\ InputOK(o, in, D) /\ D \in Nat /\ MessageOK(o, m)
      /\ Content(o, m, in, D)
  BY DEF ReaderOK, Readers, Has, InputOK
<1>2. i \in 1 .. Len(m.values) /\ i - 1 = Len(r.got) /\ m.values \in Seq(Encodable(code)) /\ Len(m.values) \in Nat
      /\ GoodCode(code) /\ (o = "RevMSB" => IsV8(code))
  BY <1>1 DEF Next1, MessageOK
<1> HIDE DEF i
<1>3. v \in Encodable(code)
  <2> DEFINE T == Encodable(code)
             w == m.values
  <2>1. w \in Seq(T)
    BY <1>2
  <2> HIDE DEF T, w
  <2>2. w[i] \in T
    BY <1>2, <2>1, ItemIs DEF w
  <2> QED BY <2>2 DEF T, w
<1>4. b = Flat(Encode(code, v)) /\ b \in Seq(Bit) /\ n \in 0 .. MaxGetBits
  <2>1. b = Flat(Encode(code, v))
    BY DEF ValueBits
  <2>2. b \in Seq(Bit) /\ n \in 0 .. MaxGetBits
    BY <1>1, <1>2, ValueBitsAre
  <2> QED BY <2>1, <2>2
<1>5. EndOf(o, m, i) = EndOf(o, m, i - 1) + n
  <2>1. EndsOK(o, m)
    BY <1>1, EndsAre
  <2> QED BY <1>2, <2>1 DEF EndsOK
<1>6. s = SymbolRead(o, in, r, code)
  OBVIOUS
<1>7. code # NoCode
  OBVIOUS
<1> HIDE DEF v, n, b, code
<1>8. CASE s.threw /\ Stopped(o, in, s) /\ s.got = r.got
  <2>1. s \in Readers /\ m.code # NoCode
    BY <1>7, <1>8 DEF Stopped, code
  <2> QED BY <1>8, <2>1 DEF ReaderOK
<1>9. CASE \E t \in Seq(Bit) :
              /\ Len(t) = MaxGetBits /\ TapeOn(o, in, D, t, r.used)
              /\ Took(o, in, D, r, SymbolOf(o, code, t).value, SymbolOf(o, code, t).used, s)
  <2>1. PICK t \in Seq(Bit) :
              /\ Len(t) = MaxGetBits /\ TapeOn(o, in, D, t, r.used)
              /\ Took(o, in, D, r, SymbolOf(o, code, t).value, SymbolOf(o, code, t).used, s)
    BY <1>9
  <2>2. ASSUME i <= h.values PROVE SymbolOf(o, code, t) = Found(v, n)
    <3>1. EndOf(o, m, i) <= D * ByteBits
      <4>1. EndOf(o, m, i) <= EndOf(o, m, h.values) /\ EndOf(o, m, i) \in Nat /\ EndOf(o, m, h.values) \in Nat
        <5>1. h.values \in 0 .. Len(m.values) /\ i \in 0 .. Len(m.values)
          BY <1>2 DEF Has
        <5> QED BY <1>1, <2>2, <5>1, EndsAre DEF EndsOK
      <4>2. EndOf(o, m, h.values) <= D * ByteBits /\ D * ByteBits \in Nat
        BY <1>1, Sizes, TimesNat DEF Has
      <4> DEFINE x == D * ByteBits
                 y == EndOf(o, m, i)
                 z == EndOf(o, m, h.values)
      <4>3. x \in Nat /\ y \in Nat /\ z \in Nat /\ y <= z /\ z <= x
        BY <4>1, <4>2
      <4> HIDE DEF x, y, z
      <4>4. y <= x
        BY <4>3
      <4> QED BY <4>4 DEF x, y
    <3>2. r.used = EndOf(o, m, i - 1)
      <4>1. Len(r.got) <= h.values
        <5>1. h.values \in Nat
          BY <1>2 DEF Has
        <5> QED BY <1>1, <1>2, <2>2, <5>1
      <4> QED BY <1>2, <4>1 DEF ReaderOK
    <3>3. TapeOn(o, in, D, t, EndOf(o, m, i - 1)) /\ Len(b) <= Len(t)
      <4>1. Len(b) = n
        BY DEF n
      <4> QED BY <1>4, <2>1, <3>2, <4>1, Sizes
    <3>4. \A j \in 1 .. Len(b) : t[j] = b[j]
      BY <1>1, <1>2, <3>1, <3>3, ValueOnTape DEF b
    <3>5. Decode(code, t) = Found(v, Len(Flat(Encode(code, v)))) /\ (IsV8(code) => V8Decode(code.symbols, t) = Found(v, Len(Flat(Encode(code, v)))))
      <4>1. \A j \in 1 .. Len(Flat(Encode(code, v))) : t[j] = Flat(Encode(code, v))[j]
        BY <1>4, <3>4
      <4>2. MaxCodeLength + MaxDiffLength <= Len(t)
        BY <2>1, Sizes
      <4> QED BY <1>2, <1>3, <4>1, <4>2, EncodedIsRead
    <3>6. n = Len(Flat(Encode(code, v)))
      BY <1>4 DEF n
    <3> QED BY <1>2, <3>5, <3>6 DEF SymbolOf
  <2> DEFINE y == SymbolOf(o, code, t)
             x == y.value
             k == y.used
  <2>3. k \in Nat
    <3>1. IsSymbol(y)
      BY <1>2, <2>1, DecodedIs DEF SymbolOf
    <3>2. MaxGetBits \in Nat
      BY Sizes
    <3> HIDE DEF y
    <3> QED BY <3>1, <3>2 DEF IsSymbol
  <2>4. Took(o, in, D, r, x, k, s)
    BY <2>1
  <2>5. i <= h.values => x = v /\ k = n
    <3> HIDE DEF y
    <3>1. i <= h.values => y = Found(v, n)
      BY <2>2 DEF y
    <3> QED BY <3>1, FoundIs
  <2> HIDE DEF x, k, y
  <2>6. i = Len(r.got) + 1
    BY DEF i, Next1
  <2> QED BY <1>2, <1>5, <2>3, <2>4, <2>5, <2>6, Progress DEF v
<1> QED BY <1>1, <1>2, <1>6, <1>8, <1>9, SymbolReadIs

(* reload() leaves what was got and what is next.                                      *)
LEMMA ReloadStep ==
  ASSUME NEW o, NEW m, NEW in, NEW D, NEW h, Has(o, m, in, D, h), NEW r, ReaderOK(o, m, in, D, h, r), ~r.threw,
         o \notin {"JPEG", "RevMSB"}, NEW s, s = Reloaded(o, in, r)
  PROVE  ReaderOK(o, m, in, D, h, s)
<1>1. r \in Readers /\ Reading(o, in, D, r) /\ InputOK(o, in, D) /\ r.used \in Nat
  BY DEF ReaderOK, Readers, Has
<1>2. WentOn(o, in, D, r, 0, s)
  BY <1>1, ReloadIs
<1>3. s \in Readers /\ s.got = r.got /\ (~s.threw => s.used = r.used) /\ (~s.threw => Reading(o, in, D, s))
      /\ (s.threw => Stopped(o, in, s) /\ D * ByteBits <= s.used)
  BY <1>1, <1>2 DEF WentOn, Going
<1> QED BY <1>3 DEF ReaderOK

(* Fields that are skipped, in the whole chunks of skipManyBits() and the rest, are as
   good as read.                                                                       *)
LEMMA SkipStep ==
  ASSUME NEW o, NEW m, NEW in, NEW D, NEW h, Has(o, m, in, D, h), NEW r, ReaderOK(o, m, in, D, h, r), ~r.threw,
         m.code = NoCode, NEW k \in Next1(r) + 1 .. Len(m.values), NEW w, w = SubSeq(m.values, Next1(r), k),
         NEW f, f = SkipManyBits(o, in, r, Len(Flat(w))), NEW s, s = [f EXCEPT !.got = @ \o w]
  PROVE  ReaderOK(o, m, in, D, h, s)
<1> DEFINE i == Next1(r)
           N == Len(m.values)
           n == Len(Flat(w))
           g == r.got
           q == h.values
           z == g \o w
<1>1. r \in Readers /\ g \in Seq(Gotten) /\ Len(g) \in Nat /\ r.used \in Nat /\ Reading(o, in, D, r) /\ InputOK(o, in, D) /\ MessageOK(o, m)
  BY DEF ReaderOK, Readers, Has
<1>2. m.values \in Seq(BitStrings) /\ N \in Nat /\ EndsOK(o, m)
  BY <1>1, EndsAre DEF MessageOK
<1>3. i = Len(g) + 1 /\ i \in 1 .. N /\ k \in i .. N /\ k \in Nat
  BY <1>1, <1>2 DEF Next1
<1>15. Len(g) \in Nat /\ k \in Nat /\ Len(g) <= k /\ k <= N /\ Len(g) <= N /\ N \in Nat
  <2> HIDE DEF g, i, N
  <2> QED BY <1>1, <1>2, <1>3
<1>4. w \in Seq(BitStrings) /\ Len(w) = k - Len(g) /\ \A j \in 1 .. k - Len(g) : w[j] = m.values[Len(g) + j]
  <2> DEFINE V == m.values
             T == BitStrings
  <2>1. V \in Seq(T) /\ w = SubSeq(V, Len(g) + 1, k) /\ k <= Len(V) /\ Len(g) <= k /\ Len(g) \in Nat /\ k \in Nat
    BY <1>2, <1>3, <1>15
  <2> HIDE DEF V, T, g
  <2>2. w \in Seq(T) /\ Len(w) = k - Len(g) /\ \A j \in 1 .. k - Len(g) : w[j] = V[Len(g) + j]
    BY SMTT(40), <2>1, BeginningIs
  <2> QED BY <2>2 DEF V, T
<1>5. n = EndOf(o, m, k) - EndOf(o, m, Len(g)) /\ EndOf(o, m, k) \in Nat /\ EndOf(o, m, Len(g)) \in Nat /\ n \in Nat
  <2>1. n = EndOf(o, m, k) - EndOf(o, m, i - 1)
    BY <1>1, <1>3, SkipLength
  <2>2. i - 1 = Len(g)
    BY <1>1, <1>3
  <2>3. k \in 0 .. N /\ Len(g) \in 0 .. N /\ Len(g) <= k
    BY <1>1, <1>2, <1>3
  <2>4. EndOf(o, m, Len(g)) <= EndOf(o, m, k) /\ EndOf(o, m, k) \in Nat /\ EndOf(o, m, Len(g)) \in Nat
    BY <1>1, <1>2, <2>3, EndsAre DEF EndsOK
  <2> QED BY <2>1, <2>2, <2>4
<1>6. WentOn(o, in, D, r, n, f)
  BY <1>1, <1>5, SkipManyIs
<1>7. z \in Seq(Gotten) /\ Len(z) = k /\ \A j \in 1 .. k : z[j] = IF j <= Len(g) THEN g[j] ELSE m.values[j]
  <2>1. w \in Seq(Gotten)
    <3>1. BitStrings \subseteq Gotten
      BY BitStringIs DEF Gotten
    <3> HIDE DEF z, g
    <3> QED BY <1>4, <3>1
  <2> HIDE DEF g, i, N, n
  <2>2. z \in Seq(Gotten) /\ Len(z) = Len(g) + Len(w)
    BY <1>1, <2>1, ConcatIs
  <2>3. Len(z) = k
    BY <1>1, <1>3, <1>4, <2>2
  <2>4. ASSUME NEW j \in 1 .. k PROVE z[j] = IF j <= Len(g) THEN g[j] ELSE m.values[j]
    <3>1. j \in 1 .. Len(g) + Len(w)
      BY <2>2, <2>3
    <3>2. z[j] = IF j <= Len(g) THEN g[j] ELSE w[j - Len(g)]
      BY <1>1, <2>1, <3>1, ConcatItem
    <3>3. ~(j <= Len(g)) => w[j - Len(g)] = m.values[j]
      <4>1. ~(j <= Len(g)) => j - Len(g) \in 1 .. k - Len(g) /\ Len(g) + (j - Len(g)) = j
        BY <1>1, <1>3
      <4> QED BY <1>4, <4>1
    <3> QED BY <3>2, <3>3
  <2> QED BY <2>2, <2>3, <2>4
<1>8. Going(o, in, D, z, s) /\ s.used = f.used /\ (s.threw <=> f.threw)
  <2>1. Going(o, in, D, g, f) /\ f.got = g
    BY <1>6 DEF WentOn, Going
  <2> DEFINE t == [f EXCEPT !.got = z]
  <2>2. s = t
    BY <2>1
  <2> HIDE DEF z, g
  <2>3. z \in Seq(Gotten) /\ Going(o, in, D, g, f)
    BY <1>7, <2>1
  <2>4. Going(o, in, D, z, t) /\ t.used = f.used /\ (t.threw <=> f.threw)
    BY <2>3, GotIs
  <2> HIDE DEF t
  <2> QED BY <2>2, <2>4
<1> HIDE DEF z
<1>9. s \in Readers /\ s.got = z /\ (~s.threw => s.used = r.used + n) /\ (~s.threw => Reading(o, in, D, s))
      /\ (s.threw => Stopped(o, in, s) /\ D * ByteBits <= s.used)
  BY <1>6, <1>8 DEF WentOn, Going
<1>10. q \in 0 .. N
  BY DEF Has
<1>11. ~s.threw /\ Len(g) <= q => s.used = EndOf(o, m, k)
  <2>1. Len(g) <= q => r.used = EndOf(o, m, Len(g))
    BY DEF ReaderOK
  <2> DEFINE a == EndOf(o, m, k)
             b == EndOf(o, m, Len(g))
  <2>2. ~s.threw /\ Len(g) <= q => s.used = b + n
    BY <1>9, <2>1
  <2>3. n = a - b /\ a \in Nat /\ b \in Nat
    BY <1>5
  <2> HIDE DEF a, b, n, g
  <2> QED BY <2>2, <2>3 DEF a
<1>12. ~s.threw /\ Len(s.got) <= q => s.used = EndOf(o, m, Len(s.got))
  <2>1. Len(s.got) = k /\ (k <= q => Len(g) <= q)
    <3>1. Len(s.got) = k
      BY <1>7, <1>9
    <3>2. q \in Nat
      BY <1>10, <1>15
    <3> DEFINE a == Len(g)
    <3>3. a \in Nat /\ k \in Nat /\ a <= k
      BY <1>15
    <3> HIDE DEF a, q
    <3>4. k <= q => a <= q
      BY <3>2, <3>3
    <3> QED BY <3>1, <3>4 DEF a
  <2> QED BY <1>11, <2>1
<1>13. ~s.threw /\ q = N /\ N <= Len(s.got) => EndOf(o, m, N) <= s.used
  <2>1. Len(s.got) = k /\ k <= N /\ Len(g) <= N
    <3>1. Len(s.got) = k
      BY <1>7, <1>9
    <3> HIDE DEF g, N
    <3> QED BY <1>15, <3>1
  <2>2. N <= k => N = k
    <3> HIDE DEF N
    <3> QED BY <1>15
  <2>3. N <= k => EndOf(o, m, N) = EndOf(o, m, k)
    BY <2>2
  <2>4. ~s.threw /\ q = N => s.used = EndOf(o, m, k)
    BY <1>11, <2>1
  <2> DEFINE e == EndOf(o, m, k)
             x == EndOf(o, m, N)
             y == Len(s.got)
  <2>5. e \in Nat /\ (N <= k => x = e) /\ (~s.threw /\ q = N => s.used = e) /\ y = k
    BY <1>5, <2>1, <2>3, <2>4
  <2> HIDE DEF N, q, e, x, y
  <2>6. ~s.threw /\ q = N /\ N <= y => x <= s.used
    BY <2>5
  <2> QED BY <2>6 DEF x, y
<1>14. ASSUME NEW j \in 1 .. Len(s.got), j <= q PROVE s.got[j] = m.values[j]
  <2>1. j \in 1 .. k /\ s.got[j] = IF j <= Len(g) THEN g[j] ELSE m.values[j]
    BY <1>7, <1>9
  <2>2. CASE j <= Len(g)
    <3>1. j \in 1 .. Len(g)
      BY <1>1, <2>1, <2>2
    <3> QED BY <1>14, <2>1, <2>2, <3>1 DEF ReaderOK
  <2> QED BY <2>1, <2>2
<1> QED BY <1>9, <1>12, <1>13, <1>14 DEF ReaderOK

(* Two inputs with the same data, up to byte N.                                       *)
SameData(o, in, jn, N) == \A d \in Nat : d < N => DataAt(o, in, d) = DataAt(o, jn, d)

Holds(o, in, N, s) == \A k \in Nat : k < N * ByteBits => TapeBit(o, in, k) = s[k + 1]

(* A bit of N bytes is in one of them.                                                 *)
LEMMA ByteOfBit ==
  ASSUME NEW k \in Nat, NEW N \in Nat, k < N * ByteBits
  PROVE  k \div ByteBits \in Nat /\ k \div ByteBits < N
<1> DEFINE b == ByteBits
           d == k \div b
<1>1. b \in Nat \ {0}
  BY Sizes
<1>2. d \in Nat /\ k % b \in 0 .. b - 1 /\ k = d * b + (k % b)
  BY <1>1, DivMod
<1>3. d * b \in Nat
  <2> HIDE DEF d
  <2> QED BY <1>1, <1>2, TimesNat
<1>4. N <= d => N * b <= d * b /\ N * b \in Nat
  <2> HIDE DEF d
  <2> QED BY <1>1, <1>2, TimesGrow
<1> DEFINE x == d * b
           y == N * b
           r == k % b
<1>5. x \in Nat /\ r \in 0 .. b - 1 /\ k = x + r /\ (N <= d => y <= x /\ y \in Nat) /\ k < y
  BY <1>2, <1>3, <1>4
<1> HIDE DEF x, y, r
<1>6. ~(N <= d)
  BY <1>1, <1>5
<1> HIDE DEF d
<1>7. d < N
  BY <1>2, <1>6
<1> QED BY <1>2, <1>7 DEF d

(* The same data have the same bits.                                                   *)
LEMMA TapeSame ==
  ASSUME NEW o, NEW in, NEW jn, NEW N \in Nat, SameData(o, in, jn, N), NEW s, Holds(o, in, N, s)
  PROVE  Holds(o, jn, N, s)
<1>1. ASSUME NEW k \in Nat, k < N * ByteBits PROVE TapeBit(o, jn, k) = s[k + 1]
  <2>1. DataAt(o, in, k \div ByteBits) = DataAt(o, jn, k \div ByteBits)
    BY <1>1, ByteOfBit DEF SameData
  <2>2. TapeBit(o, in, k) = TapeBit(o, jn, k)
    BY <2>1 DEF TapeBit
  <2> QED BY <1>1, <2>2 DEF Holds
<1> QED BY <1>1 DEF Holds

(* Inputs with the same first bytes have the same data, in another order than JPEG's.  *)
LEMMA PlainSame ==
  ASSUME NEW o \in Orders \ {"JPEG"}, NEW in, NEW jn, NEW N \in Nat, N % Step(o) = 0,
         Len(in) \in Nat, Len(jn) \in Nat, N <= Len(in), N <= Len(jn),
         \A i \in 0 .. N - 1 : At(in, i) = At(jn, i)
  PROVE  SameData(o, in, jn, N)
<1> SUFFICES ASSUME NEW d \in Nat, d < N PROVE DataAt(o, in, d) = DataAt(o, jn, d)
  BY DEF SameData
<1>1. d \in 0 .. N - 1
  OBVIOUS
<1>2. CASE o = "MSB32"
  <2> DEFINE i == 4 * (d \div 4) + (3 - (d % 4))
  <2>1. i \in 0 .. N - 1
    <3>1. N % 4 = 0
      BY <1>2 DEF Step, MinLoadStep
    <3> QED BY <3>1
  <2>2. DataAt(o, in, d) = At(in, i) /\ DataAt(o, jn, d) = At(jn, i)
    BY <1>2 DEF DataAt
  <2> HIDE DEF i
  <2> QED BY <2>1, <2>2
<1>3. CASE o = "MSB16"
  <2> DEFINE i == 2 * (d \div 2) + (1 - (d % 2))
  <2>1. i \in 0 .. N - 1
    <3>1. N % 2 = 0
      BY <1>3 DEF Step, MinLoadStep
    <3> QED BY <3>1
  <2>2. DataAt(o, in, d) = At(in, i) /\ DataAt(o, jn, d) = At(jn, i)
    BY <1>3 DEF DataAt
  <2> HIDE DEF i
  <2> QED BY <2>1, <2>2
<1>4. CASE o = "RevMSB"
  <2> DEFINE i == 4 * (d \div 4) + 4
  <2>1. i <= N /\ i \in Nat
    <3>1. N % 4 = 0
      BY <1>4 DEF Step
    <3> QED BY <3>1
  <2>2. DataAt(o, in, d) = (IF i <= Len(in) THEN Reversed(At(in, d)) ELSE At(in, d))
        /\ DataAt(o, jn, d) = (IF i <= Len(jn) THEN Reversed(At(jn, d)) ELSE At(jn, d))
    BY <1>4 DEF DataAt
  <2> HIDE DEF i
  <2>3. i <= Len(in) /\ i <= Len(jn)
    BY <2>1
  <2> QED BY <1>1, <2>2, <2>3
<1>5. CASE o \notin {"JPEG", "MSB32", "MSB16", "RevMSB"}
  <2>1. DataAt(o, in, d) = At(in, d) /\ DataAt(o, jn, d) = At(jn, d)
    BY <1>5 DEF DataAt
  <2> QED BY <1>1, <2>1
<1> QED BY <1>2, <1>3, <1>4, <1>5

(* And so they have in a JPEG's.                                                       *)
LEMMA JpegSame ==
  ASSUME NEW in, NEW jn, NEW p \in Nat, \A i \in 0 .. p - 1 : At(in, i) = At(jn, i), NEW N \in Nat,
         N > 0 => Place("JPEG", in, N - 1) < p
  PROVE  SameData("JPEG", in, jn, N) /\ Place("JPEG", jn, N) = Place("JPEG", in, N)
<1>1. \A k \in 0 .. N : Place("JPEG", in, k) = Place("JPEG", jn, k)
  BY SamePlaces
<1>2. ASSUME NEW d \in Nat, d < N PROVE DataAt("JPEG", in, d) = DataAt("JPEG", jn, d)
  <2> DEFINE q == Place("JPEG", in, d)
  <2>1. q = Place("JPEG", jn, d)
    BY <1>1, <1>2
  <2>2. q \in Nat /\ q < p
    <3>1. N - 1 \in Nat /\ d <= N - 1
      BY <1>2
    <3>2. q + ((N - 1) - d) <= Place("JPEG", in, N - 1) /\ q \in Nat /\ Place("JPEG", in, N - 1) \in Nat
      BY <3>1, PlaceGrows
    <3>3. Place("JPEG", in, N - 1) < p
      BY <1>2
    <3> HIDE DEF q
    <3> QED BY <1>2, <3>1, <3>2, <3>3
  <2>3. q = Places(in)[d] /\ q = Places(jn)[d]
    BY <2>1, PlaceSteps
  <2> HIDE DEF q
  <2>4. At(in, q) = At(jn, q)
    BY <2>2
  <2> QED BY <2>3, <2>4 DEF DataAt
<1>3. N \in 0 .. N
  OBVIOUS
<1> QED BY <1>1, <1>2, <1>3 DEF SameData

(* Behind every FF of a JPEG scan there is a 0.                                       *)
Stuffed(out) == \A i \in Nat : i < Len(out) /\ At(out, i) = FF => i + 1 < Len(out) /\ At(out, i + 1) = 0

(* The bytes of N data bytes.                                                         *)
OutOK(o, out, N) ==
  /\ out \in Seq(Byte) /\ N \in Nat
  /\ o = "JPEG" => Place(o, out, N) = Len(out) /\ Stuffed(out)
  /\ o # "JPEG" => N = Len(out) /\ N % 4 = 0

Emit(o, bytes) ==
  IF o = "JPEG" THEN Flat([i \in 1 .. 4 |-> Stuff(bytes[i])])
  ELSE IF o = "RevMSB" THEN [i \in 1 .. 4 |-> Reversed(bytes[i])]
  ELSE Chunk(o, bytes)

(* What a chunk makes of the bytes that are there.                                     *)
EmitOK(o, out, N, bytes, new) ==
  /\ OutOK(o, new, N + 4) /\ SameData(o, out, new, N)
  /\ \A i \in 1 .. 4 : DataAt(o, new, N + (i - 1)) = bytes[i]

(* Four bytes are a sequence.                                                          *)
LEMMA FourIs ==
  ASSUME NEW T, NEW f \in [1 .. 4 -> T]
  PROVE  f \in Seq(T) /\ Len(f) = 4
<1> DEFINE g == [i \in 1 .. 4 |-> f[i]]
<1>1. f = g /\ \A i \in 1 .. 4 : f[i] \in T
  OBVIOUS
<1>2. g \in Seq(T) /\ Len(g) = 4
  BY <1>1
<1> HIDE DEF g
<1> QED BY <1>1, <1>2

(* drainImpl() of the other orders: the four bytes are the next four of the data.      *)
LEMMA PlainEmit ==
  ASSUME NEW o \in Orders \ {"JPEG"}, NEW out, NEW N, OutOK(o, out, N), NEW bytes \in [1 .. 4 -> Byte]
  PROVE  EmitOK(o, out, N, bytes, out \o Emit(o, bytes))
<1> DEFINE X == Emit(o, bytes)
           w == out \o X
<1>1. out \in Seq(Byte) /\ N \in Nat /\ N = Len(out) /\ N % 4 = 0
  BY DEF OutOK
<1>2. bytes \in Seq(Byte) /\ Len(bytes) = 4
  BY FourIs
<1>3. /\ X \in Seq(Byte) /\ Len(X) = 4
      /\ o = "RevMSB" => \A i \in 1 .. 4 : X[i] = Reversed(bytes[i])
      /\ o = "MSB32" => \A i \in 1 .. 4 : X[i] = bytes[4 - i + 1]
      /\ o = "MSB16" => \A i \in 1 .. 4 : X[i] = bytes[IF i % 2 = 1 THEN i + 1 ELSE i - 1]
      /\ o \notin {"RevMSB", "MSB32", "MSB16"} => X = bytes
  <2>1. CASE o = "RevMSB"
    <3>1. X = [i \in 1 .. 4 |-> Reversed(bytes[i])]
      BY <2>1 DEF Emit
    <3>2. \A i \in 1 .. 4 : Reversed(bytes[i]) \in Byte
      BY ReversedTwice
    <3> HIDE DEF X
    <3>3. X \in [1 .. 4 -> Byte]
      BY <3>1, <3>2
    <3>4. \A i \in 1 .. 4 : X[i] = Reversed(bytes[i])
      BY <3>1
    <3> QED BY <2>1, <3>3, <3>4, FourIs
  <2>2. CASE o = "MSB32"
    <3>1. X = Reverse(bytes)
      BY <2>2 DEF Emit, Chunk
    <3> QED BY ZenonT(60), <1>2, <2>2, <3>1, Turned
  <2>3. CASE o = "MSB16"
    <3>1. X = [i \in 1 .. 4 |-> bytes[IF i % 2 = 1 THEN i + 1 ELSE i - 1]]
      BY <2>3 DEF Emit, Chunk
    <3>2. \A i \in 1 .. 4 : (IF i % 2 = 1 THEN i + 1 ELSE i - 1) \in 1 .. 4
      OBVIOUS
    <3> HIDE DEF X
    <3>3. \A i \in 1 .. 4 : X[i] = bytes[IF i % 2 = 1 THEN i + 1 ELSE i - 1]
      BY <3>1
    <3>4. X \in [1 .. 4 -> Byte]
      BY <3>1, <3>2
    <3> QED BY <2>3, <3>3, <3>4, FourIs
  <2>4. CASE o \notin {"RevMSB", "MSB32", "MSB16"}
    <3>1. X = bytes
      BY <2>4 DEF Emit, Chunk
    <3> QED BY <1>2, <2>4, <3>1
  <2> QED BY <2>1, <2>2, <2>3, <2>4
<1> HIDE DEF X
<1>4. /\ w \in Seq(Byte) /\ Len(w) = N + 4 /\ (\A i \in 1 .. N : w[i] = out[i]) /\ \A i \in 1 .. 4 : w[N + i] = X[i]
  <2>1. X \in Seq(Byte) /\ Len(X) = 4
    BY <1>3
  <2>2. w \in Seq(Byte) /\ Len(w) = Len(out) + 4 /\ (\A i \in 1 .. Len(out) : w[i] = out[i]) /\ \A i \in 1 .. 4 : w[Len(out) + i] = X[i]
    <3> DEFINE T == Byte
    <3>1. out \in Seq(T) /\ X \in Seq(T)
      BY <1>1, <2>1
    <3>2. w \in Seq(T) /\ Len(w) = Len(out) + Len(X)
          /\ (\A i \in 1 .. Len(out) : w[i] = out[i]) /\ \A i \in 1 .. Len(X) : w[Len(out) + i] = X[i]
      <4> HIDE DEF T
      <4> QED BY <3>1, ConcatIs
    <3> HIDE DEF w
    <3> QED BY <2>1, <3>2
  <2> HIDE DEF w
  <2> QED BY <1>1, <2>2
<1> HIDE DEF w
<1>5. OutOK(o, w, N + 4)
  BY <1>1, <1>4 DEF OutOK
<1>6. \A i \in 0 .. N - 1 : At(out, i) = At(w, i)
  BY <1>1, <1>4 DEF At
<1>7. \A i \in 0 .. 3 : At(w, N + i) = X[i + 1]
  <2> SUFFICES ASSUME NEW i \in 0 .. 3 PROVE At(w, N + i) = X[i + 1]
    OBVIOUS
  <2>1. N + i < Len(w) /\ (N + i) + 1 = N + (i + 1) /\ i + 1 \in 1 .. 4
    BY <1>1, <1>4
  <2>2. At(w, N + i) = w[N + (i + 1)]
    BY <2>1 DEF At
  <2> QED BY <1>4, <2>1, <2>2
<1>8. SameData(o, out, w, N)
  <2>1. N % Step(o) = 0
    <3>1. Step(o) \in {1, 2, 4}
      BY DEF Step, MinLoadStep
    <3> QED BY <1>1, <3>1
  <2> QED BY SMTT(40), <1>1, <1>4, <1>6, <2>1, PlainSame
<1>9. ASSUME NEW i \in 1 .. 4 PROVE DataAt(o, w, N + (i - 1)) = bytes[i]
  <2> DEFINE d == N + (i - 1)
  <2>1. CASE o = "MSB32"
    <3>1. 4 * (d \div 4) + (3 - (d % 4)) = N + (4 - i) /\ 4 - i \in 0 .. 3 /\ (4 - i) + 1 \in 1 .. 4 /\ 4 - ((4 - i) + 1) + 1 = i
      BY SMTT(40), <1>1
    <3>2. DataAt(o, w, d) = At(w, N + (4 - i))
      BY <2>1, <3>1 DEF DataAt
    <3> DEFINE k == 4 - i
    <3>3. DataAt(o, w, d) = At(w, N + k) /\ k \in 0 .. 3 /\ k + 1 \in 1 .. 4 /\ 4 - (k + 1) + 1 = i
      BY <3>1, <3>2
    <3> HIDE DEF k, d
    <3>4. At(w, N + k) = X[k + 1]
      BY <1>7, <3>3
    <3>5. \A j \in 1 .. 4 : X[j] = bytes[4 - j + 1]
      BY <1>3, <2>1
    <3>6. X[k + 1] = bytes[4 - (k + 1) + 1]
      BY <3>3, <3>5
    <3>7. 4 - (k + 1) + 1 = i /\ DataAt(o, w, d) = At(w, N + k)
      BY <3>3
    <3>8. DataAt(o, w, d) = bytes[i]
      BY <3>4, <3>6, <3>7, Zenon
    <3> QED BY <3>8 DEF d
  <2>2. CASE o = "MSB16"
    <3>1. N % 2 = 0 /\ d \in Nat
      BY <1>1
    <3>2. \E k \in 0 .. 3 : /\ 2 * (d \div 2) + (1 - (d % 2)) = N + k
                            /\ (IF (k + 1) % 2 = 1 THEN (k + 1) + 1 ELSE (k + 1) - 1) = i
      <4>1. CASE i = 1
        <5>1. d = N
          BY <4>1, <1>1
        <5>2. 2 * (d \div 2) + (1 - (d % 2)) = N + 1
          BY SMTT(40), <5>1, <3>1, <1>1
        <5> QED BY <4>1, <5>2
      <4>2. CASE i = 2
        <5>1. d = N + 1
          BY <4>2, <1>1
        <5>2. 2 * (d \div 2) + (1 - (d % 2)) = N + 0
          BY <5>1, <3>1, <1>1
        <5> QED BY <4>2, <5>2
      <4>3. CASE i = 3
        <5>1. d = N + 2
          BY <4>3, <1>1
        <5>2. 2 * (d \div 2) + (1 - (d % 2)) = N + 3
          BY <5>1, <3>1, <1>1
        <5> QED BY <4>3, <5>2
      <4>4. CASE i = 4
        <5>1. d = N + 3
          BY <4>4, <1>1
        <5>2. 2 * (d \div 2) + (1 - (d % 2)) = N + 2
          BY <5>1, <3>1, <1>1
        <5> QED BY <4>4, <5>2
      <4> QED BY <4>1, <4>2, <4>3, <4>4
    <3>3. PICK k \in 0 .. 3 : /\ 2 * (d \div 2) + (1 - (d % 2)) = N + k
                              /\ (IF (k + 1) % 2 = 1 THEN (k + 1) + 1 ELSE (k + 1) - 1) = i
      BY <3>2
    <3>4. DataAt(o, w, d) = At(w, N + k)
      BY <2>2, <3>3 DEF DataAt
    <3>5. k + 1 \in 1 .. 4
      OBVIOUS
    <3>6. X[k + 1] = bytes[i]
      BY <1>3, <2>2, <3>3, <3>5
    <3> QED BY <1>7, <3>4, <3>6
  <2>3. CASE o = "RevMSB"
    <3>1. 4 * (d \div 4) + 4 = N + 4 /\ i - 1 \in 0 .. 3 /\ (i - 1) + 1 = i
      BY <1>1
    <3>2. DataAt(o, w, d) = Reversed(At(w, d))
      BY <1>1, <1>4, <2>3, <3>1 DEF DataAt
    <3>3. At(w, d) = Reversed(bytes[i])
      BY <1>3, <1>7, <2>3, <3>1
    <3> QED BY <3>2, <3>3, ReversedTwice
  <2>4. CASE o \notin {"RevMSB", "MSB32", "MSB16"}
    <3>1. DataAt(o, w, d) = At(w, d)
      BY <2>4 DEF DataAt
    <3>2. i - 1 \in 0 .. 3 /\ (i - 1) + 1 = i
      OBVIOUS
    <3> QED BY <1>3, <1>7, <2>4, <3>1, <3>2
  <2> QED BY <2>1, <2>2, <2>3, <2>4
<1> QED BY <1>5, <1>8, <1>9 DEF EmitOK, w, X

(* A byte of a JPEG scan, with what is stuffed behind it.                             *)
LEMMA StuffIs ==
  ASSUME NEW b \in Byte
  PROVE  /\ Stuff(b) \in Seq(Byte) /\ Len(Stuff(b)) = (IF b = FF THEN 2 ELSE 1)
         /\ Stuff(b)[1] = b /\ (b = FF => Stuff(b)[2] = 0)
<1> DEFINE T == Byte
<1>1. FF \in T /\ 0 \in T /\ b \in T
  BY BytesAre
<1> HIDE DEF T
<1>2. CASE b = FF
  <2>1. Stuff(b) = << FF, 0 >>
    BY <1>2 DEF Stuff
  <2>2. << FF, 0 >> \in Seq(T)
    BY <1>1
  <2> QED BY <1>2, <2>1, <2>2 DEF T
<1>3. CASE b # FF
  <2>1. Stuff(b) = << b >>
    BY <1>3 DEF Stuff
  <2>2. << b >> \in Seq(T)
    BY <1>1
  <2> QED BY <1>3, <2>1, <2>2 DEF T
<1> QED BY <1>2, <1>3

(* A byte and its stuffing are the next byte of the data.                              *)
LEMMA StuffOne ==
  ASSUME NEW out, NEW N, OutOK("JPEG", out, N), NEW b \in Byte
  PROVE  /\ OutOK("JPEG", out \o Stuff(b), N + 1) /\ SameData("JPEG", out, out \o Stuff(b), N)
         /\ DataAt("JPEG", out \o Stuff(b), N) = b
<1> DEFINE n == Len(out)
           s == Stuff(b)
           w == out \o s
           l == Len(s)
<1>1. out \in Seq(Byte) /\ N \in Nat /\ n \in Nat /\ Place("JPEG", out, N) = n /\ Stuffed(out)
  BY DEF OutOK
<1>2. s \in Seq(Byte) /\ l = (IF b = FF THEN 2 ELSE 1) /\ s[1] = b /\ (b = FF => s[2] = 0)
  BY StuffIs
<1> HIDE DEF s
<1>3. /\ w \in Seq(Byte) /\ Len(w) = n + l /\ (\A i \in 1 .. n : w[i] = out[i])
      /\ \A i \in 1 .. l : w[n + i] = s[i]
  <2> DEFINE T == Byte
  <2>1. out \in Seq(T) /\ s \in Seq(T)
    BY <1>1, <1>2
  <2>2. /\ w \in Seq(T) /\ Len(w) = Len(out) + Len(s) /\ (\A i \in 1 .. Len(out) : w[i] = out[i])
        /\ \A i \in 1 .. Len(s) : w[Len(out) + i] = s[i]
    <3> HIDE DEF T
    <3> QED BY <2>1, ConcatIs
  <2> HIDE DEF w
  <2> QED BY <2>2
<1> HIDE DEF w
<1>4. Len(w) = n + (IF b = FF THEN 2 ELSE 1) /\ w[n + 1] = b /\ (b = FF => w[n + 2] = 0)
  <2>1. 1 \in 1 .. l /\ (b = FF => 2 \in 1 .. l)
    BY <1>2
  <2> QED BY <1>2, <1>3, <2>1
<1> HIDE DEF l
<1>5. At(w, n) = b /\ (b = FF => At(w, n + 1) = 0)
  <2>1. n < Len(w) /\ (b = FF => n + 1 < Len(w)) /\ (n + 1) + 1 = n + 2
    BY <1>1, <1>4
  <2> QED BY <1>1, <1>4, <2>1 DEF At
<1>6. \A i \in 0 .. n - 1 : At(out, i) = At(w, i)
  BY <1>1, <1>3, <1>4 DEF At
<1> HIDE DEF n
<1>7. N > 0 => Place("JPEG", out, N - 1) < n
  <2> SUFFICES ASSUME N > 0 PROVE Place("JPEG", out, N - 1) < n
    OBVIOUS
  <2>1. N - 1 \in Nat /\ (N - 1) + 1 = N
    BY <1>1
  <2> DEFINE x == Place("JPEG", out, N - 1)
  <2>2. x \in Nat /\ n \in {x + 1, x + 2}
    BY <1>1, <2>1, PlaceSteps
  <2> HIDE DEF x
  <2>3. x < n
    BY <2>2
  <2> QED BY <2>3 DEF x
<1>8. SameData("JPEG", out, w, N) /\ Place("JPEG", w, N) = n
  BY ZenonT(60), <1>1, <1>6, <1>7, JpegSame
<1>9. DataAt("JPEG", w, N) = b
  <2>1. Places(w)[N] = n
    BY <1>1, <1>8, PlaceSteps
  <2> QED BY <1>5, <2>1 DEF DataAt
<1>10. Place("JPEG", w, N + 1) = Len(w)
  <2>1. Place("JPEG", w, N + 1) = n + Width(w, n)
    BY <1>1, <1>8, PlaceSteps
  <2> QED BY <1>4, <1>5, <2>1 DEF Width
<1>11. Stuffed(w)
  <2> SUFFICES ASSUME NEW i \in Nat, i < Len(w), At(w, i) = FF
               PROVE  i + 1 < Len(w) /\ At(w, i + 1) = 0
    BY DEF Stuffed
  <2>1. CASE i < n
    <3>1. At(out, i) = FF /\ i < Len(out)
      BY <1>1, <1>6, <2>1 DEF n
    <3>2. i + 1 < n /\ At(out, i + 1) = 0
      BY <1>1, <3>1 DEF Stuffed, n
    <3> QED BY <1>1, <1>4, <1>6, <3>2
  <2>2. CASE i = n
    <3>1. b = FF
      BY <1>5, <2>2
    <3> QED BY <1>1, <1>4, <1>5, <2>2, <3>1
  <2>3. CASE i > n
    <3>1. b = FF /\ i = n + 1
      BY <1>1, <1>4, <2>3
    <3>2. 0 = FF
      BY <1>5, <3>1
    <3> QED BY <3>2, BytesAre
  <2> QED BY <1>1, <2>1, <2>2, <2>3
<1>12. OutOK("JPEG", w, N + 1)
  BY <1>1, <1>3, <1>10, <1>11 DEF OutOK
<1> QED BY <1>8, <1>9, <1>12 DEF w, s

(* What two steps keep.                                                                *)
LEMMA SameDataTwice ==
  ASSUME NEW o, NEW a, NEW b, NEW c, NEW N \in Nat, SameData(o, a, b, N), SameData(o, b, c, N + 1)
  PROVE  SameData(o, a, c, N)
<1>1. ASSUME NEW d \in Nat, d < N PROVE DataAt(o, a, d) = DataAt(o, c, d)
  <2>1. d < N + 1
    BY <1>1
  <2> QED BY <1>1, <2>1 DEF SameData
<1> QED BY <1>1 DEF SameData

(* The four bytes of a chunk, one after the other.                                     *)
LEMMA JpegEmit ==
  ASSUME NEW out, NEW N, OutOK("JPEG", out, N), NEW bytes \in [1 .. 4 -> Byte]
  PROVE  EmitOK("JPEG", out, N, bytes, out \o Emit("JPEG", bytes))
<1> DEFINE seqs == [i \in 1 .. 4 |-> Stuff(bytes[i])]
           T == Byte
<1>1. Emit("JPEG", bytes) = Flat(seqs)
  BY DEF Emit
<1>2. \A i \in 1 .. 4 : bytes[i] \in Byte /\ seqs[i] = Stuff(bytes[i]) /\ seqs[i] \in Seq(T)
  BY StuffIs
<1>3. seqs \in Seq(Seq(T)) /\ Len(seqs) = 4
  <2>1. seqs \in [1 .. 4 -> Seq(T)]
    BY <1>2
  <2> HIDE DEF seqs, T
  <2> QED BY <2>1, FourIs
<1>4. out \in Seq(T) /\ N \in Nat
  BY DEF OutOK
<1> HIDE DEF seqs, T
<1>5. PICK F : F \in [0 .. 4 -> Seq(T)] /\ FlattensBy(seqs, 4, F)
  BY ZenonT(60), <1>3, FlatSteps
<1>6. Flat(seqs) = F[4] /\ F[0] = << >> /\ \A i \in 1 .. 4 : F[i] = F[i - 1] \o seqs[i]
  BY <1>3, <1>5 DEF FlattensBy, Flat
<1> DEFINE A(i) == out \o F[i]
<1>7. A(0) = out
  BY <1>4, <1>6, ConcatEmpty
<1>8. ASSUME NEW i \in 1 .. 4 PROVE A(i) = A(i - 1) \o Stuff(bytes[i])
  <2>1. i - 1 \in 0 .. 4
    OBVIOUS
  <2>2. F[i - 1] \in Seq(T) /\ seqs[i] \in Seq(T) /\ F[i] = F[i - 1] \o seqs[i]
    BY <1>2, <1>5, <1>6, <2>1
  <2> DEFINE x == F[i - 1]
             y == seqs[i]
  <2>3. x \in Seq(T) /\ y \in Seq(T) /\ F[i] = x \o y
    BY <2>2
  <2> HIDE DEF x, y
  <2>4. out \o (x \o y) = (out \o x) \o y
    <3>1. out \in Seq(T) /\ x \in Seq(T) /\ y \in Seq(T)
      BY <1>4, <2>3
    <3> HIDE DEF A
    <3> QED BY SMTT(40), <3>1, ConcatThree
  <2>5. A(i) = (out \o x) \o y
    BY <2>3, <2>4
  <2>6. y = Stuff(bytes[i])
    BY <1>2 DEF y
  <2> HIDE DEF A
  <2>7. A(i) = (out \o F[i - 1]) \o Stuff(bytes[i])
    BY <2>5, <2>6 DEF x
  <2> QED BY <2>7 DEF A
<1> HIDE DEF A
<1> DEFINE One(i) == /\ OutOK("JPEG", A(i), N + i) /\ SameData("JPEG", A(i - 1), A(i), N + (i - 1))
                     /\ DataAt("JPEG", A(i), N + (i - 1)) = bytes[i]
<1>9. ASSUME NEW i \in 1 .. 4, OutOK("JPEG", A(i - 1), N + (i - 1)) PROVE One(i)
  <2> DEFINE M == N + (i - 1)
             a == A(i - 1)
             b == bytes[i]
  <2>1. M + 1 = N + i /\ b \in Byte /\ A(i) = a \o Stuff(b) /\ OutOK("JPEG", a, M)
    <3>1. M + 1 = N + i
      BY <1>4
    <3>2. A(i) = a \o Stuff(b)
      BY <1>8, Zenon
    <3>3. OutOK("JPEG", a, M)
      BY <1>9
    <3>4. b \in Byte
      BY <1>2
    <3> QED BY <3>1, <3>2, <3>3, <3>4
  <2> HIDE DEF M, a, b
  <2>2. /\ OutOK("JPEG", a \o Stuff(b), M + 1) /\ SameData("JPEG", a, a \o Stuff(b), M)
        /\ DataAt("JPEG", a \o Stuff(b), M) = b
    BY <2>1, StuffOne
  <2>3. OutOK("JPEG", A(i), N + i) /\ SameData("JPEG", a, A(i), M) /\ DataAt("JPEG", A(i), M) = b
    BY <2>1, <2>2
  <2> QED BY <2>3 DEF M, a, b
<1>10. One(1)
  <2>1. OutOK("JPEG", A(1 - 1), N + (1 - 1))
    BY <1>4, <1>7
  <2>2. 1 \in 1 .. 4
    OBVIOUS
  <2> HIDE DEF One
  <2> QED BY <1>9, <2>1, <2>2
<1>11. One(2)
  <2>1. OutOK("JPEG", A(2 - 1), N + (2 - 1))
    BY <1>10
  <2>2. 2 \in 1 .. 4
    OBVIOUS
  <2> HIDE DEF One
  <2> QED BY <1>9, <2>1, <2>2
<1>12. One(3)
  <2>1. OutOK("JPEG", A(3 - 1), N + (3 - 1))
    BY <1>11
  <2>2. 3 \in 1 .. 4
    OBVIOUS
  <2> HIDE DEF One
  <2> QED BY <1>9, <2>1, <2>2
<1>13. One(4)
  <2>1. OutOK("JPEG", A(4 - 1), N + (4 - 1))
    BY <1>12
  <2>2. 4 \in 1 .. 4
    OBVIOUS
  <2> HIDE DEF One
  <2> QED BY <1>9, <2>1, <2>2
<1>14. /\ SameData("JPEG", A(0), A(1), N) /\ SameData("JPEG", A(1), A(2), N + 1)
       /\ SameData("JPEG", A(2), A(3), N + 2) /\ SameData("JPEG", A(3), A(4), N + 3)
  BY <1>4, <1>10, <1>11, <1>12, <1>13
<1>15. /\ DataAt("JPEG", A(1), N) = bytes[1] /\ DataAt("JPEG", A(2), N + 1) = bytes[2]
       /\ DataAt("JPEG", A(3), N + 2) = bytes[3] /\ DataAt("JPEG", A(4), N + 3) = bytes[4]
       /\ OutOK("JPEG", A(4), N + 4)
  BY <1>4, <1>10, <1>11, <1>12, <1>13
<1> HIDE DEF One
<1>16. SameData("JPEG", A(2), A(4), N + 2)
  BY <1>4, <1>14, SameDataTwice
<1>17. SameData("JPEG", A(1), A(4), N + 1)
  BY <1>4, <1>14, <1>16, SameDataTwice
<1>18. SameData("JPEG", A(0), A(4), N)
  BY <1>4, <1>14, <1>17, SameDataTwice
<1>19. /\ DataAt("JPEG", A(4), N) = bytes[1] /\ DataAt("JPEG", A(4), N + 1) = bytes[2]
       /\ DataAt("JPEG", A(4), N + 2) = bytes[3]
  <2>1. N < N + 1 /\ N + 1 < N + 2 /\ N + 2 < N + 3
    BY <1>4
  <2> QED BY <1>4, <1>14, <1>15, <1>16, <1>17, <2>1 DEF SameData
<1>20. ASSUME NEW i \in 1 .. 4 PROVE DataAt("JPEG", A(4), N + (i - 1)) = bytes[i]
  <2>1. i \in {1, 2, 3, 4}
    OBVIOUS
  <2>2. N + (1 - 1) = N /\ N + (2 - 1) = N + 1 /\ N + (3 - 1) = N + 2 /\ N + (4 - 1) = N + 3
    BY <1>4
  <2> QED BY <1>15, <1>19, <2>1, <2>2
<1>21. EmitOK("JPEG", out, N, bytes, A(4))
  BY <1>7, <1>15, <1>18, <1>20 DEF EmitOK
<1> QED BY <1>1, <1>6, <1>21 DEF A

(* drainImpl() of every order: the data go on with the bytes of the chunk, and what was
   there stays.                                                                        *)
LEMMA EmitIs ==
  ASSUME NEW o \in Orders, NEW out, NEW N, OutOK(o, out, N), NEW bytes \in [1 .. 4 -> Byte]
  PROVE  EmitOK(o, out, N, bytes, out \o Emit(o, bytes))
<1>1. CASE o = "JPEG"
  BY <1>1, JpegEmit
<1>2. CASE o # "JPEG"
  <2>1. o \in Orders \ {"JPEG"}
    BY <1>2
  <2> QED BY <2>1, PlainEmit
<1> QED BY <1>1, <1>2

(* What was put: the bits s, those of N bytes of data are out, the others in the cache.  *)
Writers == [cache : Seq(Bit), out : Seq(Byte)]

Written(o, w, s, N) ==
  /\ w \in Writers /\ s \in Seq(Bit) /\ N \in Nat
  /\ Len(w.cache) < CacheSize /\ N * ByteBits + Len(w.cache) = Len(s)
  /\ \A j \in 1 .. Len(w.cache) : w.cache[j] = s[N * ByteBits + j]
  /\ OutOK(o, w.out, N) /\ Holds(o, w.out, N, s)

(* The bytes of a chunk that is in the cache.                                          *)
ChunkBytes(o, c) == [i \in 1 .. 4 |-> ByteOf(o, SubSeq(c, (i - 1) * ByteBits + 1, i * ByteBits))]

(* Those bytes hold the bits of the cache.                                             *)
LEMMA ChunkBytesAre ==
  ASSUME NEW o, NEW c \in Seq(Bit), MaxGetBits <= Len(c)
  PROVE  /\ ChunkBytes(o, c) \in [1 .. 4 -> Byte]
         /\ \A i \in 1 .. 4 : \A j \in 1 .. ByteBits : BitsOfByte(o, ChunkBytes(o, c)[i])[j] = c[(i - 1) * ByteBits + j]
<1> DEFINE b == ByteBits
           Piece(i) == SubSeq(c, (i - 1) * b + 1, i * b)
<1>1. b \in Nat \ {0} /\ 4 * b <= Len(c)
  BY Sizes
<1>2. ASSUME NEW i \in 1 .. 4
      PROVE  Piece(i) \in Seq(Bit) /\ Len(Piece(i)) = b /\ \A j \in 1 .. b : Piece(i)[j] = c[(i - 1) * b + j]
  <2> DEFINE x == (i - 1) * b
             y == i * b
  <2>1. i - 1 \in Nat /\ i - 1 < 4 /\ y = x + b /\ x \in Nat /\ y \in Nat /\ y <= 4 * b
    <3>1. i \in {1, 2, 3, 4}
      OBVIOUS
    <3> QED BY <1>1, <3>1
  <2> HIDE DEF x, y
  <2>2. x \in Nat /\ y \in Nat /\ y <= Len(c) /\ x <= y /\ y - x = b
    BY <1>1, <2>1
  <2>3. SubSeq(c, x + 1, y) \in Seq(Bit) /\ Len(SubSeq(c, x + 1, y)) = b /\ \A j \in 1 .. b : SubSeq(c, x + 1, y)[j] = c[x + j]
    BY <2>2, BeginningIs
  <2> QED BY <2>3 DEF x, y
<1> DEFINE f == ChunkBytes(o, c)
<1>3. f = [i \in 1 .. 4 |-> ByteOf(o, Piece(i))]
  BY DEF ChunkBytes
<1> HIDE DEF Piece, f
<1>4. ASSUME NEW i \in 1 .. 4 PROVE f[i] = ByteOf(o, Piece(i)) /\ f[i] \in Byte /\ BitsOfByte(o, f[i]) = Piece(i)
  <2>1. ByteOf(o, Piece(i)) \in Byte /\ BitsOfByte(o, ByteOf(o, Piece(i))) = Piece(i)
    BY <1>2, ByteIsRead
  <2> QED BY <1>3, <2>1
<1>5. f \in [1 .. 4 -> Byte]
  BY <1>3, <1>4
<1>6. \A i \in 1 .. 4 : \A j \in 1 .. b : BitsOfByte(o, f[i])[j] = c[(i - 1) * b + j]
  BY <1>2, <1>4
<1> QED BY <1>5, <1>6 DEF f

(* With them what is out holds the first bits of all that was put.                     *)
LEMMA ChunkHeld ==
  ASSUME NEW o, NEW w, NEW s, NEW N, Written(o, w, s, N), MaxGetBits <= Len(w.cache),
         NEW new, EmitOK(o, w.out, N, ChunkBytes(o, w.cache), new)
  PROVE  Holds(o, new, N + 4, s)
<1> DEFINE b == ByteBits
           c == w.cache
<1>1. b \in Nat \ {0} /\ N \in Nat /\ c \in Seq(Bit) /\ 4 * b <= Len(c)
  BY Sizes DEF Written, Writers
<1>2. \A j \in 1 .. Len(c) : c[j] = s[N * b + j]
  BY DEF Written
<1>3. Holds(o, new, N, s)
  <2>1. SameData(o, w.out, new, N) /\ Holds(o, w.out, N, s)
    BY DEF EmitOK, Written
  <2> QED BY <1>1, <2>1, TapeSame
<1> SUFFICES ASSUME NEW k \in Nat, k < (N + 4) * b PROVE TapeBit(o, new, k) = s[k + 1]
  BY DEF Holds
<1>4. CASE k < N * b
  BY <1>3, <1>4 DEF Holds
<1>5. CASE ~(k < N * b)
  <2> DEFINE d == k \div b
             e == k % b
             i == (d - N) + 1
  <2>1. d \in Nat /\ e \in 0 .. b - 1 /\ k = d * b + e
    BY <1>1, DivMod
  <2>2. d < N + 4
    <3>1. N + 4 \in Nat
      BY <1>1
    <3> QED BY <3>1, ByteOfBit
  <2>3. N <= d
    <3> DEFINE y == (d + 1) * b
    <3>1. d + 1 <= N => y <= N * b
      <4>1. d + 1 \in Nat
        BY <2>1
      <4> HIDE DEF d
      <4> QED BY <1>1, <4>1, TimesGrow
    <3>2. y = d * b + b
      <4> HIDE DEF d
      <4> QED BY <1>1, <2>1
    <3>3. d * b \in Nat /\ N * b \in Nat
      <4> HIDE DEF d
      <4> QED BY <1>1, <2>1, TimesNat
    <3> DEFINE x == d * b
               z == N * b
    <3>4. x \in Nat /\ z \in Nat /\ k = x + e /\ e \in 0 .. b - 1 /\ y = x + b /\ ~(k < z) /\ (d + 1 <= N => y <= z)
      BY <1>5, <2>1, <3>1, <3>2, <3>3
    <3> HIDE DEF x, z, y, e
    <3>5. ~(d + 1 <= N)
      BY <1>1, <3>4
    <3> HIDE DEF d
    <3> QED BY <1>1, <2>1, <3>5
  <2> HIDE DEF d, e
  <2>4. i \in 1 .. 4 /\ d = N + (i - 1)
    BY <1>1, <2>1, <2>2, <2>3
  <2>5. DataAt(o, new, d) = ChunkBytes(o, c)[i]
    <3> HIDE DEF i
    <3> QED BY <2>4 DEF EmitOK
  <2>6. e + 1 \in 1 .. b
    BY <1>1, <2>1
  <2>7. TapeBit(o, new, k) = BitsOfByte(o, ChunkBytes(o, c)[i])[e + 1]
    BY <2>5 DEF TapeBit, d, e
  <2>8. BitsOfByte(o, ChunkBytes(o, c)[i])[e + 1] = c[(i - 1) * b + (e + 1)]
    <3> HIDE DEF i, c, b
    <3>1. MaxGetBits <= Len(c) /\ b = ByteBits
      BY Sizes DEF c, b
    <3>2. \A k1 \in 1 .. 4 : \A j \in 1 .. b : BitsOfByte(o, ChunkBytes(o, c)[k1])[j] = c[(k1 - 1) * b + j]
      <4>1. c \in Seq(Bit)
        BY <1>1
      <4> HIDE DEF b
      <4>2. \A k1 \in 1 .. 4 : \A j \in 1 .. ByteBits : BitsOfByte(o, ChunkBytes(o, c)[k1])[j] = c[(k1 - 1) * ByteBits + j]
        BY <3>1, <4>1, ChunkBytesAre, Zenon
      <4> QED BY <4>2 DEF b
    <3>3. i \in 1 .. 4 /\ e + 1 \in 1 .. b
      BY <2>4, <2>6
    <3> QED BY <3>2, <3>3, Zenon
  <2>9. /\ (i - 1) * b + (e + 1) \in 1 .. Len(c)
        /\ N * b + ((i - 1) * b + (e + 1)) = k + 1
    <3> DEFINE x == (i - 1) * b
               z == N * b
               y == d * b
    <3>1. y = z + x
      <4> HIDE DEF d
      <4>1. i - 1 \in Int /\ d = N + (i - 1)
        BY <2>4
      <4> QED BY <1>1, <4>1
    <3>2. x \in Nat /\ x + b <= 4 * b
      <4>1. i \in {1, 2, 3, 4}
        BY <2>4
      <4> HIDE DEF i
      <4> QED BY <1>1, <4>1
    <3>3. z \in Nat /\ y \in Nat
      BY <1>1, <2>1, TimesNat
    <3>4. k = y + e
      BY <2>1
    <3> HIDE DEF x, y, z
    <3>5. x + (e + 1) \in 1 .. Len(c) /\ z + (x + (e + 1)) = k + 1
      BY <1>1, <2>1, <3>1, <3>2, <3>3, <3>4
    <3> QED BY <3>5 DEF x, z
  <2> DEFINE p == (i - 1) * b + (e + 1)
  <2>10. p \in 1 .. Len(c) /\ N * b + p = k + 1 /\ TapeBit(o, new, k) = c[p]
    BY <2>7, <2>8, <2>9
  <2> HIDE DEF p, c
  <2> QED BY <1>2, <2>10
<1> QED BY <1>4, <1>5

(* drain() keeps what was put, and has room for a put.                                 *)
LEMMA DrainIs ==
  ASSUME NEW o \in Orders, NEW w, NEW s, NEW N, Written(o, w, s, N)
  PROVE  /\ \E M : Written(o, Drained(o, w), s, M)
         /\ Len(Drained(o, w).cache) = IF Len(w.cache) < MaxGetBits THEN Len(w.cache) ELSE Len(w.cache) - MaxGetBits
<1> DEFINE b == ByteBits
           c == w.cache
           bytes == ChunkBytes(o, c)
           out == w.out \o Emit(o, bytes)
           dropped == Drop(c, MaxGetBits)
<1>1. /\ b \in Nat \ {0} /\ N \in Nat /\ c \in Seq(Bit) /\ w.out \in Seq(Byte) /\ MaxGetBits = 4 * b /\ CacheSize = 8 * b
      /\ Len(c) < CacheSize /\ s \in Seq(Bit) /\ N * b + Len(c) = Len(s) /\ \A j \in 1 .. Len(c) : c[j] = s[N * b + j]
  BY Sizes DEF Written, Writers
<1>2. CASE Len(c) < MaxGetBits
  BY <1>2 DEF Drained
<1>3. CASE ~(Len(c) < MaxGetBits)
  <2>1. Drained(o, w) = [cache |-> dropped, out |-> out]
    BY <1>3 DEF Drained, Emit, ChunkBytes
  <2>2. MaxGetBits <= Len(c) /\ MaxGetBits \in Nat
    BY <1>1, <1>3
  <2>3. EmitOK(o, w.out, N, bytes, out)
    <3>1. bytes \in [1 .. 4 -> Byte]
      BY <1>1, <2>2, ChunkBytesAre
    <3>2. OutOK(o, w.out, N)
      BY DEF Written
    <3> HIDE DEF bytes
    <3> QED BY <3>1, <3>2, EmitIs
  <2> HIDE DEF out
  <2>4. Holds(o, out, N + 4, s)
    BY <2>2, <2>3, ChunkHeld
  <2>5. OutOK(o, out, N + 4) /\ out \in Seq(Byte)
    BY <2>3 DEF EmitOK, OutOK
  <2>6. dropped \in Seq(Bit) /\ Len(dropped) = Len(c) - MaxGetBits /\ \A j \in 1 .. Len(c) - MaxGetBits : dropped[j] = c[MaxGetBits + j]
    <3> HIDE DEF c
    <3> DEFINE n == Len(c)
               m == MaxGetBits
    <3>1. n <= Len(c) /\ n \in Nat /\ m \in Nat /\ m <= n /\ c \in Seq(Bit)
      BY <1>1, <2>2
    <3>2. dropped = SubSeq(c, m + 1, n)
      BY DEF Drop
    <3> HIDE DEF n, m, dropped
    <3>3. /\ SubSeq(c, m + 1, n) \in Seq(Bit) /\ Len(SubSeq(c, m + 1, n)) = n - m
          /\ \A j \in 1 .. n - m : SubSeq(c, m + 1, n)[j] = c[m + j]
      BY <3>1, BeginningIs
    <3>4. dropped \in Seq(Bit) /\ Len(dropped) = n - m /\ \A j \in 1 .. n - m : dropped[j] = c[m + j]
      BY <3>2, <3>3
    <3> QED BY <3>4 DEF n, m
  <2> HIDE DEF dropped, c
  <2>7. /\ Len(dropped) < CacheSize /\ (N + 4) * b + Len(dropped) = Len(s)
        /\ \A j \in 1 .. Len(dropped) : dropped[j] = s[(N + 4) * b + j]
    <3> DEFINE x == N * b
               y == (N + 4) * b
    <3>1. x \in Nat /\ y = x + 4 * b
      BY <1>1
    <3>2. x + Len(c) = Len(s) /\ \A j \in 1 .. Len(c) : c[j] = s[x + j]
      BY <1>1
    <3> DEFINE l == Len(dropped)
               n == Len(c)
    <3>21. l = n - 4 * b /\ n \in Nat /\ n < 8 * b /\ CacheSize = 8 * b /\ x + n = Len(s) /\ 4 * b <= n /\ b \in Nat
      BY <1>1, <2>2, <2>6, <3>2
    <3> HIDE DEF x, y, l, n
    <3>3. Len(dropped) < CacheSize /\ y + Len(dropped) = Len(s)
      <4>1. l < CacheSize /\ y + l = Len(s)
        BY <3>1, <3>21
      <4> QED BY <4>1 DEF l
    <3>4. ASSUME NEW j \in 1 .. Len(dropped) PROVE dropped[j] = s[y + j]
      <4>1. j \in 1 .. Len(c) - MaxGetBits /\ MaxGetBits + j \in 1 .. Len(c) /\ x + (MaxGetBits + j) = y + j
        BY <1>1, <2>2, <2>6, <3>1
      <4> QED BY <2>6, <3>2, <4>1
    <3> QED BY <3>3, <3>4 DEF y
  <2> DEFINE new == [cache |-> dropped, out |-> out]
  <2>8. new \in Writers /\ new.cache = dropped /\ new.out = out
    BY <2>5, <2>6 DEF Writers
  <2>9. N + 4 \in Nat
    BY <1>1
  <2> HIDE DEF new
  <2>10. Written(o, new, s, N + 4)
    BY <1>1, <2>4, <2>5, <2>7, <2>8, <2>9 DEF Written
  <2>11. new = Drained(o, w)
    BY <2>1 DEF new
  <2> QED BY <1>3, <2>6, <2>8, <2>10, <2>11 DEF c
<1> QED BY <1>2, <1>3

(* What is put behind them does not change the bits that are out.                      *)
LEMMA HoldsMore ==
  ASSUME NEW o, NEW in, NEW N \in Nat, NEW s \in Seq(Bit), NEW t \in Seq(Bit), N * ByteBits <= Len(s), Holds(o, in, N, s)
  PROVE  Holds(o, in, N, s \o t)
<1> DEFINE x == N * ByteBits
<1>1. x \in Nat /\ x <= Len(s)
  BY Sizes, TimesNat
<1> HIDE DEF x
<1> SUFFICES ASSUME NEW k \in Nat, k < x PROVE TapeBit(o, in, k) = (s \o t)[k + 1]
  BY DEF Holds, x
<1>2. k + 1 \in 1 .. Len(s)
  BY <1>1
<1>3. (s \o t)[k + 1] = s[k + 1]
  BY <1>2, ConcatIs
<1>4. TapeBit(o, in, k) = s[k + 1]
  BY DEF Holds, x
<1> QED BY <1>3, <1>4

(* What is put into a cache with room for it.                                          *)
LEMMA PutPart ==
  ASSUME NEW o, NEW w, NEW s, NEW N, Written(o, w, s, N), Len(w.cache) < MaxGetBits,
         NEW t \in Seq(Bit), Len(t) <= MaxGetBits
  PROVE  /\ Written(o, [w EXCEPT !.cache = @ \o t], s \o t, N)
         /\ Len([w EXCEPT !.cache = @ \o t].cache) = Len(w.cache) + Len(t)
<1> DEFINE c == w.cache
           e == c \o t
           u == s \o t
           new == [w EXCEPT !.cache = e]
           x == N * ByteBits
<1>1. /\ w \in Writers /\ s \in Seq(Bit) /\ N \in Nat /\ c \in Seq(Bit) /\ x \in Nat
      /\ x + Len(c) = Len(s) /\ (\A j \in 1 .. Len(c) : c[j] = s[x + j])
      /\ OutOK(o, w.out, N) /\ Holds(o, w.out, N, s)
  BY Sizes, TimesNat DEF Written, Writers
<1>2. new \in Writers /\ new.cache = e /\ new.out = w.out /\ e \in Seq(Bit)
  <2> DEFINE C == Seq(Bit)
             O == Seq(Byte)
  <2>1. e \in C
    BY <1>1, ConcatIs
  <2>2. w \in [cache : C, out : O]
    BY <1>1 DEF Writers
  <2> HIDE DEF C, O, e
  <2>3. new \in [cache : C, out : O] /\ new.cache = e /\ new.out = w.out
    BY <2>1, <2>2
  <2> QED BY <2>1, <2>3 DEF C, O, Writers
<1>3. /\ Len(e) = Len(c) + Len(t) /\ (\A j \in 1 .. Len(c) : e[j] = c[j]) /\ \A j \in 1 .. Len(t) : e[Len(c) + j] = t[j]
  BY SMTT(40), <1>1, ConcatIs
<1>4. /\ u \in Seq(Bit) /\ Len(u) = Len(s) + Len(t) /\ (\A j \in 1 .. Len(s) : u[j] = s[j])
      /\ \A j \in 1 .. Len(t) : u[Len(s) + j] = t[j]
  BY <1>1, ConcatIs
<1>5. Holds(o, w.out, N, u)
  <2>1. N * ByteBits <= Len(s)
    BY <1>1
  <2> QED BY <1>1, <2>1, HoldsMore
<1>6. Len(c) < MaxGetBits /\ Len(e) < CacheSize
  <2>1. MaxGetBits \in Nat /\ CacheSize = MaxGetBits + MaxGetBits /\ Len(c) \in Nat /\ Len(t) \in Nat
    BY <1>1, Sizes
  <2> HIDE DEF c
  <2> QED BY <1>3, <2>1 DEF c
<1> HIDE DEF c, e, u, new
<1>7. \A j \in 1 .. Len(e) : e[j] = u[x + j]
  <2> HIDE DEF x
  <2> SUFFICES ASSUME NEW j \in 1 .. Len(e) PROVE e[j] = u[x + j]
    OBVIOUS
  <2>1. CASE j <= Len(c)
    <3>1. j \in 1 .. Len(c) /\ x + j \in 1 .. Len(s)
      BY <1>1, <2>1
    <3> QED BY <1>1, <1>3, <1>4, <3>1
  <2>2. CASE ~(j <= Len(c))
    <3> DEFINE k == j - Len(c)
    <3>1. k \in 1 .. Len(t) /\ Len(c) + k = j /\ Len(s) + k = x + j
      <4>1. Len(c) \in Nat /\ Len(t) \in Nat /\ x + Len(c) = Len(s) /\ Len(e) = Len(c) + Len(t) /\ x \in Nat /\ j \in 1 .. Len(e)
        BY <1>1, <1>3
      <4> QED BY <2>2, <4>1
    <3> HIDE DEF k
    <3> QED BY <1>3, <1>4, <3>1
  <2> QED BY <2>1, <2>2
<1>8. x + Len(e) = Len(u)
  <2> HIDE DEF x
  <2> QED BY <1>1, <1>3, <1>4
<1>9. Written(o, new, u, N)
  BY <1>1, <1>2, <1>4, <1>5, <1>6, <1>7, <1>8 DEF Written
<1> QED BY <1>2, <1>3, <1>9 DEF new, u, e, c

(* put(): at most a chunk at once.                                                     *)
LEMMA PutIs ==
  ASSUME NEW o \in Orders, NEW w, NEW s, NEW N, Written(o, w, s, N), NEW t \in Seq(Bit), Len(t) <= MaxGetBits
  PROVE  \E M : Written(o, PutBits(o, w, t), s \o t, M)
<1> DEFINE d == Drained(o, w)
<1>1. PICK M : Written(o, d, s, M)
  BY DrainIs
<1>2. Len(d.cache) < MaxGetBits
  <2>1. Len(d.cache) = IF Len(w.cache) < MaxGetBits THEN Len(w.cache) ELSE Len(w.cache) - MaxGetBits
    BY DrainIs
  <2>2. Len(w.cache) \in Nat /\ Len(w.cache) < MaxGetBits + MaxGetBits /\ MaxGetBits \in Nat
    BY Sizes DEF Written, Writers
  <2> HIDE DEF d
  <2> QED BY <2>1, <2>2
<1> HIDE DEF d
<1>3. Written(o, [d EXCEPT !.cache = @ \o t], s \o t, M)
  BY <1>1, <1>2, PutPart
<1>4. PutBits(o, w, t) = [d EXCEPT !.cache = @ \o t]
  BY DEF PutBits, d
<1> QED BY <1>3, <1>4

(* flush(): zeros, and nothing is left in the cache.                                   *)
LEMMA FlushIs ==
  ASSUME NEW o \in Orders, NEW w, NEW s, NEW N, Written(o, w, s, N)
  PROVE  \E z \in Seq(Bit) : \E M : Written(o, Flushed(o, w), s \o z, M) /\ Len(Flushed(o, w).cache) = 0
<1> DEFINE d == Drained(o, w)
<1>1. PICK M : Written(o, d, s, M)
  BY DrainIs
<1>2. Len(d.cache) < MaxGetBits /\ Len(d.cache) \in Nat /\ MaxGetBits \in Nat /\ d.cache \in Seq(Bit)
  <2>1. Len(d.cache) = IF Len(w.cache) < MaxGetBits THEN Len(w.cache) ELSE Len(w.cache) - MaxGetBits
    BY DrainIs
  <2>2. Len(w.cache) \in Nat /\ Len(w.cache) < MaxGetBits + MaxGetBits /\ MaxGetBits \in Nat
    BY Sizes DEF Written, Writers
  <2>3. d.cache \in Seq(Bit)
    BY <1>1 DEF Written, Writers
  <2> HIDE DEF d
  <2> QED BY <2>1, <2>2, <2>3
<1>3. Flushed(o, w) = IF d.cache = << >> THEN d ELSE Drained(o, PutBits(o, d, Zeros(MaxGetBits - Len(d.cache))))
  BY DEF Flushed
<1> HIDE DEF d
<1>4. CASE d.cache = << >>
  <2>1. s \in Seq(Bit) /\ << >> \in Seq(Bit)
    BY DEF Written
  <2>2. s \o << >> = s
    BY <2>1, ConcatEmpty
  <2>3. Written(o, Flushed(o, w), s \o << >>, M) /\ Len(Flushed(o, w).cache) = 0
    BY <1>1, <1>3, <1>4, <2>2
  <2> QED BY <2>1, <2>3
<1>5. CASE d.cache # << >>
  <2> DEFINE n == MaxGetBits - Len(d.cache)
             z == Zeros(n)
             p == PutBits(o, d, z)
  <2>1. n \in Nat /\ n <= MaxGetBits /\ Len(d.cache) + n = MaxGetBits
    BY <1>2
  <2>2. z \in Seq(Bit) /\ Len(z) = n
    <3> HIDE DEF n
    <3> QED BY <2>1 DEF Zeros, Bit
  <2>3. Flushed(o, w) = Drained(o, p)
    BY <1>3, <1>5
  <2>4. p = [d EXCEPT !.cache = @ \o z]
    BY <1>2 DEF PutBits, Drained
  <2> HIDE DEF p, n, z
  <2>5. Written(o, p, s \o z, M) /\ Len(p.cache) = MaxGetBits
    BY <1>1, <1>2, <2>1, <2>2, <2>4, PutPart
  <2>6. (\E K : Written(o, Drained(o, p), s \o z, K)) /\ Len(Drained(o, p).cache) = MaxGetBits - MaxGetBits
    <3>1. ~(Len(p.cache) < MaxGetBits)
      BY <1>2, <2>5
    <3> QED BY <2>5, <3>1, DrainIs
  <2> QED BY <1>2, <2>2, <2>3, <2>6
<1> QED BY <1>4, <1>5

(* How many values of a message are there: the ends only grow.                         *)
LEMMA ValuesHeld ==
  ASSUME NEW n \in Nat, NEW e, \A i \in 0 .. n : e[i] \in Nat, NEW c \in Nat, e[0] <= c,
         \A k \in 0 .. n, i \in 0 .. n : k <= i => e[k] <= e[i]
  PROVE  \E v \in 0 .. n : /\ Cardinality({i \in 1 .. n : e[i] <= c}) = v /\ e[v] <= c
                           /\ e[n] <= c => v = n
<1> DEFINE S == {k \in 0 .. n : k = n \/ ~(e[k + 1] <= c)}
<1>1. PICK v \in S : \A k \in S : v <= k
  <2>1. S \in SUBSET Nat /\ n \in S
    OBVIOUS
  <2> HIDE DEF S
  <2> QED BY <2>1, LeastNatural
<1>2. v \in 0 .. n
  OBVIOUS
<1>3. ASSUME NEW i \in 1 .. n PROVE e[i] <= c <=> i <= v
  <2>1. CASE i <= v
    <3>1. i - 1 \in 0 .. n /\ i - 1 \notin S /\ (i - 1) + 1 = i
      BY <1>1, <1>2, <2>1
    <3> QED BY <2>1, <3>1
  <2>2. CASE ~(i <= v)
    <3>1. v + 1 \in 0 .. n /\ v + 1 <= i /\ v # n
      BY <1>2, <2>2
    <3>2. ~(e[v + 1] <= c)
      BY <3>1
    <3>3. e[v + 1] <= e[i] /\ e[v + 1] \in Nat /\ e[i] \in Nat
      BY <3>1
    <3>4. ~(e[i] <= c)
      BY <3>2, <3>3
    <3> QED BY <2>2, <3>4
  <2> QED BY <2>1, <2>2
<1> HIDE DEF S
<1>4. {i \in 1 .. n : e[i] <= c} = 1 .. v
  BY <1>2, <1>3
<1>5. Cardinality(1 .. v) = v
  <2>1. 1 \in Int /\ v \in Int
    BY <1>2
  <2>2. Cardinality(1 .. v) = IF 1 > v THEN 0 ELSE v - 1 + 1
    BY <2>1, FS_Interval
  <2> QED BY <1>2, <2>2
<1>6. e[v] <= c
  BY <1>2, <1>3
<1>7. e[n] <= c => v = n
  BY <1>2, <1>3
<1> QED BY <1>2, <1>4, <1>5, <1>6, <1>7

(* The data bytes of what is kept of a JPEG scan: the zeros behind FF are not.           *)
Stuffing(bytes, n) == {i \in 2 .. n : bytes[i] = 0 /\ bytes[i - 1] = FF}

(* The stuffing in one byte more.                                                      *)
LEMMA StuffingGrows ==
  ASSUME NEW bytes, NEW k \in Nat
  PROVE  /\ IsFiniteSet(Stuffing(bytes, k)) /\ Cardinality(Stuffing(bytes, k)) \in Nat
         /\ Cardinality(Stuffing(bytes, k + 1)) =
              Cardinality(Stuffing(bytes, k)) + IF k > 0 /\ bytes[k + 1] = 0 /\ bytes[k] = FF THEN 1 ELSE 0
<1> DEFINE S == Stuffing(bytes, k)
           T == Stuffing(bytes, k + 1)
           C == k > 0 /\ bytes[k + 1] = 0 /\ bytes[k] = FF
<1>1. IsFiniteSet(S)
  <2>1. IsFiniteSet(2 .. k)
    BY FS_Interval
  <2>2. S \subseteq 2 .. k
    BY DEF Stuffing
  <2> HIDE DEF S
  <2> QED BY <2>1, <2>2, FS_Subset
<1>2. k + 1 \notin S
  BY DEF Stuffing
<1>3. CASE C
  <2>1. T = S \cup {k + 1}
    <3>1. k + 1 \in 2 .. k + 1 /\ (k + 1) - 1 = k
      BY <1>3
    <3>2. k + 1 \in T
      BY <1>3, <3>1 DEF Stuffing
    <3>3. ASSUME NEW i PROVE i \in T <=> i \in S \/ i = k + 1
      BY <3>2 DEF Stuffing
    <3> HIDE DEF S, T
    <3> QED BY <3>3
  <2> HIDE DEF S, T
  <2>2. Cardinality(T) = Cardinality(S) + 1
    BY <1>1, <1>2, <2>1, FS_AddElement
  <2>3. Cardinality(S) \in Nat
    BY <1>1, FS_CardinalityType
  <2> QED BY <1>1, <1>3, <2>2, <2>3 DEF S, T
<1>4. CASE ~C
  <2>1. T = S
    <3>1. k + 1 \notin T
      <4>1. k + 1 \in T => C
        BY DEF Stuffing
      <4> QED BY <1>4, <4>1
    <3>2. ASSUME NEW i PROVE i \in T <=> i \in S
      <4>1. i \in T /\ i # k + 1 => i \in S
        BY DEF Stuffing
      <4>2. i \in S => i \in T
        BY DEF Stuffing
      <4> QED BY <3>1, <4>1, <4>2
    <3> HIDE DEF S, T
    <3> QED BY <3>2
  <2> HIDE DEF S, T
  <2>2. Cardinality(S) \in Nat
    BY <1>1, FS_CardinalityType
  <2>3. Cardinality(T) = Cardinality(S) + 0
    BY <2>1, <2>2
  <2> QED BY <1>1, <1>4, <2>2, <2>3 DEF S, T
<1> QED BY <1>3, <1>4

(* The d data bytes of the first n bytes end there, or one before, in front of stuffing.  *)
CutAt(out, n, d) ==
  /\ d \in Nat
  /\ IF n > 0 /\ At(out, n - 1) = FF THEN d > 0 /\ Place("JPEG", out, d - 1) = n - 1
     ELSE Place("JPEG", out, d) = n

(* One byte more is kept.                                                              *)
LEMMA CutGrows ==
  ASSUME NEW out \in Seq(Byte), Stuffed(out), NEW n \in Nat, n < Len(out), NEW d, CutAt(out, n, d)
  PROVE  CutAt(out, n + 1, IF n > 0 /\ At(out, n - 1) = FF THEN d ELSE d + 1)
         /\ (n > 0 /\ At(out, n - 1) = FF => At(out, n) = 0)
<1>1. FF # 0 /\ d \in Nat /\ (n + 1) - 1 = n /\ n + 1 > 0
  BY BytesAre DEF CutAt
<1>2. CASE n > 0 /\ At(out, n - 1) = FF
  <2>1. d > 0 /\ Place("JPEG", out, d - 1) = n - 1
    BY <1>2 DEF CutAt
  <2>2. n - 1 \in Nat /\ (n - 1) + 1 = n /\ n - 1 < Len(out) /\ d - 1 \in Nat /\ (d - 1) + 1 = d
    BY <1>1, <1>2, <2>1
  <2>3. At(out, n) = 0
    <3>1. At(out, (n - 1) + 1) = 0
      BY <1>2, <2>2 DEF Stuffed
    <3> QED BY <2>2, <3>1
  <2>4. Place("JPEG", out, d) = n + 1
    <3>1. Place("JPEG", out, (d - 1) + 1) = Place("JPEG", out, d - 1) + Width(out, Place("JPEG", out, d - 1))
      BY <2>2, PlaceSteps
    <3>2. Place("JPEG", out, d) = (n - 1) + Width(out, n - 1)
      BY <2>1, <2>2, <3>1
    <3>3. Width(out, n - 1) = 2
      BY <1>2 DEF Width
    <3> QED BY <3>2, <3>3
  <2> QED BY <1>1, <1>2, <2>3, <2>4 DEF CutAt
<1>3. CASE ~(n > 0 /\ At(out, n - 1) = FF)
  <2>1. Place("JPEG", out, d) = n
    BY <1>3 DEF CutAt
  <2>2. Place("JPEG", out, d + 1) = n + Width(out, n)
    BY <1>1, <2>1, PlaceSteps
  <2>3. d + 1 \in Nat /\ d + 1 > 0 /\ (d + 1) - 1 = d
    BY <1>1
  <2>4. CutAt(out, n + 1, d + 1)
    BY <1>1, <2>1, <2>2, <2>3 DEF CutAt, Width
  <2> QED BY <1>3, <2>4
<1> QED BY <1>2, <1>3

(* How many data bytes there are in the first n bytes, for DataBytes().                *)
LEMMA CutIs ==
  ASSUME NEW out \in Seq(Byte), Stuffed(out), NEW n \in 0 .. Len(out)
  PROVE  CutAt(out, n, n - Cardinality(Stuffing(out, n)))
<1> DEFINE c == [k \in 0 .. n |-> Cardinality(Stuffing(out, k))]
           S == {k \in 0 .. n : CutAt(out, k, k - c[k])}
<1>1. 0 \in S
  <2>1. Stuffing(out, 0) = {}
    BY DEF Stuffing
  <2>2. c[0] = 0
    <3>1. c[0] = Cardinality(Stuffing(out, 0))
      OBVIOUS
    <3>2. Cardinality({}) = 0
      BY FS_EmptySet
    <3> HIDE DEF c
    <3> QED BY <2>1, <3>1, <3>2
  <2>3. CutAt(out, 0, 0)
    BY PlaceSteps DEF CutAt
  <2> HIDE DEF c
  <2> QED BY <2>2, <2>3
<1>2. ASSUME NEW k \in 0 .. n - 1, k \in S PROVE k + 1 \in S
  <2>1. k \in Nat /\ k + 1 \in 0 .. n /\ k \in 0 .. n /\ k < Len(out)
    OBVIOUS
  <2> DEFINE C == k > 0 /\ out[k + 1] = 0 /\ out[k] = FF
             d == k - c[k]
  <2>2. c[k] \in Nat /\ c[k + 1] = c[k] + IF C THEN 1 ELSE 0
    BY <2>1, StuffingGrows
  <2>3. CutAt(out, k, d)
    BY <1>2
  <2> HIDE DEF c
  <2>4. /\ CutAt(out, k + 1, IF k > 0 /\ At(out, k - 1) = FF THEN d ELSE d + 1)
        /\ (k > 0 /\ At(out, k - 1) = FF => At(out, k) = 0)
    <3> HIDE DEF d
    <3> QED BY <2>1, <2>3, CutGrows
  <2>5. C <=> k > 0 /\ At(out, k - 1) = FF
    <3>1. k > 0 => At(out, k - 1) = out[k] /\ At(out, k) = out[k + 1]
      BY <2>1 DEF At
    <3> QED BY <2>4, <3>1
  <2>6. (k + 1) - c[k + 1] = IF C THEN d ELSE d + 1
    <3>1. d \in Int
      BY <2>1, <2>2
    <3> QED BY <2>1, <2>2
  <2> HIDE DEF d, C
  <2>7. CutAt(out, k + 1, (k + 1) - c[k + 1])
    BY <2>4, <2>5, <2>6
  <2> QED BY <2>1, <2>7
<1>3. n \in 0 .. n /\ n \in Nat
  OBVIOUS
<1>4. 0 .. n \subseteq S
  <2> HIDE DEF S
  <2> QED BY <1>1, <1>2, <1>3, AllUpTo
<1>5. CutAt(out, n, n - c[n]) /\ c[n] = Cardinality(Stuffing(out, n))
  <2>1. n \in S
    BY <1>3, <1>4
  <2> QED BY <1>3, <2>1
<1> HIDE DEF c
<1> QED BY <1>5

(* The input of what is kept, and what may follow it.                                 *)
Kept(out, n, t, in) == in = Take(out, n) \o t

KeptAre(T, out, n, t, k, w) ==
  /\ k \in Seq(T) /\ Len(k) = n /\ (\A i \in 1 .. n : k[i] = out[i])
  /\ w \in Seq(T) /\ Len(w) = n + Len(t)
  /\ (\A i \in 1 .. n : w[i] = out[i]) /\ \A i \in 1 .. Len(t) : w[n + i] = t[i]

KeptOK(out, n, t, in) ==
  /\ in \in Seq(Byte) /\ Len(in) = n + Len(t)
  /\ \A i \in 0 .. n - 1 : At(out, i) = At(in, i)
  /\ \A i \in 0 .. Len(t) - 1 : At(in, n + i) = t[i + 1]
  /\ Take(out, n) \in Seq(Byte) /\ Len(Take(out, n)) = n /\ \A i \in 1 .. n : Take(out, n)[i] = out[i]

(* The items of what is kept, and of what follows it.                                  *)
LEMMA KeptItems ==
  ASSUME NEW T, NEW out \in Seq(T), NEW n \in 0 .. Len(out), NEW t \in Seq(T)
  PROVE  KeptAre(T, out, n, t, Take(out, n), Take(out, n) \o t)
<1> DEFINE k == Take(out, n)
<1>1. k \in Seq(T) /\ Len(k) = n /\ \A i \in 1 .. n : k[i] = out[i]
  <2>1. n \in Nat /\ n <= Len(out) /\ 0 \in Nat /\ 0 <= n /\ n - 0 = n /\ 0 + 1 = 1
    OBVIOUS
  <2>2. /\ SubSeq(out, 0 + 1, n) \in Seq(T) /\ Len(SubSeq(out, 0 + 1, n)) = n - 0
        /\ \A i \in 1 .. n - 0 : SubSeq(out, 0 + 1, n)[i] = out[0 + i]
    BY <2>1, BeginningIs
  <2> QED BY <2>1, <2>2 DEF Take
<1> HIDE DEF k
<1>2. /\ k \o t \in Seq(T) /\ Len(k \o t) = Len(k) + Len(t)
      /\ (\A i \in 1 .. Len(k) : (k \o t)[i] = k[i]) /\ \A i \in 1 .. Len(t) : (k \o t)[Len(k) + i] = t[i]
  <2>1. k \in Seq(T)
    BY <1>1
  <2> QED BY <2>1, ConcatIs
<1> DEFINE w == k \o t
<1>3. /\ w \in Seq(T) /\ Len(w) = Len(k) + Len(t)
      /\ (\A i \in 1 .. Len(k) : w[i] = k[i]) /\ \A i \in 1 .. Len(t) : w[Len(k) + i] = t[i]
  BY <1>2
<1> HIDE DEF w
<1>4. /\ w \in Seq(T) /\ Len(w) = n + Len(t)
      /\ (\A i \in 1 .. n : w[i] = out[i]) /\ \A i \in 1 .. Len(t) : w[n + i] = t[i]
  BY <1>1, <1>3
<1> QED BY <1>1, <1>4 DEF k, w, KeptAre

(* The bytes of the input that is made of them.                                        *)
LEMMA KeptIs ==
  ASSUME NEW out \in Seq(Byte), NEW n \in 0 .. Len(out), NEW t \in Seq(Byte), NEW in, Kept(out, n, t, in)
  PROVE  KeptOK(out, n, t, in)
<1> DEFINE T == Byte
           k == Take(out, n)
           w == k \o t
<1>1. out \in Seq(T) /\ t \in Seq(T) /\ n \in Nat /\ n <= Len(out) /\ Len(t) \in Nat /\ Len(out) \in Nat
  OBVIOUS
<1>2. in = w
  BY DEF Kept
<1> HIDE DEF T
<1>3. /\ k \in Seq(T) /\ Len(k) = n /\ (\A i \in 1 .. n : k[i] = out[i])
      /\ w \in Seq(T) /\ Len(w) = n + Len(t)
      /\ (\A i \in 1 .. n : w[i] = out[i]) /\ \A i \in 1 .. Len(t) : w[n + i] = t[i]
  <2>1. n \in 0 .. Len(out)
    BY <1>1
  <2>2. out \in Seq(T) /\ t \in Seq(T)
    BY <1>1
  <2> HIDE DEF k, w
  <2>3. KeptAre(T, out, n, t, Take(out, n), Take(out, n) \o t)
    BY <2>1, <2>2, KeptItems
  <2>4. KeptAre(T, out, n, t, k, w)
    BY <2>3 DEF k, w
  <2> QED BY <2>4 DEF KeptAre
<1> HIDE DEF k, w
<1>4. ASSUME NEW i \in 0 .. n - 1 PROVE At(out, i) = At(in, i)
  <2>1. i < Len(out) /\ i < Len(in) /\ i + 1 \in 1 .. n
    BY <1>1, <1>2, <1>3
  <2> QED BY <1>2, <1>3, <2>1 DEF At
<1>5. ASSUME NEW i \in 0 .. Len(t) - 1 PROVE At(in, n + i) = t[i + 1]
  <2>1. n + i < Len(in) /\ i + 1 \in 1 .. Len(t) /\ (n + i) + 1 = n + (i + 1)
    BY <1>1, <1>2, <1>3
  <2> QED BY <1>2, <1>3, <2>1 DEF At
<1> QED BY <1>2, <1>3, <1>4, <1>5 DEF k, T, KeptOK

(* What is left of the data of another order than JPEG's, in whole steps.              *)
LEMMA PlainInput ==
  ASSUME NEW o \in Orders \ {"JPEG"}, NEW out, NEW N, OutOK(o, out, N), NEW n \in 0 .. Len(out),
         NEW in, Kept(out, n, << >>, in), NEW D, D = Step(o) * (n \div Step(o))
  PROVE  InputOK(o, in, D) /\ SameData(o, out, in, D) /\ D <= N
<1>1. out \in Seq(Byte) /\ N = Len(out) /\ Len(out) \in Nat /\ << >> \in Seq(Byte)
  BY DEF OutOK
<1>2. in \in Seq(Byte) /\ Len(in) = n /\ \A i \in 0 .. n - 1 : At(out, i) = At(in, i)
  <2>1. KeptOK(out, n, << >>, in)
    BY <1>1, KeptIs
  <2> QED BY <1>1, <2>1 DEF KeptOK
<1>3. D \in Nat /\ D <= n /\ D % Step(o) = 0
  <2>1. Step(o) \in {1, 2, 4}
    BY DEF Step, MinLoadStep
  <2> QED BY <2>1
<1>4. InputOK(o, in, D)
  BY <1>2, <1>3 DEF InputOK
<1>5. SameData(o, out, in, D)
  <2>1. \A i \in 0 .. D - 1 : At(out, i) = At(in, i)
    BY <1>2, <1>3
  <2>2. Len(out) \in Nat /\ Len(in) \in Nat /\ D <= Len(out) /\ D <= Len(in)
    BY <1>1, <1>2, <1>3
  <2> QED BY <1>3, <2>1, <2>2, PlainSame
<1> QED BY <1>1, <1>3, <1>4, <1>5

(* What may follow the data: nothing, or a marker, and that not in front of stuffing.   *)
Follows(out, n, t) ==
  /\ t \in Seq(Byte)
  /\ t # << >> => Len(t) > 1 /\ t[1] = FF /\ t[2] # 0 /\ ~(n \in 1 .. Len(out) - 1 /\ out[n] = FF)

(* What is left of a JPEG scan: no marker is in it, not even if it is cut in front of
   stuffing, and the one that may follow is behind its last data byte.                 *)
LEMMA JpegInput ==
  ASSUME NEW out, NEW N, OutOK("JPEG", out, N), NEW n \in 0 .. Len(out), NEW t, Follows(out, n, t),
         NEW in, Kept(out, n, t, in), NEW D, CutAt(out, n, D)
  PROVE  /\ InputOK("JPEG", in, D) /\ SameData("JPEG", out, in, D) /\ D <= N
         /\ t # << >> => MarkerAt(in, D) /\ Place("JPEG", in, D) = n
<1> DEFINE P(k) == Place("JPEG", out, k)
<1>1. out \in Seq(Byte) /\ N \in Nat /\ P(N) = Len(out) /\ Stuffed(out) /\ t \in Seq(Byte) /\ n \in Nat /\ n <= Len(out) /\ Len(out) \in Nat
  BY DEF OutOK, Follows
<1>2. /\ in \in Seq(Byte) /\ Len(in) = n + Len(t) /\ (\A i \in 0 .. n - 1 : At(out, i) = At(in, i))
      /\ (\A i \in 0 .. Len(t) - 1 : At(in, n + i) = t[i + 1]) /\ Len(t) \in Nat /\ Len(in) \in Nat
  <2>1. KeptOK(out, n, t, in)
    BY <1>1, KeptIs
  <2> QED BY <1>1, <2>1 DEF KeptOK
<1>3. /\ D \in Nat /\ FF # 0
      /\ n > 0 /\ At(out, n - 1) = FF => D > 0 /\ P(D - 1) = n - 1
      /\ ~(n > 0 /\ At(out, n - 1) = FF) => P(D) = n
  BY BytesAre DEF CutAt
<1>4. \A k \in Nat : P(k) \in Nat /\ P(k + 1) \in {P(k) + 1, P(k) + 2}
  BY PlaceSteps
<1> HIDE DEF P
<1>5. D > 0 => P(D - 1) < n /\ P(D) \in {n, n + 1}
  <2> SUFFICES ASSUME D > 0 PROVE P(D - 1) < n /\ P(D) \in {n, n + 1}
    OBVIOUS
  <2>1. D - 1 \in Nat /\ (D - 1) + 1 = D
    BY <1>3
  <2>2. P(D - 1) \in Nat /\ P(D) \in {P(D - 1) + 1, P(D - 1) + 2}
    BY <1>4, <2>1
  <2>3. CASE n > 0 /\ At(out, n - 1) = FF
    BY <1>1, <1>3, <2>2, <2>3
  <2>4. CASE ~(n > 0 /\ At(out, n - 1) = FF)
    BY <1>1, <1>3, <2>2, <2>4
  <2> QED BY <2>3, <2>4
<1>6. D = 0 => P(D) = n
  <2>1. D = 0 => ~(n > 0 /\ At(out, n - 1) = FF)
    BY <1>3
  <2> QED BY <1>3, <2>1
<1>7. P(D) \in {n, n + 1}
  BY <1>3, <1>5, <1>6
<1>8. D <= N
  <2>1. CASE D = 0
    BY <1>1, <2>1
  <2>2. CASE D > 0
    <3>1. D - 1 \in Nat /\ P(D - 1) < P(N)
      BY <1>1, <1>3, <1>4, <1>5, <2>2
    <3>2. D - 1 < N
      BY <1>1, <3>1, PlaceOrder DEF P
    <3> QED BY <1>1, <1>3, <3>2
  <2> QED BY <1>3, <2>1, <2>2
<1>9. SameData("JPEG", out, in, D) /\ Place("JPEG", in, D) = P(D)
  <2>1. D > 0 => Place("JPEG", out, D - 1) < n
    BY <1>5 DEF P
  <2> QED BY ZenonT(60), <1>1, <1>2, <1>3, <2>1, JpegSame DEF P
<1>10. \A k \in 0 .. D : Places(in)[k] = P(k)
  <2>1. D > 0 => Place("JPEG", out, D - 1) < n
    BY <1>5 DEF P
  <2>2. \A k \in 0 .. D : Place("JPEG", out, k) = Place("JPEG", in, k)
    <3>1. (\A i \in 0 .. n - 1 : At(out, i) = At(in, i)) /\ n \in Nat /\ D \in Nat
      BY <1>1, <1>2, <1>3
    <3> QED BY ZenonT(60), <2>1, <3>1, SamePlaces
  <2> QED BY <1>3, <2>2 DEF P, Place
<1>11. n > 0 /\ At(out, n - 1) = FF => n \in 1 .. Len(out) - 1 /\ out[n] = FF
  <2> SUFFICES ASSUME n > 0, At(out, n - 1) = FF PROVE n \in 1 .. Len(out) - 1 /\ out[n] = FF
    OBVIOUS
  <2>1. n - 1 \in Nat /\ n - 1 < Len(out) /\ (n - 1) + 1 = n
    BY <1>1
  <2>2. (n - 1) + 1 < Len(out)
    BY <2>1 DEF Stuffed, OutOK
  <2>3. out[(n - 1) + 1] = FF
    BY <2>1 DEF At
  <2> QED BY <1>1, <2>1, <2>2, <2>3
<1>12. NoMarkerBefore(in, D)
  <2> SUFFICES ASSUME NEW k \in Nat, k < D, MarkerAt(in, k) PROVE FALSE
    BY DEF NoMarkerBefore
  <2> DEFINE q == P(k)
  <2>1. q \in Nat /\ q < n
    <3>1. D > 0 /\ D - 1 \in Nat /\ k <= D - 1
      BY <1>3
    <3>2. P(k) + ((D - 1) - k) <= P(D - 1) /\ P(k) \in Nat /\ P(D - 1) \in Nat
      BY <3>1, PlaceGrows DEF P
    <3> HIDE DEF q
    <3>3. q + ((D - 1) - k) <= P(D - 1) /\ q \in Nat
      BY <3>2 DEF q
    <3> QED BY <1>3, <1>5, <3>1, <3>2, <3>3
  <2>2. At(in, q) = FF /\ At(in, q + 1) # 0
    <3>1. Places(in)[k] = q
      BY <1>3, <1>10
    <3> HIDE DEF q
    <3> QED BY <3>1 DEF MarkerAt
  <2> HIDE DEF q
  <2>3. At(out, q) = FF
    BY <1>2, <2>1, <2>2
  <2>4. q + 1 < Len(out) /\ At(out, q + 1) = 0
    BY <1>1, <2>1, <2>3 DEF Stuffed
  <2>5. CASE q + 1 < n
    BY <1>2, <2>1, <2>2, <2>4, <2>5
  <2>6. CASE ~(q + 1 < n)
    <3>1. q + 1 = n /\ n - 1 = q /\ n > 0
      BY <1>1, <2>1, <2>6
    <3>2. t = << >>
      BY <1>11, <2>3, <3>1 DEF Follows
    <3>3. Len(in) = n
      BY <1>1, <1>2, <3>2
    <3>4. At(in, q + 1) = 0
      BY <1>1, <3>1, <3>3 DEF At
    <3> QED BY <2>2, <3>4
  <2> QED BY <2>5, <2>6
<1>13. InputOK("JPEG", in, D)
  <2>1. Place("JPEG", in, D) <= Len(in) + 1
    BY <1>1, <1>2, <1>7, <1>9
  <2>2. "JPEG" \in Orders
    BY DEF Orders
  <2> QED BY <1>2, <1>3, <1>12, <2>1, <2>2 DEF InputOK
<1>14. ASSUME t # << >> PROVE MarkerAt(in, D) /\ Place("JPEG", in, D) = n
  <2>1. Len(t) > 1 /\ t[1] = FF /\ t[2] # 0 /\ ~(n \in 1 .. Len(out) - 1 /\ out[n] = FF)
    BY <1>14 DEF Follows
  <2>2. P(D) = n
    BY <1>3, <1>11, <2>1
  <2>3. 0 \in 0 .. Len(t) - 1 /\ 1 \in 0 .. Len(t) - 1 /\ n + 0 = n
    BY <1>1, <1>2, <2>1
  <2>4. At(in, n) = t[0 + 1] /\ At(in, n + 1) = t[1 + 1]
    BY <1>2, <2>3
  <2>5. Places(in)[D] = n
    BY <1>3, <1>10, <2>2
  <2>6. MarkerAt(in, D)
    BY <2>1, <2>4, <2>5 DEF MarkerAt
  <2> QED BY <1>9, <2>2, <2>6
<1> QED BY <1>8, <1>9, <1>13, <1>14

(* The bytes of data in what is kept.                                                 *)
LEMMA DataBytesAre ==
  ASSUME order \in Orders, NEW out \in Seq(Byte), NEW n \in 0 .. Len(out)
  PROVE  DataBytes(Take(out, n)) = IF order = "JPEG" THEN n - Cardinality(Stuffing(out, n)) ELSE Step(order) * (n \div Step(order))
<1> DEFINE k == Take(out, n)
           T == Byte
<1>1. Len(k) = n /\ \A i \in 1 .. n : k[i] = out[i]
  <2>1. out \in Seq(T) /\ << >> \in Seq(T)
    OBVIOUS
  <2> HIDE DEF T
  <2>2. KeptAre(T, out, n, << >>, Take(out, n), Take(out, n) \o << >>)
    BY <2>1, KeptItems
  <2> QED BY <2>2 DEF KeptAre
<1> HIDE DEF k
<1>2. CASE order = "JPEG"
  <2>1. {i \in 2 .. Len(k) : k[i] = 0 /\ k[i - 1] = FF} = Stuffing(out, n)
    <3>1. ASSUME NEW i \in 2 .. n PROVE k[i] = out[i] /\ k[i - 1] = out[i - 1]
      <4>1. i \in 1 .. n /\ i - 1 \in 1 .. n
        BY <3>1
      <4> QED BY <1>1, <4>1
    <3>2. {i \in 2 .. n : k[i] = 0 /\ k[i - 1] = FF} = {i \in 2 .. n : out[i] = 0 /\ out[i - 1] = FF}
      BY <3>1
    <3> QED BY <1>1, <3>2 DEF Stuffing
  <2>2. DataBytes(k) = Len(k) - Cardinality({i \in 2 .. Len(k) : k[i] = 0 /\ k[i - 1] = FF})
    BY <1>2 DEF DataBytes
  <2> QED BY <1>1, <1>2, <2>1, <2>2 DEF k
<1>3. CASE order # "JPEG"
  <2>1. DataBytes(k) = Step(order) * (Len(k) \div Step(order))
    BY <1>3 DEF DataBytes, Step, MaxProcessBytes, MinLoadStep
  <2> QED BY <1>1, <1>3, <2>1 DEF k
<1> QED BY <1>2, <1>3

(* The data that came hold what was put of it.                                        *)
LEMMA ContentKept ==
  ASSUME NEW o, NEW m, MessageOK(o, m), NEW w, NEW s, NEW N, Written(o, w, s, N), NEW z \in Seq(Bit),
         s = Flat(Puts(o, m)) \o z, NEW in, NEW D, InputOK(o, in, D), D <= N, SameData(o, w.out, in, D)
  PROVE  Content(o, m, in, D)
<1> DEFINE S == Flat(Puts(o, m))
<1>1. S \in Seq(Bit) /\ EndOf(o, m, Len(m.values)) = Len(S)
  BY EndsAre DEF EndsOK
<1>2. D \in Nat /\ N \in Nat /\ Holds(o, w.out, N, s)
  BY DEF Written, InputOK
<1>3. Holds(o, w.out, D, s)
  <2>1. D * ByteBits <= N * ByteBits /\ D * ByteBits \in Nat /\ N * ByteBits \in Nat
    BY <1>2, TimesGrow, Sizes
  <2>2. ASSUME NEW k \in Nat, k < D * ByteBits PROVE TapeBit(o, w.out, k) = s[k + 1]
    <3>1. k < N * ByteBits
      <4> DEFINE x == D * ByteBits
                 y == N * ByteBits
      <4>1. x <= y /\ x \in Nat /\ y \in Nat /\ k < x
        BY <2>1, <2>2
      <4> HIDE DEF x, y
      <4>2. k < y
        BY <4>1
      <4> QED BY <4>2 DEF y
    <3> QED BY <1>2, <3>1 DEF Holds
  <2> QED BY <2>2 DEF Holds
<1>4. Holds(o, in, D, s)
  BY <1>2, <1>3, TapeSame
<1> SUFFICES ASSUME NEW k \in Nat, k < D * ByteBits, k < Len(S) PROVE TapeBit(o, in, k) = S[k + 1]
  BY <1>1 DEF Content
<1>5. TapeBit(o, in, k) = s[k + 1]
  BY <1>4 DEF Holds
<1> HIDE DEF S
<1>6. k + 1 \in 1 .. Len(S)
  BY <1>1
<1>7. (S \o z)[k + 1] = S[k + 1]
  BY <1>1, <1>6, ConcatIs
<1> QED BY <1>5, <1>7 DEF S

(* A new reader is at the beginning of the data.                                       *)
LEMMA NewReaderOK ==
  ASSUME NEW o, NEW m, NEW in, NEW D, NEW h, Has(o, m, in, D, h)
  PROVE  ReaderOK(o, m, in, D, h, NewReader)
<1> DEFINE r == NewReader
<1>1. /\ r.cache = << >> /\ r.pos = 0 /\ r.endPos = Unknown /\ r.used = 0 /\ r.got = << >> /\ r.threw = FALSE
      /\ r = [cache |-> << >>, pos |-> 0, endPos |-> Unknown, used |-> 0, got |-> << >>, threw |-> FALSE]
  BY DEF NewReader
<1> HIDE DEF r
<1>2. r \in Readers
  <2> DEFINE C == Seq(Bit)
             G == Seq(Gotten)
             E == Nat \cup {Unknown}
  <2>1. << >> \in C /\ << >> \in G /\ Unknown \in E
    OBVIOUS
  <2> HIDE DEF C, G, E
  <2>2. r \in [cache : C, pos : Nat, endPos : E, used : Nat, got : G, threw : BOOLEAN]
    BY <1>1, <2>1
  <2> QED BY <2>2 DEF C, G, E, Readers
<1>3. InputOK(o, in, D) /\ MessageOK(o, m) /\ h.values \in 0 .. Len(m.values) /\ Len(m.values) \in Nat /\ EndOf(o, m, 0) = 0
  BY EndsAre DEF Has, EndsOK
<1>4. Unmarked(o, in, r, 0)
  <2>1. Place(o, in, 0) = 0 /\ NoMarkerBefore(in, 0)
    BY PlaceSteps DEF NoMarkerBefore
  <2>2. 0 * ByteBits = 0 /\ Len(<< >>) = 0
    BY Sizes
  <2>3. 0 % Step(o) = 0
    <3>1. Step(o) \in {1, 2, 4}
      BY <1>3 DEF Step, MinLoadStep, InputOK, Orders
    <3> QED BY <3>1
  <2> QED BY <1>1, <2>1, <2>2, <2>3 DEF Unmarked
<1>5. Len(r.cache) = 0 /\ 0 <= CacheSize /\ r.pos <= Furthest(o, in)
  BY <1>1, <1>3, Sizes, FurthestIs DEF InputOK
<1>6. TapeOn(o, in, D, r.cache, r.used)
  BY <1>5 DEF TapeOn
<1>7. Reading(o, in, D, r)
  BY <1>1, <1>2, <1>4, <1>5, <1>6 DEF Reading
<1>8. Len(r.got) = 0 /\ ~r.threw /\ r.used = 0
  BY <1>1
<1>9. h.values = Len(m.values) /\ Len(m.values) <= 0 => EndOf(o, m, Len(m.values)) <= 0
  BY <1>3
<1>10. ReaderOK(o, m, in, D, h, r)
  BY <1>2, <1>3, <1>7, <1>8, <1>9 DEF ReaderOK
<1> QED BY <1>10 DEF r

(* What is delivered is what `held` says it is.                                       *)
LEMMA Delivered ==
  ASSUME MessageOK(order, message), NEW s, NEW N, Written(order, writer, s, N), NEW z \in Seq(Bit),
         s = Flat(Puts(order, message)) \o z, Deliver
  PROVE  \E D : Has(order, message, input', D, held')
<1> DEFINE o == order
           m == message
           out == writer.out
           nv == Len(message.values)
<1>1. /\ order \in Orders /\ nv \in Nat /\ OutOK(o, out, N) /\ out \in Seq(Byte)
      /\ (\A i \in 0 .. nv : EndOf(o, m, i) \in Nat) /\ EndOf(o, m, 0) = 0
      /\ \A k \in 0 .. nv, i \in 0 .. nv : k <= i => EndOf(o, m, k) <= EndOf(o, m, i)
  BY EndsAre DEF MessageOK, Written, Writers, EndsOK
<1>2. PICK n \in 0 .. Len(writer.out), t \in Trailers :
        LET kept == Take(writer.out, n)
            ends == Ends
            bits == ends[Len(message.values)]
            there == DataBytes(kept) * ByteBits
            inStuffing == n \in 1 .. Len(writer.out) - 1 /\ writer.out[n] = FF
        IN  /\ t # << >> => order = "JPEG" /\ there >= bits /\ ~inStuffing
            /\ input' = kept \o t
            /\ held' = [bits |-> Min2(bits, there),
                        values |-> Cardinality({i \in DOMAIN message.values : ends[i] <= there}),
                        marker |-> IF t # << >> /\ there - ByteBits < bits THEN n ELSE Unknown]
  BY DEF Deliver
<1> DEFINE D == DataBytes(Take(writer.out, n))
           there == D * ByteBits
           bits == Ends[nv]
           inStuffing == n \in 1 .. Len(out) - 1 /\ out[n] = FF
           held1 == Cardinality({i \in DOMAIN message.values : Ends[i] <= there})
<1>3. /\ t # << >> => order = "JPEG" /\ there >= bits /\ ~inStuffing
      /\ Kept(out, n, t, input')
      /\ held' = [bits |-> Min2(bits, there), values |-> held1,
                  marker |-> IF t # << >> /\ there - ByteBits < bits THEN n ELSE Unknown]
  BY <1>2 DEF Kept
<1>4. \A i \in 0 .. nv : Ends[i] = EndOf(o, m, i)
  BY EndsIs
<1>5. D = IF order = "JPEG" THEN n - Cardinality(Stuffing(out, n)) ELSE Step(order) * (n \div Step(order))
  BY <1>1, DataBytesAre
<1>6. Follows(out, n, t)
  BY <1>3, TrailersAssumption DEF Follows
<1> HIDE DEF D, inStuffing, held1
<1>7. /\ InputOK(o, input', D) /\ SameData(o, out, input', D) /\ D <= N
      /\ t # << >> => MarkerAt(input', D) /\ Place("JPEG", input', D) = n
  <2>1. CASE order = "JPEG"
    <3>1. CutAt(out, n, D)
      <4>1. Stuffed(out)
        BY <1>1, <2>1 DEF OutOK
      <4> QED BY <1>1, <1>5, <2>1, <4>1, CutIs
    <3>2. OutOK("JPEG", out, N)
      BY <1>1, <2>1
    <3> HIDE DEF out
    <3>3. /\ InputOK("JPEG", input', D) /\ SameData("JPEG", out, input', D) /\ D <= N
          /\ t # << >> => MarkerAt(input', D) /\ Place("JPEG", input', D) = n
      BY <1>3, <1>6, <3>1, <3>2, JpegInput DEF out
    <3> QED BY <2>1, <3>3
  <2>2. CASE order # "JPEG"
    <3>1. t = << >> /\ Kept(out, n, << >>, input')
      BY <1>3, <2>2
    <3>2. order \in Orders \ {"JPEG"} /\ D = Step(order) * (n \div Step(order))
      BY <1>1, <1>5, <2>2
    <3>3. InputOK(order, input', D) /\ SameData(order, out, input', D) /\ D <= N
      BY <1>1, <3>1, <3>2, PlainInput
    <3> QED BY <3>1, <3>3
  <2> QED BY <2>1, <2>2
<1>8. Content(o, m, input', D)
  BY <1>7, ContentKept
<1>9. D \in Nat /\ there \in Nat
  <2>1. D \in Nat
    BY <1>7 DEF InputOK
  <2> QED BY <2>1, TimesNat, Sizes
<1> HIDE DEF there
<1> DEFINE e == [i \in 0 .. nv |-> EndOf(o, m, i)]
<1>10. \E v \in 0 .. nv : held1 = v /\ EndOf(o, m, v) <= there /\ (EndOf(o, m, nv) <= there => v = nv)
  <2>1. \A i \in 0 .. nv : e[i] = EndOf(o, m, i)
    OBVIOUS
  <2> HIDE DEF e, o, m
  <2>2. /\ \A i \in 0 .. nv : e[i] \in Nat
        /\ e[0] <= there
        /\ \A k \in 0 .. nv, i \in 0 .. nv : k <= i => e[k] <= e[i]
    BY <1>1, <1>9, <2>1
  <2>3. PICK v \in 0 .. nv : Cardinality({i \in 1 .. nv : e[i] <= there}) = v /\ e[v] <= there /\ (e[nv] <= there => v = nv)
    BY ZenonT(60), <1>1, <1>9, <2>2, ValuesHeld
  <2>4. DOMAIN message.values = 1 .. nv
    BY PutsAre DEF MessageOK
  <2>5. {i \in DOMAIN message.values : Ends[i] <= there} = {i \in 1 .. nv : e[i] <= there}
    <3>1. \A i \in 1 .. nv : Ends[i] = e[i]
      BY <1>1, <1>4, <2>1
    <3> QED BY <2>4, <3>1
  <2>6. held1 = v
    BY <2>3, <2>5 DEF held1
  <2>7. e[v] = EndOf(o, m, v) /\ e[nv] = EndOf(o, m, nv)
    <3>1. v \in 0 .. nv /\ nv \in 0 .. nv
      BY <1>1, <2>3
    <3> HIDE DEF nv
    <3> QED BY <2>1, <3>1
  <2> QED BY <2>3, <2>6, <2>7
<1>11. bits = EndOf(o, m, nv) /\ bits \in Nat
  BY <1>1, <1>4
<1> DEFINE h == held'
<1>12. /\ h.bits = Min2(bits, there) /\ h.values = held1
       /\ h.marker = IF t # << >> /\ there - ByteBits < bits THEN n ELSE Unknown
  BY <1>3
<1> HIDE DEF h, bits
<1>13. h.values \in 0 .. nv /\ EndOf(o, m, h.values) <= there
  BY <1>10, <1>12
<1>14. h.bits \in Nat /\ h.bits <= there
  BY <1>9, <1>11, <1>12 DEF Min2
<1>15. ASSUME h.marker # Unknown
       PROVE  /\ o = "JPEG" /\ h.values = nv /\ MarkerAt(input', D) /\ Place(o, input', D) = h.marker
              /\ there < EndOf(o, m, nv) + ByteBits
  <2>1. t # << >> /\ there - ByteBits < bits /\ h.marker = n
    BY <1>12, <1>15
  <2>2. order = "JPEG" /\ there >= bits
    BY <1>3, <2>1
  <2>3. h.values = nv
    BY <1>9, <1>10, <1>11, <1>12, <2>2
  <2>4. there < EndOf(o, m, nv) + ByteBits
    BY <1>9, <1>11, <2>1, Sizes
  <2> QED BY <1>7, <2>1, <2>2, <2>3, <2>4
<1>16. Has(o, m, input', D, h)
  BY <1>7, <1>8, <1>13, <1>14, <1>15 DEF Has, there
<1> QED BY <1>16 DEF h

(* The inductive invariant.  While the message is written, what was put and what is still
   to be put is all that is put for it, and the bytes that are out hold the beginning of
   it.  Once it is written only zeros follow it.  What is read is `held` in D bytes of
   data, and the reader's cache is the next bits of those.                           *)
Writing ==
  \E s \in Seq(Bit), N \in Nat :
    /\ Written(order, writer, s, N)
    /\ todo \in Seq(Seq(Bit)) /\ \A i \in 1 .. Len(todo) : Len(todo[i]) <= MaxGetBits
    /\ s \o Flat(todo) = Flat(Puts(order, message))

IsWritten ==
  \E s \in Seq(Bit), z \in Seq(Bit), N \in Nat :
    Written(order, writer, s, N) /\ s = Flat(Puts(order, message)) \o z

NotDelivered ==
  input = << >> /\ held = [values |-> 0, bits |-> 0, marker |-> Unknown] /\ reader = NewReader

ReadingIt ==
  \E D : Has(order, message, input, D, held) /\ ReaderOK(order, message, input, D, held, reader)

IndInv ==
  /\ MessageOK(order, message)
  /\ status \in {"writing", "written", "rejected", "reading"}
  /\ status = "writing" => Writing
  /\ status # "writing" => IsWritten
  /\ status \in {"writing", "written"} => NotDelivered
  /\ status \in {"rejected", "reading"} => ReadingIt

(* At first all is still to be put.                                                    *)
LEMMA InitWriting ==
  ASSUME Init
  PROVE  Writing
<1> DEFINE w == [cache |-> << >>, out |-> << >>]
           S == Flat(Puts(order, message))
<1>1. writer = w /\ todo = Puts(order, message) /\ order \in Orders /\ MessageOK(order, message)
  BY InitMessage DEF Init
<1>2. /\ Puts(order, message) \in Seq(Seq(Bit))
      /\ \A i \in 1 .. Len(Puts(order, message)) : Len(Puts(order, message)[i]) <= MaxGetBits
  <2>1. \A i \in 1 .. Len(Puts(order, message)) : Len(Puts(order, message)[i]) \in 0 .. MaxGetBits
    BY <1>1, PutsAre
  <2>2. MaxGetBits \in Nat
    BY Sizes
  <2> QED BY <1>1, <2>1, <2>2, PutsAre
<1>3. S \in Seq(Bit)
  BY <1>2, FlatIs
<1>4. w \in Writers /\ w.cache = << >> /\ w.out = << >>
  <2> DEFINE C == Seq(Bit)
             O == Seq(Byte)
  <2>1. << >> \in C /\ << >> \in O
    OBVIOUS
  <2> HIDE DEF C, O
  <2>2. w \in [cache : C, out : O]
    BY <2>1
  <2> QED BY <2>2 DEF C, O, Writers
<1>5. OutOK(order, << >>, 0)
  <2>1. Place(order, << >>, 0) = 0
    BY PlaceSteps
  <2>2. Stuffed(<< >>)
    BY DEF Stuffed
  <2>3. << >> \in Seq(Byte) /\ Len(<< >>) = 0 /\ 0 % 4 = 0
    OBVIOUS
  <2> QED BY <2>1, <2>2, <2>3 DEF OutOK
<1>6. 0 * ByteBits = 0
  BY Sizes
<1>7. Holds(order, << >>, 0, << >>)
  BY <1>6 DEF Holds
<1> HIDE DEF w
<1>8. Written(order, w, << >>, 0)
  <2>1. << >> \in Seq(Bit) /\ Len(<< >>) = 0 /\ 0 < CacheSize /\ 0 + 0 = 0
    BY Sizes
  <2> QED BY <1>4, <1>5, <1>6, <1>7, <2>1 DEF Written
<1>9. << >> \o S = S
  <2> HIDE DEF S
  <2> QED BY <1>3, ConcatEmpty
<1>10. << >> \in Seq(Bit) /\ 0 \in Nat
  OBVIOUS
<1> HIDE DEF S
<1>11. << >> \o Flat(todo) = Flat(Puts(order, message))
  BY <1>1, <1>9 DEF S
<1> QED BY <1>1, <1>2, <1>8, <1>10, <1>11 DEF Writing

(* A put goes on with the message.                                                     *)
LEMMA PutWriting ==
  ASSUME MessageOK(order, message), Writing, Put
  PROVE  Writing'
<1>1. PICK s \in Seq(Bit), N \in Nat :
        /\ Written(order, writer, s, N)
        /\ todo \in Seq(Seq(Bit)) /\ \A i \in 1 .. Len(todo) : Len(todo[i]) <= MaxGetBits
        /\ s \o Flat(todo) = Flat(Puts(order, message))
  BY DEF Writing
<1>2. /\ todo # << >> /\ writer' = PutBits(order, writer, Head(todo)) /\ todo' = Tail(todo)
      /\ order' = order /\ message' = message
  BY DEF Put
<1> DEFINE T == Seq(Bit)
           t == Head(todo)
           rest == Tail(todo)
<1>3. todo \in Seq(T) /\ Len(todo) \in Nat /\ Len(todo) > 0
  BY <1>1, <1>2
<1>4. t \in T /\ rest \in Seq(T) /\ t = todo[1] /\ Len(rest) = Len(todo) - 1 /\ \A i \in 1 .. Len(rest) : rest[i] = todo[i + 1]
  <2> HIDE DEF T
  <2> QED BY <1>3, <1>2
<1>5. Len(t) <= MaxGetBits /\ \A i \in 1 .. Len(rest) : Len(rest[i]) <= MaxGetBits
  <2>1. 1 \in 1 .. Len(todo) /\ \A i \in 1 .. Len(rest) : i + 1 \in 1 .. Len(todo)
    BY <1>3, <1>4
  <2> QED BY <1>1, <1>4, <2>1
<1>6. Flat(todo) = t \o Flat(rest)
  <2>1. << t >> \in Seq(T) /\ todo = << t >> \o rest
    <3> HIDE DEF T
    <3>1. << t >> \in Seq(T)
      BY <1>4
    <3>2. todo = << t >> \o rest
      <4> DEFINE u == << t >> \o rest
      <4>1. u \in Seq(T) /\ Len(u) = 1 + Len(rest) /\ u[1] = t /\ \A i \in 1 .. Len(rest) : u[1 + i] = rest[i]
        <5>1. << t >> \in Seq(T) /\ Len(<< t >>) = 1 /\ << t >>[1] = t /\ 1 \in 1 .. Len(<< t >>)
          BY <3>1
        <5> HIDE DEF t, rest
        <5> QED BY <1>4, <5>1, ConcatIs
      <4> HIDE DEF u, t, rest
      <4>2. Len(u) = Len(todo)
        BY <1>3, <1>4, <4>1
      <4>3. ASSUME NEW i \in 1 .. Len(todo) PROVE todo[i] = u[i]
        <5>1. CASE i = 1
          BY <1>4, <4>1, <5>1
        <5>2. CASE i # 1
          <6>1. i - 1 \in 1 .. Len(rest) /\ (i - 1) + 1 = i /\ 1 + (i - 1) = i
            BY <1>3, <1>4, <5>2
          <6> QED BY <1>4, <4>1, <6>1
        <5> QED BY <5>1, <5>2
      <4>4. todo = u
        BY <1>3, <4>1, <4>2, <4>3, SameSequence
      <4> QED BY <4>4 DEF u
    <3> QED BY <3>1, <3>2
  <2>2. Flat(<< t >> \o rest) = Flat(<< t >>) \o Flat(rest)
    BY <1>4, <2>1, FlatAppend
  <2>3. Flat(<< t >>) = t
    BY <1>4, FlatOne
  <2> HIDE DEF t, rest
  <2> QED BY <2>1, <2>2, <2>3
<1>7. Flat(rest) \in Seq(Bit)
  BY <1>4, FlatIs
<1>8. PICK M : Written(order, writer', s \o t, M)
  <2>1. order \in Orders
    BY DEF MessageOK
  <2> HIDE DEF t
  <2> QED BY <1>1, <1>2, <1>4, <1>5, <2>1, PutIs DEF t
<1>9. (s \o t) \o Flat(rest) = Flat(Puts(order, message))
  <2> DEFINE x == Flat(rest)
             y == Flat(todo)
             S == Flat(Puts(order, message))
  <2>1. y = t \o x /\ x \in Seq(Bit) /\ t \in Seq(Bit) /\ s \o y = S
    BY <1>1, <1>4, <1>6, <1>7
  <2> HIDE DEF x, y, t, S
  <2>2. s \o (t \o x) = (s \o t) \o x
    <3> DEFINE B == Bit
    <3>1. s \in Seq(B) /\ t \in Seq(B) /\ x \in Seq(B)
      BY <2>1
    <3> HIDE DEF B, T
    <3> QED BY <3>1, ConcatThree
  <2>3. (s \o t) \o x = S
    BY <2>1, <2>2
  <2> QED BY <2>3 DEF x, S
<1>10. s \o t \in Seq(Bit) /\ M \in Nat
  BY <1>8 DEF Written
<1> HIDE DEF t, rest
<1>11. /\ todo' \in Seq(Seq(Bit)) /\ \A i \in 1 .. Len(todo') : Len(todo'[i]) <= MaxGetBits
       /\ todo' = rest
  BY <1>2, <1>4, <1>5 DEF rest
<1>12. (s \o t) \o Flat(todo') = Flat(Puts(order', message'))
  BY <1>2, <1>9, <1>11
<1>13. Written(order', writer', s \o t, M)
  BY <1>2, <1>8
<1> QED BY <1>10, <1>11, <1>12, <1>13 DEF Writing

(* After the last one flush() has the whole message out.                               *)
LEMMA FlushWritten ==
  ASSUME MessageOK(order, message), Writing, Flush
  PROVE  IsWritten'
<1>1. PICK s \in Seq(Bit), N \in Nat :
        /\ Written(order, writer, s, N)
        /\ todo \in Seq(Seq(Bit)) /\ \A i \in 1 .. Len(todo) : Len(todo[i]) <= MaxGetBits
        /\ s \o Flat(todo) = Flat(Puts(order, message))
  BY DEF Writing
<1>2. todo = << >> /\ writer' = Flushed(order, writer) /\ order' = order /\ message' = message
  BY DEF Flush
<1>3. s = Flat(Puts(order, message))
  <2>1. Flat(todo) = << >> /\ s \o << >> = s
    BY <1>2, FlatEmpty, ConcatEmpty
  <2> QED BY <1>1, <2>1
<1>4. PICK z \in Seq(Bit) : \E M : Written(order, writer', s \o z, M)
  <2>1. order \in Orders
    BY DEF MessageOK
  <2> QED BY <1>1, <1>2, <2>1, FlushIs
<1>5. PICK M : Written(order, writer', s \o z, M)
  BY <1>4
<1>6. s \o z \in Seq(Bit) /\ M \in Nat
  BY <1>5 DEF Written
<1>7. Written(order', writer', s \o z, M) /\ s \o z = Flat(Puts(order', message')) \o z
  BY <1>2, <1>3, <1>5
<1> QED BY <1>6, <1>7 DEF IsWritten

(* What is delivered can be read from the beginning.                                   *)
LEMMA DeliverReading ==
  ASSUME MessageOK(order, message), IsWritten, NotDelivered, Deliver
  PROVE  ReadingIt'
<1>1. PICK s \in Seq(Bit), z \in Seq(Bit), N \in Nat : Written(order, writer, s, N) /\ s = Flat(Puts(order, message)) \o z
  BY DEF IsWritten
<1>2. PICK D : Has(order, message, input', D, held')
  BY <1>1, Delivered
<1>3. ReaderOK(order, message, input', D, held', NewReader)
  BY <1>2, NewReaderOK
<1>4. order' = order /\ message' = message /\ reader' = NewReader
  BY DEF Deliver, NotDelivered
<1> QED BY <1>2, <1>3, <1>4 DEF ReadingIt

(* A value is read, or the bits behind the last one.                                   *)
LEMMA ReadReading ==
  ASSUME ReadingIt, Read
  PROVE  ReadingIt'
<1>1. PICK D : Has(order, message, input, D, held) /\ ReaderOK(order, message, input, D, held, reader)
  BY DEF ReadingIt
<1>2. ~reader.threw /\ order' = order /\ message' = message /\ input' = input /\ held' = held
  BY DEF Read
<1>3. Len(message.values) \in Nat /\ Next1(reader) \in Nat
  <2>1. Len(reader.got) \in Nat
    BY <1>1 DEF ReaderOK, Readers
  <2> QED BY <1>1, <2>1, PutsAre DEF Has, Next1
<1>4. ReaderOK(order, message, input, D, held, reader')
  <2>1. CASE Next1(reader) > Len(message.values)
    <3>1. reader' = FieldRead(order, input, reader, MaxGetBits)
      BY <2>1 DEF Read, ReadField, FieldRead
    <3>2. Len(message.values) < Next1(reader)
      BY <1>3, <2>1
    <3> QED BY <1>1, <1>2, <3>1, <3>2, BeyondStep
  <2>2. CASE ~(Next1(reader) > Len(message.values)) /\ message.code = NoCode
    <3>1. reader' = FieldRead(order, input, reader, Len(message.values[Next1(reader)]))
      BY <2>2 DEF Read, ReadField, FieldRead
    <3>2. Next1(reader) <= Len(message.values)
      BY <1>3, <2>2
    <3> QED BY <1>1, <1>2, <2>2, <3>1, <3>2, FieldStep
  <2>3. CASE ~(Next1(reader) > Len(message.values)) /\ message.code # NoCode
    <3>1. reader' = SymbolRead(order, input, reader, message.code)
      BY <2>3 DEF Read, ReadSymbol, SymbolRead, SymbolOf
    <3>2. Next1(reader) <= Len(message.values)
      BY <1>3, <2>3
    <3> QED BY SMTT(40), <1>1, <1>2, <2>3, <3>1, <3>2, SymbolStep
  <2> QED BY <2>1, <2>2, <2>3
<1> QED BY <1>1, <1>2, <1>4 DEF ReadingIt

(* Values are skipped.                                                                 *)
LEMMA SkipReading ==
  ASSUME ReadingIt, SkipMany
  PROVE  ReadingIt'
<1>1. PICK D : Has(order, message, input, D, held) /\ ReaderOK(order, message, input, D, held, reader)
  BY DEF ReadingIt
<1>2. ~reader.threw /\ message.code = NoCode /\ order' = order /\ message' = message /\ input' = input /\ held' = held
  BY DEF SkipMany
<1>3. PICK k \in Next1(reader) + 1 .. Len(message.values) :
        LET skipped == SubSeq(message.values, Next1(reader), k)
            s == SkipManyBits(order, input, reader, Len(Flat(skipped)))
        IN  reader' = [s EXCEPT !.got = @ \o skipped]
  BY DEF SkipMany
<1> DEFINE skipped == SubSeq(message.values, Next1(reader), k)
           s == SkipManyBits(order, input, reader, Len(Flat(skipped)))
<1>4. reader' = [s EXCEPT !.got = @ \o skipped] /\ skipped = SubSeq(message.values, Next1(reader), k)
      /\ s = SkipManyBits(order, input, reader, Len(Flat(skipped)))
  BY <1>3
<1> HIDE DEF skipped, s
<1>5. ReaderOK(order, message, input, D, held, reader')
  BY <1>1, <1>2, <1>4, SkipStep
<1> QED BY <1>1, <1>2, <1>5 DEF ReadingIt

(* The reader is reloaded.                                                             *)
LEMMA ReloadReading ==
  ASSUME ReadingIt, Reload
  PROVE  ReadingIt'
<1>1. PICK D : Has(order, message, input, D, held) /\ ReaderOK(order, message, input, D, held, reader)
  BY DEF ReadingIt
<1>2. /\ ~reader.threw /\ order \notin {"JPEG", "RevMSB"} /\ reader' = Reloaded(order, input, reader)
      /\ order' = order /\ message' = message /\ input' = input /\ held' = held
  BY DEF Reload
<1>3. ReaderOK(order, message, input, D, held, reader')
  BY <1>1, <1>2, ReloadStep
<1> QED BY <1>1, <1>2, <1>3 DEF ReadingIt

(* The inductive invariant holds initially.                                            *)
LEMMA InitInd == Init => IndInv
<1> SUFFICES ASSUME Init PROVE IndInv
  OBVIOUS
<1>1. status = "writing" /\ NotDelivered
  BY DEF Init, NotDelivered
<1> QED BY <1>1, InitMessage, InitWriting DEF IndInv

(* Every step keeps it.                                                                *)
LEMMA NextInd == IndInv /\ [Next]_vars => IndInv'
<1> SUFFICES ASSUME IndInv, [Next]_vars PROVE IndInv'
  OBVIOUS
<1>1. /\ MessageOK(order, message)
      /\ status \in {"writing", "written", "rejected", "reading"}
      /\ status = "writing" => Writing
      /\ status # "writing" => IsWritten
      /\ status \in {"writing", "written"} => NotDelivered
      /\ status \in {"rejected", "reading"} => ReadingIt
  BY DEF IndInv
<1>2. CASE Put
  <2>1. status = "writing" /\ status' = "writing" /\ order' = order /\ message' = message
    BY <1>2 DEF Put
  <2>2. Writing'
    BY <1>1, <1>2, <2>1, PutWriting
  <2>3. NotDelivered'
    BY <1>1, <1>2, <2>1 DEF NotDelivered, Put
  <2>4. MessageOK(order', message')
    BY <1>1, <2>1
  <2> QED BY <2>1, <2>2, <2>3, <2>4 DEF IndInv
<1>3. CASE Flush
  <2>1. status = "writing" /\ status' = "written" /\ order' = order /\ message' = message
    BY <1>3 DEF Flush
  <2>2. IsWritten'
    BY <1>1, <1>3, <2>1, FlushWritten
  <2>3. NotDelivered'
    BY <1>1, <1>3, <2>1 DEF NotDelivered, Flush
  <2>4. MessageOK(order', message')
    BY <1>1, <2>1
  <2> QED BY <2>1, <2>2, <2>3, <2>4 DEF IndInv
<1>4. CASE Deliver
  <2>1. status = "written" /\ status' \in {"rejected", "reading"} /\ order' = order /\ message' = message /\ writer' = writer
    BY <1>4 DEF Deliver
  <2>2. ReadingIt'
    BY <1>1, <1>4, <2>1, DeliverReading
  <2>3. IsWritten'
    BY <1>1, <2>1 DEF IsWritten
  <2>4. MessageOK(order', message')
    BY <1>1, <2>1
  <2> QED BY <2>1, <2>2, <2>3, <2>4 DEF IndInv
<1>5. CASE Read \/ SkipMany \/ Reload
  <2>1. /\ status = "reading" /\ status' = "reading" /\ order' = order /\ message' = message /\ writer' = writer
    BY <1>5 DEF Read, SkipMany, Reload
  <2>2. ReadingIt'
    BY <1>1, <1>5, <2>1, ReadReading, SkipReading, ReloadReading
  <2>3. IsWritten'
    BY <1>1, <2>1 DEF IsWritten
  <2>4. MessageOK(order', message')
    BY <1>1, <2>1
  <2> QED BY <2>1, <2>2, <2>3, <2>4 DEF IndInv
<1>6. CASE UNCHANGED vars
  <2>1. /\ order' = order /\ message' = message /\ todo' = todo /\ writer' = writer /\ status' = status
        /\ input' = input /\ held' = held /\ reader' = reader
    BY <1>6 DEF vars
  <2>2. (Writing => Writing') /\ (IsWritten => IsWritten') /\ (NotDelivered => NotDelivered') /\ (ReadingIt => ReadingIt')
    BY <2>1 DEF Writing, IsWritten, NotDelivered, ReadingIt
  <2>3. MessageOK(order', message')
    BY <1>1, <2>1
  <2> QED BY <1>1, <2>1, <2>2, <2>3 DEF IndInv
<1> QED BY <1>2, <1>3, <1>4, <1>5, <1>6 DEF Next, Done

(* The inductive invariant holds in every state, for every size of bytes, codes and
   messages.                                                                           *)
THEOREM StreamsInductive == Spec => []IndInv
BY InitInd, NextInd, PTL DEF Spec

(* What every reader is: one that reads, or one that stopped.                          *)
LEMMA AnyReader ==
  ASSUME NEW o, NEW m, NEW in, NEW D, NEW h, Has(o, m, in, D, h), NEW r, ReaderOK(o, m, in, D, h, r)
  PROVE  /\ r \in Readers /\ Len(r.cache) <= CacheSize
         /\ r.used <= Furthest(o, in) * ByteBits + CacheSize
<1>1. CASE r.threw
  BY <1>1 DEF ReaderOK, Stopped
<1>2. CASE ~r.threw
  <2>1. Reading(o, in, D, r) /\ InputOK(o, in, D)
    BY <1>2 DEF ReaderOK, Has
  <2>2. r.used <= Furthest(o, in) * ByteBits + CacheSize
    BY <2>1, ReadingLimit
  <2> QED BY <2>1, <2>2 DEF Reading
<1> QED BY <1>1, <1>2

(* What is in a sequence.                                                              *)
LEMMA BitsOfCache ==
  ASSUME NEW T, NEW s \in Seq(T)
  PROVE  Range(s) \subseteq T
BY DEF Range

(* It implies the type invariant.                                                      *)
LEMMA IndType == IndInv => TypeOK
<1> SUFFICES ASSUME IndInv PROVE TypeOK
  OBVIOUS
<1>1. order \in Orders /\ status \in {"writing", "written", "rejected", "reading"}
  BY DEF IndInv, MessageOK
<1>2. Len(writer.cache) <= CacheSize /\ writer.cache \in Seq(Bit) /\ writer.out \in Seq(Byte)
  <2>1. \E s, N : Written(order, writer, s, N)
    BY DEF IndInv, Writing, IsWritten
  <2>2. Len(writer.cache) < CacheSize /\ writer.cache \in Seq(Bit) /\ writer.out \in Seq(Byte) /\ Len(writer.cache) \in Nat
    BY <2>1 DEF Written, Writers
  <2> QED BY <2>2, Sizes
<1>3. /\ Len(reader.cache) <= CacheSize /\ reader.cache \in Seq(Bit) /\ input \in Seq(Byte)
      /\ held.values \in Nat /\ reader.pos \in Nat /\ reader.threw \in BOOLEAN
  <2>1. CASE NotDelivered
    <3>1. reader.cache = << >> /\ input = << >> /\ held.values = 0 /\ reader.pos = 0 /\ reader.threw = FALSE
      BY <2>1 DEF NotDelivered, NewReader
    <3> DEFINE C == Seq(Bit)
               O == Seq(Byte)
    <3>2. << >> \in C /\ << >> \in O
      OBVIOUS
    <3> HIDE DEF C, O
    <3>3. Len(<< >>) <= CacheSize
      BY Sizes
    <3>4. Len(reader.cache) <= CacheSize
      BY <3>1, <3>3
    <3>5. reader.cache \in C /\ input \in O
      BY <3>1, <3>2
    <3>6. held.values \in Nat /\ reader.pos \in Nat /\ reader.threw \in BOOLEAN
      <4>1. held.values \in Nat /\ reader.pos \in Nat
        BY <3>1
      <4>2. reader.threw \in BOOLEAN
        BY <3>1, Zenon
      <4> QED BY <4>1, <4>2
    <3> QED BY <3>4, <3>5, <3>6 DEF C, O
  <2>2. CASE ReadingIt
    <3>1. PICK D : Has(order, message, input, D, held) /\ ReaderOK(order, message, input, D, held, reader)
      BY <2>2 DEF ReadingIt
    <3>2. reader \in Readers /\ Len(reader.cache) <= CacheSize
      BY <3>1, AnyReader
    <3>3. input \in Seq(Byte) /\ held.values \in Nat
      BY <3>1 DEF Has, InputOK
    <3> QED BY <3>2, <3>3 DEF Readers
  <2> QED BY <2>1, <2>2 DEF IndInv
<1>4. Range(writer.out) \subseteq Byte /\ Range(input) \subseteq Byte
  <2> DEFINE T == Byte
  <2>1. writer.out \in Seq(T) /\ input \in Seq(T)
    BY <1>2, <1>3
  <2> HIDE DEF T
  <2>2. Range(writer.out) \subseteq T /\ Range(input) \subseteq T
    BY <2>1, BitsOfCache
  <2> QED BY <2>2 DEF T
<1>5. Range(writer.cache) \subseteq {0, 1} /\ Range(reader.cache) \subseteq {0, 1}
  <2>1. Range(writer.cache) \subseteq Bit /\ Range(reader.cache) \subseteq Bit
    BY <1>2, <1>3, BitsOfCache
  <2> QED BY <2>1 DEF Bit
<1> QED BY <1>1, <1>2, <1>3, <1>4, <1>5 DEF TypeOK

(* It implies DecodersAgree, by what holds of every code that HuffmanCode accepts.     *)
LEMMA IndAgree == IndInv => DecodersAgree
<1> SUFFICES ASSUME IndInv, message.code # NoCode
             PROVE  /\ Verified(message.code.symbols)
                    /\ \A bits \in Windows : OtherDecoders(message.code, bits) \cup V8Decoders(message.code, bits) =
                                               {Decode(message.code, bits)}
  BY DEF DecodersAgree
<1>1. GoodCode(message.code)
  BY DEF IndInv, MessageOK
<1> QED BY <1>1, CodesAgree

(* It implies RoundTrip.                                                               *)
LEMMA IndRoundTrip == IndInv => RoundTrip
<1> SUFFICES ASSUME IndInv, NEW i \in 1 .. Min2(Len(reader.got), held.values) PROVE reader.got[i] = message.values[i]
  BY DEF RoundTrip
<1>1. CASE NotDelivered
  <2>1. reader.got = << >> /\ held.values = 0
    BY <1>1 DEF NotDelivered, NewReader
  <2>2. Min2(Len(reader.got), held.values) = 0
    BY <2>1 DEF Min2
  <2> QED BY <2>2
<1>2. CASE ReadingIt
  <2>1. PICK D : Has(order, message, input, D, held) /\ ReaderOK(order, message, input, D, held, reader)
    BY <1>2 DEF ReadingIt
  <2>2. held.values \in Nat /\ Len(reader.got) \in Nat
    <3>1. reader \in Readers
      BY <2>1 DEF ReaderOK
    <3> QED BY <2>1, <3>1 DEF Has, Readers
  <2>3. i \in 1 .. Len(reader.got) /\ i <= held.values
    BY <2>2 DEF Min2
  <2> QED BY <2>1, <2>3 DEF ReaderOK
<1> QED BY <1>1, <1>2 DEF IndInv

(* The reader's place, once the scan was read, is that of the marker.                   *)
LEMMA PlaceOfMarker ==
  ASSUME NEW o, NEW m, NEW in, NEW D, NEW h, Has(o, m, in, D, h), NEW r, ReaderOK(o, m, in, D, h, r), ~r.threw,
         h.marker # Unknown, Len(m.values) <= Len(r.got)
  PROVE  StreamPosition(r) = h.marker
<1> DEFINE E == EndOf(o, m, Len(m.values))
           b == ByteBits
<1>1. /\ o = "JPEG" /\ h.values = Len(m.values) /\ MarkerAt(in, D) /\ Place(o, in, D) = h.marker /\ D * b < E + b
      /\ InputOK(o, in, D) /\ D \in Nat /\ NoMarkerBefore(in, D) /\ b \in Nat \ {0}
  BY Sizes DEF Has, InputOK
<1>2. E \in Nat
  <2>1. Len(m.values) \in 0 .. Len(m.values)
    BY PutsAre DEF Has
  <2> QED BY <2>1, EndsAre DEF Has, EndsOK
<1>3. Reading(o, in, D, r) /\ E <= r.used /\ r.used \in Nat /\ Len(r.cache) \in Nat
  BY <1>1 DEF ReaderOK, Readers
<1>4. CASE \E k \in Nat : Unmarked(o, in, r, k)
  <2>1. PICK k \in Nat : Unmarked(o, in, r, k)
    BY <1>4
  <2>2. r.endPos = Unknown /\ r.pos = Place(o, in, k) /\ r.used + Len(r.cache) = k * b /\ NoMarkerBefore(in, k)
    BY <1>1, <2>1 DEF Unmarked
  <2>3. ~(D < k)
    BY <1>1, <2>2 DEF NoMarkerBefore
  <2>4. ~(k < D)
    <3>1. k < D => k * b + b <= D * b
      BY <1>1, NextRow
    <3> DEFINE x == k * b
               y == D * b
               u == r.used
               c == Len(r.cache)
    <3>2. x \in Nat /\ y \in Nat /\ (k < D => x + b <= y) /\ y < E + b /\ E <= u /\ u \in Nat /\ c \in Nat /\ u + c = x
      BY <1>1, <1>3, <2>2, <3>1, TimesNat
    <3> HIDE DEF x, y, u, c, E, b
    <3>3. ~(x + b <= y)
      BY <1>1, <1>2, <3>2
    <3> QED BY <3>2, <3>3
  <2>5. k = D
    BY <1>1, <2>3, <2>4
  <2> QED BY <1>1, <2>2, <2>5 DEF StreamPosition
<1>5. CASE \E k \in Nat : Marked(o, in, r, k)
  <2>1. PICK k \in Nat : Marked(o, in, r, k)
    BY <1>5
  <2>2. MarkerAt(in, k) /\ NoMarkerBefore(in, k) /\ r.endPos = Place(o, in, k)
    BY <2>1 DEF Marked
  <2>3. k = D
    <3>1. ~(k < D) /\ ~(D < k)
      BY <1>1, <2>2 DEF NoMarkerBefore
    <3> QED BY <1>1, <3>1
  <2>4. r.endPos = h.marker /\ r.endPos # Unknown
    BY <1>1, <2>2, <2>3
  <2> QED BY <2>4 DEF StreamPosition
<1> QED BY <1>3, <1>4, <1>5 DEF Reading

(* It implies MarkerFound.                                                             *)
LEMMA IndMarker == IndInv => MarkerFound
<1> SUFFICES ASSUME IndInv
             PROVE  /\ reader.endPos # Overwritten
                    /\ held.marker # Unknown /\ Len(reader.got) >= Len(message.values) /\ ~reader.threw
                         => StreamPosition(reader) = held.marker
  BY DEF MarkerFound
<1>1. CASE NotDelivered
  <2>1. reader.endPos = Unknown /\ held.marker = Unknown
    BY <1>1 DEF NotDelivered, NewReader
  <2> QED BY <2>1, BitStreamsAssumption
<1>2. CASE ReadingIt
  <2>1. PICK D : Has(order, message, input, D, held) /\ ReaderOK(order, message, input, D, held, reader)
    BY <1>2 DEF ReadingIt
  <2>2. reader.endPos \in Nat \cup {Unknown} /\ Len(reader.got) \in Nat
    BY <2>1 DEF ReaderOK, Readers
  <2>3. reader.endPos # Overwritten
    BY <2>2, BitStreamsAssumption
  <2>4. Len(message.values) \in Nat
    BY <2>1, PutsAre DEF Has
  <2>5. Len(reader.got) >= Len(message.values) => Len(message.values) <= Len(reader.got)
    BY <2>2, <2>4
  <2> QED BY <2>1, <2>3, <2>5, PlaceOfMarker
<1> QED BY <1>1, <1>2 DEF IndInv

(* It implies GivesUp.                                                                 *)
LEMMA IndGivesUp == IndInv => GivesUp
<1> SUFFICES ASSUME IndInv
             PROVE  /\ reader.threw /\ message.code = NoCode => reader.used >= held.bits
                    /\ reader.used <= (Len(input) + 3 * MaxProcessBytes(order)) * ByteBits + CacheSize
  BY DEF GivesUp
<1>1. CASE NotDelivered
  <2>1. reader.used = 0 /\ reader.threw = FALSE /\ input = << >>
    BY <1>1 DEF NotDelivered, NewReader
  <2> DEFINE x == (Len(input) + 3 * MaxProcessBytes(order)) * ByteBits
  <2>2. x \in Nat
    <3>1. Len(input) = 0
      BY <2>1
    <3>2. Len(input) + 3 * MaxProcessBytes(order) \in Nat /\ ByteBits \in Nat
      BY <3>1, Sizes DEF MaxProcessBytes
    <3> QED BY <3>2, TimesNat
  <2> HIDE DEF x
  <2>3. 0 <= x + CacheSize
    BY <2>2, Sizes
  <2> QED BY <2>1, <2>3 DEF x
<1>2. CASE ReadingIt
  <2>1. PICK D : Has(order, message, input, D, held) /\ ReaderOK(order, message, input, D, held, reader)
    BY <1>2 DEF ReadingIt
  <2>2. reader \in Readers /\ reader.used <= Furthest(order, input) * ByteBits + CacheSize
    BY <2>1, AnyReader
  <2>3. reader.threw /\ message.code = NoCode => reader.used >= held.bits
    <3> SUFFICES ASSUME reader.threw, message.code = NoCode PROVE reader.used >= held.bits
      OBVIOUS
    <3> DEFINE x == D * ByteBits
    <3>1. x <= reader.used /\ held.bits \in Nat /\ held.bits <= x /\ reader.used \in Nat /\ x \in Nat
      <4>1. D \in Nat
        BY <2>1 DEF Has, InputOK
      <4>2. x \in Nat
        BY <4>1, TimesNat, Sizes
      <4>3. x <= reader.used
        BY <2>1 DEF ReaderOK
      <4>4. held.bits \in Nat /\ held.bits <= x
        BY <2>1 DEF Has
      <4>5. reader.used \in Nat
        BY <2>2 DEF Readers
      <4> QED BY <4>2, <4>3, <4>4, <4>5
    <3> HIDE DEF x
    <3> QED BY <3>1
  <2> QED BY <2>2, <2>3 DEF Furthest
<1> QED BY <1>1, <1>2 DEF IndInv

(* TypeOK: the caches of writer and reader hold bits and never more than their size, at
   whatever fill level a put or a load came.                                           *)
THEOREM StreamsTypeCorrect == Spec => []TypeOK
BY StreamsInductive, IndType, PTL

(* DecodersAgree: whatever code of a JPEG table HuffmanCode accepts, no code is the
   beginning of another, and the tree, vector, lookup and LUT decoders and that of
   PanasonicV8 read every run of bits alike.                                           *)
THEOREM AllDecodersAgree == Spec => []DecodersAgree
BY StreamsInductive, IndAgree, PTL

(* RoundTrip: what BitVacuumer was given is what BitStreamer reads, in all six orders,
   as far as the bytes that came hold it, with stuffing, skips and reloads in between. *)
THEOREM ReadAsWritten == Spec => []RoundTrip
BY StreamsInductive, IndRoundTrip, PTL

(* MarkerFound: a marker is found once, and once the values of a scan were read the
   reader's position is that of the marker behind them.                                *)
THEOREM MarkerIsFound == Spec => []MarkerFound
BY StreamsInductive, IndMarker, PTL

(* GivesUp: the reader throws no sooner than the data are used up, and no later than
   three loads and a cache of zeros behind them.                                       *)
THEOREM ReaderGivesUp == Spec => []GivesUp
BY StreamsInductive, IndGivesUp, PTL
===============================================================================
