----------------------------- MODULE SequenceFacts -----------------------------
(***************************************************************************)
(* What Sorted and FlattenSeq compute, for every argument.                 *)
(*                                                                         *)
(* Induction over the naturals is stated for a set instead of a predicate: *)
(* it follows from the existence of minimal elements (WFMin) in that form, *)
(* and the provers can be given the set to use it with.                    *)
(***************************************************************************)
EXTENDS Order, SequencesExt, SequenceTheorems, FiniteSetTheorems,
        WellFoundedInduction, TLAPS

(* A set with 0 that is closed under successor has all natural numbers. *)
LEMMA SetInduction ==
  ASSUME NEW S, 0 \in S, \A n \in Nat : n \in S => n + 1 \in S
  PROVE  Nat \subseteq S
<1> DEFINE T == Nat \ S
<1>1. SUFFICES ASSUME T # {} PROVE FALSE
  OBVIOUS
<1>2. IsWellFoundedOn(OpToRel(<, Nat), Nat)
  BY NatLessThanWellFounded
<1>3. PICK x \in T : \A y \in T : ~(<<y, x>> \in OpToRel(<, Nat))
  <2>1. T \subseteq Nat
    OBVIOUS
  <2> HIDE DEF T
  <2> QED
    BY <1>1, <1>2, <2>1, WFMin
<1>4. \A y \in T : ~(y < x)
  BY <1>3 DEF OpToRel
<1>5. x # 0 /\ x - 1 \in Nat
  OBVIOUS
<1>6. x - 1 \in S
  BY <1>4, <1>5
<1> QED
  BY <1>5, <1>6

(* The same up to a bound. *)
LEMMA BoundedInduction ==
  ASSUME NEW S, NEW N \in Nat, NEW m \in Nat, m \in S,
         \A n \in m .. N - 1 : n \in S => n + 1 \in S
  PROVE  m .. N \subseteq S
<1> DEFINE T == {k \in Nat : m + k <= N => m + k \in S}
<1>1. 0 \in T
  OBVIOUS
<1>2. \A k \in Nat : k \in T => k + 1 \in T
  <2> SUFFICES ASSUME NEW k \in Nat, k \in T, m + (k + 1) <= N PROVE m + (k + 1) \in S
    OBVIOUS
  <2>1. m + k \in m .. N - 1 /\ m + k \in S
    OBVIOUS
  <2>2. (m + k) + 1 \in S
    BY <2>1
  <2> QED
    BY <2>2
<1>3. Nat \subseteq T
  <2> HIDE DEF T
  <2> QED
    BY <1>1, <1>2, SetInduction
<1>4. \A i \in m .. N : i - m \in Nat /\ m + (i - m) = i
  OBVIOUS
<1> QED
  BY <1>3, <1>4

(* Min is what it says. *)
LEMMA MinNat ==
  ASSUME NEW S, S \subseteq Nat, S # {}
  PROVE  Min(S) \in S /\ \A y \in S : Min(S) <= y
<1>1. PICK x \in S : \A y \in S : ~(<<y, x>> \in OpToRel(<, Nat))
  <2>1. IsWellFoundedOn(OpToRel(<, Nat), Nat)
    BY NatLessThanWellFounded
  <2> QED
    BY <2>1, WFMin
<1>2. ASSUME NEW y \in S PROVE x <= y
  <2>1. x \in Nat /\ y \in Nat
    OBVIOUS
  <2>2. ~(y < x)
    BY <1>1, <2>1 DEF OpToRel
  <2> QED
    BY <2>1, <2>2
<1> QED
  BY <1>2 DEF Min

(* The smaller of two numbers. *)
LEMMA MinPair ==
  ASSUME NEW a \in Nat, NEW b \in Nat
  PROVE  Min({a, b}) \in Nat /\ Min({a, b}) \in {a, b} /\ Min({a, b}) <= a /\ Min({a, b}) <= b
<1>1. {a, b} \subseteq Nat /\ {a, b} # {}
  OBVIOUS
<1>2. Min({a, b}) \in {a, b} /\ \A y \in {a, b} : Min({a, b}) <= y
  BY <1>1, MinNat
<1> QED
  BY <1>2

-----------------------------------------------------------------------------
(* FlattenSeq                                                              *)

(* f[n] is the concatenation of the first n sequences of ss. *)
Flattening(ss, f) ==
  /\ DOMAIN f = 1 .. Len(ss)
  /\ \A i \in 1 .. Len(ss) : f[i] = IF i = 1 THEN ss[i] ELSE f[i - 1] \o ss[i]

(* Its first n values. *)
PartFlattened(A, ss, n) ==
  {f \in [1 .. n -> Seq(A)] :
     \A i \in 1 .. n : f[i] = IF i = 1 THEN ss[i] ELSE f[i - 1] \o ss[i]}

(* One more value. *)
LEMMA PartExtended ==
  ASSUME NEW A, NEW ss \in Seq(Seq(A)), NEW n \in Nat, 1 <= n, n < Len(ss),
         NEW f \in PartFlattened(A, ss, n)
  PROVE  PartFlattened(A, ss, n + 1) # {}
<1> DEFINE g == [i \in 1 .. n + 1 |-> IF i = n + 1 THEN f[n] \o ss[n + 1] ELSE f[i]]
<1>1. /\ f \in [1 .. n -> Seq(A)]
      /\ \A i \in 1 .. n : f[i] = IF i = 1 THEN ss[i] ELSE f[i - 1] \o ss[i]
  BY DEF PartFlattened
<1>2. f[n] \in Seq(A) /\ ss[n + 1] \in Seq(A)
  BY <1>1, LenProperties
<1>3. f[n] \o ss[n + 1] \in Seq(A)
  BY <1>2, ConcatProperties
<1>4. g \in [1 .. n + 1 -> Seq(A)]
  BY <1>1, <1>3
<1>5. ASSUME NEW i \in 1 .. n + 1
      PROVE  g[i] = IF i = 1 THEN ss[i] ELSE g[i - 1] \o ss[i]
  <2>1. CASE i = n + 1
    <3>1. i # 1 /\ i - 1 = n /\ n # n + 1 /\ n \in 1 .. n + 1
      BY <2>1
    <3>2. g[i] = f[n] \o ss[n + 1] /\ g[i - 1] = f[n]
      BY <2>1, <3>1
    <3> QED
      BY <2>1, <3>1, <3>2
  <2>2. CASE i # n + 1 /\ i # 1
    <3>1. i \in 1 .. n /\ i - 1 \in 1 .. n + 1 /\ i - 1 # n + 1
      BY <2>2
    <3>2. g[i] = f[i] /\ g[i - 1] = f[i - 1]
      BY <2>2, <3>1
    <3>3. f[i] = f[i - 1] \o ss[i]
      BY <1>1, <2>2, <3>1
    <3> QED
      BY <2>2, <3>2, <3>3
  <2>3. CASE i # n + 1 /\ i = 1
    <3>1. g[i] = f[i] /\ i \in 1 .. n
      BY <2>3
    <3>2. f[i] = IF i = 1 THEN ss[i] ELSE f[i - 1] \o ss[i]
      BY <1>1, <3>1, Zenon
    <3> QED
      BY <2>3, <3>1, <3>2, Zenon
  <2> QED
    BY <2>1, <2>2, <2>3
<1>6. g \in PartFlattened(A, ss, n + 1)
  <2> HIDE DEF g
  <2> QED
    BY <1>4, <1>5 DEF PartFlattened
<1> QED
  BY <1>6

(* There is such a function, so FlattenSeq is its last value. *)
LEMMA FlattenIsLast ==
  ASSUME NEW A, NEW ss \in Seq(Seq(A)), ss # << >>
  PROVE  \E f \in [1 .. Len(ss) -> Seq(A)] :
           Flattening(ss, f) /\ FlattenSeq(ss) = f[Len(ss)]
<1> DEFINE N == Len(ss)
           S == {n \in Nat : PartFlattened(A, ss, n) # {}}
<1>0. N \in Nat /\ N >= 1 /\ \A i \in 1 .. N : ss[i] \in Seq(A)
  BY LenProperties, EmptySeq
<1>1. 1 \in S
  <2>1. [i \in 1 .. 1 |-> ss[1]] \in PartFlattened(A, ss, 1)
    BY <1>0 DEF PartFlattened
  <2> QED
    BY <2>1
<1>2. \A n \in 1 .. N - 1 : n \in S => n + 1 \in S
  <2> SUFFICES ASSUME NEW n \in 1 .. N - 1, n \in S PROVE n + 1 \in S
    OBVIOUS
  <2>1. n \in Nat /\ 1 <= n /\ n < Len(ss) /\ PartFlattened(A, ss, n) # {}
    BY <1>0
  <2>2. PartFlattened(A, ss, n + 1) # {}
    BY <2>1, PartExtended
  <2> QED
    BY <2>1, <2>2
<1>3. N \in S
  <2> HIDE DEF S, N
  <2>1. 1 .. N \subseteq S
    BY <1>0, <1>1, <1>2, BoundedInduction
  <2> QED
    BY <1>0, <2>1
<1>4. PICK g : g \in PartFlattened(A, ss, N)
  BY <1>3
<1>5. g = [i \in 1 .. N |-> IF i = 1 THEN ss[i] ELSE g[i - 1] \o ss[i]]
  BY <1>4 DEF PartFlattened
<1> DEFINE h == CHOOSE f : f = [i \in 1 .. N |-> IF i = 1 THEN ss[i] ELSE f[i - 1] \o ss[i]]
<1>6. h = [i \in 1 .. N |-> IF i = 1 THEN ss[i] ELSE h[i - 1] \o ss[i]]
  BY <1>5
<1>7. Flattening(ss, h)
  <2> HIDE DEF h
  <2> QED
    BY <1>6 DEF Flattening
<1>8. FlattenSeq(ss) = h[N]
  BY <1>0 DEF FlattenSeq
<1>9. h \in [1 .. N -> Seq(A)]
  <2> HIDE DEF h
  <2> DEFINE T == {n \in 1 .. N : h[n] \in Seq(A)}
  <2>1. 1 \in T
    <3>1. 1 \in 1 .. N /\ ss[1] \in Seq(A)
      BY <1>0
    <3>2. h[1] = IF 1 = 1 THEN ss[1] ELSE h[1 - 1] \o ss[1]
      BY <1>7, <3>1, Zenon DEF Flattening
    <3>3. h[1] = ss[1]
      BY <3>2, Zenon
    <3> QED
      BY <3>1, <3>3
  <2>2. ASSUME NEW n \in 1 .. N - 1, n \in T PROVE n + 1 \in T
    <3>1. n + 1 \in 1 .. N /\ n + 1 # 1 /\ (n + 1) - 1 = n
      BY <1>0
    <3>2. h[n + 1] = h[n] \o ss[n + 1]
      BY <1>7, <3>1 DEF Flattening
    <3>3. h[n] \o ss[n + 1] \in Seq(A)
      BY <1>0, <2>2, <3>1, ConcatProperties
    <3> QED
      BY <3>1, <3>2, <3>3
  <2>3. 1 .. N \subseteq T
    <3> HIDE DEF T, N
    <3> QED
      BY <1>0, <2>1, <2>2, BoundedInduction
  <2> QED
    BY <1>6, <2>3
<1> QED
  BY <1>7, <1>8, <1>9

(* The result is a sequence over the same set. *)
LEMMA FlattenType ==
  ASSUME NEW A, NEW ss \in Seq(Seq(A))
  PROVE  FlattenSeq(ss) \in Seq(A)
<1>1. CASE ss = << >>
  BY <1>1, EmptySeq DEF FlattenSeq
<1>2. CASE ss # << >>
  <2>1. PICK N \in Nat \ {0} : N = Len(ss)
    BY <1>2, EmptySeq
  <2>2. PICK f \in [1 .. N -> Seq(A)] : FlattenSeq(ss) = f[N]
    BY <1>2, <2>1, FlattenIsLast
  <2> QED
    BY <2>1, <2>2
<1> QED
  BY <1>1, <1>2

(* The values of a flattening, one by one. *)
LEMMA FlatteningSteps ==
  ASSUME NEW ss, NEW f, Flattening(ss, f), NEW N \in Nat, Len(ss) = N + 1
  PROVE  /\ f[1] = ss[1]
         /\ \A i \in 1 .. N : f[i + 1] = f[i] \o ss[i + 1]
<1>1. f[1] = IF 1 = 1 THEN ss[1] ELSE f[1 - 1] \o ss[1]
  <2>1. 1 \in 1 .. Len(ss)
    OBVIOUS
  <2> QED
    BY <2>1, Zenon DEF Flattening
<1>2. ASSUME NEW i \in 1 .. N PROVE f[i + 1] = f[i] \o ss[i + 1]
  <2>1. i + 1 \in 1 .. Len(ss) /\ i + 1 # 1 /\ (i + 1) - 1 = i
    OBVIOUS
  <2> QED
    BY <2>1 DEF Flattening
<1> QED
  BY <1>1, <1>2, Zenon

(* One more sequence at the end. *)
LEMMA FlattenAppend ==
  ASSUME NEW A, NEW ss \in Seq(Seq(A)), NEW s \in Seq(A),
         NEW rr \in Seq(Seq(A)), Len(rr) = Len(ss) + 1, rr[Len(ss) + 1] = s,
         \A i \in 1 .. Len(ss) : rr[i] = ss[i]
  PROVE  FlattenSeq(rr) = FlattenSeq(ss) \o s
<1>0. PICK N \in Nat : N = Len(ss) /\ N + 1 = Len(rr)
  BY LenProperties
<1>a. rr # << >>
  BY <1>0, EmptySeq
<1>b. rr[N + 1] = s /\ \A i \in 1 .. N : rr[i] = ss[i]
  BY <1>0
<1>1. PICK g \in [1 .. N + 1 -> Seq(A)] : Flattening(rr, g) /\ FlattenSeq(rr) = g[N + 1]
  BY <1>0, <1>a, FlattenIsLast
<1>2. /\ g[1] = rr[1]
      /\ \A i \in 1 .. N : g[i + 1] = g[i] \o rr[i + 1]
  <2> QED
    BY <1>0, <1>1, FlatteningSteps
<1>3. CASE N = 0
  <2>1. ss = << >> /\ Len(ss) = 0
    BY <1>0, <1>3, EmptySeq
  <2>2. FlattenSeq(ss) = << >>
    BY <2>1 DEF FlattenSeq
  <2>3. FlattenSeq(rr) = s
    BY <1>1, <1>2, <1>b, <1>3
  <2> QED
    BY <2>2, <2>3, ConcatEmptySeq
<1>4. CASE N # 0
  <2>0. ss # << >> /\ N \in Nat \ {0}
    BY <1>0, <1>4, EmptySeq
  <2>1. PICK f \in [1 .. N -> Seq(A)] : Flattening(ss, f) /\ FlattenSeq(ss) = f[N]
    BY <1>0, <2>0, FlattenIsLast
  <2>2. /\ f[1] = ss[1]
        /\ \A i \in 1 .. N - 1 : f[i + 1] = f[i] \o ss[i + 1]
    <3>1. N - 1 \in Nat /\ Len(ss) = (N - 1) + 1
      BY <1>0, <2>0
    <3> QED
      BY <2>1, <3>1, FlatteningSteps
  <2> DEFINE T == {n \in 1 .. N : f[n] = g[n]}
  <2>3. 1 \in T
    BY <1>2, <1>b, <2>0, <2>2
  <2>4. ASSUME NEW n \in 1 .. N - 1, n \in T PROVE n + 1 \in T
    <3>1. n + 1 \in 1 .. N /\ n \in 1 .. N
      BY <2>0
    <3>2. rr[n + 1] = ss[n + 1] /\ f[n] = g[n]
      BY <1>b, <2>4, <3>1
    <3>3. f[n + 1] = g[n + 1]
      BY <1>2, <2>2, <3>1, <3>2
    <3> QED
      BY <3>1, <3>3
  <2>5. N \in T
    <3>1. 1 .. N \subseteq T
      <4> HIDE DEF T
      <4> QED
        BY <2>0, <2>3, <2>4, BoundedInduction
    <3>2. N \in 1 .. N
      BY <2>0
    <3> QED
      BY <3>1, <3>2, Zenon
  <2>6. N \in 1 .. N
    BY <2>0
  <2>7. g[N + 1] = g[N] \o rr[N + 1]
    BY <1>2, <2>6
  <2> QED
    BY <1>1, <1>b, <2>1, <2>5, <2>7
<1> QED
  BY <1>3, <1>4

(* Concatenation under a name of its own, for the equations in which the   *)
(* provers should take it as it is.                                        *)
Cat(s, t) == s \o t

(* Concatenation is associative, and the empty sequence its unit. *)
LEMMA CatFacts ==
  ASSUME NEW A, NEW s \in Seq(A), NEW t \in Seq(A)
  PROVE  /\ Cat(s, t) \in Seq(A)
         /\ Len(Cat(s, t)) = Len(s) + Len(t)
         /\ Cat(s, << >>) = s /\ Cat(<< >>, s) = s
         /\ \A u \in Seq(A) : Cat(Cat(s, t), u) = Cat(s, Cat(t, u))
<1>1. Cat(s, t) \in Seq(A) /\ Len(Cat(s, t)) = Len(s) + Len(t)
  BY ConcatProperties DEF Cat
<1>2. Cat(s, << >>) = s /\ Cat(<< >>, s) = s
  BY ConcatEmptySeq DEF Cat
<1>3. ASSUME NEW u \in Seq(A) PROVE Cat(Cat(s, t), u) = Cat(s, Cat(t, u))
  BY ConcatAssociative DEF Cat
<1> QED
  BY <1>1, <1>2, <1>3

(* The first sequence comes first. *)
LEMMA FlattenHead ==
  ASSUME NEW A, NEW ss \in Seq(Seq(A)), ss # << >>
  PROVE  FlattenSeq(ss) = ss[1] \o FlattenSeq(Tail(ss))
<1>0. PICK tl \in Seq(Seq(A)), N \in Nat :
        /\ tl = Tail(ss) /\ Len(ss) = N + 1 /\ Len(tl) = N
        /\ \A i \in 1 .. N : tl[i] = ss[i + 1]
  <2>1. PICK M \in Nat \ {0} : M = Len(ss)
    BY EmptySeq
  <2>2. /\ Tail(ss) \in Seq(Seq(A)) /\ Len(Tail(ss)) = M - 1
        /\ \A i \in 1 .. M - 1 : Tail(ss)[i] = ss[i + 1]
    BY <2>1, HeadTailProperties
  <2>3. M - 1 \in Nat /\ M = (M - 1) + 1
    OBVIOUS
  <2> QED
    BY <2>1, <2>2, <2>3, Zenon
<1>a. \A i \in 1 .. N + 1 : ss[i] \in Seq(A)
  BY <1>0, ElementOfSeq
<1>b. PICK h \in Seq(A) : h = ss[1]
  BY <1>a
<1>1. PICK f \in [1 .. N + 1 -> Seq(A)] : Flattening(ss, f) /\ FlattenSeq(ss) = f[N + 1]
  <2>1. \E f \in [1 .. Len(ss) -> Seq(A)] : Flattening(ss, f) /\ FlattenSeq(ss) = f[Len(ss)]
    BY FlattenIsLast
  <2> QED
    BY <1>0, <2>1
<1>2. /\ f[1] = h
      /\ \A i \in 1 .. N : f[i + 1] = f[i] \o tl[i]
  <2>1. /\ f[1] = ss[1]
        /\ \A i \in 1 .. N : f[i + 1] = f[i] \o ss[i + 1]
    BY <1>0, <1>1, FlatteningSteps
  <2> QED
    BY <1>0, <1>b, <2>1, Zenon
<1>3. CASE N = 0
  <2>1. tl = << >> /\ Len(tl) = 0
    BY <1>0, <1>3, EmptySeq
  <2>2. FlattenSeq(tl) = << >>
    BY <2>1 DEF FlattenSeq
  <2>3. FlattenSeq(ss) = h
    BY <1>1, <1>2, <1>3
  <2> QED
    BY <1>0, <1>b, <2>2, <2>3, ConcatEmptySeq
<1>4. CASE N # 0
  <2>0. tl # << >> /\ N \in Nat \ {0}
    BY <1>0, <1>4, EmptySeq
  <2>1. PICK g \in [1 .. N -> Seq(A)] : Flattening(tl, g) /\ FlattenSeq(tl) = g[N]
    BY <1>0, <2>0, FlattenIsLast
  <2>2. /\ g[1] = tl[1]
        /\ \A i \in 1 .. N - 1 : g[i + 1] = g[i] \o tl[i + 1]
    <3>1. N - 1 \in Nat /\ Len(tl) = (N - 1) + 1
      BY <1>0, <2>0
    <3> QED
      BY <2>1, <3>1, FlatteningSteps
  <2> DEFINE T == {n \in 1 .. N : f[n + 1] = h \o g[n]}
  <2>3. 1 \in T
    <3>1. 1 \in 1 .. N
      BY <2>0
    <3>2. f[1 + 1] = h \o g[1]
      BY <1>2, <2>2, <3>1
    <3> QED
      BY <3>1, <3>2
  <2>4. ASSUME NEW n \in 1 .. N - 1, n \in T PROVE n + 1 \in T
    <3>1. n + 1 \in 1 .. N /\ n \in 1 .. N
      BY <2>0
    <3>2. PICK u \in Seq(A), v \in Seq(A) : u = g[n] /\ v = tl[n + 1]
      BY <1>0, <2>1, <3>1, ElementOfSeq
    <3>3. f[(n + 1) + 1] = f[n + 1] \o v
      BY <1>2, <3>1, <3>2
    <3>4. f[n + 1] = h \o u
      BY <2>4, <3>2
    <3>5. g[n + 1] = u \o v
      BY <2>2, <3>2
    <3>6. f[(n + 1) + 1] = h \o g[n + 1]
      <4>1. f[n + 1] = Cat(h, u) /\ g[n + 1] = Cat(u, v) /\ f[(n + 1) + 1] = Cat(f[n + 1], v)
        BY <3>3, <3>4, <3>5 DEF Cat
      <4>2. Cat(Cat(h, u), v) = Cat(h, Cat(u, v))
        BY CatFacts
      <4>3. f[(n + 1) + 1] = Cat(h, g[n + 1])
        BY <4>1, <4>2
      <4> QED
        BY <4>3 DEF Cat
    <3> QED
      BY <3>1, <3>6
  <2>5. N \in T
    <3>1. 1 .. N \subseteq T
      <4> HIDE DEF T
      <4> QED
        BY <2>0, <2>3, <2>4, BoundedInduction
    <3>2. N \in 1 .. N
      BY <2>0
    <3> QED
      BY <3>1, <3>2, Zenon
  <2> QED
    BY <1>0, <1>1, <1>b, <2>1, <2>5
<1> QED
  BY <1>3, <1>4

(* Nothing flattens to nothing. *)
LEMMA FlattenEmpty ==
  ASSUME NEW ss, Len(ss) = 0
  PROVE  FlattenSeq(ss) = ss
BY DEF FlattenSeq

(* The m elements of s are the last of the n elements of t. *)
SuffixAt(s, m, t, n) == m <= n /\ \A i \in 1 .. m : s[i] = t[(n - m) + i]

(* A suffix, position by position. *)
LEMMA SuffixPositions ==
  ASSUME NEW A, NEW s \in Seq(A), NEW t \in Seq(A)
  PROVE  IsSuffix(s, t) <=> SuffixAt(s, Len(s), t, Len(t))
<1>0. PICK m \in Nat, n \in Nat : m = Len(s) /\ n = Len(t)
  BY LenProperties
<1>1. PICK r \in Seq(A) : r = Reverse(s) /\ Len(r) = m /\ \A i \in 1 .. m : r[i] = s[(m - i) + 1]
  <2>1. \A i \in 1 .. m : (m - i) + 1 \in 1 .. m
    OBVIOUS
  <2>2. \A i \in 1 .. m : s[i] \in A
    BY <1>0, LenProperties
  <2> DEFINE z == [i \in 1 .. m |-> s[(m - i) + 1]]
  <2>3. z \in Seq(A) /\ Len(z) = m /\ \A i \in 1 .. m : z[i] = s[(m - i) + 1]
    BY <2>1, <2>2
  <2>4. z = Reverse(s)
    BY <1>0, Zenon DEF Reverse
  <2> HIDE DEF z
  <2> QED
    BY <2>3, <2>4
<1>2. PICK q \in Seq(A) : q = Reverse(t) /\ Len(q) = n /\ \A i \in 1 .. n : q[i] = t[(n - i) + 1]
  <2>1. \A i \in 1 .. n : (n - i) + 1 \in 1 .. n
    OBVIOUS
  <2>2. \A i \in 1 .. n : t[i] \in A
    BY <1>0, LenProperties
  <2> DEFINE z == [i \in 1 .. n |-> t[(n - i) + 1]]
  <2>3. z \in Seq(A) /\ Len(z) = n /\ \A i \in 1 .. n : z[i] = t[(n - i) + 1]
    BY <2>1, <2>2
  <2>4. z = Reverse(t)
    BY <1>0, Zenon DEF Reverse
  <2> HIDE DEF z
  <2> QED
    BY <2>3, <2>4
<1>3. IsSuffix(s, t) <=> m <= n /\ SubSeq(r, 1, m) = SubSeq(q, 1, m)
  BY <1>1, <1>2, Zenon DEF IsSuffix, IsPrefix
<1>4. ASSUME m <= n
      PROVE  SubSeq(r, 1, m) = SubSeq(q, 1, m) <=> \A i \in 1 .. m : r[i] = q[i]
  <2>1. PICK x \in Seq(A) : x = SubSeq(r, 1, m) /\ Len(x) = m /\ \A i \in 1 .. m : x[i] = r[i]
    BY <1>1
  <2>2. PICK y \in Seq(A) : y = SubSeq(q, 1, m) /\ Len(y) = m /\ \A i \in 1 .. m : y[i] = q[i]
    <3>1. 1 \in 1 .. Len(q) + 1 /\ m \in 0 .. Len(q) /\ (m - 1) + 1 = m
      BY <1>2, <1>4
    <3>2. /\ SubSeq(q, 1, m) \in Seq(A) /\ Len(SubSeq(q, 1, m)) = m
          /\ \A i \in 1 .. m : SubSeq(q, 1, m)[i] = q[i]
      BY <3>1
    <3> QED
      BY <3>2
  <2>3. x = y <=> \A i \in 1 .. m : x[i] = y[i]
    BY <2>1, <2>2, SeqEqual
  <2> QED
    BY <2>1, <2>2, <2>3
<1>5. ASSUME m <= n
      PROVE  (\A i \in 1 .. m : r[i] = q[i]) <=> \A i \in 1 .. m : s[i] = t[(n - m) + i]
  <2>1. ASSUME NEW i \in 1 .. m
        PROVE  /\ (m - i) + 1 \in 1 .. m /\ (m - ((m - i) + 1)) + 1 = i
               /\ (n - ((m - i) + 1)) + 1 = (n - m) + i /\ (n - m) + ((m - i) + 1) = (n - i) + 1
               /\ i \in 1 .. n
    BY <1>5
  <2>2. ASSUME \A i \in 1 .. m : r[i] = q[i], NEW i \in 1 .. m PROVE s[i] = t[(n - m) + i]
    <3>1. PICK j \in 1 .. m : j = (m - i) + 1 /\ (m - j) + 1 = i /\ (n - j) + 1 = (n - m) + i /\ j \in 1 .. n
      BY <2>1
    <3>2. r[j] = s[i] /\ q[j] = t[(n - m) + i]
      BY <1>1, <1>2, <3>1
    <3> QED
      BY <2>2, <3>1, <3>2
  <2>3. ASSUME \A i \in 1 .. m : s[i] = t[(n - m) + i], NEW i \in 1 .. m PROVE r[i] = q[i]
    <3>1. PICK j \in 1 .. m : j = (m - i) + 1 /\ (n - m) + j = (n - i) + 1 /\ i \in 1 .. n
      BY <2>1
    <3>2. r[i] = s[j] /\ q[i] = t[(n - m) + j]
      BY <1>1, <1>2, <3>1, Zenon
    <3> QED
      BY <2>3, <3>1, <3>2
  <2> QED
    BY <2>2, <2>3
<1>6. IsSuffix(s, t) <=> SuffixAt(s, m, t, n)
  BY <1>3, <1>4, <1>5 DEF SuffixAt
<1> QED
  BY <1>0, <1>6, Zenon

(* Nothing is a suffix of everything. *)
LEMMA SuffixEmpty ==
  ASSUME NEW A, NEW t \in Seq(A)
  PROVE  IsSuffix(<< >>, t)
<1>1. PICK n \in Nat : n = Len(t)
  BY LenProperties
<1>2. << >> \in Seq(A) /\ Len(<< >>) = 0
  OBVIOUS
<1>3. SuffixAt(<< >>, 0, t, n)
  BY DEF SuffixAt
<1> QED
  BY <1>1, <1>2, <1>3, SuffixPositions, Zenon

(* A suffix stays one when both grow by the same element. *)
LEMMA SuffixAppend ==
  ASSUME NEW A, NEW s \in Seq(A), NEW t \in Seq(A), NEW e \in A, IsSuffix(s, t)
  PROVE  IsSuffix(Append(s, e), Append(t, e))
<1>1. PICK m \in Nat, n \in Nat : m = Len(s) /\ n = Len(t)
  BY LenProperties
<1>2. SuffixAt(s, m, t, n)
  BY <1>1, SuffixPositions, Zenon
<1>3. PICK x \in Seq(A) : /\ x = Append(s, e) /\ Len(x) = m + 1 /\ x[m + 1] = e
                          /\ \A i \in 1 .. m : x[i] = s[i]
  <2>1. /\ Append(s, e) \in Seq(A) /\ Len(Append(s, e)) = m + 1 /\ Append(s, e)[m + 1] = e
        /\ \A i \in 1 .. m : Append(s, e)[i] = s[i]
    <3>1. /\ Append(s, e) \in Seq(A) /\ Len(Append(s, e)) = Len(s) + 1
          /\ Append(s, e)[Len(s) + 1] = e
          /\ \A i \in 1 .. Len(s) : Append(s, e)[i] = s[i]
      BY AppendProperties
    <3> QED
      BY <1>1, <3>1, Zenon
  <2> QED
    BY <2>1
<1>4. PICK y \in Seq(A) : /\ y = Append(t, e) /\ Len(y) = n + 1 /\ y[n + 1] = e
                          /\ \A i \in 1 .. n : y[i] = t[i]
  <2>1. /\ Append(t, e) \in Seq(A) /\ Len(Append(t, e)) = n + 1 /\ Append(t, e)[n + 1] = e
        /\ \A i \in 1 .. n : Append(t, e)[i] = t[i]
    <3>1. /\ Append(t, e) \in Seq(A) /\ Len(Append(t, e)) = Len(t) + 1
          /\ Append(t, e)[Len(t) + 1] = e
          /\ \A i \in 1 .. Len(t) : Append(t, e)[i] = t[i]
      BY AppendProperties
    <3> QED
      BY <1>1, <3>1, Zenon
  <2> QED
    BY <2>1
<1>5. ASSUME NEW i \in 1 .. m + 1 PROVE x[i] = y[((n + 1) - (m + 1)) + i]
  <2>1. ((n + 1) - (m + 1)) + i = (n - m) + i
    OBVIOUS
  <2>2. CASE i = m + 1
    <3>1. (n - m) + i = n + 1
      BY <2>2
    <3> QED
      BY <1>3, <1>4, <2>1, <2>2, <3>1
  <2>3. CASE i # m + 1
    <3>1. i \in 1 .. m /\ (n - m) + i \in 1 .. n
      BY <1>2, <2>3 DEF SuffixAt
    <3> QED
      BY <1>2, <1>3, <1>4, <2>1, <3>1 DEF SuffixAt
  <2> QED
    BY <2>2, <2>3
<1>6. SuffixAt(x, m + 1, y, n + 1)
  BY <1>2, <1>5 DEF SuffixAt
<1>7. IsSuffix(x, y)
  BY <1>3, <1>4, <1>6, SuffixPositions, Zenon
<1> QED
  BY <1>3, <1>4, <1>7

(* Two sequences of sequences with the same lengths are flattened alike:   *)
(* position i of both results comes from one place <<c, l>> of both        *)
(* arguments, every place is the source of one position, and no other.     *)
Places(ss) == {p \in (1 .. Len(ss)) \X Nat : p[2] \in 1 .. Len(ss[p[1]])}

FlattenedAlike(ss, rr, n, x, y, place) ==
  /\ Len(x) = Len(y)
  /\ place \in [1 .. Len(x) -> {p \in Places(ss) : p[1] <= n}]
  /\ \A i \in 1 .. Len(x) : /\ x[i] = ss[place[i][1]][place[i][2]]
                            /\ y[i] = rr[place[i][1]][place[i][2]]
  /\ \A i, j \in 1 .. Len(x) : place[i] = place[j] => i = j
  /\ \A p \in Places(ss) : p[1] <= n => \E i \in 1 .. Len(x) : place[i] = p

(* The n-th sequence of ss is u. *)
Nth(ss, n, u) == ss[n] = u

(* Appending one more sequence to each keeps the places. *)
LEMMA AlikeExtended ==
  ASSUME NEW A, NEW B, NEW ss \in Seq(Seq(A)), NEW rr \in Seq(Seq(B)), Len(ss) = Len(rr),
         NEW n \in Nat, n < Len(ss), NEW x \in Seq(A), NEW y \in Seq(B), NEW place,
         FlattenedAlike(ss, rr, n, x, y, place),
         NEW u \in Seq(A), NEW v \in Seq(B), Nth(ss, n + 1, u), Nth(rr, n + 1, v), Len(u) = Len(v)
  PROVE  \E q : FlattenedAlike(ss, rr, n + 1, x \o u, y \o v, q)
<1>a. /\ Len(x \o u) = Len(x) + Len(u)
      /\ \A i \in 1 .. Len(x) + Len(u) :
           (x \o u)[i] = IF i <= Len(x) THEN x[i] ELSE u[i - Len(x)]
  BY ConcatProperties
<1>b. /\ Len(y \o v) = Len(y) + Len(v)
      /\ \A i \in 1 .. Len(y) + Len(v) :
           (y \o v)[i] = IF i <= Len(y) THEN y[i] ELSE v[i - Len(y)]
  BY ConcatProperties
<1>0. PICK m \in Nat, k \in Nat, N \in Nat :
        m = Len(x) /\ k = Len(u) /\ N = Len(ss) /\ m = Len(y) /\ k = Len(v)
  BY LenProperties DEF FlattenedAlike
<1> DEFINE q == [i \in 1 .. m + k |-> IF i <= m THEN place[i] ELSE <<n + 1, i - m>>]
<1>1. /\ Len(x \o u) = m + k /\ Len(y \o v) = m + k
      /\ \A i \in 1 .. m + k : /\ (x \o u)[i] = IF i <= m THEN x[i] ELSE u[i - m]
                               /\ (y \o v)[i] = IF i <= m THEN y[i] ELSE v[i - m]
  BY <1>0, <1>a, <1>b, Zenon
<1>2. /\ place \in [1 .. m -> {p \in Places(ss) : p[1] <= n}]
      /\ \A i \in 1 .. m : /\ x[i] = ss[place[i][1]][place[i][2]]
                           /\ y[i] = rr[place[i][1]][place[i][2]]
      /\ \A i, j \in 1 .. m : place[i] = place[j] => i = j
      /\ \A p \in Places(ss) : p[1] <= n => \E i \in 1 .. m : place[i] = p
  BY <1>0 DEF FlattenedAlike
<1>3. \A i \in 1 .. m : place[i] \in Places(ss) /\ place[i][1] <= n
  BY <1>2
<1>4. \A p \in Places(ss) : /\ p[1] \in 1 .. N /\ p[2] \in Nat /\ p = <<p[1], p[2]>>
                            /\ p[2] \in 1 .. Len(ss[p[1]])
  BY <1>0 DEF Places
<1>5. \A l \in 1 .. k : <<n + 1, l>> \in Places(ss)
  BY <1>0, SMTT(30) DEF Places, Nth
<1>6. \A i \in 1 .. m + k : /\ i <= m => i \in 1 .. m /\ q[i] = place[i]
                            /\ i > m => i - m \in 1 .. k /\ q[i] = <<n + 1, i - m>>
  OBVIOUS
<1>7. DOMAIN q = 1 .. m + k /\ q = [i \in 1 .. m + k |-> q[i]]
  OBVIOUS
<1> HIDE DEF q
<1>8. ASSUME NEW i \in 1 .. m + k PROVE q[i] \in Places(ss) /\ q[i][1] <= n + 1
  <2>1. CASE i <= m
    <3>1. q[i] = place[i] /\ place[i] \in Places(ss) /\ place[i][1] <= n
      BY <1>3, <1>6, <2>1
    <3>2. place[i][1] \in Nat
      BY <1>0, <1>4, <3>1, SMTT(30)
    <3> QED
      BY <3>1, <3>2, SMTT(30)
  <2>2. CASE i > m
    <3>1. q[i] = <<n + 1, i - m>> /\ i - m \in 1 .. k
      BY <1>6, <2>2
    <3> QED
      BY <1>5, <3>1
  <2> QED
    BY <2>1, <2>2
<1>9. ASSUME NEW i \in 1 .. m + k
      PROVE  /\ (x \o u)[i] = ss[q[i][1]][q[i][2]]
             /\ (y \o v)[i] = rr[q[i][1]][q[i][2]]
  <2>1. CASE i <= m
    <3>1. q[i] = place[i] /\ i \in 1 .. m
      BY <1>6, <2>1
    <3>2. (x \o u)[i] = x[i] /\ (y \o v)[i] = y[i]
      BY <1>1, <2>1
    <3> QED
      BY <1>2, <3>1, <3>2, Zenon
  <2>2. CASE i > m
    <3>1. q[i] = <<n + 1, i - m>> /\ ~(i <= m)
      BY <1>6, <2>2, SMTT(30)
    <3>2. (x \o u)[i] = u[i - m] /\ (y \o v)[i] = v[i - m]
      BY <1>1, <3>1, Zenon
    <3>3. q[i][1] = n + 1 /\ q[i][2] = i - m
      BY <3>1
    <3> QED
      BY <3>2, <3>3, Zenon DEF Nth
  <2>3. i <= m \/ i > m
    OBVIOUS
  <2> QED
    BY <2>1, <2>2, <2>3, Zenon
<1>10. ASSUME NEW i \in 1 .. m + k, NEW j \in 1 .. m + k, q[i] = q[j]
       PROVE  i = j
  <2>1. CASE i <= m /\ j <= m
    BY <1>2, <1>6, <1>10, <2>1
  <2>2. CASE i > m /\ j > m
    BY <1>6, <1>10, <2>2
  <2>3. CASE i <= m /\ j > m
    <3>1. q[i] = place[i] /\ i \in 1 .. m /\ q[j] = <<n + 1, j - m>>
      BY <1>6, <2>3
    <3>2. place[i] \in Places(ss) /\ place[i][1] <= n
      BY <1>3, <3>1
    <3>3. place[i][1] \in 1 .. N
      BY <1>4, <3>2
    <3>4. place[i] = <<n + 1, j - m>>
      BY <1>10, <3>1, Zenon
    <3>5. <<n + 1, j - m>>[1] = n + 1
      OBVIOUS
    <3>6. place[i][1] = n + 1
      BY <3>4, <3>5, Zenon
    <3> QED
      BY <3>2, <3>3, <3>6
  <2>4. CASE i > m /\ j <= m
    <3>1. q[j] = place[j] /\ j \in 1 .. m /\ q[i] = <<n + 1, i - m>>
      BY <1>6, <2>4
    <3>2. place[j] \in Places(ss) /\ place[j][1] <= n
      BY <1>3, <3>1
    <3>3. place[j][1] \in 1 .. N
      BY <1>4, <3>2
    <3>4. place[j] = <<n + 1, i - m>>
      BY <1>10, <3>1, Zenon
    <3>5. <<n + 1, i - m>>[1] = n + 1
      OBVIOUS
    <3>6. place[j][1] = n + 1
      BY <3>4, <3>5, Zenon
    <3> QED
      BY <3>2, <3>3, <3>6
  <2> QED
    BY <2>1, <2>2, <2>3, <2>4, SMTT(30)
<1>11. ASSUME NEW p \in Places(ss), p[1] <= n + 1
       PROVE  \E i \in 1 .. m + k : q[i] = p
  <2>1. PICK c \in Nat, l \in Nat : p = <<c, l>> /\ l \in 1 .. Len(ss[c]) /\ c <= n + 1
    <3>1. p[1] \in Nat
      BY <1>0, <1>4, SMTT(30)
    <3> QED
      BY <1>4, <1>11, <3>1
  <2>2. CASE c <= n
    <3>0. p[1] <= n
      BY <2>1, <2>2
    <3>1. PICK i \in 1 .. m : place[i] = p
      BY <1>2, <3>0
    <3>2. i \in 1 .. m + k /\ i <= m
      OBVIOUS
    <3>3. q[i] = p
      BY <1>6, <3>1, <3>2
    <3> QED
      BY <3>2, <3>3
  <2>3. CASE c = n + 1
    <3>1. l \in 1 .. k
      BY <1>0, <2>1, <2>3 DEF Nth
    <3>2. m + l \in 1 .. m + k /\ m + l > m /\ (m + l) - m = l
      BY <3>1
    <3>3. q[m + l] = <<n + 1, l>>
      BY <1>6, <3>2
    <3> QED
      BY <2>1, <2>3, <3>2, <3>3
  <2> QED
    BY <2>1, <2>2, <2>3, SMTT(30)
<1>12. FlattenedAlike(ss, rr, n + 1, x \o u, y \o v, q)
  <2>1. q \in [1 .. m + k -> {p \in Places(ss) : p[1] <= n + 1}]
    BY <1>7, <1>8
  <2> QED
    BY <1>1, <2>1, <1>9, <1>10, <1>11 DEF FlattenedAlike
<1> QED
  BY <1>12

(* FlattenSeq keeps the places of two arguments of the same shape alike. *)
LEMMA FlattenAlike ==
  ASSUME NEW A, NEW B, NEW ss \in Seq(Seq(A)), NEW rr \in Seq(Seq(B)), Len(ss) = Len(rr),
         \A c \in 1 .. Len(ss) : Len(ss[c]) = Len(rr[c])
  PROVE  /\ FlattenSeq(ss) \in Seq(A) /\ FlattenSeq(rr) \in Seq(B)
         /\ \E place : FlattenedAlike(ss, rr, Len(ss), FlattenSeq(ss), FlattenSeq(rr), place)
<1>0. PICK N \in Nat : N = Len(ss) /\ N = Len(rr)
  BY LenProperties
<1>1. FlattenedAlike(ss, rr, 0, << >>, << >>, << >>)
  <2>1. Len(<< >>) = 0 /\ 1 .. 0 = {}
    OBVIOUS
  <2>2. \A p \in Places(ss) : ~(p[1] <= 0)
    BY <1>0 DEF Places
  <2>3. << >> \in [{} -> {p \in Places(ss) : p[1] <= 0}]
    OBVIOUS
  <2> QED
    BY <2>1, <2>2, <2>3 DEF FlattenedAlike
<1>2. CASE N = 0
  <2>1. ss = << >> /\ rr = << >>
    BY <1>0, <1>2, EmptySeq
  <2>2. FlattenSeq(ss) = << >> /\ FlattenSeq(rr) = << >>
    BY <2>1 DEF FlattenSeq
  <2> QED
    BY <1>0, <1>1, <1>2, <2>2
<1>3. CASE N # 0
  <2>1. ss # << >> /\ rr # << >>
    BY <1>0, <1>3, EmptySeq
  <2>2. PICK f \in [1 .. N -> Seq(A)] : Flattening(ss, f) /\ FlattenSeq(ss) = f[N]
    BY <1>0, <2>1, FlattenIsLast, ZenonT(30)
  <2>3. PICK g \in [1 .. N -> Seq(B)] : Flattening(rr, g) /\ FlattenSeq(rr) = g[N]
    BY <1>0, <2>1, FlattenIsLast
  <2> DEFINE T == {n \in 1 .. N : \E place : FlattenedAlike(ss, rr, n, f[n], g[n], place)}
  <2>4. \A n \in 1 .. N : ss[n] \in Seq(A) /\ rr[n] \in Seq(B) /\ Len(ss[n]) = Len(rr[n])
    BY <1>0, LenProperties
  <2>5. 1 \in T
    <3>1. 1 \in 1 .. N /\ 0 + 1 = 1 /\ 0 < Len(ss)
      BY <1>0, <1>3
    <3>2. \E q : FlattenedAlike(ss, rr, 0 + 1, << >> \o ss[0 + 1], << >> \o rr[0 + 1], q)
      <4>1. << >> \in Seq(A) /\ << >> \in Seq(B)
        BY EmptySeq
      <4>2. Nth(ss, 0 + 1, ss[0 + 1]) /\ Nth(rr, 0 + 1, rr[0 + 1])
        BY DEF Nth
      <4>3. ss[0 + 1] \in Seq(A) /\ rr[0 + 1] \in Seq(B) /\ Len(ss[0 + 1]) = Len(rr[0 + 1])
        BY <2>4, <3>1
      <4> QED
        BY <1>0, <1>1, <3>1, <4>1, <4>2, <4>3, AlikeExtended
    <3>3. << >> \o ss[1] = ss[1] /\ << >> \o rr[1] = rr[1]
      BY <2>4, <3>1, ConcatEmptySeq
    <3>4. f[1] = ss[1] /\ g[1] = rr[1]
      <4>1. 1 \in 1 .. Len(ss) /\ 1 \in 1 .. Len(rr)
        BY <1>0, <3>1
      <4>2. /\ f[1] = IF 1 = 1 THEN ss[1] ELSE f[1 - 1] \o ss[1]
            /\ g[1] = IF 1 = 1 THEN rr[1] ELSE g[1 - 1] \o rr[1]
        BY <2>2, <2>3, <4>1, Zenon DEF Flattening
      <4> QED
        BY <4>2, Zenon
    <3>5. \E q : FlattenedAlike(ss, rr, 1, f[1], g[1], q)
      BY <3>1, <3>2, <3>3, <3>4
    <3> QED
      BY <3>1, <3>5
  <2>6. ASSUME NEW n \in 1 .. N - 1, n \in T PROVE n + 1 \in T
    <3>1. n \in Nat /\ n + 1 \in 1 .. N /\ n + 1 # 1 /\ (n + 1) - 1 = n /\ n < Len(ss) /\ n \in 1 .. N
      BY <1>0
    <3>2. f[n + 1] = f[n] \o ss[n + 1] /\ g[n + 1] = g[n] \o rr[n + 1]
      <4>1. n + 1 \in 1 .. Len(ss) /\ n + 1 \in 1 .. Len(rr)
        BY <1>0, <3>1
      <4>2. /\ f[n + 1] = IF n + 1 = 1 THEN ss[n + 1] ELSE f[(n + 1) - 1] \o ss[n + 1]
            /\ g[n + 1] = IF n + 1 = 1 THEN rr[n + 1] ELSE g[(n + 1) - 1] \o rr[n + 1]
        BY <2>2, <2>3, <4>1, Zenon DEF Flattening
      <4> QED
        BY <3>1, <4>2, Zenon
    <3>3. PICK place : FlattenedAlike(ss, rr, n, f[n], g[n], place)
      BY <2>6
    <3>4. f[n] \in Seq(A) /\ g[n] \in Seq(B)
      BY <2>2, <2>3, <3>1
    <3>5. \E q : FlattenedAlike(ss, rr, n + 1, f[n] \o ss[n + 1], g[n] \o rr[n + 1], q)
      <4>1. Nth(ss, n + 1, ss[n + 1]) /\ Nth(rr, n + 1, rr[n + 1])
        BY DEF Nth
      <4>2. ss[n + 1] \in Seq(A) /\ rr[n + 1] \in Seq(B) /\ Len(ss[n + 1]) = Len(rr[n + 1])
        BY <2>4, <3>1
      <4> QED
        BY <1>0, <3>1, <3>3, <3>4, <4>1, <4>2, AlikeExtended
    <3>6. \E q : FlattenedAlike(ss, rr, n + 1, f[n + 1], g[n + 1], q)
      BY <3>2, <3>5
    <3> QED
      BY <3>1, <3>6
  <2>7. N \in T
    <3> HIDE DEF T
    <3>1. 1 .. N \subseteq T
      BY <2>5, <2>6, BoundedInduction
    <3> QED
      BY <1>3, <3>1
  <2>8. N \in 1 .. N
    BY <1>3
  <2> QED
    BY <1>0, <2>2, <2>3, <2>7, <2>8
<1> QED
  BY <1>2, <1>3

-----------------------------------------------------------------------------
(* Sorted                                                                  *)

(* Ranks grow with the elements and number them from 0. *)
LEMMA RankFacts ==
  ASSUME NEW S \in SUBSET Nat, IsFiniteSet(S)
  PROVE  /\ Cardinality(S) \in Nat
         /\ \A x \in S : Rank(S, x) \in 0 .. Cardinality(S) - 1
         /\ \A x, y \in S : x < y => Rank(S, x) < Rank(S, y)
         /\ \A k \in 0 .. Cardinality(S) - 1 : \E x \in S : Rank(S, x) = k
<1> DEFINE Below(x) == {y \in S : y < x}
           N == Cardinality(S)
<1>1. N \in Nat
  BY FS_CardinalityType
<1>2. ASSUME NEW x \in S PROVE Rank(S, x) \in 0 .. N - 1
  <2>1. Below(x) \in SUBSET S /\ x \notin Below(x)
    OBVIOUS
  <2>2. IsFiniteSet(Below(x)) /\ Cardinality(Below(x)) <= N /\ N # Cardinality(Below(x))
    <3> HIDE DEF Below
    <3> QED
      BY <2>1, FS_Subset
  <2>3. Cardinality(Below(x)) \in Nat
    <3> HIDE DEF Below
    <3> QED
      BY <2>2, FS_CardinalityType
  <2>4. Rank(S, x) = Cardinality(Below(x))
    BY DEF Rank
  <2> HIDE DEF Below
  <2> QED
    BY <1>1, <2>2, <2>3, <2>4
<1>3. ASSUME NEW x \in S, NEW y \in S, x < y PROVE Rank(S, x) < Rank(S, y)
  <2>1. /\ Below(x) \in SUBSET Below(y) /\ x \in Below(y) /\ x \notin Below(x)
        /\ Below(y) \in SUBSET S
    <3>1. \A z \in S : z < x => z < y
      BY <1>3
    <3>2. ~(x < x)
      OBVIOUS
    <3> QED
      BY <1>3, <3>1, <3>2
  <2>2. IsFiniteSet(Below(y))
    <3> HIDE DEF Below
    <3> QED
      BY <2>1, FS_Subset
  <2>3. /\ Cardinality(Below(x)) <= Cardinality(Below(y))
        /\ Cardinality(Below(y)) # Cardinality(Below(x))
    <3> HIDE DEF Below
    <3> QED
      BY <2>1, <2>2, FS_Subset
  <2>4. Rank(S, x) = Cardinality(Below(x)) /\ Rank(S, y) = Cardinality(Below(y))
    BY DEF Rank
  <2>5. Rank(S, x) \in Nat /\ Rank(S, y) \in Nat
    BY <1>1, <1>2
  <2> HIDE DEF Below
  <2> QED
    BY <2>3, <2>4, <2>5
<1>4. ASSUME NEW k \in 0 .. N - 1 PROVE \E x \in S : Rank(S, x) = k
  <2> DEFINE f == [x \in S |-> Rank(S, x)]
  <2>1. f \in [S -> 0 .. N - 1]
    BY <1>2
  <2>2. \A x, y \in S : f[x] = f[y] => x = y
    <3> SUFFICES ASSUME NEW x \in S, NEW y \in S, x # y PROVE f[x] # f[y]
      OBVIOUS
    <3>1. Rank(S, x) \in Nat /\ Rank(S, y) \in Nat
      BY <1>1, <1>2
    <3>2. x < y \/ y < x
      OBVIOUS
    <3> QED
      BY <1>3, <3>1, <3>2
  <2>3. IsFiniteSet(0 .. N - 1) /\ Cardinality(0 .. N - 1) = N
    BY <1>1, FS_Interval
  <2>4. f \in Injection(S, 0 .. N - 1)
    <3> HIDE DEF f
    <3> QED
      BY <2>1, <2>2 DEF Injection, IsInjective
  <2>5. f \in Surjection(S, 0 .. N - 1)
    <3> HIDE DEF f
    <3> QED
      BY <2>3, <2>4, FS_Injection
  <2>6. \E x \in S : f[x] = k
    <3> HIDE DEF f
    <3> QED
      BY <2>5 DEF Surjection
  <2> QED
    BY <2>6
<1> QED
  BY <1>1, <1>2, <1>3, <1>4

(* Sorted lists every element of a finite set of numbers once. *)
LEMMA SortedFacts ==
  ASSUME NEW S \in SUBSET Nat, IsFiniteSet(S)
  PROVE  /\ Sorted(S) \in Seq(S) /\ Len(Sorted(S)) = Cardinality(S)
         /\ \A n \in 1 .. Len(Sorted(S)) : Sorted(S)[n] \in S
         /\ \A n, m \in 1 .. Len(Sorted(S)) : Sorted(S)[n] = Sorted(S)[m] => n = m
         /\ \A x \in S : \E n \in 1 .. Len(Sorted(S)) : Sorted(S)[n] = x
<1> DEFINE N == Cardinality(S)
<1>1. N \in Nat
  BY RankFacts
<1>2. ASSUME NEW n \in 1 .. N
      PROVE  Sorted(S)[n] \in S /\ Rank(S, Sorted(S)[n]) = n - 1
  <2>1. n - 1 \in 0 .. N - 1
    BY <1>1
  <2>2. \E x \in S : Rank(S, x) = n - 1
    BY <2>1, RankFacts
  <2>3. Sorted(S)[n] = CHOOSE x \in S : Rank(S, x) = n - 1
    BY DEF Sorted
  <2> QED
    BY <2>2, <2>3
<1>3. Sorted(S) \in Seq(S) /\ Len(Sorted(S)) = N
  <2>1. Sorted(S) \in [1 .. N -> S]
    BY <1>2 DEF Sorted
  <2> QED
    BY <1>1, <2>1
<1>4. ASSUME NEW x \in S PROVE \E n \in 1 .. N : Sorted(S)[n] = x
  <2>1. Rank(S, x) \in 0 .. N - 1
    BY RankFacts
  <2>2. Rank(S, x) + 1 \in 1 .. N /\ (Rank(S, x) + 1) - 1 = Rank(S, x)
    BY <1>1, <2>1
  <2>3. PICK y \in S : y = Sorted(S)[Rank(S, x) + 1] /\ Rank(S, y) = Rank(S, x)
    BY <1>2, <2>2
  <2>4. x = y
    <3>1. x < y \/ y < x \/ x = y
      OBVIOUS
    <3>2. Rank(S, x) \in Nat
      BY <1>1, <2>1
    <3>3. /\ x < y => Rank(S, x) < Rank(S, y)
          /\ y < x => Rank(S, y) < Rank(S, x)
      BY RankFacts
    <3> QED
      BY <2>3, <3>1, <3>2, <3>3
  <2> QED
    BY <2>2, <2>3, <2>4
<1>5. ASSUME NEW n \in 1 .. N, NEW m \in 1 .. N, Sorted(S)[n] = Sorted(S)[m] PROVE n = m
  <2>1. n - 1 = m - 1
    BY <1>2, <1>5
  <2> QED
    BY <2>1
<1> QED
  BY <1>2, <1>3, <1>4, <1>5

=============================================================================
