---------------------------- MODULE IntakeProofs ----------------------------
(***************************************************************************)
(* The properties of what reads texts, payloads and senders, for any       *)
(* alphabet, codes, amounts, payloads, callers and numbers.                *)
(*                                                                         *)
(* The readers go through sequences.  What a loop over a sequence leaves   *)
(* is proved by induction on the sequence, and induction from the fact     *)
(* that < is well founded on Nat: a set that has 0 and the successors of   *)
(* its elements has every number.                                          *)
(***************************************************************************)
EXTENDS Intake, SequenceTheorems, WellFoundedInduction, TLAPS

(* Induction over the natural numbers, for sets. *)
LEMMA SetInduction ==
  ASSUME NEW S, 0 \in S, \A n \in Nat : n \in S => n + 1 \in S
  PROVE  Nat \subseteq S
<1> DEFINE T == Nat \ S
           R == OpToRel(<, Nat)
<1> SUFFICES ASSUME T # {} PROVE FALSE
  OBVIOUS
<1>0. T \subseteq Nat
  OBVIOUS
<1>1. PICK x \in T : \A y \in T : <<y, x>> \notin R
  <2> HIDE DEF T
  <2> QED
  BY <1>0, WFMin, NatLessThanWellFounded
<1>2. \A y \in Nat : y < x => <<y, x>> \in R
  BY DEF OpToRel
<1>3. x # 0 /\ x \in Nat
  OBVIOUS
<1>4. x - 1 \in Nat /\ x - 1 < x /\ (x - 1) + 1 = x
  BY <1>3
<1> QED
  BY <1>1, <1>2, <1>3, <1>4

(* The same over an interval. *)
LEMMA IntervalInduction ==
  ASSUME NEW m \in Nat, NEW S, 0 \in S, \A n \in 1..m : n - 1 \in S => n \in S
  PROVE  \A n \in 0..m : n \in S
<1> DEFINE P == {n \in Nat : n <= m => n \in S}
<1>1. 0 \in P
  OBVIOUS
<1>2. \A n \in Nat : n \in P => n + 1 \in P
  <2> SUFFICES ASSUME NEW n \in Nat, n \in P, n + 1 <= m PROVE n + 1 \in S
    OBVIOUS
  <2>1. n + 1 \in 1..m /\ (n + 1) - 1 = n /\ n \in S
    OBVIOUS
  <2> QED
    BY <2>1
<1>3. Nat \subseteq P
  <2> HIDE DEF P
  <2> QED
    BY <1>1, <1>2, SetInduction
<1> QED
  BY <1>3

FollowsStep(f, first, m, step) ==
  f[0] = first /\ \A n \in 1..m : f[n] = step[n][f[n - 1]]

(* A function is defined by recursion over an interval, from a first value  *)
(* and a step given as a function itself.                                   *)
LEMMA Recursion ==
  ASSUME NEW U, NEW first \in U, NEW m \in Nat, NEW step \in [1..m -> [U -> U]]
  PROVE  \E f \in [0..m -> U] : FollowsStep(f, first, m, step)
<1> USE DEF FollowsStep
<1> DEFINE Upto(k, f) == FollowsStep(f, first, k, step)
           P == {k \in 0..m : \E f \in [0..k -> U] : Upto(k, f)}
<1>1. 0 \in P
  <2> DEFINE g == [i \in 0..0 |-> first]
  <2>1. g \in [0..0 -> U] /\ g[0] = first /\ 0 \in 0..m
    OBVIOUS
  <2>2. \E f \in [0..0 -> U] : Upto(0, f)
    <3> HIDE DEF g
    <3> QED
      BY <2>1
  <2> QED
    BY <2>1, <2>2
<1>2. ASSUME NEW k \in 1..m, k - 1 \in P
      PROVE  k \in P
  <2>1. PICK f \in [0..(k - 1) -> U] : Upto(k - 1, f)
    BY <1>2
  <2> DEFINE g == [i \in 0..k |-> IF i = k THEN step[k][f[k - 1]] ELSE f[i]]
  <2>2. k \in 0..m /\ k - 1 \in 0..(k - 1) /\ f[k - 1] \in U
    OBVIOUS
  <2>3. step[k][f[k - 1]] \in U
    BY <2>2
  <2>4. g \in [0..k -> U]
    <3>1. \A i \in 0..k : i # k => i \in 0..(k - 1)
      OBVIOUS
    <3> QED
      BY <2>3, <3>1
  <2>5. g[0] = first
    BY <2>1
  <2>6. ASSUME NEW n \in 1..k
        PROVE  g[n] = step[n][g[n - 1]]
    <3>1. n - 1 \in 0..k /\ n - 1 # k /\ g[n - 1] = f[n - 1] /\ n \in 0..k
      OBVIOUS
    <3>2. CASE n = k
      BY <3>1, <3>2
    <3>3. CASE n # k
      <4>1. n \in 1..(k - 1)
        BY <3>3
      <4> QED
        BY <4>1, <2>1, <3>1, <3>3
    <3> QED
      BY <3>2, <3>3
  <2>7. Upto(k, g)
    BY <2>5, <2>6
  <2> QED
    BY <2>2, <2>4, <2>7
<1>3. m \in P
  <2> HIDE DEF P
  <2>1. \A n \in 0..m : n \in P
    BY <1>1, <1>2, IntervalInduction
  <2> QED
    BY <2>1
<1> QED
  BY <1>3

(* Induction over sequences, for sets of them: the empty one, then one more *)
(* element.                                                                 *)
LEMMA AppendInduction ==
  ASSUME NEW U, NEW P, <<>> \in P,
         \A s \in Seq(U), x \in U : s \in P => Append(s, x) \in P
  PROVE  Seq(U) \subseteq P
<1> DEFINE Q == {n \in Nat : \A s \in Seq(U) : Len(s) = n => s \in P}
<1>1. 0 \in Q
  BY EmptySeq
<1>2. ASSUME NEW n \in Nat, n \in Q
      PROVE  n + 1 \in Q
  <2> SUFFICES ASSUME NEW s \in Seq(U), Len(s) = n + 1 PROVE s \in P
    OBVIOUS
  <2>1. PICK t \in Seq(U), x \in U : s = Append(t, x)
    <3>1. s # <<>>
      BY EmptySeq
    <3> QED
      BY <3>1, HeadTailAppend, SequenceEmptyOrAppend
  <2>2. Len(t) = n
    BY <2>1
  <2> QED
    BY <2>1, <2>2, <1>2
<1>3. Nat \subseteq Q
  <2> HIDE DEF Q
  <2> QED
    BY <1>1, <1>2, SetInduction
<1> QED
  BY <1>3, LenProperties

KeptFrom(f, s, T) ==
  /\ f[0] = <<>>
  /\ \A n \in 1..Len(s) :
       f[n] = IF s[n] \in T THEN f[n - 1] ELSE Append(f[n - 1], s[n])
  /\ Without(s, T) = f[Len(s)]

(* The recursive function in Without is what it says. *)
LEMMA WithoutByRecursion ==
  ASSUME NEW U, NEW s \in Seq(U), NEW T
  PROVE  \E kept \in [0..Len(s) -> Seq(U)] : KeptFrom(kept, s, T)
<1> DEFINE m == Len(s)
           step == [n \in 1..m |-> [r \in Seq(U) |->
                      IF s[n] \in T THEN r ELSE Append(r, s[n])]]
           Kept(f) == f = [n \in 0..m |->
                             IF n = 0 THEN <<>>
                             ELSE IF s[n] \in T THEN f[n - 1]
                             ELSE Append(f[n - 1], s[n])]
<1>1. m \in Nat /\ \A n \in 1..m : s[n] \in U
  BY LenProperties, ElementOfSeq
<1>2. step \in [1..m -> [Seq(U) -> Seq(U)]]
  BY <1>1, AppendProperties
<1>3. PICK f \in [0..m -> Seq(U)] :
        f[0] = <<>> /\ \A n \in 1..m : f[n] = step[n][f[n - 1]]
  <2> DEFINE V == Seq(U)
             first == <<>>
  <2>1. first \in V /\ step \in [1..m -> [V -> V]]
    BY <1>2, EmptySeq
  <2> HIDE DEF step, m, V, first
  <2>2. \E f \in [0..m -> V] : FollowsStep(f, first, m, step)
    BY <1>1, <2>1, Recursion
  <2> QED
    BY <2>2 DEF V, first, FollowsStep
<1>4. ASSUME NEW n \in 1..m
      PROVE  f[n] = IF s[n] \in T THEN f[n - 1] ELSE Append(f[n - 1], s[n])
  <2>1. n - 1 \in 0..m /\ f[n - 1] \in Seq(U)
    BY <1>1, <1>3
  <2> QED
    BY <2>1, <1>3
<1>5. Kept(f)
  <2> HIDE DEF m
  <2>1. \A n \in 0..m : n = 0 \/ n \in 1..m
    BY <1>1
  <2> QED
    BY <1>3, <1>4, <2>1
<1> DEFINE g == CHOOSE h : Kept(h)
<1>6. Kept(g)
  <2> HIDE DEF Kept
  <2> QED
    BY <1>5
<1>7. Without(s, T) = g[m]
  BY DEF Without
<1>8. \A n \in 0..m : g[n] = IF n = 0 THEN <<>>
                             ELSE IF s[n] \in T THEN g[n - 1]
                             ELSE Append(g[n - 1], s[n])
  <2> HIDE DEF g, m
  <2> QED
    BY <1>6
<1> HIDE DEF g, m, Kept, step
<1>9. \A n \in 0..m : g[n] = f[n]
  <2> DEFINE Same == {k \in 0..m : g[k] = f[k]}
  <2>1. 0 \in Same
    BY <1>1, <1>3, <1>8
  <2>2. ASSUME NEW n \in 1..m, n - 1 \in Same
        PROVE  n \in Same
    <3>1. n \in 0..m /\ n # 0 /\ g[n - 1] = f[n - 1]
      BY <2>2
    <3> QED
      BY <1>4, <1>8, <3>1
  <2>3. \A n \in 0..m : n \in Same
    <3> HIDE DEF Same
    <3> QED
      BY <1>1, <2>1, <2>2, IntervalInduction
  <2> QED
    BY <2>3
<1>10. Without(s, T) = f[m]
  BY <1>1, <1>7, <1>9
<1> QED
  BY <1>3, <1>4, <1>10 DEF m, KeptFrom

(* Nothing is left of nothing. *)
LEMMA WithoutEmpty == ASSUME NEW T PROVE Without(<<>>, T) = <<>>
<1>1. <<>> \in Seq({}) /\ Len(<<>>) = 0
  BY EmptySeq
<1>2. PICK f : KeptFrom(f, <<>>, T)
  BY <1>1, WithoutByRecursion
<1> QED
  BY <1>1, <1>2 DEF KeptFrom

(* The last element is left unless it is one of those removed. *)
LEMMA WithoutAppend ==
  ASSUME NEW U, NEW s \in Seq(U), NEW x \in U, NEW T
  PROVE  /\ Without(s, T) \in Seq(U)
         /\ x \in T => Without(Append(s, x), T) = Without(s, T)
         /\ x \notin T => Without(Append(s, x), T) = Append(Without(s, T), x)
<1> DEFINE m == Len(s)
           t == Append(s, x)
<1>1. /\ m \in Nat /\ t \in Seq(U) /\ Len(t) = m + 1 /\ t[m + 1] = x
      /\ \A n \in 1..m : t[n] = s[n]
  BY LenProperties, AppendProperties
<1>2. PICK f \in [0..Len(s) -> Seq(U)] : KeptFrom(f, s, T)
  BY WithoutByRecursion
<1>3. PICK g \in [0..Len(t) -> Seq(U)] : KeptFrom(g, t, T)
  <2> HIDE DEF t
  <2> QED
    BY <1>1, WithoutByRecursion
<1> USE DEF KeptFrom
<1> HIDE DEF t, m
<1>4. \A n \in 0..m : g[n] = f[n]
  <2> DEFINE Same == {k \in 0..m : g[k] = f[k]}
  <2>1. 0 \in Same
    BY <1>1, <1>2, <1>3
  <2>2. ASSUME NEW n \in 1..m, n - 1 \in Same
        PROVE  n \in Same
    <3>1. /\ n \in 1..Len(t) /\ n \in 1..Len(s) /\ t[n] = s[n]
          /\ g[n - 1] = f[n - 1] /\ n \in 0..m
      BY <1>1, <2>2 DEF m
    <3> QED
      BY <1>2, <1>3, <3>1
  <2>3. \A n \in 0..m : n \in Same
    <3> HIDE DEF Same
    <3> QED
      BY <1>1, <2>1, <2>2, IntervalInduction
  <2> QED
    BY <2>3
<1>5. g[m] = f[m] /\ f[m] \in Seq(U) /\ Without(s, T) = f[m]
  BY <1>1, <1>2, <1>4 DEF m
<1>6. g[m + 1] = IF x \in T THEN g[m] ELSE Append(g[m], x)
  <2>1. m + 1 \in 1..Len(t) /\ (m + 1) - 1 = m
    BY <1>1
  <2> QED
    BY <1>1, <1>3, <2>1
<1> QED
  BY <1>1, <1>3, <1>5, <1>6 DEF t

LEMMA WithoutSeq ==
  ASSUME NEW U, NEW s \in Seq(U), NEW T
  PROVE  Without(s, T) \in Seq(U)
<1>1. PICK f \in [0..Len(s) -> Seq(U)] : KeptFrom(f, s, T)
  BY WithoutByRecursion
<1> QED
  BY <1>1, LenProperties DEF KeptFrom

(* Removing from two pieces is removing from each. *)
LEMMA WithoutConcat ==
  ASSUME NEW U, NEW s \in Seq(U), NEW t \in Seq(U), NEW T
  PROVE  Without(s \o t, T) = Without(s, T) \o Without(t, T)
<1> DEFINE W(r) == Without(r, T)
           P == {r \in Seq(U) : W(s \o r) = W(s) \o W(r)}
<1>1. <<>> \in P
  <2>1. W(s) \in Seq(U) /\ <<>> \in Seq(U)
    BY WithoutSeq, EmptySeq
  <2> QED
    BY <2>1, WithoutEmpty, ConcatEmptySeq
<1>2. ASSUME NEW r \in Seq(U), NEW x \in U, r \in P
      PROVE  Append(r, x) \in P
  <2>1. s \o r \in Seq(U) /\ Append(r, x) \in Seq(U)
        /\ s \o Append(r, x) = Append(s \o r, x)
    OBVIOUS
  <2>2. W(s) \in Seq(U) /\ W(r) \in Seq(U)
    BY WithoutSeq
  <2>3. W(Append(s \o r, x)) = IF x \in T THEN W(s \o r) ELSE Append(W(s \o r), x)
    <3> DEFINE q == s \o r
    <3>1. q \in Seq(U)
      BY <2>1
    <3> HIDE DEF q
    <3>2. /\ W(q) \in Seq(U)
          /\ x \in T => W(Append(q, x)) = W(q)
          /\ x \notin T => W(Append(q, x)) = Append(W(q), x)
      BY <3>1, WithoutAppend
    <3> QED
      BY <3>2 DEF q
  <2>4. /\ W(r) \in Seq(U)
        /\ x \in T => W(Append(r, x)) = W(r)
        /\ x \notin T => W(Append(r, x)) = Append(W(r), x)
    BY WithoutAppend
  <2>5. W(s) \o Append(W(r), x) = Append(W(s) \o W(r), x)
    BY <2>2
  <2> QED
    BY <1>2, <2>1, <2>3, <2>4, <2>5
<1>3. Seq(U) \subseteq P
  <2> HIDE DEF P
  <2> QED
    BY <1>1, <1>2, AppendInduction
<1> QED
  BY <1>3

(* The elements of two pieces are those of each. *)
LEMMA ConcatElements ==
  ASSUME NEW U, NEW s \in Seq(U), NEW t \in Seq(U)
  PROVE  ToSet(s \o t) = ToSet(s) \union ToSet(t)
<1> DEFINE both == s \o t
<1>1. /\ DOMAIN s = 1..Len(s) /\ DOMAIN t = 1..Len(t)
      /\ Len(s) \in Nat /\ Len(t) \in Nat
      /\ DOMAIN both = 1..(Len(s) + Len(t))
      /\ \A i \in 1..(Len(s) + Len(t)) :
           both[i] = IF i <= Len(s) THEN s[i] ELSE t[i - Len(s)]
  OBVIOUS
<1> DEFINE m == Len(s)
           n == Len(t)
<1> HIDE DEF both, m, n
<1>2. \A i \in 1..m : i \in 1..(m + n) /\ both[i] = s[i]
  BY <1>1 DEF m, n
<1>3. ASSUME NEW i \in 1..n
      PROVE  m + i \in 1..(m + n) /\ both[m + i] = t[i]
  <2>1. m + i \in 1..(m + n) /\ ~(m + i <= m) /\ (m + i) - m = i
    BY <1>1 DEF m, n
  <2> QED
    BY <1>1, <2>1 DEF m, n
<1>4. \A i \in 1..(m + n) : i \in 1..m \/ i - m \in 1..n
  BY <1>1 DEF m, n
<1>5. ASSUME NEW i \in 1..(m + n)
      PROVE  both[i] \in ToSet(s) \union ToSet(t)
  <2>1. CASE i \in 1..m
    BY <1>1, <1>2, <2>1 DEF ToSet, m
  <2>2. CASE i - m \in 1..n
    <3>1. m + (i - m) = i
      BY <1>1 DEF m
    <3>2. both[i] = t[i - m]
      BY <1>3, <2>2, <3>1
    <3> QED
      BY <1>1, <2>2, <3>2 DEF ToSet, n
  <2> QED
    BY <1>4, <2>1, <2>2
<1>6. ToSet(both) = {both[i] : i \in 1..(m + n)}
  BY <1>1 DEF ToSet, m, n
<1>7. ToSet(s) = {s[i] : i \in 1..m} /\ ToSet(t) = {t[i] : i \in 1..n}
  BY <1>1 DEF ToSet, m, n
<1>8. ToSet(s) \union ToSet(t) \subseteq ToSet(both)
  BY <1>2, <1>3, <1>6, <1>7
<1>9. ToSet(both) \subseteq ToSet(s) \union ToSet(t)
  BY <1>5, <1>6
<1> QED
  BY <1>8, <1>9 DEF both

LEMMA AppendElements ==
  ASSUME NEW U, NEW r \in Seq(U), NEW x \in U
  PROVE  ToSet(Append(r, x)) = ToSet(r) \union {x}
<1>1. /\ DOMAIN r = 1..Len(r) /\ DOMAIN Append(r, x) = 1..(Len(r) + 1)
      /\ \A i \in 1..Len(r) : Append(r, x)[i] = r[i]
      /\ Append(r, x)[Len(r) + 1] = x /\ Len(r) \in Nat
  OBVIOUS
<1>2. \A i \in 1..(Len(r) + 1) : i \in 1..Len(r) \/ i = Len(r) + 1
  BY <1>1
<1> QED
  BY <1>1, <1>2 DEF ToSet

(* What is left are the elements that are not removed. *)
LEMMA WithoutElements ==
  ASSUME NEW U, NEW s \in Seq(U), NEW T
  PROVE  ToSet(Without(s, T)) = ToSet(s) \ T
<1> DEFINE P == {r \in Seq(U) : ToSet(Without(r, T)) = ToSet(r) \ T}
<1>1. <<>> \in P
  BY WithoutEmpty, EmptySeq DEF ToSet
<1>2. ASSUME NEW r \in Seq(U), NEW x \in U, r \in P
      PROVE  Append(r, x) \in P
  <2>1. /\ Without(r, T) \in Seq(U)
        /\ x \in T => Without(Append(r, x), T) = Without(r, T)
        /\ x \notin T => Without(Append(r, x), T) = Append(Without(r, T), x)
    <3> HIDE DEF P
    <3> QED
      BY WithoutAppend
  <2>2. Append(r, x) \in Seq(U) /\ ToSet(Append(r, x)) = ToSet(r) \union {x}
    BY AppendElements, AppendProperties
  <2>3. ToSet(Without(r, T)) = ToSet(r) \ T
    BY <1>2
  <2>4. CASE x \in T
    BY <2>1, <2>2, <2>3, <2>4
  <2>5. CASE x \notin T
    <3>1. ToSet(Append(Without(r, T), x)) = ToSet(Without(r, T)) \union {x}
      BY AppendElements, <2>1
    <3> QED
      BY <2>1, <2>2, <2>3, <2>5, <3>1
  <2> QED
    BY <2>4, <2>5
<1>3. Seq(U) \subseteq P
  <2> HIDE DEF P
  <2> QED
    BY <1>1, <1>2, AppendInduction
<1> QED
  BY <1>3

(* Removing from a single character. *)
LEMMA WithoutOne ==
  ASSUME NEW x, NEW T
  PROVE  Without(<<x>>, T) = IF x \in T THEN <<>> ELSE <<x>>
<1> DEFINE U == {x}
           none == <<>>
<1>1. none \in Seq(U) /\ x \in U
  BY EmptySeq
<1>2. Append(none, x) = <<x>> /\ Append(<<>>, x) = <<x>>
  OBVIOUS
<1>3. Without(none, T) = <<>>
  BY WithoutEmpty
<1> HIDE DEF U, none
<1>4. /\ Without(none, T) \in Seq(U)
      /\ x \in T => Without(Append(none, x), T) = Without(none, T)
      /\ x \notin T => Without(Append(none, x), T) = Append(Without(none, T), x)
  BY <1>1, WithoutAppend
<1> QED
  BY <1>2, <1>3, <1>4

(* f is the recursive function in FlattenSeq. *)
FlattensBy(f, seqs) ==
  /\ FlattenSeq(seqs) = f[Len(seqs)]
  /\ f[0] = <<>>
  /\ \A n \in 1..Len(seqs) : f[n] = f[n - 1] \o seqs[n]

(* FlattenSeq, too, is the value of a recursion over its length. *)
LEMMA FlattenByRecursion ==
  ASSUME NEW U, NEW seqs \in Seq(Seq(U))
  PROVE  \E f \in [0..Len(seqs) -> Seq(U)] : FlattensBy(f, seqs)
<1> DEFINE m == Len(seqs)
           V == Seq(U)
           first == <<>>
           step == [n \in 1..m |-> [r \in V |-> r \o seqs[n]]]
<1>1. m \in Nat /\ \A n \in 1..m : seqs[n] \in V
  BY LenProperties, ElementOfSeq
<1>2. step \in [1..m -> [V -> V]]
  BY <1>1, ConcatProperties
<1>3. first \in V
  BY EmptySeq
<1>4. PICK f \in [0..m -> V] : FollowsStep(f, first, m, step)
  <2> HIDE DEF step, m, V, first
  <2> QED
    BY <1>1, <1>2, <1>3, Recursion
<1>5. ASSUME NEW n \in 1..m
      PROVE  f[n] = f[n - 1] \o seqs[n]
  <2> HIDE DEF m, step, V, first
  <2>1. n - 1 \in 0..m
    BY <1>1
  <2>2. f[n - 1] \in V
    BY <1>4, <2>1
  <2>3. f[n] = step[n][f[n - 1]]
    BY <1>4 DEF FollowsStep
  <2> QED
    BY <2>2, <2>3 DEF step
<1>6. f[0] = <<>>
  BY <1>4 DEF FollowsStep
<1>7. CASE m = 0
  <2>1. seqs = <<>>
    BY <1>7, EmptySeq
  <2> QED
    BY <1>4, <1>6, <1>7, <2>1 DEF FlattensBy, FlattenSeq
<1>8. CASE m # 0
  <2> DEFINE Flat(h) == h = [n \in 1..m |-> IF n = 1 THEN seqs[n]
                                             ELSE h[n - 1] \o seqs[n]]
             e == [n \in 1..m |-> f[n]]
             g == CHOOSE h : Flat(h)
  <2>1. Flat(e)
    <3>1. ASSUME NEW n \in 1..m
          PROVE  e[n] = IF n = 1 THEN seqs[n] ELSE e[n - 1] \o seqs[n]
      <4>1. CASE n = 1
        <5>1. f[n] = f[n - 1] \o seqs[n]
          BY <1>5
        <5>4. n - 1 = 0
          BY <4>1
        <5>2. seqs[n] \in Seq(U)
          BY <1>1
        <5> QED
          BY <1>6, <4>1, <5>1, <5>2, <5>4, ConcatEmptySeq
      <4>2. CASE n # 1
        <5>1. n - 1 \in 1..m
          BY <1>1, <4>2
        <5> QED
          BY <1>5, <4>2, <5>1
      <4> QED
        BY <4>1, <4>2
    <3> HIDE DEF m
    <3> QED
      BY <3>1
  <2>2. Flat(g)
    <3> HIDE DEF Flat
    <3> QED
      BY <2>1
  <2>3. FlattenSeq(seqs) = g[m]
    BY <1>8 DEF FlattenSeq
  <2>4. \A n \in 1..m : g[n] = IF n = 1 THEN seqs[n] ELSE g[n - 1] \o seqs[n]
    <3> HIDE DEF g, m
    <3> QED
      BY <2>2
  <2> HIDE DEF g, m, Flat
  <2>5. \A n \in 0..m : n = 0 \/ g[n] = f[n]
    <3> DEFINE Same == {k \in 0..m : k = 0 \/ g[k] = f[k]}
    <3>1. 0 \in Same
      BY <1>1
    <3>2. ASSUME NEW n \in 1..m, n - 1 \in Same
          PROVE  n \in Same
      <4>1. CASE n = 1
        <5>1. f[n] = f[n - 1] \o seqs[n]
          BY <1>5
        <5>4. n - 1 = 0
          BY <4>1
        <5>2. seqs[n] \in Seq(U) /\ n \in 0..m
          BY <1>1
        <5>3. g[n] = seqs[n]
          BY <2>4, <4>1
        <5> QED
          BY <1>6, <5>1, <5>2, <5>3, <5>4, ConcatEmptySeq
      <4>2. CASE n # 1
        <5>1. n - 1 \in 1..m /\ n - 1 # 0 /\ n \in 0..m
          BY <1>1, <4>2
        <5> QED
          BY <1>5, <2>4, <3>2, <4>2, <5>1
      <4> QED
        BY <4>1, <4>2
    <3>3. \A n \in 0..m : n \in Same
      <4> HIDE DEF Same
      <4> QED
        BY <1>1, <3>1, <3>2, IntervalInduction
    <3> QED
      BY <3>3
  <2>6. m \in 0..m
    BY <1>1
  <2>7. FlattenSeq(seqs) = f[m]
    BY <1>8, <2>3, <2>5, <2>6
  <2> QED
    BY <1>4, <1>5, <1>6, <2>7 DEF FlattensBy, m
<1> QED
  BY <1>7, <1>8

LEMMA FlattenEmpty == FlattenSeq(<<>>) = <<>>
BY EmptySeq DEF FlattenSeq

(* One more sequence at the end is appended. *)
LEMMA FlattenAppend ==
  ASSUME NEW U, NEW seqs \in Seq(Seq(U)), NEW x \in Seq(U)
  PROVE  /\ FlattenSeq(seqs) \in Seq(U)
         /\ FlattenSeq(Append(seqs, x)) = FlattenSeq(seqs) \o x
<1> DEFINE m == Len(seqs)
           more == Append(seqs, x)
<1>1. /\ m \in Nat /\ more \in Seq(Seq(U)) /\ Len(more) = m + 1
      /\ more[m + 1] = x /\ \A n \in 1..m : more[n] = seqs[n]
  BY LenProperties, AppendProperties
<1>2. PICK f \in [0..Len(seqs) -> Seq(U)] : FlattensBy(f, seqs)
  BY FlattenByRecursion
<1>3. PICK g \in [0..Len(more) -> Seq(U)] : FlattensBy(g, more)
  <2> HIDE DEF more
  <2> QED
    BY <1>1, FlattenByRecursion
<1> USE DEF FlattensBy
<1> HIDE DEF more, m
<1>4. \A n \in 0..m : g[n] = f[n]
  <2> DEFINE Same == {k \in 0..m : g[k] = f[k]}
  <2>1. 0 \in Same
    BY <1>1, <1>2, <1>3
  <2>2. ASSUME NEW n \in 1..m, n - 1 \in Same
        PROVE  n \in Same
    <3>1. /\ n \in 1..Len(more) /\ n \in 1..Len(seqs) /\ more[n] = seqs[n]
          /\ g[n - 1] = f[n - 1] /\ n \in 0..m
      BY <1>1, <2>2 DEF m
    <3> QED
      BY <1>2, <1>3, <3>1
  <2>3. \A n \in 0..m : n \in Same
    <3> HIDE DEF Same
    <3> QED
      BY <1>1, <2>1, <2>2, IntervalInduction
  <2> QED
    BY <2>3
<1>5. g[m] = f[m] /\ f[m] \in Seq(U) /\ FlattenSeq(seqs) = f[m]
  BY <1>1, <1>2, <1>4 DEF m
<1>6. g[m + 1] = g[m] \o x
  <2>1. m + 1 \in 1..Len(more) /\ (m + 1) - 1 = m
    BY <1>1
  <2> QED
    BY <1>1, <1>3, <2>1
<1> QED
  BY <1>1, <1>3, <1>5, <1>6 DEF more

(* What is in a flattened sequence is in one of its parts. *)
LEMMA FlattenElements ==
  ASSUME NEW U, NEW seqs \in Seq(Seq(U)), NEW e \in ToSet(FlattenSeq(seqs))
  PROVE  \E i \in DOMAIN seqs : e \in ToSet(seqs[i])
<1> DEFINE P == {ss \in Seq(Seq(U)) :
                  \A x \in ToSet(FlattenSeq(ss)) :
                    \E i \in 1..Len(ss) : x \in ToSet(ss[i])}
<1>1. <<>> \in P
  BY FlattenEmpty, EmptySeq DEF ToSet
<1>2. ASSUME NEW ss \in Seq(Seq(U)), NEW s \in Seq(U), ss \in P
      PROVE  Append(ss, s) \in P
  <2> SUFFICES ASSUME NEW x \in ToSet(FlattenSeq(Append(ss, s)))
               PROVE  \E i \in 1..Len(Append(ss, s)) :
                        x \in ToSet(Append(ss, s)[i])
    BY AppendProperties
  <2>1. /\ FlattenSeq(ss) \in Seq(U)
        /\ FlattenSeq(Append(ss, s)) = FlattenSeq(ss) \o s
    <3> HIDE DEF P
    <3> QED
      BY FlattenAppend
  <2>2. x \in ToSet(FlattenSeq(ss)) \/ x \in ToSet(s)
    <3> DEFINE r == FlattenSeq(ss)
    <3>1. r \in Seq(U) /\ x \in ToSet(r \o s)
      BY <2>1
    <3> HIDE DEF r
    <3>2. x \in ToSet(r) \union ToSet(s)
      BY <3>1, ConcatElements
    <3> QED
      BY <3>2 DEF r
  <2>3. /\ Len(ss) \in Nat /\ Len(Append(ss, s)) = Len(ss) + 1
        /\ Append(ss, s)[Len(ss) + 1] = s
        /\ \A i \in 1..Len(ss) : Append(ss, s)[i] = ss[i]
    BY LenProperties, AppendProperties
  <2>4. CASE x \in ToSet(FlattenSeq(ss))
    <3>1. PICK i \in 1..Len(ss) : x \in ToSet(ss[i])
      BY <1>2, <2>4
    <3>2. i \in 1..Len(Append(ss, s)) /\ x \in ToSet(Append(ss, s)[i])
      BY <2>3, <3>1
    <3> QED
      BY <3>2
  <2>5. CASE x \in ToSet(s)
    <3>1. Len(ss) + 1 \in 1..Len(Append(ss, s))
      BY <2>3
    <3> QED
      BY <2>3, <2>5, <3>1
  <2> QED
    BY <2>2, <2>4, <2>5
<1>3. Seq(Seq(U)) \subseteq P
  <2> HIDE DEF P
  <2> QED
    BY <1>1, <1>2, AppendInduction
<1> QED
  BY <1>3

-----------------------------------------------------------------------------
(* InviteCode *)

CodeChars == ALPHABET \union DOMAIN UpperOf \union Separators

(* What the code comes to without its separators, and how much of it there  *)
(* is in what the user has copied.                                         *)
plainForm == IF form = suffix THEN suffix ELSE KFT \o suffix
plainCopied == IF form = code /\ copiedCode > 3 THEN copiedCode - 1 ELSE copiedCode

CodeTypeOK ==
  /\ suffix \in Drawable
  /\ form \in {code, KFT \o suffix, suffix}
  /\ lower \in BOOLEAN
  /\ codeText \in Seq(CodeChars)
  /\ added \in 0..MaxSeparators
  /\ copiedCode \in 0..Len(form)

(* The text is the beginning of the code, in another guise. *)
CodeIInv ==
  /\ CodeTypeOK
  /\ CompactCode(codeText) = SubSeq(plainForm, 1, plainCopied)

(* A letter of the alphabet is its own upper case. *)
LEMMA LettersAreUpper ==
  /\ \A c \in ALPHABET : Upper(c) = c /\ c \notin Separators
  /\ \A c \in Separators : Upper(c) = c
  /\ {"K", "F", "T"} \subseteq ALPHABET
<1>1. {"K", "F", "T"} \subseteq ALPHABET
  <2>1. DOMAIN KFT = 1..3 /\ KFT[1] = "K" /\ KFT[2] = "F" /\ KFT[3] = "T"
    BY DEF KFT
  <2> QED
    BY <2>1, InviteCodeAssumption DEF ToSet
<1> QED
  BY <1>1, InviteCodeAssumption DEF Upper

(* The key typed for a letter is read as the letter. *)
LEMMA KeyReadAsLetter ==
  ASSUME NEW c \in ALPHABET \union {"-"}
  PROVE  Key(c) \in CodeChars /\ Upper(Key(c)) = c
<1>1. CASE lower /\ c \in ALPHABET
  <2>1. PICK k \in DOMAIN UpperOf : UpperOf[k] = c
    BY <1>1 DEF ALPHABET
  <2>2. Key(c) \in DOMAIN UpperOf /\ UpperOf[Key(c)] = c
    BY <1>1, <2>1 DEF Key
  <2> QED
    BY <2>2 DEF Upper, CodeChars
<1>2. CASE ~(lower /\ c \in ALPHABET)
  BY <1>2, LettersAreUpper DEF Key, CodeChars, Separators
<1> QED
  BY <1>1, <1>2

(* What normalize_invite_code reads, when one more key is typed: nothing of *)
(* a separator, the upper case of any other key.                            *)
LEMMA CompactAppend ==
  ASSUME NEW s \in Seq(CodeChars), NEW c \in CodeChars
  PROVE  CompactCode(Append(s, c)) =
           IF Upper(c) \in Separators THEN CompactCode(s)
           ELSE Append(CompactCode(s), Upper(c))
<1> DEFINE Uppered(r) == [i \in DOMAIN r |-> Upper(r[i])]
           U == CodeChars \union ALPHABET
<1>1. \A d \in CodeChars : Upper(d) \in U
  BY DEF Upper, CodeChars, ALPHABET
<1>2. \A r \in Seq(CodeChars) : Uppered(r) \in Seq(U)
  <2> SUFFICES ASSUME NEW r \in Seq(CodeChars) PROVE Uppered(r) \in Seq(U)
    OBVIOUS
  <2>1. DOMAIN r = 1..Len(r) /\ \A i \in 1..Len(r) : r[i] \in CodeChars
    OBVIOUS
  <2> HIDE DEF U
  <2>2. Len(r) \in Nat /\ Uppered(r) = [i \in 1..Len(r) |-> Upper(r[i])]
    BY <2>1
  <2> QED
    BY <1>1, <2>1, <2>2, IsASeq
<1>3. Uppered(Append(s, c)) = Append(Uppered(s), Upper(c))
  <2> DEFINE t == Append(s, c)
  <2>1. /\ t \in Seq(CodeChars) /\ Len(t) = Len(s) + 1 /\ Len(s) \in Nat
        /\ t[Len(s) + 1] = c /\ \A i \in 1..Len(s) : t[i] = s[i]
        /\ DOMAIN t = 1..Len(t) /\ DOMAIN s = 1..Len(s)
    BY LenProperties, AppendProperties
  <2> HIDE DEF t, U
  <2>2. Uppered(t) \in Seq(U) /\ Uppered(s) \in Seq(U) /\ Upper(c) \in U
    BY <1>1, <1>2, <2>1
  <2> DEFINE rt == Uppered(t)
             rs == Uppered(s)
  <2>3. /\ Len(rt) = Len(s) + 1 /\ Len(rs) = Len(s)
        /\ \A i \in 1..Len(s) : rt[i] = rs[i]
        /\ rt[Len(s) + 1] = Upper(c)
    <3>1. DOMAIN rt = 1..(Len(s) + 1) /\ DOMAIN rs = 1..Len(s)
      BY <2>1
    <3>2. Len(rt) = Len(s) + 1 /\ Len(rs) = Len(s)
      <4> HIDE DEF rt, rs
      <4> QED
        BY <3>1, <2>1, <2>2, LenProperties DEF rt, rs
    <3> QED
      BY <2>1, <3>2
  <2>4. rt = Append(rs, Upper(c))
    <3> HIDE DEF rt, rs
    <3>1. rt \in Seq(U) /\ rs \in Seq(U)
      BY <2>2 DEF rt, rs
    <3> QED
      BY <2>1, <2>2, <2>3, <3>1, AppendProperties, SeqEqual
  <2> QED
    BY <2>4 DEF t
<1>4. Without(Append(Uppered(s), Upper(c)), Separators) =
        IF Upper(c) \in Separators THEN Without(Uppered(s), Separators)
        ELSE Append(Without(Uppered(s), Separators), Upper(c))
  <2> DEFINE rs == Uppered(s)
             d == Upper(c)
  <2>1. rs \in Seq(U) /\ d \in U
    BY <1>1, <1>2
  <2> HIDE DEF rs, d, U
  <2>2. /\ Without(rs, Separators) \in Seq(U)
        /\ d \in Separators =>
             Without(Append(rs, d), Separators) = Without(rs, Separators)
        /\ d \notin Separators =>
             Without(Append(rs, d), Separators) = Append(Without(rs, Separators), d)
    BY <2>1, WithoutAppend
  <2> QED
    BY <2>2 DEF rs, d
<1> QED
  BY <1>3, <1>4 DEF CompactCode

(* The forms a code is copied in, character by character. *)
LEMMA FormsTyped ==
  ASSUME suffix \in Drawable, form \in {code, KFT \o suffix, suffix}
  PROVE  /\ suffix \in Seq(ALPHABET) /\ Len(suffix) = 6
         /\ code \in Seq(ALPHABET \union {"-"}) /\ Len(code) = 10
         /\ code[4] = "-"
         /\ \A i \in 1..3 : code[i] = KFT[i]
         /\ \A i \in 5..10 : code[i] = suffix[i - 4]
         /\ KFT \o suffix \in Seq(ALPHABET) /\ Len(KFT \o suffix) = 9
         /\ \A i \in 1..3 : (KFT \o suffix)[i] = KFT[i]
         /\ \A i \in 4..9 : (KFT \o suffix)[i] = suffix[i - 3]
         /\ code # suffix /\ code # KFT \o suffix
<1>1. suffix \in [1..6 -> ALPHABET]
  BY InviteCodeAssumption DEF LENGTH
<1>2. suffix \in Seq(ALPHABET) /\ Len(suffix) = 6
  BY <1>1, IsASeq
<1>3. KFT \in Seq(ALPHABET) /\ Len(KFT) = 3
  BY LettersAreUpper DEF KFT
<1>4. PREFIX \in Seq(ALPHABET \union {"-"}) /\ Len(PREFIX) = 4
      /\ PREFIX[4] = "-" /\ \A i \in 1..3 : PREFIX[i] = KFT[i]
  BY <1>3, LettersAreUpper DEF PREFIX, KFT
<1>5. /\ code \in Seq(ALPHABET \union {"-"}) /\ Len(code) = 10
      /\ \A i \in 1..4 : code[i] = PREFIX[i]
      /\ \A i \in 5..10 : code[i] = suffix[i - 4]
  <2> DEFINE U == ALPHABET \union {"-"}
             p == PREFIX
  <2>1. suffix \in Seq(U) /\ p \in Seq(U) /\ Len(p) = 4 /\ code = p \o suffix
    BY <1>2, <1>4 DEF code
  <2> HIDE DEF U, p
  <2>2. /\ p \o suffix \in Seq(U) /\ Len(p \o suffix) = Len(p) + Len(suffix)
        /\ \A i \in 1..Len(p) + Len(suffix) :
             (p \o suffix)[i] = IF i <= Len(p) THEN p[i] ELSE suffix[i - Len(p)]
    BY <2>1, ConcatProperties
  <2>3. code \in Seq(U) /\ Len(code) = 10
    BY <1>2, <2>1, <2>2
  <2>4. ASSUME NEW i \in 1..4
        PROVE  code[i] = p[i]
    <3>1. i \in 1..Len(p) + Len(suffix) /\ i <= Len(p)
      BY <1>2, <2>1
    <3> QED
      BY <2>1, <2>2, <3>1
  <2>5. ASSUME NEW i \in 5..10
        PROVE  code[i] = suffix[i - 4]
    <3>1. i \in 1..Len(p) + Len(suffix) /\ ~(i <= Len(p)) /\ Len(p) = 4
      BY <1>2, <2>1
    <3> QED
      BY <2>1, <2>2, <3>1
  <2> QED
    BY <2>3, <2>4, <2>5 DEF U, p
<1>6. /\ KFT \o suffix \in Seq(ALPHABET) /\ Len(KFT \o suffix) = 3 + 6
      /\ \A i \in 1..3 : (KFT \o suffix)[i] = KFT[i]
      /\ \A i \in 3 + 1..3 + 6 : (KFT \o suffix)[i] = suffix[i - 3]
  <2> DEFINE k == KFT
  <2>1. k \in Seq(ALPHABET) /\ Len(k) = 3
    BY <1>3
  <2> HIDE DEF k
  <2>2. /\ k \o suffix \in Seq(ALPHABET) /\ Len(k \o suffix) = Len(k) + Len(suffix)
        /\ \A i \in 1..Len(k) + Len(suffix) :
             (k \o suffix)[i] = IF i <= Len(k) THEN k[i] ELSE suffix[i - Len(k)]
    BY <1>2, <2>1, ConcatProperties
  <2> QED
    BY <1>2, <2>1, <2>2 DEF k
<1>7. \A i \in 1..3 : i \in 1..4
  OBVIOUS
<1>8. \A i \in 1..3 : code[i] = KFT[i]
  BY <1>4, <1>5, <1>7
<1>9. code[4] = "-" /\ 3 + 6 = 9 /\ 3 + 1 = 4
  BY <1>4, <1>5
<1>10. code # suffix /\ code # KFT \o suffix
  <2>1. /\ code = suffix => Len(code) = Len(suffix)
        /\ code = KFT \o suffix => Len(code) = Len(KFT \o suffix)
    BY Zenon
  <2> DEFINE a == Len(code)
             b == Len(suffix)
             c == Len(KFT \o suffix)
  <2>2. a = 10 /\ b = 6 /\ c = 9
    BY <1>2, <1>5, <1>6, <1>9
  <2> HIDE DEF a, b, c
  <2>3. a # b /\ a # c
    BY <2>2
  <2> QED
    BY <2>1, <2>3, Zenon DEF a, b, c
<1> QED
  BY <1>2, <1>5, <1>6, <1>8, <1>9, <1>10

(* The plain form is the one copied without its separators: how much of it *)
(* has been copied, and that the text is whole when all of it has.         *)
LEMMA PlainTyped ==
  ASSUME CodeTypeOK
  PROVE  /\ plainForm \in Seq(ALPHABET) /\ Len(plainForm) \in {6, 9}
         /\ plainCopied \in 0..Len(plainForm)
         /\ form \in Seq(ALPHABET \union {"-"})
         /\ (left = <<>>) <=> (plainCopied = Len(plainForm))
         /\ left # <<>> => /\ copiedCode + 1 \in 1..Len(form)
                           /\ Head(left) = form[copiedCode + 1]
<1> DEFINE long == KFT \o suffix
<1>0. /\ suffix \in Seq(ALPHABET) /\ long \in Seq(ALPHABET)
      /\ code \in Seq(ALPHABET \union {"-"})
      /\ Len(suffix) = 6 /\ Len(long) = 9 /\ Len(code) = 10
      /\ form \in {code, long, suffix}
      /\ plainForm = IF form = suffix THEN suffix ELSE long
      /\ code # suffix /\ code # long
  BY FormsTyped DEF plainForm, CodeTypeOK
<1> HIDE DEF long
<1>1. /\ plainForm \in Seq(ALPHABET) /\ Len(plainForm) \in {6, 9}
      /\ form \in Seq(ALPHABET \union {"-"})
  <2>1. Seq(ALPHABET) \subseteq Seq(ALPHABET \union {"-"})
    BY SeqMonotonic
  <2> QED
    BY <1>0, <2>1
<1>2. /\ Len(form) \in {6, 9, 10}
      /\ (form = code) <=> (Len(form) = 10)
      /\ Len(plainForm) = IF Len(form) = 10 THEN 9 ELSE Len(form)
  <2> DEFINE n == Len(form)
             p == Len(plainForm)
  <2>1. CASE form = code
    <3>1. n = 10 /\ p = 9
      BY <1>0, <2>1
    <3> HIDE DEF n, p
    <3>2. n \in {6, 9, 10} /\ n = 10 /\ p = IF n = 10 THEN 9 ELSE n
      BY <3>1
    <3> QED
      BY <2>1, <3>2 DEF n, p
  <2>2. CASE form # code
    <3>1. p = n /\ n \in {6, 9}
      BY <1>0, <2>2
    <3> HIDE DEF n, p
    <3>2. n \in {6, 9, 10} /\ n # 10 /\ p = IF n = 10 THEN 9 ELSE n
      BY <3>1
    <3> QED
      BY <2>2, <3>2 DEF n, p
  <2> QED
    BY <2>1, <2>2
<1>3. /\ plainCopied \in 0..Len(plainForm)
      /\ (copiedCode = Len(form)) <=> (plainCopied = Len(plainForm))
  <2> DEFINE n == Len(form)
             p == Len(plainForm)
             k == copiedCode
  <2>1. /\ k \in 0..n /\ n \in {6, 9, 10} /\ p = IF n = 10 THEN 9 ELSE n
        /\ plainCopied = IF n = 10 /\ k > 3 THEN k - 1 ELSE k
    BY <1>2 DEF plainCopied, CodeTypeOK
  <2> HIDE DEF n, p, k
  <2>2. plainCopied \in 0..p /\ ((k = n) <=> (plainCopied = p))
    BY <2>1
  <2> QED
    BY <2>2 DEF n, p, k
<1>4. (left = <<>>) <=> (copiedCode = Len(form))
  <2>1. copiedCode \in 0..Len(form) /\ Len(form) \in Nat
    BY <1>2 DEF CodeTypeOK
  <2> DEFINE n == copiedCode
  <2>2. Len(left) = Len(form) - n /\ left \in Seq(ALPHABET \union {"-"})
    <3> HIDE DEF n
    <3> QED
      BY <1>1, <2>1, SubSeqProperties DEF left, n
  <2> QED
    BY <2>1, <2>2, EmptySeq
<1>5. left # <<>> => copiedCode + 1 \in 1..Len(form) /\ Head(left) = form[copiedCode + 1]
  <2> SUFFICES ASSUME left # <<>>
               PROVE  copiedCode + 1 \in 1..Len(form) /\ Head(left) = form[copiedCode + 1]
    OBVIOUS
  <2> DEFINE n == copiedCode
  <2>1. n \in Nat /\ n + 1 \in 1..Len(form) /\ Len(form) \in Nat
    BY <1>2, <1>4 DEF CodeTypeOK
  <2> HIDE DEF n
  <2>2. SubSeq(form, n + 1, Len(form))[1] = form[n + 1]
    BY <1>1, <2>1
  <2> QED
    BY <2>1, <2>2 DEF left, n
<1> QED
  BY <1>1, <1>3, <1>4, <1>5

LEMMA CodeInitIInv == CodeInit => CodeIInv
<1> SUFFICES ASSUME CodeInit PROVE CodeIInv
  OBVIOUS
<1>1. suffix \in Drawable /\ form \in {code, KFT \o suffix, suffix} /\ codeText = <<>>
      /\ lower \in BOOLEAN /\ added = 0
  BY DEF CodeInit
<1>2. copiedCode = 0 /\ Len(form) \in Nat /\ codeText \in Seq(CodeChars)
  BY <1>1, FormsTyped, EmptySeq DEF copiedCode
<1>3. CodeTypeOK
  BY <1>1, <1>2, InviteCodeAssumption DEF CodeTypeOK
<1>4. plainCopied = 0 /\ SubSeq(plainForm, 1, 0) = <<>>
  BY <1>2, <1>3, PlainTyped, SubSeqEmpty DEF plainCopied
<1>5. CompactCode(<<>>) = <<>>
  <2>1. [i \in DOMAIN <<>> |-> Upper(<<>>[i])] = <<>>
    OBVIOUS
  <2> QED
    BY <2>1, WithoutEmpty DEF CompactCode
<1> QED
  BY <1>1, <1>3, <1>4, <1>5 DEF CodeIInv

(* Copying the next character of the form keeps the text a beginning of it. *)
LEMMA CopyStep ==
  ASSUME CodeIInv, Copy
  PROVE  CodeIInv'
<1> DEFINE c == form[copiedCode + 1]
           n == plainCopied
<1>1. /\ CodeTypeOK /\ copiedCode + 1 \in 1..Len(form)
      /\ codeText' = Append(codeText, Key(c))
      /\ UNCHANGED <<suffix, form, lower, added>>
  BY PlainTyped DEF Copy, CodeIInv
<1>2. c \in ALPHABET \union {"-"}
  BY <1>1, PlainTyped, ElementOfSeq
<1>3. Key(c) \in CodeChars /\ Upper(Key(c)) = c
  BY <1>2, KeyReadAsLetter
<1>4. codeText' \in Seq(CodeChars) /\ copiedCode' = copiedCode + 1
  <2> DEFINE k == Key(c)
  <2>1. k \in CodeChars /\ codeText \in Seq(CodeChars) /\ codeText' = Append(codeText, k)
    BY <1>1, <1>3 DEF CodeTypeOK
  <2>2. Len(codeText) \in Nat /\ added \in Nat /\ added' = added
    BY <1>1, InviteCodeAssumption DEF CodeTypeOK
  <2> HIDE DEF k, c, n
  <2>3. codeText' \in Seq(CodeChars) /\ Len(codeText') = Len(codeText) + 1
    BY <2>1
  <2> QED
    BY <2>2, <2>3 DEF copiedCode
<1>5. code' = code /\ plainForm' = plainForm
  BY <1>1 DEF code, plainForm
<1>6. CodeTypeOK'
  BY <1>1, <1>4, <1>5 DEF CodeTypeOK
<1>7. CompactCode(codeText') =
        IF c \in Separators THEN SubSeq(plainForm, 1, n)
        ELSE Append(SubSeq(plainForm, 1, n), c)
  <2> HIDE DEF c, n
  <2> QED
    BY <1>1, <1>3, CompactAppend DEF CodeIInv, CodeTypeOK, n
<1>8. CASE form = code /\ copiedCode = 3
  <2>1. c = "-"
    BY <1>1, <1>8, FormsTyped DEF CodeTypeOK
  <2>2. plainCopied' = n
    BY <1>1, <1>4, <1>5, <1>8 DEF plainCopied
  <2> QED
    BY <1>5, <1>6, <1>7, <2>1, <2>2 DEF CodeIInv, Separators
<1>9. CASE ~(form = code /\ copiedCode = 3)
  <2>1. plainCopied' = n + 1 /\ n \in Nat /\ n + 1 \in 1..Len(plainForm)
    <3>1. copiedCode \in Nat
      BY <1>1 DEF CodeTypeOK
    <3>2. plainCopied' = n + 1 /\ n \in Nat
      BY <1>1, <1>4, <1>5, <1>9, <3>1 DEF plainCopied
    <3>3. plainCopied' \in 0..Len(plainForm)
      <4>1. /\ Len(form) \in Nat /\ copiedCode + 1 <= Len(form)
            /\ plainCopied \in 0..Len(plainForm)
            /\ (left = <<>>) <=> (plainCopied = Len(plainForm))
            /\ left # <<>> /\ Len(plainForm) \in Nat
        BY <1>1, PlainTyped DEF Copy
      <4> QED
        BY <3>2, <4>1
    <3>4. Len(plainForm) \in Nat
      BY <1>1, PlainTyped
    <3> QED
      BY <3>2, <3>3, <3>4
  <2>2. c = plainForm[n + 1]
    <3>1. /\ form = code => form # suffix /\ Len(form) = 10
          /\ form # code => form = plainForm
      <4>1. Len(code) = 10 /\ Len(suffix) = 6 /\ form \in {code, KFT \o suffix, suffix}
            /\ code # suffix
        BY <1>1, FormsTyped DEF CodeTypeOK
      <4> QED
        BY <4>1, Zenon DEF plainForm
    <3>2. copiedCode \in Nat
      BY <1>1 DEF CodeTypeOK
    <3>3. CASE form # code
      <4>1. plainForm = form /\ n = copiedCode
        BY <1>1, <3>1, <3>3 DEF plainForm, plainCopied, CodeTypeOK
      <4> QED
        BY <4>1
    <3>4. CASE form = code
      <4>1. plainForm = KFT \o suffix /\ Len(form) = 10
        BY <3>1, <3>4 DEF plainForm
      <4>2. CASE copiedCode < 3
        <5>1. n = copiedCode /\ n + 1 \in 1..3
          BY <3>2, <3>4, <4>2 DEF plainCopied
        <5> QED
          BY <1>1, <3>4, <4>1, <5>1, FormsTyped DEF CodeTypeOK
      <4>3. CASE copiedCode > 3
        <5>1. n = copiedCode - 1 /\ n + 1 \in 4..9 /\ copiedCode + 1 \in 5..10
          BY <1>1, <3>2, <3>4, <4>1, <4>3 DEF plainCopied
        <5>2. (n + 1) - 3 = (copiedCode + 1) - 4
          BY <3>2, <5>1
        <5>3. /\ code[copiedCode + 1] = suffix[(copiedCode + 1) - 4]
              /\ (KFT \o suffix)[n + 1] = suffix[(n + 1) - 3]
          BY <1>1, <5>1, FormsTyped DEF CodeTypeOK
        <5> QED
          BY <3>4, <4>1, <5>2, <5>3
      <4> QED
        BY <1>9, <3>2, <3>4, <4>2, <4>3
    <3> QED
      BY <3>3, <3>4
  <2>3. c \notin Separators
    BY <1>1, <2>1, <2>2, PlainTyped, ElementOfSeq, LettersAreUpper
  <2>4. SubSeq(plainForm, 1, n + 1) = Append(SubSeq(plainForm, 1, n), plainForm[n + 1])
    <3>1. plainForm \in Seq(ALPHABET)
      BY <1>1, PlainTyped
    <3> DEFINE s == plainForm
    <3> HIDE DEF s, n
    <3> QED
      BY <2>1, <3>1, SubSeqRecursiveSecond DEF s
  <2> QED
    BY <1>5, <1>6, <1>7, <2>1, <2>2, <2>3, <2>4 DEF CodeIInv
<1> QED
  BY <1>8, <1>9

(* A separator more changes nothing that is read. *)
LEMMA SeparateStep ==
  ASSUME CodeIInv, Separate
  PROVE  CodeIInv'
<1>1. /\ CodeTypeOK /\ added < MaxSeparators /\ added' = added + 1
      /\ UNCHANGED <<suffix, form, lower>>
  BY DEF Separate, CodeIInv
<1>2. PICK c \in Separators : codeText' = Append(codeText, c)
  BY DEF Separate
<1>3. c \in CodeChars /\ Upper(c) = c
  BY LettersAreUpper DEF CodeChars
<1>4. codeText' \in Seq(CodeChars) /\ copiedCode' = copiedCode
  <2>1. codeText \in Seq(CodeChars) /\ added \in Nat
    BY <1>1, InviteCodeAssumption DEF CodeTypeOK
  <2>2. codeText' \in Seq(CodeChars) /\ Len(codeText') = Len(codeText) + 1
        /\ Len(codeText) \in Nat
    BY <1>2, <1>3, <2>1
  <2> QED
    BY <1>1, <2>1, <2>2 DEF copiedCode
<1>5. code' = code /\ plainForm' = plainForm /\ plainCopied' = plainCopied
  BY <1>1, <1>4 DEF code, plainForm, plainCopied
<1>6. CodeTypeOK'
  BY <1>1, <1>4, <1>5, InviteCodeAssumption DEF CodeTypeOK
<1>7. CompactCode(codeText') = CompactCode(codeText)
  BY <1>1, <1>2, <1>3, CompactAppend DEF CodeTypeOK
<1> QED
  BY <1>5, <1>6, <1>7 DEF CodeIInv

LEMMA CodeStepIInv == CodeIInv /\ [CodeNext]_codeVars => CodeIInv'
<1> SUFFICES ASSUME CodeIInv, [CodeNext]_codeVars PROVE CodeIInv'
  OBVIOUS
<1>1. CASE CodeNext
  BY <1>1, CopyStep, SeparateStep DEF CodeNext
<1>2. CASE UNCHANGED codeVars
  BY <1>2 DEF codeVars, CodeIInv, CodeTypeOK, plainForm, plainCopied, code, copiedCode
<1> QED
  BY <1>1, <1>2

(* A code copied to its end is the one read, in every form that has the    *)
(* prefix and in the bare one unless it begins like the prefix; in that     *)
(* case, and before the end, none is.                                      *)
LEMMA IInvReadsCode == CodeIInv => CodeOrNothing
<1> SUFFICES ASSUME CodeIInv PROVE CodeOrNothing
  OBVIOUS
<1> DEFINE text == SubSeq(plainForm, 1, plainCopied)
           n == plainCopied
           rest == WithoutPrefix(text)
           read == normalize_invite_code(codeText)
<1>1. /\ CodeTypeOK /\ CompactCode(codeText) = text
      /\ plainForm \in Seq(ALPHABET) /\ Len(plainForm) \in {6, 9}
      /\ n \in 0..Len(plainForm)
      /\ (left = <<>>) <=> (n = Len(plainForm))
  BY PlainTyped DEF CodeIInv
<1>2. read = IF Len(rest) = 6 /\ ToSet(rest) \subseteq ALPHABET
             THEN PREFIX \o rest ELSE None
  BY <1>1 DEF normalize_invite_code, LENGTH
<1>3. /\ text \in Seq(ALPHABET) /\ Len(text) = n
      /\ \A i \in 1..n : text[i] = plainForm[i]
  <2> DEFINE s == plainForm
             k == plainCopied
  <2>1. s \in Seq(ALPHABET) /\ k \in 0..Len(s) /\ Len(s) \in Nat
    BY <1>1
  <2> HIDE DEF s, k
  <2>2. /\ SubSeq(s, 1, k) \in Seq(ALPHABET) /\ Len(SubSeq(s, 1, k)) = k
        /\ \A i \in 1..k : SubSeq(s, 1, k)[i] = s[i]
    BY <2>1
  <2> QED
    BY <2>2 DEF s, k
<1> HIDE DEF text, n, read, rest
<1>4. /\ IsPrefix(KFT, text) => n >= 3 /\ rest = SubSeq(text, 4, n)
      /\ ~IsPrefix(KFT, text) => rest = text
  BY <1>1, <1>3 DEF IsPrefix, rest, WithoutPrefix, KFT
<1>5. /\ rest \in Seq(ALPHABET)
      /\ IsPrefix(KFT, text) => Len(rest) = n - 3
      /\ ~IsPrefix(KFT, text) => Len(rest) = n
  <2>1. n \in Nat
    BY <1>1
  <2>2. ASSUME IsPrefix(KFT, text)
        PROVE  rest \in Seq(ALPHABET) /\ Len(rest) = n - 3
    <3>1. n >= 3 /\ rest = SubSeq(text, 4, n)
      BY <1>4, <2>2
    <3>2. 4 \in 1..n + 1 /\ n \in 0..Len(text) /\ n - 4 + 1 = n - 3
      BY <1>3, <2>1, <3>1
    <3> QED
      BY <1>3, <2>1, <3>1, <3>2
  <2>3. ASSUME ~IsPrefix(KFT, text)
        PROVE  rest \in Seq(ALPHABET) /\ Len(rest) = n
    BY <1>3, <1>4, <2>3, Zenon
  <2>4. rest \in Seq(ALPHABET)
    BY <2>2, <2>3, Zenon
  <2> QED
    BY <2>2, <2>3, <2>4, Zenon
<1>6. ToSet(rest) \subseteq ALPHABET
  BY <1>5 DEF ToSet
<1>7. CASE form = suffix
  <2>1. plainForm = suffix /\ Len(plainForm) = 6
    BY <1>1, <1>7, FormsTyped DEF plainForm, CodeTypeOK
  <2>2. CASE left = <<>>
    <3>1. n = 6 /\ text = suffix
      BY <1>1, <2>1, <2>2, SubSeqFull DEF text, n
    <3>2. CASE IsPrefix(KFT, suffix)
      <4>1. read = None
        BY <1>2, <1>5, <3>1, <3>2
      <4> QED
        BY <1>7, <2>2, <3>2, <4>1 DEF CodeOrNothing, mistaken, read
    <3>3. CASE ~IsPrefix(KFT, suffix)
      <4>1. rest = suffix /\ Len(rest) = 6
        BY <1>4, <1>5, <3>1, <3>3
      <4>2. read = PREFIX \o suffix
        BY <1>2, <1>6, <4>1
      <4> QED
        BY <2>2, <3>3, <4>2 DEF CodeOrNothing, mistaken, read, code
    <3> QED
      BY <3>2, <3>3
  <2>3. CASE left # <<>>
    <3>1. n < 6 /\ n \in Nat
      BY <1>1, <2>1, <2>3
    <3>2. Len(rest) = n \/ Len(rest) = n - 3
      BY <1>5, Zenon
    <3>4. Len(rest) # 6
      <4> DEFINE k == Len(rest)
      <4>1. k = n \/ k = n - 3
        BY <3>2
      <4> HIDE DEF k
      <4>2. k # 6
        BY <3>1, <4>1
      <4> QED
        BY <4>2 DEF k
    <3>3. read = None
      BY <1>2, <3>4
    <3> QED
      BY <2>3, <3>3 DEF CodeOrNothing, read
  <2> QED
    BY <2>2, <2>3
<1>8. CASE form # suffix
  <2>1. /\ plainForm = KFT \o suffix /\ Len(plainForm) = 9
        /\ \A i \in 1..3 : plainForm[i] = KFT[i]
        /\ \A i \in 4..9 : plainForm[i] = suffix[i - 3]
        /\ suffix \in Seq(ALPHABET) /\ Len(suffix) = 6
    BY <1>1, <1>8, FormsTyped DEF plainForm, CodeTypeOK
  <2>2. n >= 3 => IsPrefix(KFT, text)
    <3> SUFFICES ASSUME n >= 3 PROVE IsPrefix(KFT, text)
      OBVIOUS
    <3>1. \A i \in 1..3 : text[i] = KFT[i]
      <4>1. \A i \in 1..3 : i \in 1..n
        BY <1>1, <2>1
      <4> QED
        BY <1>3, <2>1, <4>1
    <3>2. KFT \in Seq(ALPHABET) /\ Len(KFT) = 3 /\ n \in Nat
      BY <1>1, LettersAreUpper DEF KFT
    <3>3. /\ SubSeq(text, 1, 3) \in Seq(ALPHABET) /\ Len(SubSeq(text, 1, 3)) = 3
          /\ \A i \in 1..3 : SubSeq(text, 1, 3)[i] = text[i]
      BY <1>3, <3>2
    <3>4. SubSeq(text, 1, 3) = KFT /\ SubSeq(KFT, 1, 3) = KFT
      BY <3>1, <3>2, <3>3, SeqEqual, SubSeqFull
    <3> QED
      BY <1>3, <3>2, <3>4 DEF IsPrefix
  <2>3. CASE left = <<>>
    <3>1. n = 9 /\ IsPrefix(KFT, text)
      BY <1>1, <2>1, <2>2, <2>3
    <3>2. rest = SubSeq(text, 4, 9) /\ Len(rest) = 6
      BY <1>4, <1>5, <3>1
    <3>3. \A i \in 1..6 : rest[i] = suffix[i]
      <4>1. \A i \in 1..6 : SubSeq(text, 4, 9)[i] = text[i + 3]
        BY <1>3, <3>1
      <4>2. \A i \in 1..6 : i + 3 \in 1..9 /\ i + 3 \in 4..9 /\ (i + 3) - 3 = i
        OBVIOUS
      <4> QED
        BY <1>3, <2>1, <3>1, <3>2, <4>1, <4>2, ZenonT(30)
    <3>4. rest = suffix
      BY <1>5, <2>1, <3>2, <3>3, SeqEqual
    <3>5. read = PREFIX \o suffix
      BY <1>2, <1>6, <3>2, <3>4
    <3> QED
      BY <1>8, <2>3, <3>5 DEF CodeOrNothing, mistaken, read, code
  <2>4. CASE left # <<>>
    <3>1. n < 9 /\ n \in Nat
      <4>1. n \in 0..9 /\ n # 9
        BY <1>1, <2>1, <2>4, Zenon
      <4> QED
        BY <4>1
    <3>2. Len(rest) = n - 3 \/ (Len(rest) = n /\ ~(n >= 3))
      BY <1>5, <2>2, Zenon
    <3>4. Len(rest) # 6
      <4> DEFINE k == Len(rest)
      <4>1. k = n - 3 \/ (k = n /\ ~(n >= 3))
        BY <3>2
      <4> HIDE DEF k
      <4>2. k # 6
        BY <3>1, <4>1
      <4> QED
        BY <4>2 DEF k
    <3>3. read = None
      BY <1>2, <3>4
    <3> QED
      BY <2>4, <3>3 DEF CodeOrNothing, read
  <2> QED
    BY <2>3, <2>4
<1> QED
  BY <1>7, <1>8

(* The text is at every moment the beginning of a form of the code, in      *)
(* either case and with separators in it.                                  *)
THEOREM CodeInvariant == CodeSpec => []CodeIInv
BY CodeInitIInv, CodeStepIInv, PTL DEF CodeSpec

(* What normalize_invite_code makes of a text, for any alphabet that holds  *)
(* the prefix, any suffix, form, case and separators: the code meant, once  *)
(* it is copied to its end, except for a bare suffix that begins with KFT,  *)
(* which it always refuses though the docstring promises it; and nothing    *)
(* of a part of a code.  No text is read as the code of another tontine.    *)
THEOREM CodeReadExactly == CodeSpec => []CodeOrNothing
BY CodeInvariant, IInvReadsCode, PTL

-----------------------------------------------------------------------------
(* Amounts *)

AmountChars == Digits \union Groupers \union Signs \union CentMarks

AmountTypeOK ==
  /\ amount \in Meant
  /\ amountText \in Seq(AmountChars)
  /\ copied \in 0..Len(amount)
  /\ extra \in {"nothing", "sign"} \union CentMarks

(* Without its separators the text is what was copied of the amount, until  *)
(* there is more to it; and no sign or comma disappears.                   *)
AmountIInv ==
  /\ AmountTypeOK
  /\ extra = "nothing" => CompactAmount(amountText) = SubSeq(amount, 1, copied)
  /\ extra = "sign" => Signs \intersect ToSet(amountText) # {}
  /\ extra = "," => "," \in ToSet(amountText)
  /\ extra = "." => /\ copied = Len(amount)
                    /\ CompactAmount(amountText) = amount \o <<"5", "0">>

LEMMA AmountTyped ==
  ASSUME NEW a \in Meant
  PROVE  a \in Seq(Digits) /\ a # <<>> /\ Len(a) \in Nat /\ Len(a) # 0
<1>1. a \in Seq(Digits) /\ a # <<>>
  BY AmountsAssumption
<1> QED
  BY <1>1, EmptySeq

LEMMA AmountInitIInv == AmountInit => AmountIInv
<1> SUFFICES ASSUME AmountInit PROVE AmountIInv
  OBVIOUS
<1>1. amount \in Meant /\ amountText = <<>> /\ copied = 0 /\ extra = "nothing"
  BY DEF AmountInit
<1>2. AmountTypeOK
  BY <1>1, AmountTyped, EmptySeq DEF AmountTypeOK
<1>3. CompactAmount(<<>>) = <<>>
  BY WithoutEmpty DEF CompactAmount
<1>4. SubSeq(amount, 1, 0) = <<>>
  BY <1>1, AmountTyped, SubSeqEmpty
<1> QED
  BY <1>1, <1>2, <1>3, <1>4 DEF AmountIInv

(* Whatever is typed, what was there stays there. *)
LEMMA TypeAdds ==
  ASSUME AmountTypeOK, NEW c \in Seq(AmountChars), Type(c)
  PROVE  /\ amountText' \in Seq(AmountChars)
         /\ ToSet(amountText') = ToSet(amountText) \union ToSet(c)
         /\ CompactAmount(amountText') = CompactAmount(amountText) \o CompactAmount(c)
         /\ CompactAmount(amountText) \in Seq(AmountChars)
<1> DEFINE s == amountText
           U == AmountChars
<1>1. s \in Seq(U) /\ c \in Seq(U) /\ amountText' = s \o c
  BY DEF AmountTypeOK, Type
<1> HIDE DEF s, U
<1>2. s \o c \in Seq(U)
  BY <1>1, ConcatProperties
<1>3. ToSet(s \o c) = ToSet(s) \union ToSet(c)
  BY <1>1, ConcatElements
<1>4. Without(s \o c, AMOUNT_SEPARATORS) =
        Without(s, AMOUNT_SEPARATORS) \o Without(c, AMOUNT_SEPARATORS)
  BY <1>1, WithoutConcat
<1>5. Without(s, AMOUNT_SEPARATORS) \in Seq(U)
  BY <1>1, WithoutSeq
<1> QED
  BY <1>1, <1>2, <1>3, <1>4, <1>5 DEF CompactAmount, s, U

LEMMA TypeOne ==
  ASSUME AmountTypeOK, NEW c \in AmountChars, Type(<<c>>)
  PROVE  /\ amountText' \in Seq(AmountChars)
         /\ ToSet(amountText) \subseteq ToSet(amountText') /\ c \in ToSet(amountText')
         /\ CompactAmount(amountText') =
              IF c \in AMOUNT_SEPARATORS THEN CompactAmount(amountText)
              ELSE CompactAmount(amountText) \o <<c>>
<1>1. <<c>> \in Seq(AmountChars) /\ c \in ToSet(<<c>>)
  BY DEF ToSet
<1>2. /\ amountText' \in Seq(AmountChars)
      /\ ToSet(amountText') = ToSet(amountText) \union ToSet(<<c>>)
      /\ CompactAmount(amountText') = CompactAmount(amountText) \o CompactAmount(<<c>>)
      /\ CompactAmount(amountText) \in Seq(AmountChars)
  BY <1>1, TypeAdds
<1>3. CompactAmount(<<c>>) = IF c \in AMOUNT_SEPARATORS THEN <<>> ELSE <<c>>
  BY WithoutOne DEF CompactAmount
<1>4. CompactAmount(amountText) \o <<>> = CompactAmount(amountText)
  BY <1>2, ConcatEmptySeq
<1> QED
  BY <1>1, <1>2, <1>3, <1>4

(* The next digit of the amount is the next one read. *)
LEMMA TypeDigitStep == AmountIInv /\ TypeDigit => AmountIInv'
<1> SUFFICES ASSUME AmountIInv, TypeDigit PROVE AmountIInv'
  OBVIOUS
<1> DEFINE d == amount[copied + 1]
<1>1. /\ AmountTypeOK /\ copied < Len(amount) /\ copied' = copied + 1
      /\ Type(<<d>>) /\ amount' = amount /\ extra' = extra
  BY DEF TypeDigit, AmountIInv
<1>2. amount \in Seq(Digits) /\ Len(amount) \in Nat
  BY <1>1, AmountTyped DEF AmountTypeOK
<1>3. copied + 1 \in 1..Len(amount) /\ copied \in Nat
  BY <1>1, <1>2 DEF AmountTypeOK
<1>4. d \in Digits /\ d \in AmountChars
  BY <1>2, <1>3 DEF AmountChars
<1> HIDE DEF d
<1>5. /\ amountText' \in Seq(AmountChars)
      /\ ToSet(amountText) \subseteq ToSet(amountText')
      /\ CompactAmount(amountText') = CompactAmount(amountText) \o <<d>>
  <2>1. d \notin AMOUNT_SEPARATORS
    BY <1>4 DEF Digits, AMOUNT_SEPARATORS
  <2> QED
    BY <1>1, <1>4, <2>1, TypeOne
<1>6. AmountTypeOK'
  BY <1>1, <1>2, <1>3, <1>5 DEF AmountTypeOK
<1>7. SubSeq(amount, 1, copied + 1) = SubSeq(amount, 1, copied) \o <<d>>
  <2> DEFINE n == copied
             s == amount
  <2>1. s \in Seq(Digits) /\ n \in Nat /\ n + 1 \in 1..Len(s)
    BY <1>2, <1>3
  <2> HIDE DEF n, s
  <2>2. SubSeq(s, 1, n + 1) = Append(SubSeq(s, 1, n), s[n + 1])
    BY <2>1, SubSeqRecursiveSecond
  <2>3. SubSeq(s, 1, n) \in Seq(Digits)
    BY <2>1
  <2>4. Append(SubSeq(s, 1, n), s[n + 1]) = SubSeq(s, 1, n) \o <<s[n + 1]>>
    BY <2>1, <2>3, AppendIsConcat
  <2> QED
    BY <2>2, <2>4 DEF n, s, d
<1>8. extra # "."
  <2>1. extra = "." => copied = Len(amount)
    BY DEF AmountIInv
  <2>2. copied # Len(amount)
    BY <1>1, <1>2, <1>3
  <2> QED
    BY <2>1, <2>2
<1> QED
  BY <1>1, <1>5, <1>6, <1>7, <1>8 DEF AmountIInv

(* A separator of groups is not read. *)
LEMMA TypeSeparatorStep == AmountIInv /\ TypeSeparator => AmountIInv'
<1> SUFFICES ASSUME AmountIInv, TypeSeparator PROVE AmountIInv'
  OBVIOUS
<1>1. AmountTypeOK /\ UNCHANGED <<amount, copied, extra>>
  BY DEF TypeSeparator, AmountIInv
<1>2. PICK c \in Groupers : Type(<<c>>)
  BY DEF TypeSeparator
<1>3. c \in AMOUNT_SEPARATORS /\ c \in AmountChars
  BY DEF Groupers, AMOUNT_SEPARATORS, AmountChars
<1>4. /\ amountText' \in Seq(AmountChars)
      /\ ToSet(amountText) \subseteq ToSet(amountText')
      /\ CompactAmount(amountText') = CompactAmount(amountText)
  BY <1>1, <1>2, <1>3, TypeOne
<1> QED
  BY <1>1, <1>4 DEF AmountIInv, AmountTypeOK

(* A sign stays in what is read, which is no number then. *)
LEMMA TypeSignStep == AmountIInv /\ TypeSign => AmountIInv'
<1> SUFFICES ASSUME AmountIInv, TypeSign PROVE AmountIInv'
  OBVIOUS
<1>1. AmountTypeOK /\ extra' = "sign" /\ UNCHANGED <<amount, copied>>
  BY DEF TypeSign, AmountIInv
<1>2. PICK c \in Signs : Type(<<c>>)
  BY DEF TypeSign
<1>3. c \in AmountChars
  BY DEF AmountChars
<1>4. amountText' \in Seq(AmountChars) /\ c \in ToSet(amountText')
  BY <1>1, <1>2, <1>3, TypeOne
<1> QED
  BY <1>1, <1>2, <1>4 DEF AmountIInv, AmountTypeOK

(* What Append makes of a sequence, told by its elements. *)
LEMMA AppendIs ==
  ASSUME NEW U, NEW s \in Seq(U), NEW b \in U, NEW t \in Seq(U),
         Len(t) = Len(s) + 1, \A i \in 1..Len(s) : t[i] = s[i],
         t[Len(s) + 1] = b
  PROVE  Append(s, b) = t
<1>1. /\ Append(s, b) \in Seq(U) /\ Len(Append(s, b)) = Len(s) + 1
      /\ Append(s, b)[Len(s) + 1] = b
      /\ \A i \in 1..Len(s) : Append(s, b)[i] = s[i]
  BY AppendProperties
<1> DEFINE r == Append(s, b)
<1>2. /\ r \in Seq(U) /\ Len(r) = Len(t) /\ Len(s) \in Nat
      /\ \A i \in 1..Len(r) : r[i] = t[i]
  <2>1. Len(s) \in Nat
    OBVIOUS
  <2>2. /\ r \in Seq(U) /\ Len(r) = Len(s) + 1 /\ r[Len(s) + 1] = b
        /\ \A i \in 1..Len(s) : r[i] = s[i]
    BY <1>1
  <2> HIDE DEF r
  <2> QED
    BY <2>1, <2>2
<1> HIDE DEF r
<1>3. r = t
  BY <1>2, SeqEqual
<1> QED
  BY <1>3 DEF r

LEMMA AppendSecond ==
  ASSUME NEW U, NEW a \in U, NEW b \in U
  PROVE  Append(<<a>>, b) = <<a, b>>
<1> DEFINE s == <<a>>
           t == <<a, b>>
<1>1. /\ s \in Seq(U) /\ t \in Seq(U) /\ Len(t) = Len(s) + 1
      /\ \A i \in 1..Len(s) : t[i] = s[i]
      /\ t[Len(s) + 1] = b
  OBVIOUS
<1> HIDE DEF s, t
<1>2. Append(s, b) = t
  BY <1>1, AppendIs
<1> QED
  BY <1>2 DEF s, t

LEMMA AppendThird ==
  ASSUME NEW U, NEW a \in U, NEW b \in U, NEW c \in U
  PROVE  Append(<<a, b>>, c) = <<a, b, c>>
<1> DEFINE s == <<a, b>>
           t == <<a, b, c>>
<1>1. /\ s \in Seq(U) /\ t \in Seq(U) /\ Len(t) = Len(s) + 1
      /\ \A i \in 1..Len(s) : t[i] = s[i]
      /\ t[Len(s) + 1] = c
  OBVIOUS
<1> HIDE DEF s, t
<1>2. Append(s, c) = t
  BY <1>1, AppendIs
<1> QED
  BY <1>2 DEF s, t

(* The point of cents goes, the cents stay. *)
LEMMA CentsAfterPoint == CompactAmount(<<".", "5", "0">>) = <<"5", "0">>
<1> DEFINE U == AmountChars
           p == <<".">>
           q == <<".", "5">>
           n == <<>>
<1>1. "." \in U /\ "5" \in U /\ "0" \in U
  BY DEF AmountChars, Digits, Groupers
<1>2. "." \in AMOUNT_SEPARATORS /\ "5" \notin AMOUNT_SEPARATORS
      /\ "0" \notin AMOUNT_SEPARATORS
  BY DEF AMOUNT_SEPARATORS
<1>3. p \in Seq(U) /\ q \in Seq(U)
  BY <1>1
<1>4. Append(p, "5") = q /\ Append(q, "0") = <<".", "5", "0">>
  BY <1>1, AppendSecond, AppendThird
<1>5. Without(p, AMOUNT_SEPARATORS) = n
  BY <1>2, WithoutOne
<1>6. Append(n, "5") = <<"5">> /\ Append(<<"5">>, "0") = <<"5", "0">>
  BY <1>1, AppendSecond
<1> HIDE DEF U, p, q, n
<1>7. Without(Append(p, "5"), AMOUNT_SEPARATORS)
        = Append(Without(p, AMOUNT_SEPARATORS), "5")
  BY <1>1, <1>2, <1>3, WithoutAppend
<1>8. Without(Append(q, "0"), AMOUNT_SEPARATORS)
        = Append(Without(q, AMOUNT_SEPARATORS), "0")
  BY <1>1, <1>2, <1>3, WithoutAppend
<1> QED
  BY <1>4, <1>5, <1>6, <1>7, <1>8 DEF CompactAmount

(* A comma stays in the text, which is no number then. *)
LEMMA TypeCentsStep == AmountIInv /\ TypeCents => AmountIInv'
<1> SUFFICES ASSUME AmountIInv, TypeCents PROVE AmountIInv'
  OBVIOUS
<1>1. AmountTypeOK /\ UNCHANGED <<amount, copied>>
  BY DEF TypeCents, AmountIInv
<1>2. PICK c \in CentMarks : Type(<<c, "5", "0">>) /\ extra' = c
  BY DEF TypeCents
<1>3. <<c, "5", "0">> \in Seq(AmountChars) /\ c \in ToSet(<<c, "5", "0">>)
  <2>1. c \in AmountChars /\ "5" \in AmountChars /\ "0" \in AmountChars
    BY DEF AmountChars, Digits
  <2>2. DOMAIN <<c, "5", "0">> = 1..3 /\ <<c, "5", "0">>[1] = c
    OBVIOUS
  <2> QED
    BY <2>1, <2>2 DEF ToSet
<1>4. amountText' \in Seq(AmountChars) /\ c \in ToSet(amountText')
  BY <1>1, <1>2, <1>3, TypeAdds
<1>5. extra' \in CentMarks /\ extra' # "nothing" /\ extra' # "sign"
  BY <1>2 DEF CentMarks
<1>6. ASSUME c = "."
      PROVE  /\ copied = Len(amount)
             /\ CompactAmount(amountText') = amount \o <<"5", "0">>
  <2>1. copied = Len(amount) /\ extra = "nothing"
    BY DEF TypeCents
  <2>2. amount \in Seq(Digits)
    BY <1>1, AmountTyped DEF AmountTypeOK
  <2>3. CompactAmount(amountText) = amount
    BY <2>1, <2>2, SubSeqFull DEF AmountIInv
  <2>4. CompactAmount(amountText') =
          CompactAmount(amountText) \o CompactAmount(<<c, "5", "0">>)
    BY <1>1, <1>2, <1>3, TypeAdds
  <2> QED
    BY <1>6, <2>1, <2>3, <2>4, CentsAfterPoint
<1> QED
  BY <1>1, <1>2, <1>4, <1>5, <1>6 DEF AmountIInv, AmountTypeOK

LEMMA AmountStepIInv == AmountIInv /\ [AmountNext]_amountVars => AmountIInv'
<1> SUFFICES ASSUME AmountIInv, [AmountNext]_amountVars PROVE AmountIInv'
  OBVIOUS
<1>1. CASE AmountNext
  BY <1>1, TypeDigitStep, TypeSeparatorStep, TypeCentsStep, TypeSignStep
  DEF AmountNext
<1>2. CASE UNCHANGED amountVars
  BY <1>2 DEF amountVars, AmountIInv, AmountTypeOK
<1> QED
  BY <1>1, <1>2

LEMMA IInvReadsAmount == AmountIInv => AmountReadExactly
<1> SUFFICES ASSUME AmountIInv PROVE AmountReadExactly
  OBVIOUS
<1> DEFINE compact == CompactAmount(amountText)
           read == parse_amount(amountText)
<1>1. /\ amount \in Seq(Digits) /\ amount # <<>> /\ Len(amount) \in Nat
      /\ ToSet(compact) = ToSet(amountText) \ AMOUNT_SEPARATORS
  <2>1. ToSet(Without(amountText, AMOUNT_SEPARATORS))
        = ToSet(amountText) \ AMOUNT_SEPARATORS
    BY WithoutElements DEF AmountIInv, AmountTypeOK
  <2> QED
    BY <2>1, AmountTyped DEF AmountIInv, AmountTypeOK, CompactAmount
<1>2. read = IF compact = <<>> \/ \E i \in DOMAIN compact : ~IsDigit(compact[i])
             THEN None
             ELSE IF ToSet(compact) \subseteq Digits THEN compact ELSE Raised
  BY DEF parse_amount
<1>3. ASSUME copied = Len(amount), extra = "nothing"
      PROVE  read = amount
  <2>1. compact = amount
    <3>1. SubSeq(amount, 1, Len(amount)) = amount
      BY <1>1, SubSeqFull
    <3> QED
      BY <1>3, <3>1 DEF AmountIInv
  <2> HIDE DEF compact, read
  <2>2. /\ \A i \in DOMAIN amount : IsDigit(amount[i])
        /\ ToSet(amount) \subseteq Digits
    BY <1>1 DEF IsDigit, ToSet
  <2> QED
    BY <1>1, <1>2, <2>1, <2>2
<1>4. ASSUME extra \in {"sign", ","}
      PROVE  read \in {None, Raised}
  <2>1. PICK c \in ToSet(amountText) : c \in Signs \union {","}
    BY <1>4 DEF AmountIInv
  <2>2. c \notin AMOUNT_SEPARATORS /\ c \notin Digits
    BY <2>1 DEF Signs, AMOUNT_SEPARATORS, Digits
  <2>3. c \in ToSet(compact)
    BY <1>1, <2>1, <2>2
  <2> HIDE DEF compact, read
  <2> QED
    BY <1>2, <2>2, <2>3
<1>5. ASSUME extra = "."
      PROVE  read = amount \o <<"5", "0">>
  <2> DEFINE cents == <<"5", "0">>
  <2>1. compact = amount \o cents
    BY <1>5 DEF AmountIInv
  <2>2. cents \in Seq(Digits)
    BY DEF Digits
  <2> HIDE DEF compact, read, cents
  <2>3. compact \in Seq(Digits) /\ Len(compact) = Len(amount) + Len(cents)
    BY <1>1, <2>1, <2>2, ConcatProperties
  <2>4. compact # <<>>
    <3>1. Len(amount) # 0 /\ Len(cents) \in Nat
      BY <1>1, <2>2, EmptySeq
    <3> QED
      BY <1>1, <2>3, <3>1, EmptySeq
  <2>5. /\ \A i \in DOMAIN compact : IsDigit(compact[i])
        /\ ToSet(compact) \subseteq Digits
    BY <2>3 DEF IsDigit, ToSet
  <2> QED
    BY <1>2, <2>1, <2>4, <2>5 DEF cents
<1> QED
  BY <1>3, <1>4, <1>5 DEF AmountReadExactly

(* Until something else is typed, the text is the digits copied so far and  *)
(* separators of groups.                                                   *)
THEOREM AmountInvariant == AmountSpec => []AmountIInv
BY AmountInitIInv, AmountStepIInv, PTL DEF AmountSpec

(* _parse_amount reads an amount of francs as the one meant whatever        *)
(* separates its groups, takes no text with a sign or a comma in it for an  *)
(* amount, and takes cents after a point for more francs, which the texts   *)
(* of the repository deny: exactly what becomes of each.                    *)
THEOREM AmountIsRead == AmountSpec => []AmountReadExactly
BY AmountInvariant, IInvReadsAmount, PTL

-----------------------------------------------------------------------------
(* Parser *)

(* A set of numbers that is not empty has a least one. *)
LEMMA LeastElement ==
  ASSUME NEW S, S \subseteq Nat, S # {}
  PROVE  Min(S) \in S
<1>1. PICK x \in S : \A y \in S : <<y, x>> \notin OpToRel(<, Nat)
  BY WFMin, NatLessThanWellFounded
<1>2. ASSUME NEW y \in S
      PROVE  x <= y
  <2>1. x \in Nat /\ y \in Nat
    OBVIOUS
  <2>2. ~(y < x)
    BY <1>1, <2>1 DEF OpToRel
  <2> QED
    BY <2>1, <2>2
<1> QED
  BY <1>2 DEF Min

Parsed == Events \union {None}

(* What an item is parsed to, in the place of the item. *)
MessageEvents(change) ==
  [i \in DOMAIN change.messages |->
     parse_message(change.messages[i], change.contacts)]
StatusEvents(change) ==
  [i \in DOMAIN change.statuses |-> parse_status(change.statuses[i])]

LEMMA ChangeTyped ==
  ASSUME NEW change \in Changes
  PROVE  /\ change.contacts \in Seq(Contacts)
         /\ change.messages \in Seq(Messages)
         /\ change.statuses \in Seq(Statuses)
BY DEF Changes

(* A name found is that of a contact with the number asked for. *)
LEMMA ProfileIsOwn ==
  ASSUME NEW contacts \in Seq(Contacts), NEW wa_id \in Senders
  PROVE  LET name == profile_name(contacts, wa_id)
         IN /\ name \in Profiles \union {None}
            /\ name # None =>
                 [wa_id |-> wa_id, name |-> name] \in ToSet(contacts)
<1> DEFINE name == profile_name(contacts, wa_id)
           found == {i \in 1..Len(contacts) : contacts[i].wa_id = wa_id}
           n == IF found # {} THEN Min(found) ELSE 0
<1>1. name = IF n = 0 THEN None ELSE contacts[n].name
  BY DEF profile_name, SelectInSeq
<1>2. CASE found = {}
  BY <1>1, <1>2
<1>3. CASE found # {}
  <2>1. Min(found) \in found
    <3>1. found \subseteq Nat
      OBVIOUS
    <3> HIDE DEF found
    <3> QED
      BY <1>3, <3>1, LeastElement
  <2>2. n \in 1..Len(contacts) /\ contacts[n].wa_id = wa_id /\ n # 0
    BY <1>3, <2>1
  <2>3. contacts[n] \in Contacts /\ contacts[n] \in ToSet(contacts)
    <3> HIDE DEF n
    <3>1. DOMAIN contacts = 1..Len(contacts)
      OBVIOUS
    <3> QED
      BY <2>2, <3>1 DEF ToSet
  <2>4. contacts[n] = [wa_id |-> wa_id, name |-> contacts[n].name]
        /\ contacts[n].name \in Profiles \union {None}
    <3> HIDE DEF n
    <3> QED
      BY <2>2, <2>3 DEF Contacts
  <2> QED
    BY <1>1, <2>2, <2>3, <2>4
<1> QED
  BY <1>2, <1>3

(* A message is parsed to an event of its own, or to None; to which of the  *)
(* two, and to which key, is not a matter of the contacts.                 *)
LEMMA MessageParsed ==
  ASSUME NEW m \in Messages, NEW contacts \in Seq(Contacts)
  PROVE  LET e == parse_message(m, contacts)
         IN /\ e \in Parsed
            /\ e = None <=> None \in {m.id, m.from}
            /\ e # None => /\ e.external_id = <<m.id>>
                           /\ e.sender = m.from /\ m.from \in Senders
                           /\ e.sender_name = profile_name(contacts, m.from)
<1> DEFINE e == parse_message(m, contacts)
           name == profile_name(contacts, m.from)
           text == IF m.type = "text" THEN m.body ELSE None
           type == parse_type(m.type)
<1>1. /\ m.id \in MessageIds \union {None} /\ m.from \in Senders \union {None}
      /\ m.body \in {"some text", None}
  BY DEF Messages
<1>2. CASE None \in {m.id, m.from}
  BY <1>2 DEF parse_message, Parsed
<1>3. CASE None \notin {m.id, m.from}
  <2>1. m.id \in MessageIds /\ m.from \in Senders
    BY <1>1, <1>3
  <2>2. name \in Profiles \union {None}
    BY <2>1, ProfileIsOwn
  <2>3. type \in WhatsAppMessageType /\ text \in {"some text", None}
    BY <1>1 DEF parse_type, WhatsAppMessageType
  <2>4. <<m.id>> \in Seq(MessageIds)
    BY <2>1
  <2>5. e = [external_id |-> <<m.id>>, sender |-> m.from, sender_name |-> name,
             type |-> type, text |-> text]
    BY <1>3 DEF parse_message
  <2> HIDE DEF e, name, text, type
  <2>6. e \in Events
    BY <2>1, <2>2, <2>3, <2>4, <2>5 DEF Events
  <2>7. e # None
    BY <2>6, ParserAssumption
  <2> QED
    BY <1>3, <2>1, <2>5, <2>6, <2>7 DEF Parsed, name, e
<1> QED
  BY <1>2, <1>3

(* A status becomes one event or none. *)
LEMMA StatusParsed ==
  ASSUME NEW s \in Statuses
  PROVE  /\ parse_status(s) \in Parsed
         /\ parse_status(s) # None => "sender_name" \notin DOMAIN parse_status(s)
<1>1. s.id \in MessageIds \union {None} /\ s.status \in {"sent", None}
  BY DEF Statuses
<1>2. CASE None \in {s.id, s.status}
  BY <1>2 DEF parse_status, Parsed
<1>3. CASE None \notin {s.id, s.status}
  <2>1. <<s.id, s.status>> \in Seq(MessageIds \union {"sent"})
    BY <1>1, <1>3
  <2>2. parse_status(s) = [external_id |-> <<s.id, s.status>>]
    BY <1>3 DEF parse_status
  <2>3. parse_status(s) \in Events
    <3> DEFINE key == <<s.id, s.status>>
               K == Seq(MessageIds \union {"sent"})
    <3>1. key \in K /\ parse_status(s) = [external_id |-> key]
      BY <2>1, <2>2
    <3> HIDE DEF key, K
    <3>2. parse_status(s) \in [external_id : K]
      BY <3>1
    <3> QED
      BY <3>2 DEF Events, K
  <2> QED
    BY <2>2, <2>3 DEF Parsed
<1> QED
  BY <1>2, <1>3

(* The items of a change become a sequence of events and Nones. *)
LEMMA ItemsParsed ==
  ASSUME NEW change \in Changes
  PROVE  /\ MessageEvents(change) \in Seq(Parsed)
         /\ StatusEvents(change) \in Seq(Parsed)
<1> DEFINE ms == change.messages
           ss == change.statuses
<1>1. /\ ms \in Seq(Messages) /\ ss \in Seq(Statuses)
      /\ change.contacts \in Seq(Contacts)
  BY ChangeTyped
<1>2. /\ DOMAIN ms = 1..Len(ms) /\ Len(ms) \in Nat
      /\ DOMAIN ss = 1..Len(ss) /\ Len(ss) \in Nat
  BY <1>1
<1>3. \A i \in 1..Len(ms) : parse_message(ms[i], change.contacts) \in Parsed
  BY <1>1, MessageParsed
<1>4. \A i \in 1..Len(ss) : parse_status(ss[i]) \in Parsed
  BY <1>1, StatusParsed
<1>5. MessageEvents(change) \in Seq(Parsed)
  <2>1. MessageEvents(change) =
          [i \in 1..Len(ms) |-> parse_message(ms[i], change.contacts)]
    BY <1>2 DEF MessageEvents
  <2> HIDE DEF ms
  <2> QED
    BY <1>2, <1>3, <2>1, IsASeq
<1>6. StatusEvents(change) \in Seq(Parsed)
  <2>1. StatusEvents(change) = [i \in 1..Len(ss) |-> parse_status(ss[i])]
    BY <1>2 DEF StatusEvents
  <2> HIDE DEF ss
  <2> QED
    BY <1>2, <1>4, <2>1, IsASeq
<1> QED
  BY <1>5, <1>6

LEMMA ChangeParsed ==
  ASSUME NEW change \in Changes
  PROVE  /\ parse_change(change) =
              Recognised(MessageEvents(change)) \o Recognised(StatusEvents(change))
         /\ Recognised(MessageEvents(change)) \in Seq(Parsed)
         /\ Recognised(StatusEvents(change)) \in Seq(Parsed)
         /\ parse_change(change) \in Seq(Parsed)
<1> DEFINE ms == MessageEvents(change)
           ss == StatusEvents(change)
<1>1. ms \in Seq(Parsed) /\ ss \in Seq(Parsed)
  BY ItemsParsed
<1>2. parse_change(change) = Without(ms \o ss, {None})
  BY DEF parse_change, Recognised, MessageEvents, StatusEvents
<1> HIDE DEF ms, ss
<1>3. Without(ms \o ss, {None}) = Without(ms, {None}) \o Without(ss, {None})
  BY <1>1, WithoutConcat
<1>4. Without(ms, {None}) \in Seq(Parsed) /\ Without(ss, {None}) \in Seq(Parsed)
  BY <1>1, WithoutSeq
<1>5. Without(ms, {None}) \o Without(ss, {None}) \in Seq(Parsed)
  BY <1>4, ConcatProperties
<1> QED
  BY <1>2, <1>3, <1>4, <1>5 DEF ms, ss, Recognised

ChangesParsed(changes) == [i \in DOMAIN changes |-> parse_change(changes[i])]

LEMMA ChangesParsedSeq ==
  ASSUME NEW changes \in Seq(Changes)
  PROVE  /\ ChangesParsed(changes) \in Seq(Seq(Parsed))
         /\ Len(ChangesParsed(changes)) = Len(changes)
<1> DEFINE ps == ChangesParsed(changes)
<1>1. DOMAIN changes = 1..Len(changes) /\ Len(changes) \in Nat
  OBVIOUS
<1>2. \A i \in 1..Len(changes) : parse_change(changes[i]) \in Seq(Parsed)
  BY ChangeParsed
<1>3. ps = [i \in 1..Len(changes) |-> parse_change(changes[i])]
  BY <1>1 DEF ChangesParsed
<1>4. ps \in Seq(Seq(Parsed))
  BY <1>1, <1>2, <1>3, IsASeq
<1>5. Len(ps) = Len(changes)
  <2> HIDE DEF ps
  <2>1. DOMAIN ps = 1..Len(changes)
    BY <1>3
  <2> QED
    BY <1>1, <1>4, <2>1, LenProperties
<1> QED
  BY <1>4, <1>5

(* Every name is that of the contact of the sender, in the same change. *)
LEMMA NamesAreOwn == payload \in Seq(Changes) => NameIsOwn
<1> SUFFICES ASSUME payload \in Seq(Changes),
                    NEW e \in ToSet(parse_webhook_payload),
                    "sender_name" \in DOMAIN e, e.sender_name # None
             PROVE  \E change \in ToSet(payload) :
                      /\ \E m \in ToSet(change.messages) : <<m.id>> = e.external_id
                      /\ [wa_id |-> e.sender, name |-> e.sender_name]
                         \in ToSet(change.contacts)
  BY DEF NameIsOwn
<1>1. e \in ToSet(events)
  <2>1. CASE events = <<>>
    <3>1. ToSet(<<Unknown>>) = {Unknown}
      BY DEF ToSet
    <3>2. e = Unknown
      BY <2>1, <3>1 DEF parse_webhook_payload
    <3> QED
      BY <3>2 DEF Unknown
  <2>2. CASE events # <<>>
    BY <2>2 DEF parse_webhook_payload
  <2> QED
    BY <2>1, <2>2
<1>2. PICK k \in DOMAIN payload : e \in ToSet(parse_change(payload[k]))
  <2> DEFINE ps == ChangesParsed(payload)
  <2>1. ps \in Seq(Seq(Parsed)) /\ events = FlattenSeq(ps)
    BY ChangesParsedSeq DEF events, ChangesParsed
  <2>2. DOMAIN ps = DOMAIN payload
        /\ \A i \in DOMAIN payload : ps[i] = parse_change(payload[i])
    BY DEF ChangesParsed
  <2> HIDE DEF ps
  <2>3. \E i \in DOMAIN ps : e \in ToSet(ps[i])
    BY <1>1, <2>1, FlattenElements
  <2> QED
    BY <2>2, <2>3
<1> DEFINE change == payload[k]
<1>3. change \in Changes /\ change \in ToSet(payload)
  BY <1>2 DEF ToSet
<1> HIDE DEF change
<1>4. /\ e \in ToSet(MessageEvents(change)) \/ e \in ToSet(StatusEvents(change))
      /\ e # None
  <2> DEFINE ms == MessageEvents(change)
             ss == StatusEvents(change)
  <2>1. ms \in Seq(Parsed) /\ ss \in Seq(Parsed)
    BY <1>3, ItemsParsed
  <2>2. e \in ToSet(Without(ms \o ss, {None}))
    BY <1>2 DEF parse_change, Recognised, MessageEvents, StatusEvents, change
  <2> HIDE DEF ms, ss
  <2>3. ms \o ss \in Seq(Parsed)
    BY <2>1, ConcatProperties
  <2>4. ToSet(Without(ms \o ss, {None})) = ToSet(ms \o ss) \ {None}
    BY <2>3, WithoutElements
  <2>5. ToSet(ms \o ss) = ToSet(ms) \union ToSet(ss)
    BY <2>1, ConcatElements
  <2> QED
    BY <2>2, <2>4, <2>5 DEF ms, ss
<1>5. e \notin ToSet(StatusEvents(change))
  <2> SUFFICES ASSUME e \in ToSet(StatusEvents(change)) PROVE FALSE
    OBVIOUS
  <2>1. PICK i \in DOMAIN change.statuses : e = parse_status(change.statuses[i])
    BY DEF ToSet, StatusEvents
  <2>2. change.statuses[i] \in Statuses
    BY <1>3, <2>1, ChangeTyped
  <2> QED
    BY <1>4, <2>1, <2>2, StatusParsed
<1>6. PICK i \in DOMAIN change.messages :
        e = parse_message(change.messages[i], change.contacts)
  BY <1>4, <1>5 DEF ToSet, MessageEvents
<1> DEFINE m == change.messages[i]
<1>7. m \in Messages /\ m \in ToSet(change.messages)
      /\ change.contacts \in Seq(Contacts)
  BY <1>3, <1>6, ChangeTyped DEF ToSet
<1> HIDE DEF m
<1>8. /\ e.external_id = <<m.id>> /\ e.sender = m.from /\ m.from \in Senders
      /\ e.sender_name = profile_name(change.contacts, m.from)
  BY <1>4, <1>6, <1>7, MessageParsed DEF m
<1>9. [wa_id |-> e.sender, name |-> e.sender_name] \in ToSet(change.contacts)
  <2> DEFINE name == profile_name(change.contacts, m.from)
  <2>1. name # None => [wa_id |-> m.from, name |-> name] \in ToSet(change.contacts)
    BY <1>7, <1>8, ProfileIsOwn
  <2> QED
    BY <1>8, <2>1
<1> QED
  BY <1>3, <1>7, <1>8, <1>9

(* The keys of a sequence of events. *)
KeysOf(es) == [i \in DOMAIN es |-> es[i].external_id]
AllKeys == {e.external_id : e \in Parsed}

LEMMA KeysOfSeq ==
  ASSUME NEW es \in Seq(Parsed)
  PROVE  /\ KeysOf(es) \in Seq(AllKeys)
         /\ Len(KeysOf(es)) = Len(es)
         /\ \A i \in 1..Len(es) : KeysOf(es)[i] = es[i].external_id
         /\ KeysOf(es) = <<>> <=> es = <<>>
<1> DEFINE ks == KeysOf(es)
<1>1. DOMAIN es = 1..Len(es) /\ Len(es) \in Nat
  OBVIOUS
<1>2. ks = [i \in 1..Len(es) |-> es[i].external_id]
  BY <1>1 DEF KeysOf
<1>3. \A i \in 1..Len(es) : es[i].external_id \in AllKeys
  BY DEF AllKeys
<1>4. ks \in Seq(AllKeys)
  <2> HIDE DEF ks
  <2> QED
    BY <1>1, <1>2, <1>3, IsASeq
<1>5. Len(ks) = Len(es)
  <2>1. DOMAIN ks = 1..Len(es)
    BY <1>2
  <2> HIDE DEF ks
  <2> QED
    BY <1>1, <1>4, <2>1, LenProperties
<1> HIDE DEF ks
<1>6. ks = <<>> <=> es = <<>>
  BY <1>4, <1>5, EmptySeq
<1> QED
  BY <1>2, <1>4, <1>5, <1>6 DEF ks

(* The identifiers of two pieces are those of the one, then those of the *)
(* other.                                                                *)
LEMMA KeysOfConcat ==
  ASSUME NEW s \in Seq(Parsed), NEW t \in Seq(Parsed)
  PROVE  KeysOf(s \o t) = KeysOf(s) \o KeysOf(t)
<1> DEFINE r == s \o t
           ks == KeysOf(s)
           kt == KeysOf(t)
           kr == KeysOf(r)
<1>1. /\ r \in Seq(Parsed) /\ Len(r) = Len(s) + Len(t)
      /\ \A i \in 1..Len(s) + Len(t) :
           r[i] = IF i <= Len(s) THEN s[i] ELSE t[i - Len(s)]
  BY ConcatProperties
<1>2. /\ ks \in Seq(AllKeys) /\ Len(ks) = Len(s)
      /\ \A i \in 1..Len(s) : ks[i] = s[i].external_id
  BY KeysOfSeq
<1>3. /\ kt \in Seq(AllKeys) /\ Len(kt) = Len(t)
      /\ \A i \in 1..Len(t) : kt[i] = t[i].external_id
  BY KeysOfSeq
<1> HIDE DEF r
<1>4. /\ kr \in Seq(AllKeys) /\ Len(kr) = Len(r)
      /\ \A i \in 1..Len(r) : kr[i] = r[i].external_id
  BY <1>1, KeysOfSeq
<1> HIDE DEF ks, kt, kr
<1>5. /\ ks \o kt \in Seq(AllKeys) /\ Len(ks \o kt) = Len(ks) + Len(kt)
      /\ \A i \in 1..Len(ks) + Len(kt) :
           (ks \o kt)[i] = IF i <= Len(ks) THEN ks[i] ELSE kt[i - Len(ks)]
  <2>1. ks \in Seq(AllKeys) /\ kt \in Seq(AllKeys)
    BY <1>2, <1>3
  <2> QED
    BY <2>1, ConcatProperties
<1> DEFINE m == Len(s)
           n == Len(t)
<1>6. m \in Nat /\ n \in Nat
  OBVIOUS
<1> HIDE DEF m, n
<1>7. ASSUME NEW i \in 1..m + n
      PROVE  kr[i] = (ks \o kt)[i]
  <2>1. CASE i <= m
    <3>1. i \in 1..m
      BY <1>6, <2>1
    <3> QED
      BY <1>1, <1>2, <1>3, <1>4, <1>5, <2>1, <3>1 DEF m, n
  <2>2. CASE ~(i <= m)
    <3>1. i - m \in 1..n
      BY <1>6, <2>2
    <3> QED
      BY <1>1, <1>2, <1>3, <1>4, <1>5, <2>2, <3>1 DEF m, n
  <2> QED
    BY <2>1, <2>2
<1>8. Len(kr) = m + n /\ Len(ks \o kt) = m + n
  BY <1>1, <1>2, <1>3, <1>4, <1>5 DEF m, n
<1>9. kr = ks \o kt
  <2> DEFINE kk == ks \o kt
  <2>1. /\ kr \in Seq(AllKeys) /\ kk \in Seq(AllKeys) /\ Len(kr) = Len(kk)
        /\ \A i \in 1..Len(kr) : kr[i] = kk[i]
    BY <1>4, <1>5, <1>7, <1>8
  <2> HIDE DEF kk
  <2> QED
    BY <2>1, SeqEqual DEF kk
<1> QED
  BY <1>9 DEF r, ks, kt, kr

(* t is s with one element more, somewhere, or none. *)
OneMore(s, t) ==
  \/ t = s
  \/ \E a \in Seq(AllKeys), b \in Seq(AllKeys), k \in AllKeys :
       s = a \o b /\ t = (a \o <<k>>) \o b

(* A sequence before both changes nothing to one more key between them. *)
LEMMA OneMoreBehind ==
  ASSUME NEW r \in Seq(AllKeys), NEW s, NEW t, OneMore(s, t)
  PROVE  OneMore(r \o s, r \o t)
<1>1. CASE t = s
  BY <1>1 DEF OneMore
<1>2. ASSUME NEW a \in Seq(AllKeys), NEW b \in Seq(AllKeys), NEW k \in AllKeys,
             s = a \o b, t = (a \o <<k>>) \o b
      PROVE  OneMore(r \o s, r \o t)
  <2> DEFINE one == <<k>>
             U == AllKeys
  <2>1. one \in Seq(U) /\ r \in Seq(U) /\ a \in Seq(U) /\ b \in Seq(U)
    OBVIOUS
  <2> HIDE DEF one, U
  <2>2. ASSUME NEW y \in Seq(U), NEW z \in Seq(U)
        PROVE  (r \o y) \o z = r \o (y \o z)
    BY <2>1, ConcatAssociative, SMTT(30)
  <2>3. a \o one \in Seq(U) /\ r \o a \in Seq(U)
    BY <2>1, ConcatProperties
  <2>4. (r \o a) \o b = r \o (a \o b)
    BY <2>1, <2>2
  <2>5. (r \o a) \o one = r \o (a \o one)
    BY <2>1, <2>2
  <2>6. (r \o (a \o one)) \o b = r \o ((a \o one) \o b)
    BY <2>1, <2>2, <2>3
  <2> QED
    BY <1>2, <2>3, <2>4, <2>5, <2>6 DEF OneMore, one, U
<1> QED
  BY <1>1, <1>2 DEF OneMore

(* What is one more can be removed. *)
LEMMA OneMoreRemoved ==
  ASSUME NEW s, NEW t, OneMore(s, t), t # s
  PROVE  t # <<>> /\ \E i \in DOMAIN t : RemoveAt(t, i) = s
<1> USE DEF OneMore
<1>1. PICK a \in Seq(AllKeys), b \in Seq(AllKeys), k \in AllKeys :
        s = a \o b /\ t = (a \o <<k>>) \o b
  OBVIOUS
<1> DEFINE U == AllKeys
           one == <<k>>
           front == a \o one
           m == Len(a)
           n == Len(b)
<1>2. one \in Seq(U) /\ Len(one) = 1 /\ a \in Seq(U) /\ b \in Seq(U)
  BY <1>1
<1>3. m \in Nat /\ n \in Nat
  BY <1>1
<1> HIDE DEF U, one
<1>4. /\ front \in Seq(U) /\ Len(front) = m + 1
      /\ \A i \in 1..m : front[i] = a[i]
  <2>1. /\ front \in Seq(U) /\ Len(front) = Len(a) + Len(one)
        /\ \A i \in 1..Len(a) + Len(one) :
             front[i] = IF i <= Len(a) THEN a[i] ELSE one[i - Len(a)]
    BY <1>2, ConcatProperties
  <2> HIDE DEF front
  <2>2. \A i \in 1..m : i \in 1..m + 1 /\ i <= m
    BY <1>3
  <2> QED
    BY <1>2, <2>1, <2>2
<1> HIDE DEF front
<1>5. /\ t = front \o b /\ t \in Seq(U) /\ Len(t) = Len(front) + Len(b)
      /\ \A i \in 1..Len(front) + Len(b) :
           t[i] = IF i <= Len(front) THEN front[i] ELSE b[i - Len(front)]
  <2>1. t = front \o b
    BY <1>1 DEF front, one
  <2>2. /\ front \o b \in Seq(U) /\ Len(front \o b) = Len(front) + Len(b)
        /\ \A i \in 1..Len(front) + Len(b) :
             (front \o b)[i] = IF i <= Len(front) THEN front[i] ELSE b[i - Len(front)]
    BY <1>2, <1>4, ConcatProperties
  <2> QED
    BY <2>1, <2>2
<1> HIDE DEF m, n
<1>6. Len(t) = m + 1 + n /\ DOMAIN t = 1..(m + 1 + n) /\ m + 1 \in DOMAIN t
  <2>1. Len(t) = m + 1 + n
    BY <1>3, <1>4, <1>5 DEF m, n
  <2> QED
    BY <1>3, <1>5, <2>1, LenProperties
<1>7. SubSeq(t, 1, m) = a
  <2>1. \A i \in 1..m : i \in 1..m + 1 + n /\ i <= m + 1
    BY <1>3
  <2>a. \A i \in 1..m : i \in 1..Len(front) + Len(b) /\ i <= Len(front)
    BY <1>4, <2>1 DEF n
  <2>2. \A i \in 1..m : t[i] = a[i]
    BY <1>4, <1>5, <2>a
  <2>3. SubSeq(t, 1, m) \in Seq(U) /\ Len(SubSeq(t, 1, m)) = m
        /\ \A i \in 1..m : SubSeq(t, 1, m)[i] = t[i]
    BY <1>3, <1>5, <1>6
  <2> QED
    BY <1>2, <2>2, <2>3, SeqEqual DEF m
<1>8. SubSeq(t, m + 2, m + 1 + n) = b
  <2>1. \A i \in 1..n : m + 1 + i \in 1..m + 1 + n /\ ~(m + 1 + i <= m + 1)
                        /\ (m + 1 + i) - (m + 1) = i
    BY <1>3
  <2>2. \A i \in 1..n : t[m + 1 + i] = b[i]
    <3>1. \A i \in 1..n : /\ m + 1 + i \in 1..Len(front) + Len(b)
                         /\ ~(m + 1 + i <= Len(front))
                         /\ (m + 1 + i) - Len(front) = i
      BY <1>4, <2>1 DEF n
    <3> QED
      BY <1>5, <3>1
  <2>3. \A i \in m + 2..m + 1 + n : t[i] \in U
    <3>1. \A i \in m + 2..m + 1 + n : i \in 1..m + 1 + n
      BY <1>3
    <3> QED
      BY <1>5, <1>6, <3>1
  <2> DEFINE rest == SubSeq(t, m + 2, m + 1 + n)
  <2>4. /\ rest \in Seq(U) /\ Len(rest) = n
        /\ \A i \in 1..n : rest[i] = t[m + 1 + i]
    <3>1. /\ m + 2 \in Int /\ m + 1 + n \in Int
          /\ (m + 1 + n) - (m + 2) + 1 = n
          /\ (m + 2 <= m + 1 + n) <=> n # 0
          /\ \A i \in 1..n : m + 2 + i - 1 = m + 1 + i
      BY <1>3
    <3>2. /\ rest \in Seq(U)
          /\ m + 2 <= m + 1 + n => Len(rest) = (m + 1 + n) - (m + 2) + 1
          /\ ~(m + 2 <= m + 1 + n) => Len(rest) = 0
          /\ \A i \in 1..(m + 1 + n) - (m + 2) + 1 : rest[i] = t[m + 2 + i - 1]
      BY <2>3, <3>1, SubSeqProperties, SMTT(30)
    <3> HIDE DEF rest
    <3> QED
      BY <1>3, <3>1, <3>2
  <2> HIDE DEF rest
  <2>5. Len(rest) = Len(b) /\ \A i \in 1..Len(rest) : rest[i] = b[i]
    BY <2>2, <2>4 DEF n
  <2> QED
    BY <1>2, <2>4, <2>5, SeqEqual DEF rest
<1>9. RemoveAt(t, m + 1) = s
  <2>1. (m + 1) - 1 = m /\ (m + 1) + 1 = m + 2
    BY <1>3
  <2> QED
    BY <1>1, <1>6, <1>7, <1>8, <2>1 DEF RemoveAt
<1>10. t # <<>>
  BY <1>3, <1>6, EmptySeq
<1> QED
  BY <1>6, <1>9, <1>10

(* The events of a payload, change by change. *)
EventsOf(changes) == FlattenSeq(ChangesParsed(changes))

(* A change more has its events after those of the others. *)
LEMMA EventsAppend ==
  ASSUME NEW changes \in Seq(Changes), NEW change \in Changes
  PROVE  /\ EventsOf(changes) \in Seq(Parsed)
         /\ parse_change(change) \in Seq(Parsed)
         /\ EventsOf(Append(changes, change)) = EventsOf(changes) \o parse_change(change)
<1> DEFINE more == Append(changes, change)
           ps == ChangesParsed(changes)
           qs == ChangesParsed(more)
           p == parse_change(change)
<1>1. /\ more \in Seq(Changes) /\ Len(more) = Len(changes) + 1
      /\ more[Len(changes) + 1] = change
      /\ \A i \in 1..Len(changes) : more[i] = changes[i]
  BY AppendProperties
<1>2. /\ ps \in Seq(Seq(Parsed)) /\ Len(ps) = Len(changes)
      /\ \A i \in 1..Len(changes) : ps[i] = parse_change(changes[i])
  BY ChangesParsedSeq DEF ChangesParsed
<1>3. p \in Seq(Parsed)
  BY ChangeParsed
<1> HIDE DEF more, p
<1>4. /\ qs \in Seq(Seq(Parsed)) /\ Len(qs) = Len(more)
      /\ \A i \in 1..Len(more) : qs[i] = parse_change(more[i])
  <2>1. qs \in Seq(Seq(Parsed)) /\ Len(qs) = Len(more)
    BY <1>1, ChangesParsedSeq
  <2>2. DOMAIN more = 1..Len(more)
    BY <1>1
  <2> QED
    BY <2>1, <2>2 DEF ChangesParsed
<1> HIDE DEF ps, qs
<1>5. qs = Append(ps, p)
  <2> DEFINE V == Seq(Parsed)
             rs == Append(ps, p)
             n == Len(changes)
  <2>1. n \in Nat
    OBVIOUS
  <2>2. ps \in Seq(V) /\ p \in V /\ qs \in Seq(V) /\ Len(ps) = n /\ Len(qs) = n + 1
    BY <1>1, <1>2, <1>3, <1>4
  <2> HIDE DEF V, n
  <2>3. /\ rs \in Seq(V) /\ Len(rs) = Len(ps) + 1
        /\ \A i \in 1..Len(ps) : rs[i] = ps[i]
        /\ rs[Len(ps) + 1] = p
    BY <2>2, AppendProperties
  <2> HIDE DEF rs
  <2>4. ASSUME NEW i \in 1..n + 1
        PROVE  qs[i] = rs[i]
    <3>1. CASE i = n + 1
      BY <1>1, <1>4, <2>2, <2>3, <3>1 DEF n, p
    <3>2. CASE i # n + 1
      <4>1. i \in 1..n
        BY <2>1, <3>2
      <4> QED
        BY <1>1, <1>2, <1>4, <2>2, <2>3, <4>1 DEF n
    <3> QED
      BY <3>1, <3>2
  <2>5. qs = rs
    <3>1. Len(qs) = Len(rs) /\ \A i \in 1..Len(qs) : qs[i] = rs[i]
      BY <2>2, <2>3, <2>4
    <3> QED
      BY <2>2, <2>3, <3>1, SeqEqual
  <2> QED
    BY <2>5 DEF rs
<1>6. FlattenSeq(ps) \in Seq(Parsed) /\ FlattenSeq(Append(ps, p)) = FlattenSeq(ps) \o p
  <2> DEFINE U == Parsed
  <2>1. ps \in Seq(Seq(U)) /\ p \in Seq(U)
    BY <1>2, <1>3
  <2> HIDE DEF U
  <2>2. FlattenSeq(ps) \in Seq(U) /\ FlattenSeq(Append(ps, p)) = FlattenSeq(ps) \o p
    BY <2>1, FlattenAppend
  <2> QED
    BY <2>2 DEF U
<1> QED
  BY <1>3, <1>5, <1>6 DEF EventsOf, ps, qs, more, p

(* Sequences parsed alike, None in the same places, have the same keys. *)
LEMMA SameKeys ==
  ASSUME NEW p \in Seq(Parsed), NEW q \in Seq(Parsed), Len(p) = Len(q),
         \A i \in 1..Len(p) : /\ p[i] = None <=> q[i] = None
                              /\ p[i] # None => p[i].external_id = q[i].external_id
  PROVE  KeysOf(Recognised(p)) = KeysOf(Recognised(q))
<1> DEFINE m == Len(p)
<1>1. m \in Nat
  OBVIOUS
<1>2. PICK f \in [0..Len(p) -> Seq(Parsed)] : KeptFrom(f, p, {None})
  BY WithoutByRecursion
<1>3. PICK g \in [0..Len(q) -> Seq(Parsed)] : KeptFrom(g, q, {None})
  BY WithoutByRecursion
<1> HIDE DEF m
<1>4. /\ f[0] = <<>> /\ g[0] = <<>>
      /\ \A n \in 1..m :
           /\ f[n] = IF p[n] = None THEN f[n - 1] ELSE Append(f[n - 1], p[n])
           /\ g[n] = IF q[n] = None THEN g[n - 1] ELSE Append(g[n - 1], q[n])
      /\ Recognised(p) = f[m] /\ Recognised(q) = g[m]
      /\ \A n \in 0..m : f[n] \in Seq(Parsed) /\ g[n] \in Seq(Parsed)
  BY <1>2, <1>3 DEF KeptFrom, Recognised, m
<1> DEFINE Same == {n \in 0..m : KeysOf(f[n]) = KeysOf(g[n])}
<1>5. 0 \in Same
  BY <1>1, <1>4
<1>6. ASSUME NEW n \in 1..m, n - 1 \in Same
      PROVE  n \in Same
  <2>1. /\ n \in 0..m /\ KeysOf(f[n - 1]) = KeysOf(g[n - 1])
        /\ f[n - 1] \in Seq(Parsed) /\ g[n - 1] \in Seq(Parsed)
    BY <1>1, <1>4, <1>6
  <2>2. p[n] \in Parsed /\ q[n] \in Parsed
    BY DEF m
  <2>3. CASE p[n] = None
    <3>1. f[n] = f[n - 1] /\ g[n] = g[n - 1]
      BY <1>4, <2>3 DEF m
    <3> QED
      BY <2>1, <3>1
  <2>4. CASE p[n] # None
    <3>1. /\ f[n] = Append(f[n - 1], p[n]) /\ g[n] = Append(g[n - 1], q[n])
          /\ p[n].external_id = q[n].external_id
      BY <1>4, <2>4 DEF m
    <3>2. /\ KeysOf(f[n]) = KeysOf(f[n - 1]) \o KeysOf(<<p[n]>>)
          /\ KeysOf(g[n]) = KeysOf(g[n - 1]) \o KeysOf(<<q[n]>>)
      <4> DEFINE r == f[n - 1]
                 s == g[n - 1]
                 x == p[n]
                 y == q[n]
      <4>1. r \in Seq(Parsed) /\ s \in Seq(Parsed) /\ x \in Parsed /\ y \in Parsed
        BY <2>1, <2>2
      <4> HIDE DEF r, s, x, y
      <4>2. Append(r, x) = r \o <<x>> /\ Append(s, y) = s \o <<y>>
        BY <4>1, AppendIsConcat
      <4>3. <<x>> \in Seq(Parsed) /\ <<y>> \in Seq(Parsed)
        BY <4>1
      <4>4. KeysOf(r \o <<x>>) = KeysOf(r) \o KeysOf(<<x>>)
            /\ KeysOf(s \o <<y>>) = KeysOf(s) \o KeysOf(<<y>>)
        <5> DEFINE xs == <<x>>
                   ys == <<y>>
        <5>1. xs \in Seq(Parsed) /\ ys \in Seq(Parsed)
          BY <4>3
        <5> HIDE DEF xs, ys
        <5>2. KeysOf(r \o xs) = KeysOf(r) \o KeysOf(xs)
              /\ KeysOf(s \o ys) = KeysOf(s) \o KeysOf(ys)
          BY <4>1, <5>1, KeysOfConcat
        <5> QED
          BY <5>2 DEF xs, ys
      <4> QED
        BY <3>1, <4>2, <4>4 DEF r, s, x, y
    <3>3. KeysOf(<<p[n]>>) = KeysOf(<<q[n]>>)
      BY <3>1 DEF KeysOf
    <3> QED
      BY <2>1, <3>2, <3>3
  <2> QED
    BY <2>3, <2>4
<1>7. \A n \in 0..m : n \in Same
  <2> HIDE DEF Same
  <2> QED
    BY <1>1, <1>5, <1>6, IntervalInduction
<1> QED
  BY <1>1, <1>4, <1>7

(* One item more is one key more, or none. *)
LEMMA OneMoreItem ==
  ASSUME NEW p \in Seq(Parsed), NEW e \in Parsed
  PROVE  /\ Recognised(Append(p, e)) \in Seq(Parsed)
         /\ \/ Recognised(Append(p, e)) = Recognised(p)
            \/ /\ Recognised(Append(p, e)) = Recognised(p) \o <<e>>
               /\ KeysOf(Recognised(Append(p, e))) =
                    KeysOf(Recognised(p)) \o <<e.external_id>>
<1>1. /\ Recognised(p) \in Seq(Parsed)
      /\ e = None => Recognised(Append(p, e)) = Recognised(p)
      /\ e # None => Recognised(Append(p, e)) = Append(Recognised(p), e)
  <2> DEFINE U == Parsed
             T == {None}
  <2>1. p \in Seq(U) /\ e \in U
    OBVIOUS
  <2> HIDE DEF U, T
  <2>2. /\ Without(p, T) \in Seq(U)
        /\ e \in T => Without(Append(p, e), T) = Without(p, T)
        /\ e \notin T => Without(Append(p, e), T) = Append(Without(p, T), e)
    BY <2>1, WithoutAppend
  <2> QED
    BY <2>2 DEF U, T, Recognised
<1> DEFINE r == Recognised(p)
<1> HIDE DEF r
<1>2. /\ r \in Seq(Parsed) /\ Append(r, e) \in Seq(Parsed)
      /\ Append(r, e) = r \o <<e>>
  BY <1>1, AppendIsConcat DEF r
<1>3. KeysOf(r \o <<e>>) = KeysOf(r) \o <<e.external_id>>
  <2> DEFINE es == <<e>>
  <2>1. es \in Seq(Parsed)
    OBVIOUS
  <2>2. KeysOf(es) = <<e.external_id>>
    BY DEF KeysOf
  <2> HIDE DEF es
  <2>3. KeysOf(r \o es) = KeysOf(r) \o KeysOf(es)
    BY <1>2, <2>1, KeysOfConcat
  <2> QED
    BY <2>2, <2>3 DEF es
<1> QED
  BY <1>1, <1>2, <1>3 DEF r

LEMMA KeysOfChange ==
  ASSUME NEW change \in Changes
  PROVE  KeysOf(parse_change(change)) =
           KeysOf(Recognised(MessageEvents(change)))
             \o KeysOf(Recognised(StatusEvents(change)))
<1> DEFINE ms == Recognised(MessageEvents(change))
           ss == Recognised(StatusEvents(change))
<1>1. ms \in Seq(Parsed) /\ ss \in Seq(Parsed) /\ parse_change(change) = ms \o ss
  BY ChangeParsed
<1> HIDE DEF ms, ss
<1>2. KeysOf(ms \o ss) = KeysOf(ms) \o KeysOf(ss)
  BY <1>1, KeysOfConcat
<1> QED
  BY <1>1, <1>2 DEF ms, ss

(* A contact names the sender of other events: no key changes. *)
LEMMA ContactAdded ==
  ASSUME NEW change \in Changes, NEW c \in Contacts
  PROVE  LET more == [change EXCEPT !.contacts = Append(@, c)]
         IN /\ more \in Changes
            /\ OneMore(KeysOf(parse_change(change)), KeysOf(parse_change(more)))
<1> DEFINE more == [change EXCEPT !.contacts = Append(@, c)]
<1>1. /\ more.contacts = Append(change.contacts, c)
      /\ more.messages = change.messages /\ more.statuses = change.statuses
      /\ more \in Changes
  <2>1. Append(change.contacts, c) \in Seq(Contacts)
    BY ChangeTyped
  <2> QED
    BY <2>1 DEF Changes
<1> HIDE DEF more
<1> DEFINE p == MessageEvents(change)
           q == MessageEvents(more)
           ms == change.messages
<1>2. p \in Seq(Parsed) /\ q \in Seq(Parsed)
  BY <1>1, ItemsParsed
<1>3. /\ DOMAIN ms = 1..Len(ms) /\ Len(ms) \in Nat
      /\ DOMAIN p = DOMAIN ms /\ DOMAIN q = DOMAIN ms
      /\ \A i \in DOMAIN ms : /\ p[i] = parse_message(ms[i], change.contacts)
                              /\ q[i] = parse_message(ms[i], more.contacts)
  BY <1>1, ChangeTyped DEF MessageEvents
<1>4. ASSUME NEW i \in DOMAIN ms
      PROVE  /\ p[i] = None <=> q[i] = None
             /\ p[i] # None => p[i].external_id = q[i].external_id
  <2>1. /\ ms[i] \in Messages /\ change.contacts \in Seq(Contacts)
        /\ more.contacts \in Seq(Contacts)
    BY <1>1, ChangeTyped
  <2> DEFINE m == ms[i]
             old == change.contacts
             new == more.contacts
             e == parse_message(m, old)
             f == parse_message(m, new)
  <2>2. p[i] = e /\ q[i] = f
    BY <1>3
  <2> HIDE DEF m, old, new, p, q
  <2>3. /\ e = None <=> None \in {m.id, m.from}
        /\ e # None => e.external_id = <<m.id>>
    BY <2>1, MessageParsed DEF m, old
  <2>4. /\ f = None <=> None \in {m.id, m.from}
        /\ f # None => f.external_id = <<m.id>>
    BY <2>1, MessageParsed DEF m, new
  <2> QED
    BY <2>2, <2>3, <2>4
<1>5. Len(p) = Len(ms) /\ Len(q) = Len(ms)
  <2> HIDE DEF p, q, ms
  <2> QED
    BY <1>2, <1>3, LenProperties
<1>6. KeysOf(Recognised(p)) = KeysOf(Recognised(q))
  <2>1. \A i \in 1..Len(p) : /\ p[i] = None <=> q[i] = None
                             /\ p[i] # None => p[i].external_id = q[i].external_id
    BY <1>3, <1>4, <1>5
  <2> HIDE DEF p, q
  <2> QED
    BY <1>2, <1>5, <2>1, SameKeys
<1>7. StatusEvents(more) = StatusEvents(change)
  BY <1>1 DEF StatusEvents
<1>8. KeysOf(parse_change(more)) = KeysOf(parse_change(change))
  BY <1>1, <1>6, <1>7, KeysOfChange
<1> QED
  BY <1>1, <1>8 DEF OneMore, more

(* A message more in a change adds one key to its events, or none, and the *)
(* others keep their order.                                                *)
LEMMA MessageAdded ==
  ASSUME NEW change \in Changes, NEW m \in Messages
  PROVE  LET more == [change EXCEPT !.messages = Append(@, m)]
         IN /\ more \in Changes
            /\ OneMore(KeysOf(parse_change(change)), KeysOf(parse_change(more)))
<1> DEFINE more == [change EXCEPT !.messages = Append(@, m)]
           e == parse_message(m, change.contacts)
           p == MessageEvents(change)
           ss == StatusEvents(change)
<1>1. /\ more.messages = Append(change.messages, m)
      /\ more.contacts = change.contacts /\ more.statuses = change.statuses
      /\ more \in Changes
  <2>1. Append(change.messages, m) \in Seq(Messages)
    BY ChangeTyped
  <2> QED
    BY <2>1 DEF Changes
<1>2. e \in Parsed /\ p \in Seq(Parsed) /\ ss \in Seq(Parsed)
  BY ChangeTyped, MessageParsed, ItemsParsed
<1> HIDE DEF more
<1>3. MessageEvents(more) = Append(p, e)
  <2> DEFINE q == MessageEvents(more)
             ms == change.messages
             n == Len(ms)
  <2>1. /\ DOMAIN ms = 1..n /\ n \in Nat
        /\ DOMAIN more.messages = 1..n + 1
        /\ \A i \in 1..n : more.messages[i] = ms[i]
        /\ more.messages[n + 1] = m
    BY <1>1, ChangeTyped
  <2>2. /\ DOMAIN p = 1..n /\ DOMAIN q = 1..n + 1
        /\ \A i \in 1..n : p[i] = parse_message(ms[i], change.contacts)
        /\ \A i \in 1..n + 1 :
             q[i] = parse_message(more.messages[i], more.contacts)
    BY <2>1 DEF MessageEvents
  <2>3. q \in Seq(Parsed)
    BY <1>1, ItemsParsed
  <2> HIDE DEF n, q, p, ms
  <2>4. Len(p) = n /\ Len(q) = n + 1
    BY <1>2, <2>1, <2>2, <2>3, LenProperties
  <2>5. \A i \in 1..n : q[i] = p[i]
    <3>1. \A i \in 1..n : i \in 1..n + 1
      BY <2>1
    <3> QED
      BY <1>1, <2>1, <2>2, <3>1
  <2>6. q[n + 1] = e
    <3>1. n + 1 \in 1..n + 1
      BY <2>1
    <3> QED
      BY <1>1, <2>1, <2>2, <3>1
  <2>7. q = Append(p, e)
    <3> HIDE DEF e
    <3>1. /\ Append(p, e) \in Seq(Parsed) /\ Len(Append(p, e)) = n + 1
          /\ \A i \in 1..n : Append(p, e)[i] = p[i]
          /\ Append(p, e)[n + 1] = e
      BY <1>2, <2>4, AppendProperties
    <3>2. \A i \in 1..n + 1 : q[i] = Append(p, e)[i]
      <4>1. \A i \in 1..n + 1 : i \in 1..n \/ i = n + 1
        BY <2>1
      <4> QED
        BY <2>5, <2>6, <3>1, <4>1
    <3> QED
      BY <2>3, <2>4, <3>1, <3>2, SeqEqual
  <2> QED
    BY <2>7 DEF q
<1>4. StatusEvents(more) = ss
  BY <1>1 DEF StatusEvents
<1>5. /\ KeysOf(parse_change(change)) = KeysOf(Recognised(p)) \o KeysOf(Recognised(ss))
      /\ KeysOf(parse_change(more)) =
           KeysOf(Recognised(Append(p, e))) \o KeysOf(Recognised(ss))
  <2>1. KeysOf(parse_change(more)) =
          KeysOf(Recognised(MessageEvents(more))) \o KeysOf(Recognised(StatusEvents(more)))
    BY <1>1, KeysOfChange
  <2> QED
    BY <1>3, <1>4, <2>1, KeysOfChange
<1>6. /\ KeysOf(Recognised(p)) \in Seq(AllKeys)
      /\ KeysOf(Recognised(ss)) \in Seq(AllKeys) /\ e.external_id \in AllKeys
  BY <1>2, ChangeParsed, KeysOfSeq DEF AllKeys
<1> HIDE DEF p, e, ss
<1>7. \/ Recognised(Append(p, e)) = Recognised(p)
      \/ KeysOf(Recognised(Append(p, e))) =
           KeysOf(Recognised(p)) \o <<e.external_id>>
  BY <1>2, OneMoreItem
<1>8. OneMore(KeysOf(parse_change(change)), KeysOf(parse_change(more)))
  <2>1. CASE Recognised(Append(p, e)) = Recognised(p)
    BY <1>5, <2>1 DEF OneMore
  <2>2. CASE KeysOf(Recognised(Append(p, e))) =
               KeysOf(Recognised(p)) \o <<e.external_id>>
    BY <1>5, <1>6, <2>2 DEF OneMore
  <2> QED
    BY <1>7, <2>1, <2>2
<1> QED
  BY <1>1, <1>8 DEF more

(* So does a status more. *)
LEMMA StatusAdded ==
  ASSUME NEW change \in Changes, NEW s \in Statuses
  PROVE  LET more == [change EXCEPT !.statuses = Append(@, s)]
         IN /\ more \in Changes
            /\ OneMore(KeysOf(parse_change(change)), KeysOf(parse_change(more)))
<1> DEFINE more == [change EXCEPT !.statuses = Append(@, s)]
           e == parse_status(s)
           ms == MessageEvents(change)
           p == StatusEvents(change)
<1>1. /\ more.statuses = Append(change.statuses, s)
      /\ more.contacts = change.contacts /\ more.messages = change.messages
      /\ more \in Changes
  <2>1. Append(change.statuses, s) \in Seq(Statuses)
    BY ChangeTyped
  <2> QED
    BY <2>1 DEF Changes
<1>2. e \in Parsed /\ p \in Seq(Parsed) /\ ms \in Seq(Parsed)
  BY StatusParsed, ItemsParsed
<1> HIDE DEF more
<1>3. StatusEvents(more) = Append(p, e)
  <2> DEFINE q == StatusEvents(more)
             old == change.statuses
             n == Len(old)
  <2>1. /\ DOMAIN old = 1..n /\ n \in Nat
        /\ DOMAIN more.statuses = 1..n + 1
        /\ \A i \in 1..n : more.statuses[i] = old[i]
        /\ more.statuses[n + 1] = s
    BY <1>1, ChangeTyped
  <2>2. /\ DOMAIN p = 1..n /\ DOMAIN q = 1..n + 1
        /\ \A i \in 1..n : p[i] = parse_status(old[i])
        /\ \A i \in 1..n + 1 : q[i] = parse_status(more.statuses[i])
    BY <2>1 DEF StatusEvents
  <2>3. q \in Seq(Parsed)
    BY <1>1, ItemsParsed
  <2> HIDE DEF n, q, p, old
  <2>4. Len(p) = n /\ Len(q) = n + 1
    BY <1>2, <2>1, <2>2, <2>3, LenProperties
  <2>5. \A i \in 1..n : q[i] = p[i]
    <3>1. \A i \in 1..n : i \in 1..n + 1
      BY <2>1
    <3> QED
      BY <2>1, <2>2, <3>1
  <2>6. q[n + 1] = e
    <3>1. n + 1 \in 1..n + 1
      BY <2>1
    <3> QED
      BY <2>1, <2>2, <3>1
  <2>7. q = Append(p, e)
    <3> HIDE DEF e
    <3>1. /\ Append(p, e) \in Seq(Parsed) /\ Len(Append(p, e)) = n + 1
          /\ \A i \in 1..n : Append(p, e)[i] = p[i]
          /\ Append(p, e)[n + 1] = e
      BY <1>2, <2>4, AppendProperties
    <3>2. \A i \in 1..n + 1 : q[i] = Append(p, e)[i]
      <4>1. \A i \in 1..n + 1 : i \in 1..n \/ i = n + 1
        BY <2>1
      <4> QED
        BY <2>5, <2>6, <3>1, <4>1
    <3> QED
      BY <2>3, <2>4, <3>1, <3>2, SeqEqual
  <2> QED
    BY <2>7 DEF q
<1>4. MessageEvents(more) = ms
  BY <1>1 DEF MessageEvents
<1>5. /\ KeysOf(parse_change(change)) = KeysOf(Recognised(ms)) \o KeysOf(Recognised(p))
      /\ KeysOf(parse_change(more)) =
           KeysOf(Recognised(ms)) \o KeysOf(Recognised(Append(p, e)))
  <2>1. KeysOf(parse_change(more)) =
          KeysOf(Recognised(MessageEvents(more))) \o KeysOf(Recognised(StatusEvents(more)))
    BY <1>1, KeysOfChange
  <2> QED
    BY <1>3, <1>4, <2>1, KeysOfChange
<1>6. /\ KeysOf(Recognised(ms)) \in Seq(AllKeys)
      /\ KeysOf(Recognised(p)) \in Seq(AllKeys) /\ e.external_id \in AllKeys
  BY <1>2, ChangeParsed, KeysOfSeq DEF AllKeys
<1> HIDE DEF p, e, ms
<1>7. \/ Recognised(Append(p, e)) = Recognised(p)
      \/ KeysOf(Recognised(Append(p, e))) =
           KeysOf(Recognised(p)) \o <<e.external_id>>
  BY <1>2, OneMoreItem
<1>8. OneMore(KeysOf(parse_change(change)), KeysOf(parse_change(more)))
  <2>1. CASE Recognised(Append(p, e)) = Recognised(p)
    BY <1>5, <2>1 DEF OneMore
  <2>2. CASE KeysOf(Recognised(Append(p, e))) =
               KeysOf(Recognised(p)) \o <<e.external_id>>
    <3> DEFINE r == KeysOf(Recognised(ms))
               b == KeysOf(Recognised(p))
               k == e.external_id
    <3>1. r \in Seq(AllKeys) /\ b \in Seq(AllKeys) /\ k \in AllKeys
      BY <1>6
    <3> HIDE DEF r, b, k
    <3>2. OneMore(b, b \o <<k>>)
      <4>1. <<>> \in Seq(AllKeys) /\ b = b \o <<>>
        BY <3>1, EmptySeq, ConcatEmptySeq
      <4>2. <<k>> \in Seq(AllKeys)
        BY <3>1
      <4>3. (b \o <<k>>) \o <<>> = b \o <<k>>
        <5> DEFINE one == <<k>>
        <5>1. one \in Seq(AllKeys)
          BY <4>2
        <5> HIDE DEF one
        <5>2. b \o one \in Seq(AllKeys)
          BY <3>1, <5>1, ConcatProperties
        <5>3. (b \o one) \o <<>> = b \o one
          BY <5>2, ConcatEmptySeq
        <5> QED
          BY <5>3 DEF one
      <4> QED
        BY <3>1, <4>1, <4>3 DEF OneMore
    <3>3. OneMore(r \o b, r \o (b \o <<k>>))
      BY <3>1, <3>2, OneMoreBehind
    <3> QED
      BY <1>5, <2>2, <3>3 DEF r, b, k
  <2> QED
    BY <1>7, <2>1, <2>2
<1> QED
  BY <1>1, <1>8 DEF more

LEMMA PayloadStepTyped ==
  ASSUME payload \in Seq(Changes), PayloadNext
  PROVE  /\ payload' \in Seq(Changes)
         /\ OneMore(KeysOf(events), KeysOf(events'))
<1> DEFINE empty == [contacts |-> <<>>, messages |-> <<>>, statuses |-> <<>>]
<1>1. events = EventsOf(payload) /\ events' = EventsOf(payload')
  BY DEF events, EventsOf, ChangesParsed
<1>2. CASE AddChange
  <2>1. empty \in Changes /\ payload' = Append(payload, empty)
    BY <1>2, EmptySeq DEF AddChange, Changes
  <2>2. parse_change(empty) = <<>>
    <3>1. MessageEvents(empty) = <<>> /\ StatusEvents(empty) = <<>>
      BY DEF MessageEvents, StatusEvents
    <3>2. Recognised(<<>>) = <<>>
      BY WithoutEmpty DEF Recognised
    <3>3. parse_change(empty) = <<>> \o <<>>
      <4> HIDE DEF empty
      <4> QED
        BY <2>1, <3>1, <3>2, ChangeParsed
    <3> QED
      BY <3>3, EmptySeq, ConcatEmptySeq
  <2> HIDE DEF empty
  <2>3. /\ payload' \in Seq(Changes)
        /\ EventsOf(payload) \in Seq(Parsed)
        /\ EventsOf(payload') = EventsOf(payload) \o <<>>
    BY <2>1, <2>2, EventsAppend, AppendProperties
  <2>4. EventsOf(payload') = EventsOf(payload)
    BY <2>3, ConcatEmptySeq
  <2> QED
    BY <1>1, <2>3, <2>4 DEF OneMore
<1>3. CASE AddItem
  <2> DEFINE n == Len(payload)
             last == payload[n]
  <2>1. PICK front \in Seq(Changes), last0 \in Changes : payload = Append(front, last0)
    BY <1>3, SequenceEmptyOrAppend DEF AddItem
  <2>2. /\ n = Len(front) + 1 /\ Len(front) \in Nat /\ last = last0
        /\ DOMAIN payload = 1..n
        /\ \A i \in 1..Len(front) : payload[i] = front[i]
    BY <2>1, AppendProperties, LenProperties
  <2>3. last \in Changes
    BY <2>1, <2>2
  <2>4. ASSUME NEW more \in Changes, payload' = [payload EXCEPT ![n] = more],
               OneMore(KeysOf(parse_change(last)), KeysOf(parse_change(more)))
        PROVE  /\ payload' \in Seq(Changes)
               /\ OneMore(KeysOf(events), KeysOf(events'))
    <3>1. payload' = Append(front, more)
      <4> DEFINE k == Len(front)
                 after == Append(front, more)
      <4>1. /\ after \in Seq(Changes) /\ Len(after) = k + 1
            /\ \A i \in 1..k : after[i] = front[i]
            /\ after[k + 1] = more
        BY <2>1, AppendProperties
      <4>2. /\ payload' \in Seq(Changes) /\ Len(payload') = k + 1
            /\ payload'[k + 1] = more
            /\ \A i \in 1..k : payload'[i] = payload[i]
        <5>1. n \in 1..Len(payload) /\ n = k + 1 /\ k \in Nat
          BY <2>2
        <5> HIDE DEF n, k
        <5>2. payload' \in Seq(Changes) /\ Len(payload') = Len(payload)
              /\ \A i \in 1..Len(payload) :
                   payload'[i] = IF i = n THEN more ELSE payload[i]
          BY <2>4, <5>1, ExceptSeq
        <5>3. Len(payload) = n /\ \A i \in 1..k : i \in 1..n /\ i # n
          BY <5>1 DEF n
        <5> QED
          BY <5>1, <5>2, <5>3
      <4> HIDE DEF after
      <4>3. \A i \in 1..k + 1 : i \in 1..k \/ i = k + 1
        BY <2>2
      <4>4. \A i \in 1..k + 1 : payload'[i] = after[i]
        BY <2>2, <4>1, <4>2, <4>3
      <4> HIDE DEF k
      <4>5. payload' = after
        BY <4>1, <4>2, <4>4, SeqEqual
      <4> QED
        BY <4>5 DEF after
    <3> DEFINE before == EventsOf(front)
               old == parse_change(last)
               new == parse_change(more)
    <3>2. /\ before \in Seq(Parsed) /\ old \in Seq(Parsed) /\ new \in Seq(Parsed)
          /\ EventsOf(payload) = before \o old
          /\ EventsOf(payload') = before \o new
      BY <2>1, <2>2, <2>4, <3>1, EventsAppend
    <3> HIDE DEF before, old, new
    <3>3. /\ KeysOf(before \o old) = KeysOf(before) \o KeysOf(old)
          /\ KeysOf(before \o new) = KeysOf(before) \o KeysOf(new)
          /\ KeysOf(before) \in Seq(AllKeys)
      BY <3>2, KeysOfConcat, KeysOfSeq
    <3>4. OneMore(KeysOf(before) \o KeysOf(old), KeysOf(before) \o KeysOf(new))
      <4>1. OneMore(KeysOf(old), KeysOf(new))
        BY <2>4 DEF old, new
      <4> QED
        BY <3>3, <4>1, OneMoreBehind
    <3>5. payload' \in Seq(Changes)
      BY <2>1, <2>4, <3>1, AppendProperties
    <3> QED
      BY <1>1, <3>2, <3>3, <3>4, <3>5
  <2> HIDE DEF n
  <2>5. CASE \E c \in Contacts :
               payload' = [payload EXCEPT ![n].contacts = Append(@, c)]
    <3>1. PICK c \in Contacts :
            payload' = [payload EXCEPT ![n] = [last EXCEPT !.contacts = Append(@, c)]]
      BY <2>5
    <3> QED
      BY <2>3, <2>4, <3>1, ContactAdded
  <2>6. CASE \E m \in Messages :
               payload' = [payload EXCEPT ![n].messages = Append(@, m)]
    <3>1. PICK m \in Messages :
            payload' = [payload EXCEPT ![n] = [last EXCEPT !.messages = Append(@, m)]]
      BY <2>6
    <3> QED
      BY <2>3, <2>4, <3>1, MessageAdded
  <2>7. CASE \E s \in Statuses :
               payload' = [payload EXCEPT ![n].statuses = Append(@, s)]
    <3>1. PICK s \in Statuses :
            payload' = [payload EXCEPT ![n] = [last EXCEPT !.statuses = Append(@, s)]]
      BY <2>7
    <3> QED
      BY <2>3, <2>4, <3>1, StatusAdded
  <2> QED
    BY <1>3, <2>5, <2>6, <2>7 DEF AddItem, n
<1> QED
  BY <1>2, <1>3 DEF PayloadNext

LEMMA EventsTyped ==
  ASSUME NEW changes \in Seq(Changes)
  PROVE  EventsOf(changes) \in Seq(Parsed)
<1> DEFINE empty == [contacts |-> <<>>, messages |-> <<>>, statuses |-> <<>>]
<1>1. empty \in Changes
  BY EmptySeq DEF Changes
<1> HIDE DEF empty
<1> QED
  BY <1>1, EventsAppend

(* The identifiers of a payload: those of its events, or the unknown *)
(* event's when there is none.                                       *)
LEMMA KeysWithUnknown ==
  ASSUME NEW es, NEW unknown
  PROVE  LET all == IF es = <<>> THEN <<unknown>> ELSE es
             keys == [i \in DOMAIN all |-> all[i].external_id]
         IN keys = IF es = <<>> THEN <<unknown.external_id>> ELSE KeysOf(es)
<1>1. CASE es = <<>>
  <2>1. [i \in DOMAIN <<unknown>> |-> <<unknown>>[i].external_id]
        = <<unknown.external_id>>
    OBVIOUS
  <2> QED
    BY <1>1, <2>1
<1>2. CASE es # <<>>
  BY <1>2 DEF KeysOf
<1> QED
  BY <1>1, <1>2

(* What an item of a payload adds is its own key or nothing. *)
LEMMA PayloadStepKeys ==
  ASSUME payload \in Seq(Changes), PayloadNext
  PROVE  \E before \in {IF events = <<>> THEN <<>> ELSE Keys}, after \in {Keys'} :
           \/ after = IF before = <<>> THEN <<Unknown.external_id>>' ELSE before
           \/ \E i \in DOMAIN after : RemoveAt(after, i) = before
<1> DEFINE s == KeysOf(events)
           t == KeysOf(events')
           alone == <<Unknown.external_id>>'
           before == IF events = <<>> THEN <<>> ELSE Keys
           after == Keys'
<1>1. OneMore(s, t)
  BY PayloadStepTyped
<1>2. events \in Seq(Parsed) /\ events' \in Seq(Parsed)
  <2>1. events = EventsOf(payload) /\ events' = EventsOf(payload')
    BY DEF events, EventsOf, ChangesParsed
  <2> QED
    BY <2>1, PayloadStepTyped, EventsTyped
<1>3. s = <<>> <=> events = <<>>
  BY <1>2, KeysOfSeq
<1>4. t = <<>> <=> events' = <<>>
  BY <1>2, KeysOfSeq
<1>5. before = s
  <2>1. events # <<>> => Keys = s
    BY DEF Keys, KeysOf, parse_webhook_payload
  <2> QED
    BY <1>3, <2>1
<1>6. after = IF t = <<>> THEN alone ELSE t
  <2>1. after = IF events' = <<>> THEN <<Unknown'.external_id>> ELSE KeysOf(events')
    BY KeysWithUnknown DEF Keys, parse_webhook_payload
  <2> QED
    BY <1>4, <2>1
<1> HIDE DEF s, t, alone, before, after
<1>7. \/ after = IF before = <<>> THEN alone ELSE before
      \/ \E i \in DOMAIN after : RemoveAt(after, i) = before
  <2>1. CASE t = s
    BY <1>5, <1>6, <2>1
  <2>2. CASE t # s
    BY <1>1, <1>5, <1>6, <2>2, OneMoreRemoved
  <2> QED
    BY <2>1, <2>2
<1> QED
  BY <1>7 DEF alone, before, after

LEMMA PayloadInduction ==
  /\ PayloadInit => payload \in Seq(Changes)
  /\ payload \in Seq(Changes) /\ [PayloadNext]_payload => payload' \in Seq(Changes)
<1>1. PayloadInit => payload \in Seq(Changes)
  BY EmptySeq DEF PayloadInit
<1>2. payload \in Seq(Changes) /\ [PayloadNext]_payload => payload' \in Seq(Changes)
  BY PayloadStepTyped
<1> QED
  BY <1>1, <1>2

(* What is handed on is a batch: events, at least one. *)
LEMMA BatchTyped ==
  payload \in Seq(Changes) =>
    parse_webhook_payload \in Seq(Events \union {Unknown}) \ {<<>>}
<1> SUFFICES ASSUME payload \in Seq(Changes)
             PROVE  parse_webhook_payload \in Seq(Events \union {Unknown}) \ {<<>>}
  OBVIOUS
<1>1. events = EventsOf(payload) /\ events \in Seq(Parsed)
  <2>1. events = EventsOf(payload)
    BY DEF events, EventsOf, ChangesParsed
  <2> QED
    BY <2>1, EventsTyped
<1>2. ASSUME NEW i \in DOMAIN events PROVE events[i] \in Events
  <2> DEFINE e == events[i]
             ps == ChangesParsed(payload)
  <2>1. e \in Parsed /\ e \in ToSet(events)
    BY <1>1, <1>2 DEF ToSet
  <2>2. /\ ps \in Seq(Seq(Parsed)) /\ events = FlattenSeq(ps)
        /\ DOMAIN ps = DOMAIN payload
        /\ \A k \in DOMAIN payload : ps[k] = parse_change(payload[k])
    BY ChangesParsedSeq DEF events, ChangesParsed
  <2> HIDE DEF ps, e
  <2>3. PICK k \in DOMAIN payload : e \in ToSet(parse_change(payload[k]))
    BY <2>1, <2>2, FlattenElements
  <2> DEFINE ms == MessageEvents(payload[k])
             ss == StatusEvents(payload[k])
  <2>4. ms \in Seq(Parsed) /\ ss \in Seq(Parsed)
    BY <2>3, ItemsParsed
  <2>5. parse_change(payload[k]) = Without(ms \o ss, {None})
    BY DEF parse_change, Recognised, MessageEvents, StatusEvents
  <2> HIDE DEF ms, ss
  <2>6. ms \o ss \in Seq(Parsed)
    BY <2>4, ConcatProperties
  <2>7. ToSet(Without(ms \o ss, {None})) = ToSet(ms \o ss) \ {None}
    BY <2>6, WithoutElements
  <2> QED
    BY <2>1, <2>3, <2>5, <2>7 DEF Parsed, e
<1>3. events \in Seq(Events \union {Unknown})
  <2> DEFINE es == events
             n == Len(es)
  <2>1. n \in Nat /\ DOMAIN es = 1..n /\ es = [i \in 1..n |-> es[i]]
    BY <1>1
  <2>2. \A i \in 1..n : es[i] \in Events \union {Unknown}
    BY <1>2, <2>1
  <2> HIDE DEF es, n
  <2>3. [i \in 1..n |-> es[i]] \in Seq(Events \union {Unknown})
    BY <2>1, <2>2, IsASeq
  <2> QED
    BY <2>1, <2>3 DEF es
<1>4. <<Unknown>> \in Seq(Events \union {Unknown}) /\ <<Unknown>> # <<>>
  OBVIOUS
<1> QED
  BY <1>3, <1>4 DEF parse_webhook_payload

(* What Messaging assumes of what Meta posts is so once it is parsed: a    *)
(* batch has events only, however odd the items of the payload, and one at *)
(* least.                                                                  *)
THEOREM BatchesAreOfEvents ==
  PayloadSpec =>
    [](parse_webhook_payload \in Seq(Events \union {Unknown}) \ {<<>>})
<1>1. PayloadInit => payload \in Seq(Changes)
  BY PayloadInduction
<1>2. payload \in Seq(Changes) /\ [PayloadNext]_payload => (payload \in Seq(Changes))'
  BY PayloadInduction
<1> QED
  BY <1>1, <1>2, BatchTyped, PTL DEF PayloadSpec

(* parse_webhook_payload never gives a sender the name of another contact,  *)
(* whatever contacts, messages and statuses a payload holds.               *)
THEOREM NamesAreOfTheirSenders == PayloadSpec => []NameIsOwn
<1>1. PayloadInit => payload \in Seq(Changes)
  BY PayloadInduction
<1>2. payload \in Seq(Changes) /\ [PayloadNext]_payload => (payload \in Seq(Changes))'
  BY PayloadInduction
<1>3. payload \in Seq(Changes) => NameIsOwn
  BY NamesAreOwn
<1> QED
  BY <1>1, <1>2, <1>3, PTL DEF PayloadSpec

(* An item of a payload, at whatever place and however odd, adds one event  *)
(* with its own key or none; the events of the other items keep their keys *)
(* and their order, and an unknown event is only ever alone.               *)
THEOREM ItemsDoNotInterfere == PayloadSpec => OneMoreEvent
<1>1. PayloadInit => payload \in Seq(Changes)
  BY PayloadInduction
<1>2. payload \in Seq(Changes) /\ [PayloadNext]_payload => (payload \in Seq(Changes))'
  BY PayloadInduction
<1>3. payload \in Seq(Changes) /\ [PayloadNext]_payload =>
        [\E before \in {IF events = <<>> THEN <<>> ELSE Keys}, after \in {Keys'} :
           \/ after = IF before = <<>> THEN <<Unknown.external_id>>' ELSE before
           \/ \E i \in DOMAIN after : RemoveAt(after, i) = before]_payload
  BY PayloadStepKeys
<1> QED
  BY <1>1, <1>2, <1>3, PTL DEF PayloadSpec, OneMoreEvent

-----------------------------------------------------------------------------
(* Users *)

(* What a call asks for has a phone and a name. *)
LEMMA AskedTyped ==
  ASSUME TypeOK, NEW c \in Calls, pc[c] # "free"
  PROVE  asked[c].phone \in Phones /\ asked[c].name \in Names
BY DEF TypeOK

LEMMA UsersInitIInv == Init => IInv
BY DEF Init, IInv, TypeOK, OneUserPerPhone, ResultsSound, CollisionIsReadable

LEMMA CallStep ==
  ASSUME IInv, NEW c \in Calls, Call(c)
  PROVE  IInv'
<1>1. PICK w \in WaIds, n \in Names :
        /\ Phone(w) # None
        /\ asked' = [asked EXCEPT ![c] = [phone |-> Phone(w), name |-> n]]
  BY DEF Call
<1>2. [phone |-> Phone(w), name |-> n] \in [phone : Phones, name : Names]
  BY <1>1 DEF Phones
<1> DEFINE request == [phone |-> Phone(w), name |-> n]
<1>3. request \in [phone : Phones, name : Names] /\ request # None
  BY <1>2, UsersAssumption
<1>4. asked' = [asked EXCEPT ![c] = request]
  BY <1>1
<1> HIDE DEF request
<1>5. TypeOK'
  BY <1>3, <1>4 DEF Call, IInv, TypeOK
<1>6. /\ UNCHANGED users
      /\ \A d \in Calls : pc'[d] \in {"find", "done"} =>
           pc'[d] = pc[d] /\ asked'[d] = asked[d] /\ result'[d] = result[d]
  BY <1>4 DEF Call, IInv, TypeOK
<1> QED
  BY <1>5, <1>6
     DEF IInv, OneUserPerPhone, ResultsSound, CollisionIsReadable, Of

(* A user is added for a number that had none. *)
LEMMA Added ==
  ASSUME IInv, NEW c \in Calls, pc[c] = "insert", Of(asked[c].phone) = {},
         NEW i \in Ids,
         NEW user, user = [id |-> i, phone |-> asked[c].phone,
                           whatsapp_name |-> asked[c].name],
         users' = users \union {user}
  PROVE  /\ user \in UserDocs /\ users' \subseteq UserDocs
         /\ user.phone = asked[c].phone
         /\ OneUserPerPhone'
<1>1. user \in UserDocs /\ user.phone = asked[c].phone
  BY AskedTyped DEF IInv, UserDocs
<1>2. \A v \in users : v.phone # user.phone
  BY <1>1 DEF Of
<1> QED
  BY <1>1, <1>2 DEF IInv, TypeOK, OneUserPerPhone

LEMMA InsertStep ==
  ASSUME IInv, NEW c \in Calls, Insert(c)
  PROVE  IInv'
<1>1. pc[c] = "insert" /\ Of(asked[c].phone) = {}
  BY DEF Insert
<1>2. PICK i, user :
        /\ i \in Ids
        /\ user = [id |-> i, phone |-> asked[c].phone,
                   whatsapp_name |-> asked[c].name]
        /\ users' = users \union {user} /\ Return(c, user)
  BY DEF Insert
<1>3. /\ user \in UserDocs /\ users' \subseteq UserDocs
      /\ user.phone = asked[c].phone /\ OneUserPerPhone'
  BY <1>1, <1>2, Added
<1>4. TypeOK'
  <2>1. asked' = asked /\ pc' = [pc EXCEPT ![c] = "done"]
        /\ result' = [result EXCEPT ![c] = user]
    BY <1>2 DEF Return
  <2>2. result' \in [Calls -> UserDocs \union {None}]
    BY <2>1, <1>3 DEF IInv, TypeOK
  <2>3. /\ pc' \in [Calls -> {"free", "insert", "find", "done"}]
        /\ \A d \in Calls : pc'[d] # "free" => asked'[d] # None
    BY <2>1, <1>1 DEF IInv, TypeOK
  <2> QED
    BY <2>1, <2>2, <2>3, <1>3 DEF IInv, TypeOK
<1>5. /\ asked' = asked /\ users \subseteq users' /\ user \in users'
      /\ pc'[c] = "done" /\ result'[c] = user
      /\ \A d \in Calls \ {c} : pc'[d] = pc[d] /\ result'[d] = result[d]
  BY <1>2 DEF Return, IInv, TypeOK
<1>6. ResultsSound'
  BY <1>3, <1>5 DEF IInv, ResultsSound, Of
<1>7. CollisionIsReadable'
  BY <1>5 DEF IInv, CollisionIsReadable, Of
<1> QED
  BY <1>3, <1>4, <1>6, <1>7 DEF IInv

LEMMA FindStep ==
  ASSUME IInv, NEW c \in Calls, Find(c) \/ InsertDuplicate(c) \/ Reuse(c)
  PROVE  IInv'
<1>1. CASE InsertDuplicate(c)
  BY <1>1 DEF InsertDuplicate, IInv, TypeOK, OneUserPerPhone, ResultsSound,
     CollisionIsReadable, Of
<1>2. CASE Find(c)
  <2>1. PICK u \in Of(asked[c].phone) : Return(c, u)
    BY <1>2 DEF Find
  <2>2. u \in UserDocs /\ UNCHANGED users
    BY <1>2 DEF Find, Of, IInv, TypeOK
  <2> QED
    BY <1>2, <2>1, <2>2 DEF Find, Return, IInv, TypeOK, OneUserPerPhone,
       ResultsSound, CollisionIsReadable, Of
<1>3. CASE Reuse(c)
  BY <1>3 DEF Reuse, Over, IInv, TypeOK, OneUserPerPhone, ResultsSound,
     CollisionIsReadable, Of
<1> QED
  BY <1>1, <1>2, <1>3

LEMMA FailStep ==
  ASSUME IInv, NEW c \in Calls, Fail(c)
  PROVE  IInv'
<1>1. Over(c)
  BY DEF Fail
<1>2. users \subseteq users' /\ users' \subseteq UserDocs /\ OneUserPerPhone'
  <2>1. CASE UNCHANGED users
    BY <2>1 DEF IInv, TypeOK, OneUserPerPhone
  <2>2. CASE users' # users
    <3>1. PICK i \in Ids :
            /\ pc[c] = "insert" /\ Of(asked[c].phone) = {}
            /\ users' = users \union
                 {[id |-> i, phone |-> asked[c].phone,
                   whatsapp_name |-> asked[c].name]}
      BY <2>2 DEF Fail
    <3> QED
      BY <3>1, Added
  <2> QED
    BY <2>1, <2>2
<1>3. /\ TypeOK' /\ pc'[c] = "free"
      /\ \A d \in Calls \ {c} :
           pc'[d] = pc[d] /\ result'[d] = result[d] /\ asked'[d] = asked[d]
  BY <1>1, <1>2 DEF Over, IInv, TypeOK
<1> QED
  BY <1>2, <1>3 DEF IInv, ResultsSound, CollisionIsReadable, Of

LEMMA UsersStepIInv == IInv /\ [Next]_vars => IInv'
<1> SUFFICES ASSUME IInv, [Next]_vars PROVE IInv'
  OBVIOUS
<1>1. CASE Next
  BY <1>1, CallStep, InsertStep, FindStep, FailStep DEF Next, Step
<1>2. CASE UNCHANGED vars
  BY <1>2 DEF vars, IInv, TypeOK, OneUserPerPhone, ResultsSound,
     CollisionIsReadable, Of
<1> QED
  BY <1>1, <1>2

(* In every reachable state, numbers have one user and callers the right one. *)
THEOREM UsersInvariant == Spec => []IInv
BY UsersInitIInv, UsersStepIInv, PTL DEF Spec

(* The collection and the calls keep their types. *)
THEOREM UsersTypeCorrect == Spec => []TypeOK
<1>1. IInv => TypeOK
  BY DEF IInv
<1> QED
  BY UsersInvariant, <1>1, PTL

(* A number never gets a second user, however many messages cross. *)
THEOREM OneUser == Spec => []OneUserPerPhone
<1>1. IInv => OneUserPerPhone
  BY DEF IInv
<1> QED
  BY UsersInvariant, <1>1, PTL

(* Two calls for one number return the same user. *)
THEOREM SameUser == Spec => []CallersAgree
<1>1. IInv => CallersAgree
  BY AskedTyped DEF IInv, OneUserPerPhone, ResultsSound, CallersAgree, Of
<1> QED
  BY UsersInvariant, <1>1, PTL

(* Whoever collided on a number finds the user it collided with: the read   *)
(* after a duplicate key is never empty.                                   *)
THEOREM CollisionRead == Spec => []CollisionIsReadable
<1>1. IInv => CollisionIsReadable
  BY DEF IInv
<1> QED
  BY UsersInvariant, <1>1, PTL

(* No step changes or removes a user. *)
THEOREM UsersNeverLeave == Spec => UsersStay
<1>1. IInv /\ [Next]_vars => [users \subseteq users']_vars
  BY DEF Next, Step, Call, Insert, InsertDuplicate, Find, Reuse, Fail, vars
<1> QED
  BY UsersInvariant, <1>1, PTL DEF Spec, UsersStay

-----------------------------------------------------------------------------
(* Intake *)

(* The readers share nothing: what happens to one of them is a behaviour of *)
(* its own, whichever of them is at work.                                  *)
THEOREM ReadersApart ==
  IntakeSpec => Spec /\ CodeSpec /\ AmountSpec /\ PayloadSpec
<1>1. IntakeInit => Init /\ CodeInit /\ AmountInit /\ PayloadInit
  BY DEF IntakeInit
<1>2. [IntakeNext]_intakeVars =>
        [Next]_vars /\ [CodeNext]_codeVars /\ [AmountNext]_amountVars
        /\ [PayloadNext]_payload
  BY DEF IntakeNext, intakeVars
<1> QED
  BY <1>1, <1>2, PTL DEF IntakeSpec, Spec, CodeSpec, AmountSpec, PayloadSpec

(* What the run of Intake checks on its samples holds for any identifiers,  *)
(* numbers, alphabet, codes and amounts, and payloads of any size.         *)
THEOREM IntakeIsRight ==
  IntakeSpec => /\ [](CodeOrNothing /\ AmountReadExactly /\ NameIsOwn)
                /\ [](OneUserPerPhone /\ CallersAgree)
                /\ OneMoreEvent
BY ReadersApart, CodeReadExactly, AmountIsRead, NamesAreOfTheirSenders,
   ItemsDoNotInterfere, OneUser, SameUser, PTL
=============================================================================
