--------------------------- MODULE AudioFifoProofs ----------------------------
(***************************************************************************)
(* AudioStream implements AudioFifo: the units leave a stream in the order *)
(* in which they entered it, for any samples, shapes and lengths of calls. *)
(*                                                                         *)
(* The units in the stream are the concatenation, in the order of the      *)
(* ring, of what is in its fragments.  What FlattenSeq of the community    *)
(* modules makes of a sequence of sequences is proved first, by induction  *)
(* on the number of blocks.                                                *)
(***************************************************************************)
EXTENDS AudioStreamProofs, SequenceTheorems, WellFoundedInduction

Associative(U) == \A a, b, c \in Seq(U) : (a \o b) \o c = a \o (b \o c)

(* Concatenation is associative, over any set of elements and over the     *)
(* units.                                                                  *)
LEMMA Assoc == \A U : Associative(U)
<1> TAKE U
<1> QED BY ConcatAssociative DEF Associative

(* The same for sequences of units.                                        *)
LEMMA UnitAssoc == \A a, b, c \in Seq(Unit) : (a \o b) \o c = a \o (b \o c)
<1>1. Associative(Unit)
  BY Assoc
<1> QED BY <1>1 DEF Associative

(* Induction, as a statement about a set.                                  *)
LEMMA AllNat ==
    ASSUME NEW S, 0 \in S, \A n \in Nat : n \in S => n + 1 \in S
    PROVE  \A n \in Nat : n \in S
<1> SUFFICES ASSUME Nat \ S # {} PROVE FALSE
  OBVIOUS
<1>1. PICK x \in Nat \ S : \A y \in Nat \ S : ~(<<y, x>> \in OpToRel(<, Nat))
  BY NatLessThanWellFounded, WFMin
<1>2. \A y \in Nat : y < x => y \in S
  BY <1>1 DEF OpToRel
<1>3. x \in Nat /\ x \notin S /\ x # 0
  OBVIOUS
<1>4. x - 1 \in Nat /\ x - 1 < x /\ (x - 1) + 1 = x
  BY <1>3
<1> QED BY <1>2, <1>3, <1>4

(* The sums of the first blocks, as FlattenSeq computes them.              *)
Sums(s, f) == f = [i \in 1..Len(s) |-> IF i = 1 THEN s[i] ELSE f[i - 1] \o s[i]]

(* The sums, one by one.                                                   *)
LEMMA SumsAt ==
    ASSUME NEW s, NEW f, Sums(s, f), NEW i \in 1..Len(s)
    PROVE  f[i] = IF i = 1 THEN s[i] ELSE f[i - 1] \o s[i]
<1>1. PICK h : h = [j \in 1..Len(s) |-> IF j = 1 THEN s[j] ELSE f[j - 1] \o s[j]]
  OBVIOUS
<1>2. h[i] = IF i = 1 THEN s[i] ELSE f[i - 1] \o s[i]
  BY <1>1
<1>3. f = h
  BY <1>1 DEF Sums
<1> QED BY <1>2, <1>3

(* FlattenSeq chooses a function with the sums of the blocks, and takes    *)
(* its last value.                                                         *)
LEMMA FlattenIs ==
    ASSUME NEW s, Len(s) # 0
    PROVE  FlattenSeq(s) = (CHOOSE f : Sums(s, f))[Len(s)]
  BY DEF FlattenSeq, Sums

(* The sums of a sequence and of a longer one that starts with it agree.   *)
Starts(s, t) == /\ Len(s) \in Nat /\ Len(t) \in Nat /\ Len(s) <= Len(t)
                /\ \A i \in 1..Len(s) : s[i] = t[i]

Agree(n, f, g) == \A i \in 1..n : f[i] = g[i]

(* The partial concatenations of a sequence are those of any longer one, as*)
(* far as it goes.                                                         *)
LEMMA SumsUnique ==
    \A s, t, f, g : Sums(s, f) /\ Sums(t, g) /\ Starts(s, t) => Agree(Len(s), f, g)
<1> SUFFICES ASSUME NEW s, NEW t, NEW f, NEW g, Sums(s, f), Sums(t, g),
                    Len(s) \in Nat, Len(t) \in Nat, Len(s) <= Len(t),
                    \A i \in 1..Len(s) : s[i] = t[i]
             PROVE  \A i \in 1..Len(s) : f[i] = g[i]
  BY DEF Starts, Agree
<1> DEFINE S == {n \in Nat : n \in 1..Len(s) => f[n] = g[n]}
<1>1. 0 \in S
  OBVIOUS
<1>2. ASSUME NEW n \in Nat, n \in S
      PROVE  n + 1 \in S
  <2> SUFFICES ASSUME n + 1 \in 1..Len(s)
               PROVE  f[n + 1] = g[n + 1]
    OBVIOUS
  <2>1. n + 1 \in 1..Len(t) /\ s[n + 1] = t[n + 1] /\ (n + 1) - 1 = n
    OBVIOUS
  <2>2. f[n + 1] = IF n + 1 = 1 THEN s[n + 1] ELSE f[(n + 1) - 1] \o s[n + 1]
    BY SumsAt
  <2>3. g[n + 1] = IF n + 1 = 1 THEN t[n + 1] ELSE g[(n + 1) - 1] \o t[n + 1]
    BY <2>1, SumsAt
  <2>4. n + 1 # 1 => n \in 1..Len(s)
    OBVIOUS
  <2> QED BY <1>2, <2>1, <2>2, <2>3, <2>4
<1> HIDE DEF S
<1>3. \A n \in Nat : n \in S
  BY <1>1, <1>2, AllNat
<1> QED BY <1>3 DEF S

(* The same for the first n blocks of s.                                   *)
SumsTo(s, n, f) == \A i \in 1..n : f[i] = IF i = 1 THEN s[i] ELSE f[i - 1] \o s[i]

(* Every sequence of blocks has its sums.                                  *)
LEMMA SumsExists ==
    ASSUME NEW U, NEW s \in Seq(Seq(U))
    PROVE  \E f \in [1..Len(s) -> Seq(U)] : Sums(s, f)
<1> DEFINE S == {n \in Nat : n <= Len(s) => \E f \in [1..n -> Seq(U)] : SumsTo(s, n, f)}
<1>0. Len(s) \in Nat /\ \A i \in 1..Len(s) : s[i] \in Seq(U)
  OBVIOUS
<1>1. 0 \in S
  <2>1. [i \in 1..0 |-> <<>>] \in [1..0 -> Seq(U)] /\ SumsTo(s, 0, [i \in 1..0 |-> <<>>])
    BY DEF SumsTo
  <2>2. \E f \in [1..0 -> Seq(U)] : SumsTo(s, 0, f)
    BY <2>1
  <2> QED BY <2>2
<1>2. ASSUME NEW n \in Nat, n \in S, n + 1 <= Len(s)
      PROVE  \E f \in [1..n + 1 -> Seq(U)] : SumsTo(s, n + 1, f)
  <2>0. n <= Len(s)
    BY <1>0, <1>2
  <2>1. PICK f \in [1..n -> Seq(U)] : SumsTo(s, n, f)
    BY <1>2, <2>0
  <2> DEFINE e == IF n = 0 THEN s[n + 1] ELSE f[n] \o s[n + 1]
             g == [i \in 1..n + 1 |-> IF i = n + 1 THEN e ELSE f[i]]
  <2>3. e \in Seq(U)
    <3>1. n + 1 \in 1..Len(s)
      BY <1>0, <1>2
    <3>2. s[n + 1] \in Seq(U)
      BY <1>0, <3>1
    <3>3. n # 0 => f[n] \in Seq(U)
      OBVIOUS
    <3> QED BY <3>2, <3>3
  <2> HIDE DEF e
  <2>4. g \in [1..n + 1 -> Seq(U)]
    BY <2>1, <2>3
  <2>5. ASSUME NEW i \in 1..n + 1
        PROVE  g[i] = IF i = 1 THEN s[i] ELSE g[i - 1] \o s[i]
    <3>1. CASE i = n + 1
      <4>1. g[i] = e /\ i - 1 = n /\ (i = 1 <=> n = 0)
        BY <3>1
      <4>2. n # 0 => g[n] = f[n]
        OBVIOUS
      <4> HIDE DEF g
      <4> QED BY <3>1, <4>1, <4>2 DEF e
    <3>2. CASE i \in 1..n
      <4>1. g[i] = f[i] /\ (i # 1 => i - 1 \in 1..n /\ g[i - 1] = f[i - 1])
        BY <3>2
      <4> HIDE DEF g
      <4> QED BY <2>1, <3>2, <4>1 DEF SumsTo
    <3> QED BY <3>1, <3>2
  <2>6. SumsTo(s, n + 1, g)
    <3> HIDE DEF g
    <3> QED BY <2>5 DEF SumsTo
  <2> HIDE DEF g
  <2> QED BY <2>4, <2>6
<1>3. \A n \in Nat : n \in S => n + 1 \in S
  BY <1>2
<1>4. \A n \in Nat : n \in S
  <2> HIDE DEF S
  <2> QED BY <1>1, <1>3, AllNat
<1>5. PICK f \in [1..Len(s) -> Seq(U)] : SumsTo(s, Len(s), f)
  BY <1>0, <1>4
<1>6. Sums(s, f)
  BY <1>5 DEF Sums, SumsTo
<1> QED BY <1>6

(* FlattenSeq is the last sum, whichever function was chosen.              *)
LEMMA FlattenSums ==
    ASSUME NEW U, NEW s \in Seq(Seq(U)), Len(s) # 0
    PROVE  \E f \in [1..Len(s) -> Seq(U)] : Sums(s, f) /\ FlattenSeq(s) = f[Len(s)]
<1> DEFINE c == CHOOSE f : Sums(s, f)
<1>1. PICK f \in [1..Len(s) -> Seq(U)] : Sums(s, f)
  BY SumsExists
<1>2. Sums(s, c)
  BY <1>1
<1>3. FlattenSeq(s) = c[Len(s)]
  BY FlattenIs
<1> HIDE DEF c
<1>4. Len(s) \in Nat /\ Len(s) \in 1..Len(s) /\ Len(s) <= Len(s)
  OBVIOUS
<1>5. Starts(s, s)
  BY <1>4 DEF Starts
<1>6. Agree(Len(s), c, f)
  BY <1>1, <1>2, <1>5, SumsUnique
<1> QED BY <1>1, <1>3, <1>4, <1>6 DEF Agree

(* A block more at the end is concatenated at the end.                     *)
LEMMA FlattenAppend ==
    ASSUME NEW U, NEW s \in Seq(Seq(U)), NEW x \in Seq(U)
    PROVE  /\ FlattenSeq(s) \in Seq(U)
           /\ FlattenSeq(Append(s, x)) = FlattenSeq(s) \o x
<1>0. PICK t : t = Append(s, x)
  OBVIOUS
<1>1. /\ t \in Seq(Seq(U)) /\ Len(t) = Len(s) + 1 /\ Len(s) \in Nat /\ t[Len(s) + 1] = x
      /\ \A i \in 1..Len(s) : s[i] = t[i]
  BY <1>0
<1>2. PICK g \in [1..Len(t) -> Seq(U)] : Sums(t, g) /\ FlattenSeq(t) = g[Len(t)]
  BY <1>1, FlattenSums
<1>3. CASE Len(s) = 0
  <2>1. s = <<>> /\ FlattenSeq(s) = s
    BY <1>3 DEF FlattenSeq
  <2>2. g[1] = t[1] /\ FlattenSeq(t) = x
    BY <1>1, <1>2, <1>3 DEF Sums
  <2>3. <<>> \in Seq(U) /\ <<>> \o x = x
    BY ConcatEmptySeq
  <2> QED BY <2>1, <2>2, <2>3, <1>0
<1>4. CASE Len(s) # 0
  <2>1. PICK f \in [1..Len(s) -> Seq(U)] : Sums(s, f) /\ FlattenSeq(s) = f[Len(s)]
    BY <1>4, FlattenSums
  <2>2. Len(s) \in 1..Len(s) /\ Len(s) <= Len(t) /\ Len(t) \in Nat
    BY <1>1, <1>4
  <2>3. f[Len(s)] = g[Len(s)]
    <3>0. Sums(s, f) /\ Sums(t, g) /\ Starts(s, t)
      BY <1>1, <1>2, <2>1, <2>2 DEF Starts
    <3>1. Agree(Len(s), f, g)
      BY <3>0, SumsUnique
    <3> QED BY <2>2, <3>1 DEF Agree
  <2>4. g[Len(s) + 1] = g[Len(s)] \o x
    <3>1. Len(s) + 1 \in 1..Len(t) /\ Len(s) + 1 # 1 /\ (Len(s) + 1) - 1 = Len(s)
      BY <1>1, <1>4
    <3>2. g[Len(s) + 1] = g[(Len(s) + 1) - 1] \o t[Len(s) + 1]
      BY <1>2, <3>1 DEF Sums
    <3> QED BY <1>1, <3>1, <3>2
  <2> QED BY <1>1, <1>2, <2>1, <2>2, <2>3, <2>4, <1>0
<1> QED BY <1>3, <1>4

(* No block, no unit.                                                      *)
LEMMA FlattenEmpty == FlattenSeq(<<>>) = <<>>
<1>1. Len(<<>>) = 0
  OBVIOUS
<1> QED BY <1>1 DEF FlattenSeq

(* FlattenSeq of a prefix, and of the prefix that is one longer.           *)
LEMMA FlattenPrefix ==
    ASSUME NEW U, NEW s \in Seq(Seq(U)), NEW n \in Nat, n < Len(s)
    PROVE  /\ SubSeq(s, 1, n) \in Seq(Seq(U))
           /\ SubSeq(s, 1, n + 1) = Append(SubSeq(s, 1, n), s[n + 1])
           /\ FlattenSeq(SubSeq(s, 1, n)) \in Seq(U)
           /\ FlattenSeq(SubSeq(s, 1, n + 1)) = FlattenSeq(SubSeq(s, 1, n)) \o s[n + 1]
<1>1. n + 1 \in 1..Len(s) /\ s[n + 1] \in Seq(U)
  OBVIOUS
<1>2. SubSeq(s, 1, n) \in Seq(Seq(U)) /\ SubSeq(s, 1, n + 1) \in Seq(Seq(U))
  OBVIOUS
<1>3. SubSeq(s, 1, n + 1) = Append(SubSeq(s, 1, n), s[n + 1])
  OBVIOUS
<1> QED BY <1>1, <1>2, <1>3, FlattenAppend

(* Blocks that are empty from one on add nothing.                          *)
LEMMA FlattenTrail ==
    ASSUME NEW U, NEW s \in Seq(Seq(U)), NEW p \in Nat, p <= Len(s),
           \A i \in 1..Len(s) : i > p => s[i] = <<>>
    PROVE  FlattenSeq(s) = FlattenSeq(SubSeq(s, 1, p))
<1> DEFINE S == {n \in Nat : n >= p /\ n <= Len(s) =>
                                 FlattenSeq(SubSeq(s, 1, n)) = FlattenSeq(SubSeq(s, 1, p))}
<1>0. Len(s) \in Nat /\ SubSeq(s, 1, Len(s)) = s
  BY SubSeqFull
<1>1. 0 \in S
  OBVIOUS
<1>2. ASSUME NEW n \in Nat, n \in S, n + 1 >= p, n + 1 <= Len(s)
      PROVE  FlattenSeq(SubSeq(s, 1, n + 1)) = FlattenSeq(SubSeq(s, 1, p))
  <2>1. CASE n + 1 = p
    BY <2>1
  <2>2. CASE n >= p
    <3>1. n < Len(s) /\ n + 1 \in 1..Len(s) /\ n + 1 > p
      BY <1>0, <1>2, <2>2
    <3>2. s[n + 1] = <<>>
      BY <3>1
    <3>3. FlattenSeq(SubSeq(s, 1, n)) = FlattenSeq(SubSeq(s, 1, p))
      BY <1>0, <1>2, <2>2, <3>1
    <3>4. /\ FlattenSeq(SubSeq(s, 1, n)) \in Seq(U)
          /\ FlattenSeq(SubSeq(s, 1, n + 1)) = FlattenSeq(SubSeq(s, 1, n)) \o s[n + 1]
      BY <3>1, FlattenPrefix
    <3>5. FlattenSeq(SubSeq(s, 1, n)) \o <<>> = FlattenSeq(SubSeq(s, 1, n))
      BY <3>4, ConcatEmptySeq
    <3> QED BY <3>2, <3>3, <3>4, <3>5
  <2> QED BY <1>2, <2>1, <2>2
<1>3. \A n \in Nat : n \in S => n + 1 \in S
  BY <1>2
<1>4. \A n \in Nat : n \in S
  <2> HIDE DEF S
  <2> QED BY <1>1, <1>3, AllNat
<1>5. FlattenSeq(SubSeq(s, 1, Len(s))) = FlattenSeq(SubSeq(s, 1, p))
  BY <1>0, <1>4
<1> QED BY <1>0, <1>5

(* The first block comes first, and the rest is FlattenSeq of the tail.    *)
LEMMA FlattenFirst ==
    ASSUME NEW U, NEW s \in Seq(Seq(U)), s # <<>>
    PROVE  /\ s[1] \in Seq(U) /\ FlattenSeq(Tail(s)) \in Seq(U)
           /\ FlattenSeq(s) = s[1] \o FlattenSeq(Tail(s))
<1>A. \A a, b, c \in Seq(U) : (a \o b) \o c = a \o (b \o c)
  <2>1. Associative(U)
    BY Assoc
  <2> QED BY <2>1 DEF Associative
<1> DEFINE t == Tail(s)
           E(n) == FlattenSeq(SubSeq(s, 1, n + 1)) = s[1] \o FlattenSeq(SubSeq(t, 1, n))
           S == {n \in Nat : n < Len(s) => E(n)}
<1>0. /\ Len(s) \in Nat /\ Len(s) >= 1 /\ s[1] \in Seq(U)
      /\ t \in Seq(Seq(U)) /\ Len(t) = Len(s) - 1 /\ \A i \in 1..Len(t) : t[i] = s[i + 1]
  OBVIOUS
<1> HIDE DEF t
<1>1. 0 \in S
  <2>1. SubSeq(t, 1, 0) = <<>> /\ SubSeq(s, 1, 0) = <<>>
    BY SubSeqEmpty
  <2>2. 0 < Len(s) /\ 0 + 1 = 1
    BY <1>0
  <2>3. FlattenSeq(SubSeq(s, 1, 0 + 1)) = FlattenSeq(SubSeq(s, 1, 0)) \o s[0 + 1]
    BY <2>2, FlattenPrefix
  <2>4. <<>> \o s[1] = s[1] /\ s[1] \o <<>> = s[1]
    BY <1>0, ConcatEmptySeq
  <2>5. FlattenSeq(SubSeq(s, 1, 0 + 1)) = s[1] \o FlattenSeq(SubSeq(t, 1, 0))
    BY <2>1, <2>2, <2>3, <2>4, FlattenEmpty
  <2> QED BY <2>5
<1>2. ASSUME NEW n \in Nat, n \in S, n + 1 < Len(s)
      PROVE  E(n + 1)
  <2>1. n < Len(s) /\ n < Len(t) /\ n + 1 \in 1..Len(t) /\ n + 1 \in Nat
    BY <1>0, <1>2
  <2>2. FlattenSeq(SubSeq(s, 1, n + 1)) = s[1] \o FlattenSeq(SubSeq(t, 1, n))
    BY <1>2, <2>1
  <2>3. FlattenSeq(SubSeq(s, 1, (n + 1) + 1)) = FlattenSeq(SubSeq(s, 1, n + 1)) \o s[(n + 1) + 1]
    BY <1>2, <2>1, FlattenPrefix
  <2>4. /\ FlattenSeq(SubSeq(t, 1, n)) \in Seq(U)
        /\ FlattenSeq(SubSeq(t, 1, n + 1)) = FlattenSeq(SubSeq(t, 1, n)) \o t[n + 1]
    BY <1>0, <2>1, FlattenPrefix
  <2>5. t[n + 1] = s[(n + 1) + 1] /\ t[n + 1] \in Seq(U)
    <3>1. \A i \in 1..Len(t) : t[i] \in Seq(U)
      BY <1>0, ElementOfSeq
    <3> QED BY <1>0, <2>1, <3>1
  <2>7. (s[1] \o FlattenSeq(SubSeq(t, 1, n))) \o t[n + 1] =
            s[1] \o (FlattenSeq(SubSeq(t, 1, n)) \o t[n + 1])
    BY <1>A, <1>0, <2>4, <2>5, Zenon
  <2> QED BY <2>2, <2>3, <2>4, <2>5, <2>7
<1>3. \A n \in Nat : n \in S => n + 1 \in S
  <2> HIDE DEF E
  <2> QED BY <1>2
<1>4. \A n \in Nat : n \in S
  <2> HIDE DEF S
  <2> QED BY <1>1, <1>3, AllNat
<1>5. Len(s) - 1 \in Nat /\ Len(s) - 1 < Len(s) /\ (Len(s) - 1) + 1 = Len(s)
  BY <1>0
<1>6. FlattenSeq(SubSeq(s, 1, Len(s))) = s[1] \o FlattenSeq(SubSeq(t, 1, Len(t)))
  BY <1>0, <1>4, <1>5
<1>7. SubSeq(s, 1, Len(s)) = s /\ SubSeq(t, 1, Len(t)) = t
  BY <1>0, SubSeqFull
<1>8. FlattenSeq(t) \in Seq(U)
  <2>1. <<>> \in Seq(U)
    OBVIOUS
  <2> QED BY <1>0, <2>1, FlattenAppend
<1> QED BY <1>0, <1>6, <1>7, <1>8 DEF t

(* One block, with nothing in it or behind it, is filled.                  *)
LEMMA FlattenGrow ==
    ASSUME NEW U, NEW s \in Seq(Seq(U)), NEW t \in Seq(Seq(U)), Len(t) = Len(s),
           NEW p \in 1..Len(s),
           \A i \in 1..Len(s) : i < p => t[i] = s[i],
           \A i \in 1..Len(s) : i >= p => s[i] = <<>>,
           \A i \in 1..Len(s) : i > p => t[i] = <<>>
    PROVE  FlattenSeq(t) = FlattenSeq(s) \o t[p]
<1>1. /\ p - 1 \in Nat /\ p - 1 < Len(s) /\ (p - 1) + 1 = p
      /\ p \in Nat /\ p <= Len(s) /\ Len(s) \in Nat
  OBVIOUS
<1>2. FlattenSeq(s) = FlattenSeq(SubSeq(s, 1, p - 1))
  <2>1. PICK q \in Nat : q = p - 1
    BY <1>1
  <2>2. ASSUME NEW i \in 1..Len(s), i > q
        PROVE  s[i] = <<>>
    <3>1. i >= p
      BY <2>1, <2>2
    <3> QED BY <3>1
  <2>3. q <= Len(s)
    BY <1>1, <2>1
  <2> QED BY <2>1, <2>2, <2>3, FlattenTrail
<1>3. FlattenSeq(t) = FlattenSeq(SubSeq(t, 1, p))
  BY <1>1, FlattenTrail
<1>4. FlattenSeq(SubSeq(t, 1, (p - 1) + 1)) = FlattenSeq(SubSeq(t, 1, p - 1)) \o t[(p - 1) + 1]
  BY <1>1, FlattenPrefix
<1>5. SubSeq(t, 1, p - 1) = SubSeq(s, 1, p - 1)
  <2>1. SubSeq(t, 1, p - 1) \in Seq(Seq(U)) /\ SubSeq(s, 1, p - 1) \in Seq(Seq(U))
    BY <1>1, FlattenPrefix
  <2>2. Len(SubSeq(t, 1, p - 1)) = p - 1 /\ Len(SubSeq(s, 1, p - 1)) = p - 1
    BY <1>1
  <2>3. \A i \in 1..p - 1 : /\ SubSeq(t, 1, p - 1)[i] = t[i]
                            /\ SubSeq(s, 1, p - 1)[i] = s[i] /\ t[i] = s[i]
    BY <1>1
  <2> QED BY <2>1, <2>2, <2>3, SeqEqual
<1> QED BY <1>1, <1>2, <1>3, <1>4, <1>5
-------------------------------------------------------------------------------
(* What the steps of a stream are to its user: units enter at the end,     *)
(* leave at the front, are dropped from the end, or the stream is cleared. *)
FifoStep == [Fifo!Next]_<<Queue, moved, failed>>

(* Units enter at the end: Put, or if there are none, at most Fail.        *)
LEMMA PutStep ==
    ASSUME NEW c \in Seq(Unit), Queue \in Seq(Unit), Queue' = Queue \o c,
           UNCHANGED moved, failed => failed', failed \in BOOLEAN, failed' \in BOOLEAN
    PROVE  FifoStep
<1>1. CASE c = <<>>
  <2>1. Queue' = Queue
    BY <1>1, ConcatEmptySeq
  <2> QED BY <2>1 DEF FifoStep, Fifo!Next, Fifo!Fail
<1>2. CASE c # <<>>
  <2>1. PICK q : q = Queue
    OBVIOUS
  <2>2. Len(c) > 0
    BY <1>2
  <2>3. Len(q \o c) > Len(q) /\ SubSeq(q \o c, 1, Len(q)) = q
    BY <2>1, <2>2
  <2>4. Fifo!Put
    BY <2>1, <2>3 DEF Fifo!Put
  <2> QED BY <2>4 DEF FifoStep, Fifo!Next
<1> QED BY <1>1, <1>2

(* Units leave at the front.                                               *)
LEMMA GetStep ==
    ASSUME NEW x \in Seq(Unit), NEW r \in Seq(Unit), x # <<>>, Queue = x \o r, Queue' = r,
           moved' = x, failed => failed'
    PROVE  FifoStep
<1>1. PICK q : q = x \o r
  OBVIOUS
<1>2. PICK n : n = Len(x)
  OBVIOUS
<1>3. q \in Seq(Unit) /\ n \in 1..Len(q) /\ Len(q) = n + Len(r)
  BY <1>1, <1>2
<1>4. SubSeq(q, 1, n) = x /\ SubSeq(q, n + 1, Len(q)) = r
  BY <1>1, <1>2, <1>3
<1>5. Fifo!Get
  BY <1>1, <1>3, <1>4 DEF Fifo!Get
<1> QED BY <1>5 DEF FifoStep, Fifo!Next

(* Units are dropped from the end by a refusal.                            *)
LEMMA LoseStep ==
    ASSUME NEW q \in Seq(Unit), NEW c \in Seq(Unit), Queue = q \o c, Queue' = q,
           failed' = TRUE, UNCHANGED moved
    PROVE  FifoStep
<1>1. PICK n : n = Len(q)
  OBVIOUS
<1>2. PICK p : p = q \o c
  OBVIOUS
<1>3. p \in Seq(Unit) /\ n \in 0..Len(p) /\ SubSeq(p, 1, n) = q
  BY <1>1, <1>2
<1>4. Fifo!Lose
  BY <1>2, <1>3 DEF Fifo!Lose
<1> QED BY <1>4 DEF FifoStep, Fifo!Next

(* The queue is not touched.                                               *)
LEMMA StillStep ==
    ASSUME UNCHANGED <<Queue, moved>>, failed' = failed \/ failed' = TRUE
    PROVE  FifoStep
  BY DEF FifoStep, Fifo!Next, Fifo!Fail

-------------------------------------------------------------------------------
(* How many steps fragment f is after fragment b in a ring of n.           *)
Ahead(b, f, n) == IF f >= b THEN f - b ELSE f + n - b
Dist(f) == Ahead(buf_idx, f, nbfrags)

(* The fragments of an input stream that hold units are free and come,     *)
(* from the current one on, before those that are queued, which are queued *)
(* whole and in the order of the ring, also after the DMA has refused one. *)
Input == file = "read" =>
             /\ \A i \in 1..Len(dma) : dma[i][2] = fragsize
             /\ \A i, j \in 1..Len(dma) : i < j => Dist(dma[i][1]) < Dist(dma[j][1])
             /\ \A f \in Frags : size[f] > 0 => sem[f] = 1
             /\ \A f \in Frags, i \in 1..Len(dma) : size[f] > 0 => Dist(f) < Dist(dma[i][1])

FifoInv == AudioInv /\ Input

(* Ahead and the steps around the ring are inverse to each other.          *)
LEMMA AheadIs ==
    ASSUME NEW n \in Nat, n >= 2, NEW b \in 0..n - 1
    PROVE  /\ \A f \in 0..n - 1 : Ahead(b, f, n) \in 0..n - 1
           /\ \A k \in 0..n - 1 : (b + k) % n \in 0..n - 1 /\ Ahead(b, (b + k) % n, n) = k
           /\ \A f \in 0..n - 1 : (b + Ahead(b, f, n)) % n = f
           /\ \A f \in 0..n - 1 : Ahead(b, f, n) = 0 <=> f = b
<1>1. ASSUME NEW k \in 0..n - 1
      PROVE  (b + k) % n = IF b + k < n THEN b + k ELSE b + k - n
  <2>1. CASE b + k < n
    BY <2>1
  <2>2. CASE b + k >= n
    <3>1. b + k = n * 1 + (b + k - n) /\ b + k - n \in 0..n - 1
      BY <2>2
    <3> QED BY <2>2, <3>1
  <2> QED BY <2>1, <2>2
<1>2. \A f \in 0..n - 1 : Ahead(b, f, n) \in 0..n - 1
  BY DEF Ahead
<1>3. ASSUME NEW k \in 0..n - 1
      PROVE  (b + k) % n \in 0..n - 1 /\ Ahead(b, (b + k) % n, n) = k
  BY <1>1 DEF Ahead
<1>4. ASSUME NEW f \in 0..n - 1
      PROVE  (b + Ahead(b, f, n)) % n = f
  <2>1. PICK k \in 0..n - 1 : k = Ahead(b, f, n)
    BY <1>2
  <2>2. (b + k) % n = IF b + k < n THEN b + k ELSE b + k - n
    BY <1>1
  <2> QED BY <2>1, <2>2 DEF Ahead
<1>5. \A f \in 0..n - 1 : Ahead(b, f, n) = 0 <=> f = b
  BY DEF Ahead
<1> QED BY <1>2, <1>3, <1>4, <1>5

(* When the current fragment is left behind, it is the farthest, and the   *)
(* others come one step nearer.                                            *)
LEMMA AheadNext ==
    ASSUME NEW n \in Nat, n >= 2, NEW b \in 0..n - 1
    PROVE  /\ Ahead((b + 1) % n, b, n) = n - 1
           /\ \A f \in 0..n - 1 : f # b => Ahead((b + 1) % n, f, n) = Ahead(b, f, n) - 1
<1>1. CASE b + 1 < n
  <2>1. (b + 1) % n = b + 1
    BY <1>1
  <2> QED BY <1>1, <2>1 DEF Ahead
<1>2. CASE b + 1 = n
  <2>1. (b + 1) % n = 0
    BY <1>2
  <2> QED BY <1>2, <2>1 DEF Ahead
<1> QED BY <1>1, <1>2

(* The current fragment is the one at distance 0.                          *)
LEMMA DistFacts ==
    ASSUME RingType
    PROVE  /\ \A f \in Frags : Dist(f) \in 0..nbfrags - 1
           /\ \A f \in Frags : Dist(f) = 0 <=> f = buf_idx
<1>1. nbfrags \in Nat /\ nbfrags >= 2 /\ Frags = 0..nbfrags - 1 /\ buf_idx \in 0..nbfrags - 1
  BY RingFacts
<1> QED BY <1>1, AheadIs DEF Dist

(* The distances after NEXT_BUF.                                           *)
LEMMA DistNext ==
    ASSUME RingType, buf_idx' = NextIdx, UNCHANGED shape
    PROVE  /\ Ahead(buf_idx', buf_idx, nbfrags') = nbfrags - 1
           /\ \A f \in Frags : f # buf_idx => Ahead(buf_idx', f, nbfrags') = Dist(f) - 1
<1>1. nbfrags \in Nat /\ nbfrags >= 2 /\ Frags = 0..nbfrags - 1 /\ buf_idx \in 0..nbfrags - 1
  BY RingFacts
<1>2. NextIdx = (buf_idx + 1) % nbfrags /\ nbfrags' = nbfrags
  BY DEF NextIdx, nbfrags
<1> QED BY <1>1, <1>2, AheadNext DEF Dist

(* The fragments an item of the queue names.                               *)
LEMMA ItemFacts ==
    ASSUME RingType
    PROVE  /\ Len(dma) \in Nat
           /\ \A i \in 1..Len(dma) : dma[i][1] \in Frags /\ dma[i][2] \in 1..fragsize
<1>1. dma \in Seq(Frags \X (1..fragsize))
  BY DEF RingType
<1>2. Len(dma) \in Nat /\ \A i \in 1..Len(dma) : dma[i] \in Frags \X (1..fragsize)
  BY <1>1
<1> QED BY <1>2

(* The queue when its oldest item is taken away.                           *)
LEMMA TailIs ==
    ASSUME NEW T, NEW s \in Seq(T), s # <<>>
    PROVE  /\ Len(s) \in Nat /\ Len(s) >= 1 /\ Len(Tail(s)) = Len(s) - 1
           /\ \A i \in 1..Len(s) - 1 : Tail(s)[i] = s[i + 1] /\ i + 1 \in 1..Len(s)
           /\ 1 \in 1..Len(s) /\ Head(s) = s[1]
  OBVIOUS

(* Input speaks of the ring only.                                          *)
LEMMA InputSame ==
    ASSUME FifoInv, UNCHANGED <<file, shape, size, sem, buf_idx, dma>>
    PROVE  Input'
  BY DEF FifoInv, Input, Dist, nbfrags, fragsize, Frags

(* It holds of a ring without units and without requests.                  *)
LEMMA InputEmpty ==
    ASSUME dma' = <<>>, \A f \in Frags' : size'[f] = 0
    PROVE  Input'
  BY DEF Input

(* audio_dmain_done_callback fills the nearest fragment queued, behind all *)
(* that hold units.                                                        *)
LEMMA InputInDone ==
    ASSUME FifoInv, audio_dmain_done_callback
    PROVE  Input'
<1> DEFINE f == Head(dma)[1]
           L == Len(dma)
<1>1. /\ file = "read" /\ dma # <<>> /\ dma' = Tail(dma)
      /\ sem' = [sem EXCEPT ![f] = @ + 1] /\ size' = [size EXCEPT ![f] = Head(dma)[2]]
      /\ UNCHANGED <<file, shape, buf_idx>>
  BY DEF audio_dmain_done_callback
<1>2. /\ RingType /\ Queued
      /\ \A i \in 1..L : dma[i][2] = fragsize
      /\ \A i, j \in 1..L : i < j => Dist(dma[i][1]) < Dist(dma[j][1])
      /\ \A g \in Frags : size[g] > 0 => sem[g] = 1
      /\ \A g \in Frags, i \in 1..L : size[g] > 0 => Dist(g) < Dist(dma[i][1])
  BY <1>1 DEF FifoInv, AudioInv, Input
<1>3. /\ dma \in Seq(Frags \X (1..fragsize)) /\ size \in [Frags -> 0..fragsize]
      /\ sem \in [Frags -> {0, 1}]
  BY <1>2 DEF RingType
<1>4. /\ L \in Nat /\ L >= 1 /\ Len(dma') = L - 1
      /\ \A i \in 1..L - 1 : dma'[i] = dma[i + 1] /\ i + 1 \in 1..L
      /\ 1 \in 1..L /\ Head(dma) = dma[1]
  BY <1>1, <1>3, TailIs
<1>5. \A i \in 1..L : dma[i][1] \in Frags
  BY <1>2, ItemFacts
<1>6. f \in Frags /\ sem[f] = 0 /\ dma[1][1] = f
  BY <1>2, <1>4, <1>5 DEF Queued
<1> HIDE DEF f, L
<1>7. Frags' = Frags /\ fragsize' = fragsize
  BY <1>1 DEF nbfrags, Frags, fragsize
<1>8. \A g \in Frags : g # f => size'[g] = size[g] /\ sem'[g] = sem[g]
  BY <1>1, <1>3
<1>9. sem'[f] = 1
  BY <1>1, <1>3, <1>6
<1>10. ASSUME NEW i \in 1..L - 1
       PROVE  /\ dma'[i][2] = fragsize
              /\ dma'[i][1] = dma[i + 1][1] /\ dma'[i][1] \in Frags
              /\ Dist(f) < Dist(dma[i + 1][1])
  <2>1. dma'[i] = dma[i + 1] /\ i + 1 \in 1..L /\ 1 \in 1..L /\ 1 < i + 1
    BY <1>4
  <2> QED BY <1>2, <1>5, <1>6, <2>1
<1>11. ASSUME NEW i \in 1..L - 1, NEW j \in 1..L - 1, i < j
       PROVE  Dist(dma[i + 1][1]) < Dist(dma[j + 1][1])
  BY <1>2, <1>4, <1>11
<1>12. ASSUME NEW g \in Frags, NEW i \in 1..L - 1, size'[g] > 0
       PROVE  Dist(g) < Dist(dma[i + 1][1])
  BY <1>2, <1>4, <1>8, <1>10, <1>12
<1>13. \A g \in Frags : size'[g] > 0 => sem'[g] = 1
  BY <1>2, <1>8, <1>9
<1>14. /\ \A i \in 1..L - 1 : dma'[i][2] = fragsize'
       /\ \A i, j \in 1..L - 1 : i < j =>
              Ahead(buf_idx', dma'[i][1], nbfrags') < Ahead(buf_idx', dma'[j][1], nbfrags')
       /\ \A g \in Frags, i \in 1..L - 1 : size'[g] > 0 =>
              Ahead(buf_idx', g, nbfrags') < Ahead(buf_idx', dma'[i][1], nbfrags')
  <2>1. \A g \in Frags : Ahead(buf_idx', g, nbfrags') = Dist(g)
    BY <1>1 DEF Dist, nbfrags
  <2> QED BY <1>7, <1>10, <1>11, <1>12, <2>1
<1> QED BY <1>4, <1>7, <1>13, <1>14 DEF Input, Dist

(* read takes units out of the current fragment.                           *)
LEMMA InputReadPart ==
    ASSUME FifoInv, ReadPart
    PROVE  Input'
<1> DEFINE k == Chunk(count, size[buf_idx])
<1>1. /\ pc = "read" /\ size[buf_idx] > k /\ size' = [size EXCEPT ![buf_idx] = @ - k]
      /\ UNCHANGED <<file, shape, sem, buf_idx, dma>>
  BY DEF ReadPart, Give
<1>2. /\ size \in [Frags -> 0..fragsize] /\ buf_idx \in Frags /\ fragsize \in Nat
      /\ count \in 0..MaxCount /\ MaxCount \in Nat /\ size[buf_idx] \in 0..fragsize
  BY FragmentFacts DEF FifoInv, AudioInv, RingType
<1>3. k \in Nat
  <2>1. count \in Nat /\ size[buf_idx] \in Nat
    BY <1>2
  <2> QED BY <2>1, ChunkIs
<1> HIDE DEF k
<1>4. \A f \in Frags : size'[f] > 0 => size[f] > 0
  BY <1>1, <1>2, <1>3
<1>5. UNCHANGED <<nbfrags, fragsize, Frags>>
  BY <1>1 DEF nbfrags, fragsize, Frags
<1> QED BY <1>1, <1>4, <1>5 DEF FifoInv, Input, Dist

(* read empties the current fragment, which is queued as the farthest one, *)
(* or refused.                                                             *)
LEMMA InputReadAll ==
    ASSUME FifoInv, ReadAll
    PROVE  Input'
<1> DEFINE L == Len(dma)
           b == buf_idx
<1>1. /\ pc = "read" /\ sem[b] = 1 /\ size[b] = Chunk(count, size[b])
      /\ size' = [size EXCEPT ![b] = @ - Chunk(count, size[b])]
      /\ sem' = [sem EXCEPT ![b] = 0] /\ buf_idx' = NextIdx
      /\ dma' = Append(dma, <<b, fragsize>>) \/ dma' = dma
      /\ UNCHANGED <<file, shape>>
  BY DEF ReadAll, Give, Enqueue, Refuse
<1>2. /\ RingType /\ Queued /\ file = "read"
      /\ size \in [Frags -> 0..fragsize] /\ sem \in [Frags -> {0, 1}] /\ b \in Frags
      /\ dma \in Seq(Frags \X (1..fragsize))
  BY <1>1 DEF FifoInv, AudioInv, RingType, Phase
<1>3. /\ \A i \in 1..L : dma[i][2] = fragsize
      /\ \A i, j \in 1..L : i < j => Dist(dma[i][1]) < Dist(dma[j][1])
      /\ \A g \in Frags : size[g] > 0 => sem[g] = 1
      /\ \A g \in Frags, i \in 1..L : size[g] > 0 => Dist(g) < Dist(dma[i][1])
  BY <1>2 DEF FifoInv, Input
<1>4. /\ nbfrags \in Nat /\ nbfrags >= 2 /\ fragsize \in Nat
      /\ \A f \in Frags : Dist(f) \in 0..nbfrags - 1 /\ (Dist(f) = 0 <=> f = b)
  BY <1>2, RingFacts, DistFacts
<1>5. L \in Nat /\ \A i \in 1..L : dma[i][1] \in Frags /\ dma[i][1] # b
  BY <1>1, <1>2, ItemFacts DEF Queued
<1>6. size'[b] = 0 /\ \A f \in Frags : f # b => size'[f] = size[f] /\ sem'[f] = sem[f]
  BY <1>1, <1>2, <1>4
<1>7. UNCHANGED <<nbfrags, fragsize, Frags>>
  BY <1>1 DEF nbfrags, fragsize, Frags
<1>8. /\ Ahead(buf_idx', b, nbfrags') = nbfrags - 1
      /\ \A f \in Frags : f # b => Ahead(buf_idx', f, nbfrags') = Dist(f) - 1
  BY <1>1, <1>2, DistNext
<1> HIDE DEF L, b
<1>9. \A f \in Frags : f # b => Ahead(buf_idx', f, nbfrags') < nbfrags - 1
  BY <1>4, <1>8
<1>10. \A f, g \in Frags : f # b /\ g # b /\ Dist(f) < Dist(g) =>
           Ahead(buf_idx', f, nbfrags') < Ahead(buf_idx', g, nbfrags')
  BY <1>4, <1>8
<1>11. \A f \in Frags : size'[f] > 0 => f # b /\ size[f] > 0 /\ sem'[f] = 1
  BY <1>3, <1>6
<1>12. CASE dma' = dma
  <2>1. /\ \A i, j \in 1..L : i < j =>
               Ahead(buf_idx', dma[i][1], nbfrags') < Ahead(buf_idx', dma[j][1], nbfrags')
        /\ \A g \in Frags, i \in 1..L : size'[g] > 0 =>
               Ahead(buf_idx', g, nbfrags') < Ahead(buf_idx', dma[i][1], nbfrags')
    BY <1>3, <1>5, <1>10, <1>11
  <2> QED BY <1>3, <1>7, <1>11, <1>12, <2>1 DEF Input, Dist, L
<1>13. CASE dma' = Append(dma, <<b, fragsize>>)
  <2>1. /\ Len(dma') = L + 1 /\ \A i \in 1..L : dma'[i] = dma[i]
        /\ dma'[L + 1] = <<b, fragsize>>
    BY <1>2, <1>13 DEF L
  <2>2. dma'[L + 1][1] = b /\ dma'[L + 1][2] = fragsize
    BY <2>1
  <2>3. \A i \in 1..L + 1 : dma'[i][2] = fragsize
    BY <1>3, <1>5, <2>1, <2>2
  <2>4. ASSUME NEW i \in 1..L
        PROVE  /\ dma'[i][1] = dma[i][1] /\ dma[i][1] \in Frags /\ dma[i][1] # b
               /\ Ahead(buf_idx', dma[i][1], nbfrags') < nbfrags - 1
    BY <1>5, <1>9, <2>1
  <2>5. ASSUME NEW i \in 1..L + 1, NEW j \in 1..L + 1, i < j
        PROVE  Ahead(buf_idx', dma'[i][1], nbfrags') < Ahead(buf_idx', dma'[j][1], nbfrags')
    <3>1. i \in 1..L /\ (j \in 1..L \/ j = L + 1)
      BY <1>5, <2>5
    <3>2. CASE j \in 1..L
      BY <1>3, <1>10, <2>4, <2>5, <3>1, <3>2
    <3>3. CASE j = L + 1
      BY <1>8, <2>2, <2>4, <3>1, <3>3
    <3> QED BY <3>1, <3>2, <3>3
  <2>6. ASSUME NEW g \in Frags, NEW i \in 1..L + 1, size'[g] > 0
        PROVE  Ahead(buf_idx', g, nbfrags') < Ahead(buf_idx', dma'[i][1], nbfrags')
    <3>1. g # b /\ size[g] > 0 /\ (i \in 1..L \/ i = L + 1)
      BY <1>5, <1>11, <2>6
    <3>2. CASE i \in 1..L
      BY <1>3, <1>10, <2>4, <3>1, <3>2
    <3>3. CASE i = L + 1
      BY <1>8, <1>9, <2>2, <3>1, <3>3
    <3> QED BY <3>1, <3>2, <3>3
  <2> QED BY <1>7, <1>11, <2>1, <2>3, <2>5, <2>6 DEF Input, Dist
<1> QED BY <1>1, <1>12, <1>13 DEF b

(* The first read queues fragments in the order of the ring, from 0 on.    *)
LEMMA InputRead ==
    ASSUME FifoInv, Read
    PROVE  Input'
<1>1. CASE buffers
  <2>1. UNCHANGED <<file, ringVars>>
    BY <1>1 DEF Read
  <2> QED BY <2>1, InputSame DEF ringVars
<1>2. CASE ~buffers
  <2>1. /\ UNCHANGED <<shape, size, mem, buf_idx>>
        /\ QueueAll \/ QueueSome
    BY <1>2 DEF Read
  <2>2. /\ buf_idx = 0 /\ size = [f \in Frags |-> 0] /\ nbfrags \in Nat
    BY <1>2, RingFacts DEF FifoInv, AudioInv, Phase
  <2>3. UNCHANGED <<nbfrags, fragsize, Frags>>
    BY <2>1 DEF nbfrags, fragsize, Frags
  <2>4. PICK n \in Nat : \E p \in [1..n -> Frags] :
            /\ \A i, j \in 1..n : i < j => p[i] < p[j]
            /\ dma' = [i \in 1..n |-> <<p[i], fragsize>>]
    <3>1. CASE QueueAll
      <4> DEFINE a == [i \in 1..nbfrags |-> i - 1]
      <4>1. a \in [1..nbfrags -> Frags] /\ \A i, j \in 1..nbfrags : i < j => a[i] < a[j]
        BY <2>2 DEF Frags
      <4>2. dma' = [i \in 1..nbfrags |-> <<a[i], fragsize>>]
        BY <3>1 DEF QueueAll
      <4> HIDE DEF a
      <4> QED BY <2>2, <4>1, <4>2
    <3>2. CASE QueueSome
      BY <2>2, <3>2 DEF QueueSome
    <3> QED BY <2>1, <3>1, <3>2
  <2>5. PICK q \in [1..n -> Frags] :
            /\ \A i, j \in 1..n : i < j => q[i] < q[j]
            /\ dma' = [i \in 1..n |-> <<q[i], fragsize>>]
    BY <2>4
  <2>6. Len(dma') = n /\ \A i \in 1..n : dma'[i][1] = q[i] /\ dma'[i][2] = fragsize
    BY <2>5
  <2>7. \A f \in Frags : Ahead(buf_idx', f, nbfrags') = f
    BY <2>1, <2>2, <2>3 DEF Ahead, Frags
  <2>8. \A f \in Frags : size'[f] = 0
    BY <2>1, <2>2
  <2>9. \A i, j \in 1..n : i < j =>
            Ahead(buf_idx', dma'[i][1], nbfrags') < Ahead(buf_idx', dma'[j][1], nbfrags')
    BY <2>6, <2>7, <2>5
  <2> QED BY <2>3, <2>6, <2>8, <2>9 DEF Input, Dist
<1> QED BY <1>1, <1>2

(* Every step preserves Input.                                             *)
LEMMA InputStep ==
    ASSUME FifoInv, [Next]_vars
    PROVE  Input'
<1>0. RingType /\ Phase
  BY DEF FifoInv, AudioInv
<1>1. CASE UNCHANGED <<file, ringVars>>
  BY <1>1, InputSame DEF ringVars
<1>2. ASSUME NEW sh \in Shapes, NEW a \in BOOLEAN, Ring(a, sh)
      PROVE  Input'
  BY <1>2, EmptyRing, InputEmpty
<1>3. CASE file' = "write"
  BY <1>3 DEF Input
<1>4. shape \in Shapes /\ Default \in Shapes
  BY <1>0, AudioAssumption DEF RingType
<1>5. CASE UNCHANGED vars
  BY <1>1, <1>5 DEF vars
<1>6. CASE Callback
  BY <1>3, <1>6, InputInDone DEF Callback, audio_dmaout_done_callback
<1>7. CASE Call
  <2>1. CASE \E m \in {"write", "read"} : Open(m)
    BY <1>2, <1>4, <2>1 DEF Open
  <2>2. CASE SetFragment
    BY <1>2, <2>2 DEF SetFragment, audio_setup_buf, SetupFails
  <2>3. CASE Reset
    BY <1>2, <1>4, <2>3 DEF Reset, audio_clear_buf
  <2>4. CASE Write
    BY <1>3, <2>4 DEF Write
  <2>5. CASE Poll
    BY <1>1, <1>2, <1>4, <2>5 DEF Poll, audio_setup_buf
  <2>6. CASE SetNonBlock \/ Sync
    BY <1>1, <2>6 DEF SetNonBlock, Sync
  <2> QED BY <1>7, <2>1, <2>2, <2>3, <2>4, <2>5, <2>6, InputRead DEF Call
<1>8. CASE SyncEnds
  BY <1>1, <1>2, <1>4, <1>8 DEF SyncEnds, SyncReturns, Release, audio_clear_buf
<1>9. CASE SyncNoPart \/ AwaitPrevious \/ PollAgain \/ CopyFails \/ PollEnds \/ Interrupted
  BY <1>1, <1>9 DEF SyncNoPart, AwaitPrevious, PollAgain, CopyFails, PollEnds, Interrupted
<1>10. CASE WritePart \/ WriteFull \/ WriteRefused \/ SyncPart
  BY <1>0, <1>3, <1>10 DEF WritePart, WriteFull, WriteRefused, SyncPart, Phase
<1> QED BY <1>5, <1>6, <1>7, <1>8, <1>9, <1>10, InputReadPart, InputReadAll
        DEF Next, Running, Fault

(* The inductive invariant of the refinement.                              *)
THEOREM FifoInvariant == Spec => []FifoInv
<1>1. Init => FifoInv
  <2> SUFFICES ASSUME Init PROVE FifoInv
    OBVIOUS
  <2>1. file = "closed"
    BY DEF Init
  <2> QED BY <2>1, AudioInit DEF FifoInv, Input
<1>2. FifoInv /\ [Next]_vars => FifoInv'
  <2> SUFFICES ASSUME FifoInv, [Next]_vars PROVE FifoInv'
    OBVIOUS
  <2>1. AudioInv'
    BY AudioStep DEF FifoInv
  <2>2. Input'
    BY InputStep
  <2> QED BY <2>1, <2>2 DEF FifoInv
<1> QED BY <1>1, <1>2, PTL DEF Spec

-------------------------------------------------------------------------------
(* The blocks of which the queue is made.                                  *)
OutBlocks == [i \in 1..Len(dma) |-> SubSeq(mem[dma[i][1]], 1, dma[i][2])]
Left(f) == SubSeq(mem[f], fragsize - size[f] + 1, fragsize)
InBlocks == [i \in 1..nbfrags |-> Left((buf_idx + i - 1) % nbfrags)]

QueueFacts ==
    /\ OutBlocks \in Seq(Seq(Unit)) /\ Len(OutBlocks) = Len(dma)
    /\ InBlocks \in Seq(Seq(Unit)) /\ Len(InBlocks) = nbfrags
    /\ \A f \in Frags : InBlocks[Dist(f) + 1] = Left(f) /\ Left(f) \in Seq(Unit)
    /\ SubSeq(mem[buf_idx], 1, size[buf_idx]) \in Seq(Unit)
    /\ Playing = FlattenSeq(OutBlocks) \o SubSeq(mem[buf_idx], 1, size[buf_idx])
    /\ Recorded = FlattenSeq(InBlocks)
    /\ Queue \in Seq(Unit)

(* The queue is the concatenation of the blocks; the block of a fragment   *)
(* of an input stream is at its distance.                                  *)
LEMMA QueueIs ==
    ASSUME RingType
    PROVE  QueueFacts
<1>1. /\ nbfrags \in Nat /\ nbfrags >= 2 /\ fragsize \in Nat /\ Frags = 0..nbfrags - 1
      /\ buf_idx \in Frags /\ mem \in [Frags -> [1..fragsize -> Unit]]
      /\ size \in [Frags -> 0..fragsize] /\ Len(dma) \in Nat
  BY RingFacts, ItemFacts DEF RingType, Contents
<1>2. ASSUME NEW f \in Frags, NEW j \in 0..fragsize
      PROVE  SubSeq(mem[f], 1, j) \in Seq(Unit)
  <2>1. mem[f] \in [1..fragsize -> Unit] /\ 1 \in 1..fragsize + 1
    BY <1>1
  <2> QED BY <1>1, <2>1, PartType
<1>3. ASSUME NEW f \in Frags
      PROVE  Left(f) \in Seq(Unit)
  <2>1. mem[f] \in [1..fragsize -> Unit] /\ size[f] \in 0..fragsize
    BY <1>1
  <2>2. fragsize - size[f] + 1 \in 1..fragsize + 1 /\ fragsize \in 0..fragsize
    BY <1>1, <2>1
  <2> QED BY <1>1, <2>1, <2>2, PartType DEF Left
<1>4. ASSUME NEW i \in 1..Len(dma)
      PROVE  SubSeq(mem[dma[i][1]], 1, dma[i][2]) \in Seq(Unit)
  <2>1. dma[i][1] \in Frags /\ dma[i][2] \in 0..fragsize
    BY <1>1, ItemFacts
  <2> QED BY <1>2, <2>1
<1>5. OutBlocks \in Seq(Seq(Unit)) /\ Len(OutBlocks) = Len(dma)
  BY <1>1, <1>4 DEF OutBlocks
<1>6. ASSUME NEW i \in 1..nbfrags
      PROVE  (buf_idx + i - 1) % nbfrags \in Frags
  BY <1>1
<1>7. InBlocks \in Seq(Seq(Unit)) /\ Len(InBlocks) = nbfrags
  BY <1>1, <1>3, <1>6 DEF InBlocks
<1>8. ASSUME NEW f \in Frags
      PROVE  InBlocks[Dist(f) + 1] = Left(f)
  <2>1. Dist(f) \in 0..nbfrags - 1
    BY DistFacts
  <2>2. Dist(f) + 1 \in 1..nbfrags /\ buf_idx + (Dist(f) + 1) - 1 = buf_idx + Dist(f)
    BY <1>1, <2>1
  <2>3. (buf_idx + Dist(f)) % nbfrags = f
    BY <1>1, AheadIs DEF Dist
  <2> QED BY <2>2, <2>3 DEF InBlocks
<1>9. SubSeq(mem[buf_idx], 1, size[buf_idx]) \in Seq(Unit)
  BY <1>1, <1>2
<1>10. /\ Playing = FlattenSeq(OutBlocks) \o SubSeq(mem[buf_idx], 1, size[buf_idx])
       /\ Recorded = FlattenSeq(InBlocks)
  BY DEF Playing, Recorded, OutBlocks, InBlocks, Left
<1>11. Queue \in Seq(Unit)
  <2>1. <<>> \in Seq(Unit)
    OBVIOUS
  <2>2. FlattenSeq(OutBlocks) \in Seq(Unit) /\ FlattenSeq(InBlocks) \in Seq(Unit)
    BY <1>5, <1>7, <2>1, FlattenAppend
  <2>3. Playing \in Seq(Unit) /\ Recorded \in Seq(Unit)
    BY <1>9, <1>10, <2>2
  <2> QED BY <2>3 DEF Queue
<1> QED BY <1>3, <1>5, <1>7, <1>8, <1>9, <1>10, <1>11 DEF QueueFacts

(* The same in the next state.                                             *)
LEMMA QueueNext == RingType' => QueueFacts'
<1>1. RingType => QueueFacts
  BY QueueIs
<1> QED BY <1>1, PTL

Empty == RingType /\ dma = <<>> /\ \A f \in Frags : size[f] = 0

(* A ring without units is an empty queue.                                 *)
LEMMA QueueEmpty == Empty => Queue = <<>>
<1> SUFFICES ASSUME RingType, dma = <<>>, \A f \in Frags : size[f] = 0
             PROVE  Queue = <<>>
  BY DEF Empty
<1>1. /\ nbfrags \in Nat /\ nbfrags >= 2 /\ fragsize \in Nat /\ Frags = 0..nbfrags - 1
      /\ buf_idx \in Frags /\ mem \in [Frags -> [1..fragsize -> Unit]]
  BY RingFacts DEF RingType, Contents
<1>2. \A f \in Frags : mem[f] \in Seq(Unit)
  BY <1>1
<1>3. Playing = <<>>
  <2>1. OutBlocks \in Seq(Seq(Unit)) /\ Len(OutBlocks) = 0
    BY QueueIs DEF QueueFacts
  <2>2. OutBlocks = <<>>
    BY <2>1
  <2>3. SubSeq(mem[buf_idx], 1, size[buf_idx]) = <<>>
    BY <1>1, <1>2, SubSeqEmpty
  <2>4. <<>> \in Seq(Unit) /\ <<>> \o <<>> = <<>>
    BY ConcatEmptySeq
  <2> QED BY <2>2, <2>3, <2>4, FlattenEmpty, QueueIs DEF QueueFacts
<1>4. Recorded = <<>>
  <2>1. PICK s \in Seq(Seq(Unit)) : s = InBlocks
    BY QueueIs DEF QueueFacts
  <2>2. ASSUME NEW i \in 1..Len(s)
        PROVE  s[i] = <<>>
    <3>1. i \in 1..nbfrags /\ (buf_idx + i - 1) % nbfrags \in Frags
      BY <1>1, <2>1, QueueIs DEF QueueFacts
    <3>2. PICK f \in Frags : f = (buf_idx + i - 1) % nbfrags
      BY <3>1
    <3>3. s[i] = SubSeq(mem[f], fragsize - size[f] + 1, fragsize)
      BY <2>1, <3>1, <3>2 DEF InBlocks, Left
    <3>4. fragsize - size[f] + 1 = fragsize + 1 /\ mem[f] \in Seq(Unit)
      BY <1>1, <1>2
    <3>5. SubSeq(mem[f], fragsize + 1, fragsize) = <<>>
      BY <1>1, <3>4, SubSeqEmpty
    <3> QED BY <3>3, <3>4, <3>5
  <2>3. 0 \in Nat /\ 0 <= Len(s) /\ SubSeq(s, 1, 0) = <<>>
    BY SubSeqEmpty
  <2>4. FlattenSeq(s) = FlattenSeq(SubSeq(s, 1, 0))
    BY <2>2, <2>3, FlattenTrail
  <2> QED BY <2>1, <2>3, <2>4, FlattenEmpty, QueueIs DEF QueueFacts
<1> QED BY <1>3, <1>4 DEF Queue

(* The queue depends on these variables only.                              *)
LEMMA QueueSame ==
    ASSUME UNCHANGED <<file, shape, size, mem, buf_idx, dma>>
    PROVE  Queue' = Queue
  BY DEF Queue, Playing, Recorded, nbfrags, fragsize

(* audio_setup_buf and audio_clear_buf clear the queue.                    *)
LEMMA QueueCleared ==
    ASSUME NEW sh \in Shapes, NEW a \in BOOLEAN, Ring(a, sh), UNCHANGED moved
    PROVE  FifoStep
<1>1. Empty'
  BY EmptyRing DEF Empty
<1>2. (Queue = <<>>)'
  BY <1>1, QueueEmpty, PTL
<1>3. failed' = FALSE
  BY DEF Ring
<1> QED BY <1>2, <1>3 DEF FifoStep, Fifo!Next, Fifo!Clear

(* audio_dmaout_done_callback: the first block was played, and leaves.     *)
LEMMA OutDoneFifo ==
    ASSUME FifoInv, RingType', audio_dmaout_done_callback
    PROVE  FifoStep
<1>1. /\ file = "write" /\ dma # <<>> /\ dma' = Tail(dma)
      /\ moved' = SubSeq(mem[Head(dma)[1]], 1, Head(dma)[2])
      /\ UNCHANGED <<file, shape, size, mem, buf_idx, failed>>
  BY DEF audio_dmaout_done_callback
<1>2. /\ RingType /\ QueueFacts /\ QueueFacts' /\ mem \in [Frags -> [1..fragsize -> Unit]]
      /\ fragsize \in Nat /\ dma \in Seq(Frags \X (1..fragsize))
  BY QueueIs, QueueNext, RingFacts DEF FifoInv, AudioInv, RingType, Contents
<1>3. PICK s \in Seq(Seq(Unit)) : s = OutBlocks
  BY <1>2 DEF QueueFacts
<1>4. PICK c \in Seq(Unit) : c = SubSeq(mem[buf_idx], 1, size[buf_idx])
  BY <1>2 DEF QueueFacts
<1>5. Len(s) = Len(dma) /\ Len(dma) \in Nat /\ Len(dma) >= 1 /\ Len(dma') = Len(dma) - 1
      /\ \A i \in 1..Len(dma) - 1 : dma'[i] = dma[i + 1] /\ i + 1 \in 1..Len(dma)
      /\ 1 \in 1..Len(dma) /\ Head(dma) = dma[1]
  BY <1>1, <1>2, <1>3, TailIs DEF QueueFacts
<1>6. s[1] = moved' /\ moved' # <<>>
  <2>1. s[1] = SubSeq(mem[dma[1][1]], 1, dma[1][2])
    BY <1>3, <1>5 DEF OutBlocks
  <2>2. dma[1][1] \in Frags /\ dma[1][2] \in 1..fragsize
    BY <1>2, <1>5, ItemFacts
  <2>3. PICK m \in [1..fragsize -> Unit] : m = mem[dma[1][1]]
    BY <1>2, <2>2
  <2>4. m \in Seq(Unit) /\ Len(m) = fragsize
    BY <1>2
  <2>5. PICK l \in 1..fragsize : l = dma[1][2]
    BY <2>2
  <2>6. Len(SubSeq(m, 1, l)) = l /\ l # 0
    BY <1>2, <2>4
  <2>7. SubSeq(m, 1, l) # <<>>
    BY <2>6
  <2>8. moved' = SubSeq(mem[dma[1][1]], 1, dma[1][2])
    <3>1. PICK h : h = Head(dma)
      OBVIOUS
    <3>2. moved' = SubSeq(mem[h[1]], 1, h[2])
      BY <1>1, <3>1
    <3>3. h = dma[1]
      BY <1>5, <3>1
    <3> QED BY <3>2, <3>3
  <2> QED BY <2>1, <2>3, <2>5, <2>7, <2>8
<1>7. s # <<>>
  BY <1>5
<1>8. OutBlocks' = Tail(s)
  <2>1. PICK t \in Seq(Seq(Unit)) : t = OutBlocks'
    BY <1>2 DEF QueueFacts
  <2>2. PICK r \in Seq(Seq(Unit)) : r = Tail(s)
    BY <1>7, HeadTailProperties
  <2>3. Len(t) = Len(s) - 1 /\ Len(r) = Len(s) - 1 /\ \A i \in 1..Len(s) - 1 : r[i] = s[i + 1]
    BY <1>2, <1>5, <2>1, <2>2 DEF QueueFacts
  <2>4. ASSUME NEW i \in 1..Len(s) - 1
        PROVE  t[i] = s[i + 1]
    <3>1. i \in 1..Len(dma') /\ i + 1 \in 1..Len(dma) /\ dma'[i] = dma[i + 1]
      BY <1>5
    <3>2. t[i] = SubSeq(mem'[dma'[i][1]], 1, dma'[i][2])
      BY <2>1, <3>1 DEF OutBlocks
    <3>3. s[i + 1] = SubSeq(mem[dma[i + 1][1]], 1, dma[i + 1][2])
      BY <1>3, <3>1 DEF OutBlocks
    <3> QED BY <1>1, <3>1, <3>2, <3>3
  <2>5. \A i \in 1..Len(t) : t[i] = r[i]
    BY <2>3, <2>4
  <2>6. t = r
    BY <2>3, <2>5, SeqEqual
  <2> QED BY <2>1, <2>2, <2>6
<1>9. PICK r \in Seq(Unit) : r = FlattenSeq(Tail(s))
  BY <1>7, FlattenFirst
<1>10. FlattenSeq(s) = s[1] \o r /\ s[1] \in Seq(Unit)
  BY <1>7, <1>9, FlattenFirst
<1>11. Queue = FlattenSeq(s) \o c /\ Queue' = r \o c
  BY <1>1, <1>2, <1>3, <1>4, <1>8, <1>9 DEF QueueFacts, Queue
<1>12. PICK x \in Seq(Unit) : x = s[1]
  BY <1>10
<1>13. (x \o r) \o c = x \o (r \o c) /\ r \o c \in Seq(Unit)
  BY UnitAssoc, ConcatProperties
<1>14. Queue = x \o (r \o c)
  BY <1>10, <1>11, <1>12, <1>13
<1>15. PICK y \in Seq(Unit) : y = r \o c
  BY <1>13
<1>16. failed => failed'
  BY <1>1
<1> QED BY <1>6, <1>11, <1>12, <1>14, <1>15, <1>16, GetStep

(* What fills a fragment behind what is already in it.                     *)
Filled(n, c, x, s, k, d) ==
    /\ n \in Nat /\ s \in Nat /\ k \in Nat /\ k <= Len(x) /\ s + k <= n
    /\ c \in [1..n -> Unit] /\ d \in [1..n -> Unit] /\ x \in Seq(Unit)
    /\ \A i \in 1..n : d[i] = IF i > s /\ i <= s + k THEN x[i - s] ELSE c[i]

Longer(c, x, s, k, d) == /\ SubSeq(x, 1, k) \in Seq(Unit)
                         /\ SubSeq(d, 1, s + k) = SubSeq(c, 1, s) \o SubSeq(x, 1, k)

(* A fragment that is filled holds what it held and then what was copied.  *)
LEMMA FillIs == \A n, c, x, s, k, d : Filled(n, c, x, s, k, d) => Longer(c, x, s, k, d)
<1> SUFFICES ASSUME NEW n, NEW c, NEW x, NEW s, NEW k, NEW d, Filled(n, c, x, s, k, d)
             PROVE  Longer(c, x, s, k, d)
  OBVIOUS
<1>0. /\ n \in Nat /\ s \in Nat /\ k \in Nat /\ k <= Len(x) /\ s + k <= n
      /\ c \in [1..n -> Unit] /\ d \in [1..n -> Unit] /\ x \in Seq(Unit)
      /\ \A i \in 1..n : d[i] = IF i > s /\ i <= s + k THEN x[i - s] ELSE c[i]
  BY DEF Filled
<1> USE <1>0
<1>1. c \in Seq(Unit) /\ Len(c) = n /\ d \in Seq(Unit) /\ Len(d) = n
  OBVIOUS
<1>2. PICK p : p = SubSeq(c, 1, s)
  OBVIOUS
<1>3. PICK q : q = SubSeq(x, 1, k)
  OBVIOUS
<1>4. PICK e : e = SubSeq(d, 1, s + k)
  OBVIOUS
<1>5. p \in Seq(Unit) /\ Len(p) = s /\ \A i \in 1..s : p[i] = c[i]
  BY <1>1, <1>2
<1>6. q \in Seq(Unit) /\ Len(q) = k /\ \A i \in 1..k : q[i] = x[i]
  BY <1>3
<1>7. e \in Seq(Unit) /\ Len(e) = s + k /\ \A i \in 1..s + k : e[i] = d[i]
  BY <1>1, <1>4
<1>8. PICK r : r = p \o q
  OBVIOUS
<1>9. /\ r \in Seq(Unit) /\ Len(r) = s + k
      /\ \A i \in 1..s + k : r[i] = IF i <= s THEN p[i] ELSE q[i - s]
  <2>1. /\ r \in Seq(Unit) /\ Len(r) = Len(p) + Len(q)
        /\ \A i \in 1..Len(p) + Len(q) : r[i] = IF i <= Len(p) THEN p[i] ELSE q[i - Len(p)]
    BY <1>5, <1>6, <1>8, ConcatProperties, Zenon
  <2> QED BY <1>5, <1>6, <2>1
<1>10. ASSUME NEW i \in 1..s + k
       PROVE  e[i] = r[i]
  <2>1. i \in 1..n
    OBVIOUS
  <2>2. CASE i <= s
    BY <1>5, <1>7, <1>9, <2>1, <2>2
  <2>3. CASE i > s
    <3>1. i - s \in 1..k /\ ~(i <= s) /\ i <= s + k
      BY <2>3
    <3> QED BY <1>6, <1>7, <1>9, <2>1, <2>3, <3>1
  <2> QED BY <2>2, <2>3
<1>11. e = r
  BY <1>7, <1>9, <1>10, SeqEqual
<1> QED BY <1>2, <1>3, <1>4, <1>6, <1>8, <1>11 DEF Longer

(* The current fragment gets new content d, of which the first m units     *)
(* count, and stays the current one or is queued.                          *)
Kept(m) == dma' = dma /\ buf_idx' = buf_idx /\ size'[buf_idx] = m
Sent(m) == /\ dma' = Append(dma, <<buf_idx, m>>)
           /\ buf_idx' \in Frags /\ size'[buf_idx'] = 0

(* Writing to the current fragment does not touch the fragments queued.    *)
LEMMA BlocksOut ==
    ASSUME FifoInv, RingType', sem[buf_idx] = 1, UNCHANGED shape,
           NEW d \in Contents, mem' = [mem EXCEPT ![buf_idx] = d]
    PROVE  /\ dma' = dma => OutBlocks' = OutBlocks
           /\ \A m \in 0..fragsize : dma' = Append(dma, <<buf_idx, m>>) =>
                  OutBlocks' = Append(OutBlocks, SubSeq(d, 1, m))
<1>1. /\ RingType /\ QueueFacts /\ QueueFacts' /\ Queued
      /\ mem \in [Frags -> [1..fragsize -> Unit]] /\ buf_idx \in Frags
      /\ fragsize \in Nat /\ dma \in Seq(Frags \X (1..fragsize))
  BY QueueIs, QueueNext, RingFacts DEF FifoInv, AudioInv, RingType, Contents
<1>2. PICK L \in Nat : L = Len(dma)
  BY <1>1
<1>3. \A i \in 1..L : dma[i][1] \in Frags /\ dma[i][1] # buf_idx
  <2>1. \A i \in 1..L : dma[i][1] \in Frags
    BY <1>1, <1>2, ItemFacts
  <2>2. \A i \in 1..L : sem[dma[i][1]] = 0
    BY <1>1, <1>2 DEF Queued
  <2> QED BY <2>1, <2>2
<1>4. \A i \in 1..L : mem'[dma[i][1]] = mem[dma[i][1]]
  BY <1>1, <1>3
<1>5. mem'[buf_idx] = d
  BY <1>1
<1>6. ASSUME dma' = dma
      PROVE  OutBlocks' = OutBlocks
  <2>1. \A i \in 1..Len(dma) : SubSeq(mem'[dma[i][1]], 1, dma[i][2]) =
                                SubSeq(mem[dma[i][1]], 1, dma[i][2])
    BY <1>2, <1>4
  <2> QED BY <1>6, <2>1 DEF OutBlocks
<1>7. ASSUME NEW m \in 0..fragsize, dma' = Append(dma, <<buf_idx, m>>)
      PROVE  OutBlocks' = Append(OutBlocks, SubSeq(d, 1, m))
  <2>1. PICK s \in Seq(Seq(Unit)) : s = OutBlocks
    BY <1>1 DEF QueueFacts
  <2>2. PICK t \in Seq(Seq(Unit)) : t = OutBlocks'
    BY <1>1 DEF QueueFacts
  <2>3. /\ Len(dma') = L + 1 /\ \A i \in 1..L : dma'[i] = dma[i]
        /\ dma'[L + 1] = <<buf_idx, m>>
    BY <1>1, <1>2, <1>7
  <2>4. PICK x : x = SubSeq(d, 1, m)
    OBVIOUS
  <2>5. d \in [1..fragsize -> Unit] /\ 1 \in 1..fragsize + 1
    BY <1>1 DEF Contents
  <2>6. x \in Seq(Unit)
    BY <1>1, <2>4, <2>5, PartType
  <2>7. PICK r \in Seq(Seq(Unit)) : r = Append(s, x)
    BY <2>6, AppendProperties
  <2>8. Len(s) = L /\ Len(t) = L + 1
    BY <1>1, <1>2, <2>1, <2>2, <2>3 DEF QueueFacts
  <2>9. /\ Len(s) = L /\ Len(t) = L + 1 /\ Len(r) = L + 1
        /\ r[L + 1] = x /\ \A i \in 1..L : r[i] = s[i]
    BY <2>6, <2>7, <2>8, AppendProperties
  <2>10. ASSUME NEW i \in 1..L + 1
        PROVE  t[i] = r[i]
    <3>1. t[i] = SubSeq(mem'[dma'[i][1]], 1, dma'[i][2])
      BY <2>2, <2>3 DEF OutBlocks
    <3>2. CASE i \in 1..L
      <4>1. s[i] = SubSeq(mem[dma[i][1]], 1, dma[i][2])
        BY <1>2, <2>1, <3>2 DEF OutBlocks
      <4> QED BY <1>4, <2>3, <2>9, <3>1, <3>2, <4>1
    <3>3. CASE i = L + 1
      <4>1. dma'[i][1] = buf_idx /\ dma'[i][2] = m
        BY <2>3, <3>3
      <4> QED BY <1>5, <2>4, <2>9, <3>1, <3>3, <4>1
    <3> QED BY <3>2, <3>3
  <2>11. t = r
    BY <2>9, <2>10, SeqEqual
  <2> QED BY <2>1, <2>2, <2>4, <2>7, <2>11
<1> QED BY <1>6, <1>7

(* Units written behind those of the current fragment enter at the end of  *)
(* the queue.                                                              *)
LEMMA OutPut ==
    ASSUME FifoInv, RingType', sem[buf_idx] = 1, file = "write", UNCHANGED <<file, shape, moved>>,
           failed => failed',
           NEW d \in Contents, mem' = [mem EXCEPT ![buf_idx] = d],
           NEW c \in Seq(Unit), NEW m \in 0..fragsize,
           SubSeq(d, 1, m) = SubSeq(mem[buf_idx], 1, size[buf_idx]) \o c,
           Kept(m) \/ Sent(m)
    PROVE  FifoStep
<1>1. /\ RingType /\ QueueFacts /\ QueueFacts' /\ mem \in [Frags -> Contents] /\ buf_idx \in Frags
      /\ mem' \in [Frags -> Contents] /\ fragsize \in Nat
      /\ failed \in BOOLEAN /\ failed' \in BOOLEAN
  BY QueueIs, QueueNext, RingFacts
     DEF FifoInv, AudioInv, RingType, Contents, Frags, nbfrags, fragsize
<1>2. PICK s \in Seq(Seq(Unit)) : s = OutBlocks
  BY <1>1 DEF QueueFacts
<1>3. PICK a \in Seq(Unit) : a = SubSeq(mem[buf_idx], 1, size[buf_idx])
  BY <1>1 DEF QueueFacts
<1>4. PICK x \in Seq(Unit) : x = a \o c
  BY ConcatProperties
<1>5. SubSeq(d, 1, m) = x
  BY <1>3, <1>4
<1>6. PICK q \in Seq(Unit) : q = FlattenSeq(s)
  BY <1>4, FlattenAppend
<1>7. Queue = q \o a /\ Queue \in Seq(Unit)
  BY <1>1, <1>2, <1>3, <1>6 DEF QueueFacts, Queue
<1>8. (q \o a) \o c = q \o x
  <2>1. (q \o a) \o c = q \o (a \o c)
    BY UnitAssoc
  <2> QED BY <1>4, <2>1
<1>9. Queue' = q \o x
  <2>1. CASE Kept(m)
    <3>1. OutBlocks' = s
      BY <1>2, <2>1, BlocksOut DEF Kept
    <3>2. mem'[buf_idx'] = d /\ size'[buf_idx'] = m
      BY <1>1, <2>1 DEF Kept
    <3> QED BY <1>1, <1>5, <1>6, <3>1, <3>2 DEF QueueFacts, Queue
  <2>2. CASE Sent(m)
    <3>1. OutBlocks' = Append(s, x)
      BY <1>2, <1>5, <2>2, BlocksOut DEF Sent
    <3>2. FlattenSeq(Append(s, x)) = q \o x
      BY <1>6, FlattenAppend
    <3>3. buf_idx' \in Frags /\ size'[buf_idx'] = 0
      BY <2>2 DEF Sent
    <3>4. mem'[buf_idx'] \in Seq(Unit)
      BY <1>1, <3>3 DEF Contents
    <3>5. SubSeq(mem'[buf_idx'], 1, size'[buf_idx']) = <<>>
      BY <3>3, <3>4, SubSeqEmpty
    <3>6. (q \o x) \o <<>> = q \o x
      BY ConcatProperties, ConcatEmptySeq
    <3> QED BY <1>1, <3>1, <3>2, <3>5, <3>6 DEF QueueFacts, Queue
  <2> QED BY <2>1, <2>2
<1> QED BY <1>1, <1>7, <1>8, <1>9, PutStep

(* smdk2410_audio_write puts what it takes from the user.                  *)
LEMMA WriteFifo ==
    ASSUME FifoInv, RingType', WritePart \/ WriteFull \/ WriteRefused
    PROVE  FifoStep
<1>1. /\ AudioInv /\ fragsize \in Nat /\ fragsize >= 1 /\ buf_idx \in Frags
      /\ size[buf_idx] \in 0..fragsize /\ mem[buf_idx] \in [1..fragsize -> Unit]
      /\ data \in Seq(Unit) /\ Len(data) \in Nat
      /\ size \in [Frags -> 0..fragsize] /\ mem \in [Frags -> Contents]
  BY FragmentFacts DEF FifoInv, AudioInv, RingType
<1>2. PICK s \in Nat : s = size[buf_idx]
  BY <1>1
<1>3. fragsize - s \in Nat
  BY <1>1, <1>2
<1>4. PICK k \in Nat : k = Chunk(Len(data), fragsize - s) /\ k <= Len(data) /\ k <= fragsize - s
  BY <1>1, <1>3, ChunkIs
<1>5. PICK m \in 0..fragsize : m = s + k
  BY <1>1, <1>3, <1>4
<1>6. /\ pc = "write" /\ sem[buf_idx] = 1 /\ UNCHANGED <<file, shape, moved>>
      /\ WriteFull \/ WriteRefused => m = fragsize
      /\ failed => failed'
  BY <1>2, <1>4, <1>5 DEF WritePart, WriteFull, WriteRefused, Enqueue, Refuse
<1>7. file = "write"
  BY <1>1, <1>6 DEF AudioInv, Phase
<1> DEFINE D == [i \in 1..fragsize |-> IF i > s /\ i <= s + k THEN data[i - s]
                                                               ELSE mem[buf_idx][i]]
<1>8. mem' = [mem EXCEPT ![buf_idx] = D]
  <2>1. CASE WritePart \/ WriteFull
    BY <1>2, <1>4, <2>1 DEF WritePart, WriteFull, Fill
  <2>2. CASE WriteRefused
    <3>1. s + k = fragsize
      BY <1>5, <1>6, <2>2
    <3>2. D = [i \in 1..fragsize |-> IF i > s THEN data[i - s] ELSE mem[buf_idx][i]]
      BY <1>1, <3>1
    <3> HIDE DEF D
    <3> QED BY <1>2, <2>2, <3>2 DEF WriteRefused
  <2> QED BY <2>1, <2>2
<1>9. D \in [1..fragsize -> Unit]
  <2>1. ASSUME NEW i \in 1..fragsize, i > s /\ i <= s + k
        PROVE  data[i - s] \in Unit
    <3>1. i - s \in 1..Len(data)
      BY <1>1, <1>4, <2>1
    <3> QED BY <1>1, <3>1
  <2> QED BY <1>1, <2>1
<1>10. PICK d \in [1..fragsize -> Unit] : d = D
  BY <1>9
<1>11. \A i \in 1..fragsize : d[i] = IF i > s /\ i <= s + k THEN data[i - s] ELSE mem[buf_idx][i]
  BY <1>10
<1> HIDE DEF D
<1>12. d \in Contents /\ mem' = [mem EXCEPT ![buf_idx] = d]
  BY <1>8, <1>10 DEF Contents
<1>13. s + k <= fragsize
  BY <1>1, <1>5
<1>14. PICK c \in Seq(Unit) : SubSeq(d, 1, m) = SubSeq(mem[buf_idx], 1, size[buf_idx]) \o c
  <2>1. /\ SubSeq(data, 1, k) \in Seq(Unit)
        /\ SubSeq(d, 1, s + k) = SubSeq(mem[buf_idx], 1, s) \o SubSeq(data, 1, k)
    <3>1. PICK e \in [1..fragsize -> Unit] : e = mem[buf_idx]
      BY <1>1
    <3>2. Filled(fragsize, e, data, s, k, d)
      BY <1>1, <1>4, <1>11, <1>13, <3>1 DEF Filled
    <3>3. Longer(e, data, s, k, d)
      BY <3>2, FillIs
    <3> QED BY <3>1, <3>3 DEF Longer
  <2> QED BY <1>2, <1>5, <2>1
<1>15. Kept(m) \/ Sent(m)
  <2>1. CASE WritePart
    <3>1. size' = [size EXCEPT ![buf_idx] = @ + k] /\ dma' = dma /\ buf_idx' = buf_idx
      BY <1>2, <1>4, <2>1 DEF WritePart
    <3> QED BY <1>1, <1>2, <1>5, <3>1 DEF Kept
  <2>2. CASE WriteRefused
    <3>1. size' = [size EXCEPT ![buf_idx] = fragsize] /\ dma' = dma /\ buf_idx' = buf_idx
      BY <2>2 DEF WriteRefused, Refuse
    <3> QED BY <1>1, <1>6, <2>2, <3>1 DEF Kept
  <2>3. CASE WriteFull
    <3>1. /\ size' = [size EXCEPT ![buf_idx] = 0] /\ buf_idx' = NextIdx
          /\ dma' = Append(dma, <<buf_idx, fragsize>>)
      BY <2>3 DEF WriteFull, Enqueue
    <3>2. NextIdx \in Frags /\ NextIdx # buf_idx
      BY <1>1, <1>6, <3>1, NextIdxIs DEF AudioInv
    <3>3. size[NextIdx] = 0
      BY <1>1, <1>7, <3>2 DEF AudioInv, Output
    <3> QED BY <1>1, <1>6, <2>3, <3>1, <3>2, <3>3 DEF Sent
  <2> QED BY <2>1, <2>2, <2>3
<1> QED BY <1>6, <1>7, <1>12, <1>14, <1>15, OutPut

(* audio_sync queues what waits in the current fragment, or loses it.      *)
LEMMA SyncFifo ==
    ASSUME FifoInv, RingType', SyncPart
    PROVE  FifoStep
<1>1. /\ pc = "sync" /\ size[buf_idx] # 0 /\ sem[buf_idx] = 1
      /\ Enqueue(buf_idx, size[buf_idx]) \/ Refuse
      /\ size' = [size EXCEPT ![buf_idx] = 0] /\ buf_idx' = NextIdx
      /\ UNCHANGED <<file, shape, mem, moved>>
  BY DEF SyncPart
<1>2. /\ AudioInv /\ RingType /\ QueueFacts /\ QueueFacts' /\ fragsize \in Nat /\ buf_idx \in Frags
      /\ size[buf_idx] \in 0..fragsize /\ mem[buf_idx] \in Contents
      /\ size \in [Frags -> 0..fragsize] /\ mem \in [Frags -> Contents]
  BY FragmentFacts, QueueIs, QueueNext DEF FifoInv, AudioInv, RingType
<1>3. file = "write"
  BY <1>1, <1>2 DEF AudioInv, Phase
<1>4. NextIdx \in Frags /\ NextIdx # buf_idx
  BY <1>1, <1>2, NextIdxIs
<1>5. size'[NextIdx] = 0
  BY <1>1, <1>2, <1>3, <1>4 DEF AudioInv, Output
<1>6. PICK d \in Contents : d = mem[buf_idx]
  BY <1>2
<1>7. mem' = [mem EXCEPT ![buf_idx] = d]
  BY <1>1, <1>2, <1>6
<1>8. CASE Enqueue(buf_idx, size[buf_idx])
  <2>1. PICK m \in 0..fragsize : m = size[buf_idx]
    BY <1>2
  <2>2. Sent(m) /\ (failed => failed')
    BY <1>1, <1>4, <1>5, <1>8, <2>1 DEF Sent, Enqueue
  <2>3. SubSeq(d, 1, m) = SubSeq(mem[buf_idx], 1, size[buf_idx]) \o <<>> /\ <<>> \in Seq(Unit)
    <3>1. SubSeq(mem[buf_idx], 1, size[buf_idx]) \in Seq(Unit)
      BY <1>2 DEF QueueFacts
    <3> QED BY <1>6, <2>1, <3>1, ConcatEmptySeq
  <2> QED BY <1>1, <1>3, <1>7, <2>2, <2>3, OutPut
<1>9. CASE Refuse
  <2>1. dma' = dma /\ failed' = TRUE
    BY <1>9 DEF Refuse
  <2>2. OutBlocks' = OutBlocks
    BY <1>1, <1>7, <2>1, BlocksOut
  <2>3. PICK s \in Seq(Seq(Unit)) : s = OutBlocks
    BY <1>2 DEF QueueFacts
  <2>4. PICK c \in Seq(Unit) : c = SubSeq(mem[buf_idx], 1, size[buf_idx])
    BY <1>2 DEF QueueFacts
  <2>5. PICK q \in Seq(Unit) : q = FlattenSeq(s)
    BY <2>4, FlattenAppend
  <2>6. Queue = q \o c
    BY <1>2, <1>3, <2>3, <2>4, <2>5 DEF QueueFacts, Queue
  <2>7. mem'[buf_idx'] \in Seq(Unit)
    BY <1>1, <1>2, <1>4 DEF Contents
  <2>8. SubSeq(mem'[buf_idx'], 1, size'[buf_idx']) = <<>>
    BY <1>1, <1>5, <2>7, SubSeqEmpty
  <2>9. q \o <<>> = q
    BY ConcatEmptySeq
  <2>10. Queue' = q
    BY <1>1, <1>2, <1>3, <2>2, <2>3, <2>5, <2>8, <2>9 DEF QueueFacts, Queue
  <2> QED BY <1>1, <2>1, <2>6, <2>10, LoseStep
<1> QED BY <1>1, <1>8, <1>9

(* Every place of the ring is the place of a fragment.                     *)
LEMMA PlaceIs ==
    ASSUME RingType, NEW i \in 1..nbfrags
    PROVE  \E g \in Frags : Dist(g) = i - 1 /\ InBlocks[i] = Left(g)
<1>1. nbfrags \in Nat /\ nbfrags >= 2 /\ Frags = 0..nbfrags - 1 /\ buf_idx \in 0..nbfrags - 1
  BY RingFacts
<1>2. PICK k \in 0..nbfrags - 1 : k = i - 1
  BY <1>1
<1>3. (buf_idx + k) % nbfrags \in Frags /\ Dist((buf_idx + k) % nbfrags) = k
  BY <1>1, AheadIs DEF Dist
<1>4. PICK g \in Frags : Dist(g) = k
  BY <1>3
<1>5. InBlocks[k + 1] = Left(g)
  BY <1>4, QueueIs DEF QueueFacts
<1>6. k + 1 = i
  BY <1>1, <1>2
<1> QED BY <1>2, <1>4, <1>5, <1>6

(* A fragment of size 0 holds no unit.                                     *)
LEMMA LeftEmpty ==
    ASSUME NEW n \in Nat, NEW m \in [1..n -> Unit]
    PROVE  SubSeq(m, n - 0 + 1, n) = <<>>
<1>1. m \in Seq(Unit) /\ n - 0 + 1 = n + 1
  OBVIOUS
<1>2. SubSeq(m, n + 1, n) = <<>>
  BY <1>1, SubSeqEmpty
<1> QED BY <1>1, <1>2

(* audio_dmain_done_callback: a fragment behind all that hold units is     *)
(* filled.                                                                 *)
LEMMA InDoneFifo ==
    ASSUME FifoInv, RingType', audio_dmain_done_callback
    PROVE  FifoStep
<1>1. /\ file = "read" /\ dma # <<>>
      /\ size' = [size EXCEPT ![Head(dma)[1]] = Head(dma)[2]]
      /\ \E s \in Contents : mem' = [mem EXCEPT ![Head(dma)[1]] = s]
      /\ UNCHANGED <<file, shape, buf_idx, moved, failed>>
  BY DEF audio_dmain_done_callback
<1>2. /\ RingType /\ QueueFacts /\ QueueFacts' /\ mem \in [Frags -> [1..fragsize -> Unit]]
      /\ fragsize \in Nat /\ nbfrags \in Nat /\ dma \in Seq(Frags \X (1..fragsize))
      /\ size \in [Frags -> 0..fragsize] /\ failed \in BOOLEAN
  BY QueueIs, QueueNext, RingFacts DEF FifoInv, AudioInv, RingType, Contents
<1>3. 1 \in 1..Len(dma) /\ Head(dma) = dma[1]
  BY <1>1, <1>2
<1>4. PICK f \in Frags : f = dma[1][1]
  BY <1>2, <1>3, ItemFacts
<1>5. \A g \in Frags : size[g] > 0 => Dist(g) < Dist(f)
  BY <1>1, <1>3, <1>4 DEF FifoInv, Input
<1>6. \A g \in Frags : Dist(g) \in 0..nbfrags - 1
  BY <1>2, DistFacts
<1>7. PICK s \in Seq(Seq(Unit)) : s = InBlocks
  BY <1>2 DEF QueueFacts
<1>8. PICK t \in Seq(Seq(Unit)) : t = InBlocks'
  BY <1>2 DEF QueueFacts
<1>9. /\ UNCHANGED <<nbfrags, fragsize, Frags>>
      /\ \A g \in Frags : Ahead(buf_idx', g, nbfrags') = Dist(g)
  BY <1>1 DEF nbfrags, fragsize, Frags, Dist
<1>10. Len(s) = nbfrags /\ Len(t) = nbfrags
  BY <1>2, <1>7, <1>8, <1>9 DEF QueueFacts
<1>11. ASSUME NEW g \in Frags
       PROVE  /\ t[Dist(g) + 1] = SubSeq(mem'[g], fragsize - size'[g] + 1, fragsize)
              /\ s[Dist(g) + 1] = SubSeq(mem[g], fragsize - size[g] + 1, fragsize)
              /\ g # f => mem'[g] = mem[g] /\ size'[g] = size[g]
              /\ size[g] = 0 => SubSeq(mem[g], fragsize - size[g] + 1, fragsize) = <<>>
  <2>1. t[Dist(g) + 1] = SubSeq(mem'[g], fragsize - size'[g] + 1, fragsize)
    <3>1. \A h \in Frags' : InBlocks'[Ahead(buf_idx', h, nbfrags') + 1] =
                              SubSeq(mem'[h], fragsize' - size'[h] + 1, fragsize')
      BY <1>2 DEF QueueFacts, Dist, Left
    <3> QED BY <1>8, <1>9, <3>1
  <2>2. s[Dist(g) + 1] = SubSeq(mem[g], fragsize - size[g] + 1, fragsize)
    BY <1>2, <1>7 DEF QueueFacts, Left
  <2>3. g # f => mem'[g] = mem[g] /\ size'[g] = size[g]
    BY <1>1, <1>2, <1>3, <1>4
  <2>4. size[g] = 0 => SubSeq(mem[g], fragsize - size[g] + 1, fragsize) = <<>>
    BY <1>2, LeftEmpty
  <2> QED BY <2>1, <2>2, <2>3, <2>4
<1>12. PICK p \in 1..Len(s) : p = Dist(f) + 1
  BY <1>2, <1>6, <1>10
<1>13. ASSUME NEW i \in 1..Len(s)
       PROVE  /\ i < p => t[i] = s[i]
              /\ i >= p => s[i] = <<>>
              /\ i > p => t[i] = <<>>
  <2>1. PICK g \in Frags : Dist(g) = i - 1
    BY <1>2, <1>10, PlaceIs
  <2>2. Dist(g) + 1 = i
    BY <1>10, <2>1
  <2>3. /\ i < p \/ i > p => g # f
        /\ i >= p => ~(size[g] > 0)
    <3>1. PICK v \in Nat : v = Dist(g)
      BY <1>2, <1>6
    <3>2. PICK w \in Nat : w = Dist(f)
      BY <1>2, <1>6
    <3>3. v + 1 = i /\ w + 1 = p /\ (size[g] > 0 => v < w)
      BY <1>5, <1>12, <2>2, <3>1, <3>2
    <3>4. (g = f => v = w) /\ (i >= p => ~(v < w)) /\ (i < p \/ i > p => v # w)
      BY <3>1, <3>2, <3>3
    <3> QED BY <3>3, <3>4
  <2>4. size[g] \in Nat
    BY <1>2
  <2>5. i >= p => size[g] = 0
    BY <2>3, <2>4
  <2>6. i > p => i >= p
    BY <1>10
  <2> QED BY <1>11, <2>2, <2>3, <2>5, <2>6
<1>14. FlattenSeq(t) = FlattenSeq(s) \o t[p]
  BY <1>10, <1>13, FlattenGrow
<1>15. PICK c \in Seq(Unit) : c = t[p]
  BY <1>10
<1>16. Queue' = Queue \o c /\ Queue \in Seq(Unit)
  BY <1>1, <1>2, <1>7, <1>8, <1>14, <1>15 DEF QueueFacts, Queue
<1> QED BY <1>1, <1>2, <1>16, PutStep

(* What read gives to the user and what it leaves, of z units in m.        *)
LEMMA GiveIs ==
    ASSUME NEW n \in Nat, NEW m \in [1..n -> Unit], NEW z \in 0..n, NEW k \in 1..z
    PROVE  /\ SubSeq(m, n - z + 1, n - z + k) \in Seq(Unit)
           /\ SubSeq(m, n - z + 1, n - z + k) # <<>>
           /\ SubSeq(m, n - (z - k) + 1, n) \in Seq(Unit)
           /\ SubSeq(m, n - z + 1, n) =
                  SubSeq(m, n - z + 1, n - z + k) \o SubSeq(m, n - (z - k) + 1, n)
<1>1. m \in Seq(Unit) /\ Len(m) = n
  OBVIOUS
<1>2. PICK i \in 1..n + 1 : i = n - z + 1
  OBVIOUS
<1>3. PICK j \in 1..n : j = n - z + k
  OBVIOUS
<1>4. n - (z - k) + 1 = j + 1 /\ j + 1 \in 1..n + 1 /\ n \in 0..n /\ i <= j /\ j \in 0..n
  BY <1>2, <1>3
<1>5. SubSeq(m, i, j) \in Seq(Unit) /\ SubSeq(m, j + 1, n) \in Seq(Unit)
  BY <1>4, PartType
<1>6. SubSeq(m, i, j) # <<>>
  BY <1>1, <1>4
<1>7. SubSeq(m, i, n) = SubSeq(m, i, j) \o SubSeq(m, j + 1, n)
  BY <1>1, <1>4, ConcatAdjacentSubSeq
<1> QED BY <1>2, <1>3, <1>4, <1>5, <1>6, <1>7

(* A read that leaves units in the current fragment took the first ones of *)
(* it.                                                                     *)
LEMMA ReadPartFifo ==
    ASSUME FifoInv, RingType', ReadPart
    PROVE  FifoStep
<1> DEFINE b == buf_idx
<1>1. PICK k : /\ k = Chunk(count, size[b])
               /\ pc = "read" /\ size[b] > k /\ Give(k)
               /\ UNCHANGED <<file, shape, mem, buf_idx, failed>>
  BY DEF ReadPart
<1>2. /\ AudioInv /\ RingType /\ QueueFacts /\ QueueFacts'
      /\ mem \in [Frags -> [1..fragsize -> Unit]] /\ b \in Frags
      /\ fragsize \in Nat /\ nbfrags \in Nat /\ nbfrags >= 2
      /\ size \in [Frags -> 0..fragsize] /\ size[b] \in 0..fragsize /\ count \in Nat
  <2>1. AudioInv /\ RingType
    BY DEF FifoInv, AudioInv
  <2>2. count \in Nat /\ size[b] \in 0..fragsize
    BY <2>1, FragmentFacts
  <2>3. fragsize \in Nat /\ nbfrags \in Nat /\ nbfrags >= 2 /\ b \in Frags
    BY <2>1, RingFacts
  <2> QED BY <2>1, <2>2, <2>3, QueueIs, QueueNext DEF RingType, Contents
<1>3. file = "read"
  BY <1>1, <1>2 DEF AudioInv, Phase
<1>4. k \in Nat
  BY <1>1, <1>2, ChunkIs
<1>5. /\ size' = [size EXCEPT ![b] = @ - k]
      /\ moved' = IF k = 0 THEN moved
                  ELSE SubSeq(mem[b], fragsize - size[b] + 1, fragsize - size[b] + k)
  BY <1>1 DEF Give
<1>6. CASE k = 0
  <2>1. size' = size
    BY <1>2, <1>5, <1>6
  <2>2. Queue' = Queue
    BY <1>1, <1>3, <2>1 DEF Queue, Recorded, nbfrags, fragsize
  <2> QED BY <1>1, <1>5, <1>6, <2>2, StillStep
<1>7. CASE k # 0
  <2>1. PICK z \in 0..fragsize : z = size[b]
    BY <1>2
  <2>2. PICK m \in [1..fragsize -> Unit] : m = mem[b]
    BY <1>2
  <2>3. k \in 1..z
    BY <1>1, <1>4, <1>7, <2>1
  <2>4. PICK x \in Seq(Unit) : x = SubSeq(m, fragsize - z + 1, fragsize - z + k)
    BY <1>2, <2>3, GiveIs
  <2>5. PICK r \in Seq(Unit) : r = SubSeq(m, fragsize - (z - k) + 1, fragsize)
    BY <1>2, <2>3, GiveIs
  <2>6. x # <<>> /\ SubSeq(m, fragsize - z + 1, fragsize) = x \o r /\ moved' = x
    BY <1>2, <1>5, <1>7, <2>1, <2>2, <2>3, <2>4, <2>5, GiveIs
  <2>7. PICK s \in Seq(Seq(Unit)) : s = InBlocks
    BY <1>2 DEF QueueFacts
  <2>8. PICK t \in Seq(Seq(Unit)) : t = InBlocks'
    BY <1>2 DEF QueueFacts
  <2>9. /\ UNCHANGED <<nbfrags, fragsize, Frags>>
        /\ \A g \in Frags : Ahead(buf_idx', g, nbfrags') = Dist(g)
    BY <1>1 DEF nbfrags, fragsize, Frags, Dist
  <2>10. Len(s) = nbfrags /\ Len(t) = nbfrags
    BY <1>2, <2>7, <2>8, <2>9 DEF QueueFacts
  <2>11. ASSUME NEW g \in Frags
         PROVE  /\ t[Dist(g) + 1] = SubSeq(mem[g], fragsize - size'[g] + 1, fragsize)
                /\ s[Dist(g) + 1] = SubSeq(mem[g], fragsize - size[g] + 1, fragsize)
                /\ g # b => size'[g] = size[g]
    <3>1. \A h \in Frags' : InBlocks'[Ahead(buf_idx', h, nbfrags') + 1] =
                              SubSeq(mem'[h], fragsize' - size'[h] + 1, fragsize')
      BY <1>2 DEF QueueFacts, Dist, Left
    <3>2. t[Dist(g) + 1] = SubSeq(mem[g], fragsize - size'[g] + 1, fragsize)
      BY <1>1, <2>8, <2>9, <3>1
    <3>3. s[Dist(g) + 1] = SubSeq(mem[g], fragsize - size[g] + 1, fragsize)
      BY <1>2, <2>7 DEF QueueFacts, Left
    <3> QED BY <1>2, <1>5, <3>2, <3>3
  <2>12. s[1] = x \o r /\ t[1] = r
    <3>1. Dist(b) + 1 = 1 /\ size'[b] = z - k
      BY <1>2, <1>5, <2>1, DistFacts
    <3> QED BY <1>2, <2>1, <2>2, <2>5, <2>6, <2>11, <3>1
  <2>13. s # <<>> /\ t # <<>>
    BY <1>2, <2>10
  <2>14. Tail(t) = Tail(s)
    <3>1. ASSUME NEW i \in 1..nbfrags, i # 1
          PROVE  t[i] = s[i]
      <4>1. PICK g \in Frags : Dist(g) = i - 1
        BY <1>2, PlaceIs
      <4>2. Dist(g) + 1 = i /\ g # b
        BY <1>2, <3>1, <4>1, DistFacts
      <4> QED BY <2>11, <4>2
    <3>2. PICK u \in Seq(Seq(Unit)) : u = Tail(s)
      BY <2>13, HeadTailProperties
    <3>3. PICK v \in Seq(Seq(Unit)) : v = Tail(t)
      BY <2>13, HeadTailProperties
    <3>4. /\ Len(u) = nbfrags - 1 /\ Len(v) = nbfrags - 1
          /\ \A i \in 1..nbfrags - 1 : u[i] = s[i + 1] /\ v[i] = t[i + 1]
      BY <1>2, <2>10, <2>13, <3>2, <3>3
    <3>5. \A i \in 1..nbfrags - 1 : i + 1 \in 1..nbfrags /\ i + 1 # 1
      BY <1>2
    <3>6. \A i \in 1..Len(u) : u[i] = v[i]
      BY <3>1, <3>4, <3>5
    <3>7. u = v
      BY <3>4, <3>6, SeqEqual
    <3> QED BY <3>2, <3>3, <3>7
  <2>15. PICK w \in Seq(Unit) : w = FlattenSeq(Tail(s))
    BY <2>13, FlattenFirst
  <2>16. FlattenSeq(s) = (x \o r) \o w /\ FlattenSeq(t) = r \o w
    BY <2>12, <2>13, <2>14, <2>15, FlattenFirst
  <2>17. (x \o r) \o w = x \o (r \o w) /\ r \o w \in Seq(Unit)
    BY UnitAssoc, ConcatProperties
  <2>18. PICK y \in Seq(Unit) : y = r \o w
    BY <2>17
  <2>19. Queue = x \o y /\ Queue' = y
    BY <1>1, <1>2, <1>3, <2>7, <2>8, <2>16, <2>17, <2>18 DEF QueueFacts, Queue
  <2>20. failed => failed'
    BY <1>1
  <2> QED BY <2>6, <2>19, <2>20, GetStep
<1> QED BY <1>6, <1>7

(* A read that empties the current fragment took its block, and the ring   *)
(* turns: the block, now empty, is the last one.                           *)
LEMMA ReadAllFifo ==
    ASSUME FifoInv, RingType', ReadAll
    PROVE  FifoStep
<1> DEFINE b == buf_idx
<1>1. PICK k : /\ pc = "read" /\ size[b] = k /\ Give(k)
               /\ buf_idx' = NextIdx /\ UNCHANGED <<file, shape, mem>>
               /\ failed' = failed \/ failed' = TRUE
  BY DEF ReadAll, Enqueue, Refuse
<1>2. /\ AudioInv /\ RingType /\ QueueFacts /\ QueueFacts'
      /\ mem \in [Frags -> [1..fragsize -> Unit]] /\ b \in Frags
      /\ fragsize \in Nat /\ nbfrags \in Nat /\ nbfrags >= 2
      /\ size \in [Frags -> 0..fragsize] /\ k \in 0..fragsize
  BY <1>1, FragmentFacts, QueueIs, QueueNext, RingFacts DEF FifoInv, AudioInv, RingType, Contents
<1>3. file = "read"
  BY <1>1, <1>2 DEF AudioInv, Phase
<1>4. /\ size' = [size EXCEPT ![b] = @ - k]
      /\ moved' = IF k = 0 THEN moved
                  ELSE SubSeq(mem[b], fragsize - k + 1, fragsize - k + k)
  BY <1>1 DEF Give
<1>5. size'[b] = 0 /\ \A g \in Frags : g # b => size'[g] = size[g]
  BY <1>1, <1>2, <1>4
<1>6. PICK s \in Seq(Seq(Unit)) : s = InBlocks
  BY <1>2 DEF QueueFacts
<1>7. PICK t \in Seq(Seq(Unit)) : t = InBlocks'
  BY <1>2 DEF QueueFacts
<1>8. UNCHANGED <<nbfrags, fragsize, Frags>>
  BY <1>1 DEF nbfrags, fragsize, Frags
<1>9. Len(s) = nbfrags /\ Len(t) = nbfrags
  BY <1>2, <1>6, <1>7, <1>8 DEF QueueFacts
<1>10. /\ Ahead(buf_idx', b, nbfrags') = nbfrags - 1
       /\ \A g \in Frags : g # b => Ahead(buf_idx', g, nbfrags') = Dist(g) - 1
  BY <1>1, <1>2, DistNext
<1>11. ASSUME NEW g \in Frags
       PROVE  /\ t[Ahead(buf_idx', g, nbfrags') + 1] =
                     SubSeq(mem[g], fragsize - size'[g] + 1, fragsize)
              /\ s[Dist(g) + 1] = SubSeq(mem[g], fragsize - size[g] + 1, fragsize)
  <2>1. \A h \in Frags' : InBlocks'[Ahead(buf_idx', h, nbfrags') + 1] =
                            SubSeq(mem'[h], fragsize' - size'[h] + 1, fragsize')
    BY <1>2 DEF QueueFacts, Dist, Left
  <2>2. s[Dist(g) + 1] = SubSeq(mem[g], fragsize - size[g] + 1, fragsize)
    BY <1>2, <1>6 DEF QueueFacts, Left
  <2> QED BY <1>1, <1>7, <1>8, <2>1, <2>2
<1>12. s # <<>>
  BY <1>2, <1>9
<1>13. PICK u \in Seq(Seq(Unit)) : u = Tail(s)
  BY <1>12, HeadTailProperties
<1>14. Len(u) = nbfrags - 1 /\ \A i \in 1..nbfrags - 1 : u[i] = s[i + 1]
  BY <1>2, <1>9, <1>12, <1>13
<1>15. t = Append(u, <<>>)
  <2>1. PICK v \in Seq(Seq(Unit)) : v = Append(u, <<>>)
    <3>1. <<>> \in Seq(Unit)
      OBVIOUS
    <3> QED BY <3>1, AppendProperties
  <2>2. /\ Len(v) = nbfrags /\ \A i \in 1..nbfrags - 1 : v[i] = s[i + 1]
        /\ v[nbfrags] = <<>>
    <3>1. <<>> \in Seq(Unit)
      OBVIOUS
    <3>2. /\ Len(v) = Len(u) + 1 /\ \A i \in 1..Len(u) : v[i] = u[i]
          /\ v[Len(u) + 1] = <<>>
      BY <2>1, <3>1, AppendProperties
    <3>3. Len(u) + 1 = nbfrags
      BY <1>2, <1>14
    <3> QED BY <1>14, <3>2, <3>3
  <2>3. t[nbfrags] = <<>>
    <3>1. /\ (nbfrags - 1) + 1 = nbfrags
          /\ t[(nbfrags - 1) + 1] = SubSeq(mem[b], fragsize - 0 + 1, fragsize)
      BY <1>2, <1>5, <1>10, <1>11
    <3> QED BY <1>2, <3>1, LeftEmpty
  <2>4. ASSUME NEW i \in 1..nbfrags - 1
        PROVE  t[i] = s[i + 1]
    <3>1. PICK j \in 1..nbfrags : j = i + 1
      BY <1>2
    <3>2. PICK g \in Frags : Dist(g) = j - 1
      BY <1>2, PlaceIs
    <3>3. Dist(g) + 1 = i + 1 /\ (Dist(g) - 1) + 1 = i /\ Dist(g) # 0
      BY <1>2, <3>1, <3>2
    <3>4. g # b
      BY <1>2, <3>3, DistFacts
    <3>5. Ahead(buf_idx', g, nbfrags') + 1 = i /\ size'[g] = size[g]
      BY <1>5, <1>10, <3>3, <3>4
    <3> QED BY <1>11, <3>3, <3>5
  <2>5. \A i \in 1..nbfrags : i = nbfrags \/ i \in 1..nbfrags - 1
    BY <1>2
  <2>6. \A i \in 1..Len(t) : t[i] = v[i]
    BY <1>9, <2>2, <2>3, <2>4, <2>5
  <2>7. t = v
    BY <1>9, <2>2, <2>6, SeqEqual
  <2> QED BY <2>1, <2>7
<1>16. PICK w \in Seq(Unit) : w = FlattenSeq(u)
  BY <1>12, <1>13, FlattenFirst
<1>17. PICK x \in Seq(Unit) : x = s[1]
  BY <1>12, FlattenFirst
<1>18. FlattenSeq(s) = x \o w
  BY <1>12, <1>13, <1>16, <1>17, FlattenFirst
<1>19. FlattenSeq(t) = w
  <2>1. <<>> \in Seq(Unit)
    OBVIOUS
  <2>2. FlattenSeq(Append(u, <<>>)) = w \o <<>>
    BY <1>16, <2>1, FlattenAppend
  <2> QED BY <1>15, <2>2, ConcatEmptySeq
<1>20. Queue = x \o w /\ Queue' = w
  BY <1>1, <1>2, <1>3, <1>6, <1>7, <1>18, <1>19 DEF QueueFacts, Queue
<1>21. PICK m \in [1..fragsize -> Unit] : m = mem[b]
  BY <1>2
<1>22. x = SubSeq(m, fragsize - k + 1, fragsize)
  <2>1. Dist(b) + 1 = 1
    BY <1>2, DistFacts
  <2> QED BY <1>1, <1>2, <1>11, <1>17, <1>21, <2>1
<1>23. CASE k = 0
  <2>1. x = <<>>
    BY <1>2, <1>22, <1>23, LeftEmpty
  <2>2. <<>> \o w = w
    BY ConcatEmptySeq
  <2> QED BY <1>1, <1>4, <1>20, <1>23, <2>1, <2>2, StillStep
<1>24. CASE k # 0
  <2>1. k \in 1..k /\ fragsize - k + k = fragsize
    BY <1>2, <1>24
  <2>2. SubSeq(m, fragsize - k + 1, fragsize - k + k) # <<>>
    BY <1>2, <2>1, GiveIs
  <2>3. moved' = x /\ x # <<>>
    BY <1>4, <1>21, <1>22, <1>24, <2>1, <2>2
  <2>4. failed => failed'
    BY <1>1
  <2> QED BY <1>20, <2>3, <2>4, GetStep
<1> QED BY <1>23, <1>24

(* The first read finds the stream empty.                                  *)
LEMMA ReadFifo ==
    ASSUME FifoInv, Read
    PROVE  FifoStep
<1>1. CASE buffers
  <2>1. UNCHANGED <<file, shape, size, mem, buf_idx, dma, moved, failed>>
    BY <1>1 DEF Read, ringVars
  <2> QED BY <2>1, QueueSame, StillStep
<1>2. CASE ~buffers
  <2>1. /\ file = "read" /\ UNCHANGED <<file, shape, size, mem, buf_idx, moved>>
        /\ failed' = failed \/ failed' = TRUE
    BY <1>2 DEF Read, QueueAll, QueueSome
  <2>2. Queue' = Queue
    BY <2>1 DEF Queue, Recorded, nbfrags, fragsize
  <2> QED BY <2>1, <2>2, StillStep
<1> QED BY <1>1, <1>2

(* Every step is a step of AudioFifo, or changes nothing it speaks of.     *)
LEMMA FifoSteps ==
    ASSUME FifoInv, FifoInv', [Next]_vars
    PROVE  FifoStep
<1>0. RingType /\ RingType' /\ shape \in Shapes /\ Default \in Shapes
  BY AudioAssumption DEF FifoInv, AudioInv, RingType
<1>1. ASSUME UNCHANGED <<file, ringVars, moved, failed>>
      PROVE  FifoStep
  BY <1>1, QueueSame, StillStep DEF ringVars
<1>2. CASE UNCHANGED vars
  BY <1>1, <1>2 DEF vars
<1>3. CASE Callback
  BY <1>0, <1>3, OutDoneFifo, InDoneFifo DEF Callback
<1>4. CASE Call
  <2>1. CASE \E m \in {"write", "read"} : Open(m)
    BY <1>0, <2>1, QueueCleared DEF Open
  <2>2. CASE SetFragment
    BY <2>2, QueueCleared DEF SetFragment, audio_setup_buf, SetupFails
  <2>3. CASE Reset
    BY <1>0, <2>3, QueueCleared DEF Reset, audio_clear_buf
  <2>4. CASE Write
    BY <1>0, <1>1, <2>4, QueueCleared DEF Write, audio_setup_buf
  <2>5. CASE Poll
    BY <1>0, <1>1, <2>5, QueueCleared DEF Poll, audio_setup_buf
  <2>6. CASE SetNonBlock \/ Sync
    BY <1>1, <2>6 DEF SetNonBlock, Sync
  <2> QED BY <1>4, <2>1, <2>2, <2>3, <2>4, <2>5, <2>6, ReadFifo DEF Call
<1>5. CASE SyncEnds
  BY <1>0, <1>1, <1>5, QueueCleared DEF SyncEnds, SyncReturns, Release, audio_clear_buf
<1>6. CASE SyncNoPart \/ AwaitPrevious \/ PollAgain \/ CopyFails \/ PollEnds \/ Interrupted
  BY <1>1, <1>6 DEF SyncNoPart, AwaitPrevious, PollAgain, CopyFails, PollEnds, Interrupted
<1> QED BY <1>0, <1>2, <1>3, <1>4, <1>5, <1>6, WriteFifo, SyncFifo, ReadPartFifo, ReadAllFifo
        DEF Next, Running, Fault

(* Every behaviour of the stream is one of AudioFifo: whatever calls,      *)
(* callbacks and refusals of the DMA follow one another, the units written *)
(* are played, and the units recorded given to the process, in order and   *)
(* once each; what is dropped is all there is or comes from the end.       *)
THEOREM StreamImplementsFifo == Spec => StreamIsFifo
<1>1. Init => Fifo!Init
  <2> SUFFICES ASSUME Init PROVE Fifo!Init
    OBVIOUS
  <2>1. RingType
    BY AudioInit DEF AudioInv
  <2>2. Empty
    BY <2>1 DEF Init, Empty
  <2>3. Queue = <<>>
    BY <2>2, QueueEmpty
  <2> QED BY <2>3 DEF Init, Fifo!Init
<1>2. FifoInv /\ FifoInv' /\ [Next]_vars => [Fifo!Next]_<<Queue, moved, failed>>
  BY FifoSteps DEF FifoStep
<1> QED BY <1>1, <1>2, FifoInvariant, PTL DEF Spec, StreamIsFifo, Fifo!Spec
===============================================================================
