-------------------------- MODULE SelectEchoProofs --------------------------
(***************************************************************************)
(* Theorems about the echo server, for any number of clients, any sizes of *)
(* its buffer and of connections, and any number of descriptors.           *)
(***************************************************************************)
EXTENDS SelectEcho, SequenceTheorems, WellFoundedInduction, TLAPS

----------------------------------------------------------------------------
(***************************************************************************)
(* Sequences that pass elements on.                                        *)
(***************************************************************************)

\* A function on an initial segment is a sequence.
LEMMA FunctionIsSequence ==
    ASSUME NEW S, NEW n \in Nat, NEW f \in [1 .. n -> S]
    PROVE  f \in Seq(S) /\ Len(f) = n
<1>1. f \in Seq(S)
    BY SeqDef
<1>2. QED
    BY <1>1, LenProperties

\* What is appended to the second of two sequences is appended to both.
LEMMA AppendToConcat ==
    ASSUME NEW S, NEW s \in Seq(S), NEW t \in Seq(S), NEW x \in S
    PROVE  s \o Append(t, x) = Append(s \o t, x)
<1> DEFINE one == <<x>>
           both == s \o t
<1>1. one \in Seq(S)
    OBVIOUS
<1>2. Append(t, x) = t \o one
    BY AppendIsConcat
<1>3. both \in Seq(S)
    BY ConcatProperties
<1> HIDE DEF both
<1>4. Append(both, x) = both \o one
    BY <1>3, AppendIsConcat
<1> HIDE DEF one
<1>5. (s \o t) \o one = s \o (t \o one)
    BY <1>1, ConcatAssociative
<1>6. QED
    BY <1>2, <1>4, <1>5 DEF both

\* The head of one sequence may be the end of the one before.
LEMMA MoveHead ==
    ASSUME NEW S, NEW s \in Seq(S), NEW t \in Seq(S), t # << >>
    PROVE  Append(s, Head(t)) \o Tail(t) = s \o t
<1>1. Head(t) \in S /\ Tail(t) \in Seq(S) /\ Len(t) \in Nat /\ Len(s) \in Nat
      /\ Len(Tail(t)) = Len(t) - 1 /\ Len(t) >= 1
      /\ \A i \in 1 .. Len(t) - 1 : Tail(t)[i] = t[i + 1]
    BY HeadTailProperties, EmptySeq, LenProperties
<1> DEFINE a == Append(s, Head(t))
<1>2. /\ a \in Seq(S) /\ Len(a) = Len(s) + 1
      /\ \A i \in 1 .. Len(s) : a[i] = s[i]
      /\ a[Len(s) + 1] = t[1]
    BY <1>1, AppendProperties
<1> HIDE DEF a
<1>3. /\ a \o Tail(t) \in Seq(S)
      /\ Len(a \o Tail(t)) = Len(s) + Len(t)
      /\ \A i \in 1 .. Len(s) + Len(t) : (a \o Tail(t))[i] =
             IF i <= Len(s) + 1 THEN a[i] ELSE Tail(t)[i - (Len(s) + 1)]
    <2>1. /\ a \o Tail(t) \in Seq(S)
          /\ Len(a \o Tail(t)) = Len(a) + Len(Tail(t))
          /\ \A i \in 1 .. Len(a) + Len(Tail(t)) : (a \o Tail(t))[i] =
                 IF i <= Len(a) THEN a[i] ELSE Tail(t)[i - Len(a)]
        BY <1>1, <1>2, ConcatProperties
    <2>2. Len(a) = Len(s) + 1 /\ Len(a) + Len(Tail(t)) = Len(s) + Len(t)
        BY <1>1, <1>2
    <2> HIDE DEF a
    <2>3. QED
        BY <2>1, <2>2
<1>4. /\ s \o t \in Seq(S)
      /\ Len(s \o t) = Len(s) + Len(t)
      /\ \A i \in 1 .. Len(s) + Len(t) : (s \o t)[i] =
             IF i <= Len(s) THEN s[i] ELSE t[i - Len(s)]
    BY <1>1, ConcatProperties
<1>5. ASSUME NEW i \in 1 .. Len(s) + Len(t)
      PROVE  (a \o Tail(t))[i] = (s \o t)[i]
    <2>1. CASE i <= Len(s)
        BY <1>1, <1>2, <1>3, <1>4, <2>1
    <2>2. CASE i = Len(s) + 1
        <3>1. (a \o Tail(t))[i] = t[1]
            BY <1>1, <1>2, <1>3, <2>2
        <3>2. (s \o t)[i] = t[1]
            <4>1. ~(i <= Len(s)) /\ i - Len(s) = 1
                BY <1>1, <2>2
            <4>2. QED
                BY <1>4, <4>1
        <3>3. QED
            BY <3>1, <3>2
    <2>3. CASE i > Len(s) + 1
        <3>1. i - (Len(s) + 1) \in 1 .. Len(t) - 1
              /\ (i - (Len(s) + 1)) + 1 = i - Len(s)
            BY <1>1, <2>3
        <3>2. (a \o Tail(t))[i] = Tail(t)[i - (Len(s) + 1)]
            BY <1>1, <1>3, <2>3
        <3>3. (s \o t)[i] = t[i - Len(s)]
            BY <1>1, <1>4, <2>3
        <3>4. Tail(t)[i - (Len(s) + 1)] = t[(i - (Len(s) + 1)) + 1]
            BY <1>1, <3>1
        <3>5. QED
            BY <3>1, <3>2, <3>3, <3>4
    <2>4. i <= Len(s) \/ i = Len(s) + 1 \/ i > Len(s) + 1
        BY <1>1
    <2>5. QED
        BY <2>1, <2>2, <2>3, <2>4
<1>6. QED
    BY <1>3, <1>4, <1>5, SeqEqual DEF a

\* A sequence may be cut anywhere.
LEMMA CutAnywhere ==
    ASSUME NEW S, NEW s \in Seq(S), NEW k \in 0 .. Len(s)
    PROVE  /\ SubSeq(s, 1, k) \in Seq(S)
           /\ SubSeq(s, k + 1, Len(s)) \in Seq(S)
           /\ SubSeq(s, 1, k) \o SubSeq(s, k + 1, Len(s)) = s
           /\ k > 0 => SubSeq(s, 1, k) # << >>
<1>1. Len(s) \in Nat /\ \A i \in 1 .. Len(s) : s[i] \in S
    BY LenProperties, ElementOfSeq
<1>2. /\ SubSeq(s, 1, k) \in Seq(S) /\ Len(SubSeq(s, 1, k)) = k
      /\ SubSeq(s, k + 1, Len(s)) \in Seq(S)
    BY <1>1, SubSeqProperties
<1>3. SubSeq(s, 1, k) \o SubSeq(s, k + 1, Len(s)) = SubSeq(s, 1, Len(s))
    <2>1. /\ 1 \in 1 .. Len(s) + 1 /\ k \in 1 - 1 .. Len(s) /\ Len(s) \in k .. Len(s)
        BY <1>1
    <2>2. QED
        BY <2>1, ConcatAdjacentSubSeq
<1>4. SubSeq(s, 1, Len(s)) = s
    BY SubSeqFull
<1>5. k > 0 => SubSeq(s, 1, k) # << >>
    <2>1. ASSUME SubSeq(s, 1, k) = << >> PROVE k = 0
        BY <1>2, <2>1
    <2>2. QED
        BY <1>1, <2>1
<1>6. QED
    BY <1>2, <1>3, <1>4, <1>5

\* What comes first in a concatenation is a prefix of it.
LEMMA PrefixOfConcat ==
    ASSUME NEW S, NEW s \in Seq(S), NEW t \in Seq(S)
    PROVE  IsPrefix(s, s \o t)
<1>1. /\ Len(s) \in Nat /\ Len(t) \in Nat
      /\ Len(s \o t) = Len(s) + Len(t)
      /\ s \o t \in Seq(S)
    BY LenProperties, ConcatProperties
<1>2. SubSeq(s, 1, Len(s)) = s
    BY SubSeqFull
<1>3. SubSeq(s \o t, 1, Len(s)) = s
    <2>1. CASE Len(s) >= 1
        <3>1. 1 \in 1 .. Len(s) /\ Len(s) \in 1 .. Len(s)
            BY <1>1, <2>1
        <3>2. QED
            BY <1>2, <3>1, SubSeqOfConcat1
    <2>2. CASE Len(s) = 0
        <3>1. s = << >>
            BY <2>2, EmptySeq
        <3>2. SubSeq(s \o t, 1, 0) = << >>
            BY SubSeqEmpty
        <3>3. QED
            BY <2>2, <3>1, <3>2
    <2>3. QED
        BY <1>1, <2>1, <2>2
<1>4. QED
    BY <1>1, <1>2, <1>3 DEF IsPrefix

\* The lemmas above, for bytes.
LEMMA BytesAssociate ==
    ASSUME NEW l \in ByteSeq, NEW m \in ByteSeq, NEW r \in ByteSeq
    PROVE  (l \o m) \o r = l \o (m \o r)
<1> DEFINE Byte == Clients \X Nat
<1>1. ByteSeq = Seq(Byte)
    BY DEF ByteSeq
<1> HIDE DEF Byte
<1>2. QED
    BY <1>1, ConcatAssociative

LEMMA BytesConcat ==
    ASSUME NEW l \in ByteSeq, NEW m \in ByteSeq
    PROVE  l \o m \in ByteSeq
BY ConcatProperties DEF ByteSeq

LEMMA BytesAppend ==
    ASSUME NEW a \in ByteSeq, NEW b \in ByteSeq, NEW x \in Clients \X Nat
    PROVE  a \o Append(b, x) = Append(a \o b, x)
BY AppendToConcat DEF ByteSeq

\* The first m bytes of a client.
LEMMA FirstBytes ==
    ASSUME NEW c \in Clients, NEW m \in Nat
    PROVE  /\ [n \in 1 .. m |-> <<c, n>>] \in ByteSeq
           /\ Len([n \in 1 .. m |-> <<c, n>>]) = m
<1>1. [n \in 1 .. m |-> <<c, n>>] \in [1 .. m -> Clients \X Nat]
    OBVIOUS
<1>2. QED
    BY <1>1, FunctionIsSequence DEF ByteSeq

----------------------------------------------------------------------------
(***************************************************************************)
(* Induction.  The prover takes it as a fact about sets: what holds of the *)
(* numbers in a set that has 0, and the successor of each it has, holds of *)
(* all.                                                                    *)
(***************************************************************************)

\* A set of natural numbers has a least one.
LEMMA Minimum ==
    ASSUME NEW T, T \subseteq Nat, T # {}
    PROVE  Min(T) \in T /\ \A n \in T : Min(T) <= n
<1> DEFINE less == OpToRel(<, Nat)
<1>1. \A m, n \in Nat : m < n => <<m, n>> \in less
    BY DEF OpToRel
<1>2. IsWellFoundedOn(less, Nat)
    BY NatLessThanWellFounded, Zenon
<1> HIDE DEF less
<1>3. PICK m \in T : \A n \in T : ~ (<<n, m>> \in less)
    BY <1>2, WFMin
<1>4. \A n \in T : m <= n
    <2>1. ASSUME NEW n \in T, ~(m <= n) PROVE FALSE
        <3>1. n \in Nat /\ m \in Nat /\ n < m
            BY <2>1
        <3>2. QED
            BY <1>1, <1>3, <3>1
    <2>2. QED
        BY <2>1
<1>5. QED
    BY <1>4 DEF Min

\* Induction.
LEMMA NaturalInduction ==
    ASSUME NEW T, 0 \in T, \A n \in Nat : n \in T => n + 1 \in T
    PROVE  Nat \subseteq T
<1> SUFFICES ASSUME Nat \ T # {} PROVE FALSE
    OBVIOUS
<1>1. PICK n \in Nat \ T : \A m \in Nat \ T : n <= m
    <2>1. (Nat \ T) \subseteq Nat
        OBVIOUS
    <2>2. QED
        BY <2>1, Minimum
<1>2. n \in Nat /\ n # 0
    BY <1>1
<1>3. n - 1 \in Nat /\ ~(n <= n - 1) /\ (n - 1) + 1 = n
    BY <1>2
<1>4. n - 1 \in T
    BY <1>1, <1>3
<1>5. QED
    BY <1>1, <1>3, <1>4

----------------------------------------------------------------------------
(***************************************************************************)
(* What sequences hold, and what Kept keeps of them.                       *)
(***************************************************************************)

\* The elements of a sequence.
LEMMA SeqRange ==
    ASSUME NEW S, NEW s \in Seq(S)
    PROVE  /\ Len(s) \in Nat /\ DOMAIN s = 1 .. Len(s)
           /\ Range(s) = {s[i] : i \in 1 .. Len(s)}
           /\ Range(s) \subseteq S
<1>1. Len(s) \in Nat /\ DOMAIN s = 1 .. Len(s) /\ \A i \in 1 .. Len(s) : s[i] \in S
    BY LenProperties, ElementOfSeq
<1>2. QED
    BY <1>1 DEF Range

\* A sequence of elements of a set.
LEMMA InSeq ==
    ASSUME NEW S, NEW T, NEW s \in Seq(S), Range(s) \subseteq T
    PROVE  s \in Seq(T)
BY SeqOfRange, SeqMonotonic

\* Appending adds an element.
LEMMA AppendRange ==
    ASSUME NEW S, NEW s \in Seq(S), NEW x \in S
    PROVE  /\ Append(s, x) \in Seq(S) /\ Append(s, x) # << >>
           /\ Range(Append(s, x)) = Range(s) \cup {x}
           /\ IsInjective(s) /\ x \notin Range(s) => IsInjective(Append(s, x))
<1>1. PICK t \in Seq(S) :
          /\ t = Append(s, x) /\ Len(t) = Len(s) + 1 /\ t[Len(s) + 1] = x
          /\ \A i \in 1 .. Len(s) : t[i] = s[i]
    <2>1. /\ Append(s, x) \in Seq(S) /\ Len(Append(s, x)) = Len(s) + 1
          /\ Append(s, x)[Len(s) + 1] = x
          /\ \A i \in 1 .. Len(s) : Append(s, x)[i] = s[i]
        BY AppendProperties
    <2>2. QED
        BY <2>1
<1>2. /\ Len(s) \in Nat /\ DOMAIN s = 1 .. Len(s)
      /\ Range(s) = {s[i] : i \in 1 .. Len(s)}
    BY SeqRange
<1>3. DOMAIN t = 1 .. Len(s) + 1 /\ Range(t) = {t[i] : i \in 1 .. Len(s) + 1}
    <2>1. DOMAIN t = 1 .. Len(t) /\ Range(t) = {t[i] : i \in 1 .. Len(t)}
        BY SeqRange
    <2>2. Len(t) = Len(s) + 1
        BY <1>1
    <2>3. QED
        BY <2>1, <2>2
<1>4. Range(t) = Range(s) \cup {x}
    BY <1>1, <1>2, <1>3
<1>5. IsInjective(s) /\ x \notin Range(s) => IsInjective(t)
    BY <1>1, <1>2, <1>3 DEF IsInjective
<1>6. t # << >>
    BY <1>1, <1>2
<1>7. QED
    BY <1>1, <1>4, <1>5, <1>6

\* The head is taken away from the rest.
LEMMA TailRange ==
    ASSUME NEW S, NEW s \in Seq(S), s # << >>
    PROVE  /\ Tail(s) \in Seq(S) /\ Len(Tail(s)) = Len(s) - 1
           /\ Head(s) \in S /\ Head(s) \in Range(s)
           /\ Range(s) = Range(Tail(s)) \cup {Head(s)}
           /\ IsInjective(s) => IsInjective(Tail(s)) /\ Head(s) \notin Range(Tail(s))
<1>1. PICK t \in Seq(S) :
          /\ t = Tail(s) /\ Len(t) = Len(s) - 1
          /\ \A i \in 1 .. Len(t) : t[i] = s[i + 1]
    BY HeadTailProperties
<1>2. /\ Len(s) \in Nat \ {0} /\ DOMAIN s = 1 .. Len(s) /\ Head(s) = s[1]
      /\ Range(s) = {s[i] : i \in 1 .. Len(s)}
    BY SeqRange, EmptySeq
<1>3. DOMAIN t = 1 .. Len(s) - 1 /\ Range(t) = {t[i] : i \in 1 .. Len(s) - 1}
    <2>1. DOMAIN t = 1 .. Len(t) /\ Range(t) = {t[i] : i \in 1 .. Len(t)}
        BY SeqRange
    <2>2. Len(t) = Len(s) - 1
        BY <1>1
    <2>3. QED
        BY <2>1, <2>2
<1>4. Range(s) = Range(t) \cup {Head(s)}
    <2>1. ASSUME NEW i \in 1 .. Len(s) PROVE s[i] = Head(s) \/ s[i] \in Range(t)
        <3>1. CASE i = 1
            BY <1>2, <3>1
        <3>2. CASE i # 1
            <4>1. i - 1 \in 1 .. Len(s) - 1 /\ (i - 1) + 1 = i
                BY <1>2, <3>2
            <4>2. QED
                BY <1>1, <1>3, <4>1
        <3>3. QED
            BY <3>1, <3>2
    <2>2. ASSUME NEW i \in 1 .. Len(s) - 1 PROVE t[i] \in Range(s)
        BY <1>1, <1>2
    <2>3. Head(s) \in Range(s)
        BY <1>2
    <2>4. QED
        BY <1>2, <1>3, <2>1, <2>2, <2>3
<1>5. ASSUME IsInjective(s) PROVE IsInjective(t) /\ Head(s) \notin Range(t)
    <2>1. IsInjective(t)
        <3>1. ASSUME NEW i \in DOMAIN t, NEW j \in DOMAIN t, t[i] = t[j]
              PROVE  i = j
            <4>1. /\ i + 1 \in DOMAIN s /\ j + 1 \in DOMAIN s
                  /\ s[i + 1] = s[j + 1] /\ i \in Nat /\ j \in Nat
                BY <1>1, <1>2, <1>3, <3>1
            <4>2. i + 1 = j + 1
                BY <1>5, <4>1 DEF IsInjective
            <4>3. QED
                BY <4>1, <4>2
        <3>2. QED
            BY <3>1 DEF IsInjective
    <2>2. Head(s) \notin Range(t)
        <3>1. SUFFICES ASSUME NEW i \in 1 .. Len(s) - 1, t[i] = s[1] PROVE FALSE
            BY <1>2, <1>3
        <3>2. i + 1 \in DOMAIN s /\ 1 \in DOMAIN s /\ s[i + 1] = s[1] /\ i + 1 # 1
            BY <1>1, <1>2, <3>1
        <3>3. QED
            BY <1>5, <3>2 DEF IsInjective
    <2>3. QED
        BY <2>1, <2>2
<1>6. Head(s) \in S /\ Head(s) \in Range(s)
    BY <1>2, HeadTailProperties
<1>7. QED
    BY <1>1, <1>4, <1>5, <1>6

\* kept has what the loop of Kept has kept of the first i, for every i up to n.
IsKept(kept, s, set, n) ==
    kept = [i \in 0 .. n |->
               IF i = 0 THEN << >>
               ELSE IF s[i] \in set THEN Append(kept[i - 1], s[i]) ELSE kept[i - 1]]

\* The loop of Kept can be run for any number of turns.
LEMMA KeptExists ==
    ASSUME NEW s, NEW set
    PROVE  \A n \in Nat : \E kept : IsKept(kept, s, set, n)
<1> DEFINE T == {n \in Nat : \E kept : IsKept(kept, s, set, n)}
<1>1. 0 \in T
    <2> DEFINE f == [i \in 0 .. 0 |-> << >>]
    <2>1. IsKept(f, s, set, 0)
        BY DEF IsKept
    <2>2. QED
        BY <2>1
<1>2. ASSUME NEW n \in Nat, n \in T PROVE n + 1 \in T
    <2>1. PICK f : IsKept(f, s, set, n)
        BY <1>2
    <2> DEFINE last == IF s[n + 1] \in set THEN Append(f[n], s[n + 1]) ELSE f[n]
               g == [i \in 0 .. n + 1 |-> IF i = n + 1 THEN last ELSE f[i]]
               step(k, i) == IF i = 0 THEN << >>
                             ELSE IF s[i] \in set THEN Append(k[i - 1], s[i])
                                                  ELSE k[i - 1]
    <2>2. \A i \in 0 .. n : f[i] = step(f, i)
        BY <2>1 DEF IsKept
    <2>3. \A i \in 0 .. n : g[i] = f[i]
        OBVIOUS
    <2>4. g[n + 1] = last
        OBVIOUS
    <2> HIDE DEF last, g
    <2>5. ASSUME NEW i \in 0 .. n + 1 PROVE g[i] = step(g, i)
        <3>1. CASE i = n + 1
            <4>1. g[n] = f[n] /\ i - 1 = n /\ i # 0
                BY <2>3, <3>1
            <4>2. QED
                BY <2>4, <3>1, <4>1 DEF last
        <3>2. CASE i # n + 1
            <4>1. i \in 0 .. n
                BY <3>2
            <4>2. CASE i = 0
                BY <2>2, <2>3, <4>1, <4>2
            <4>3. CASE i # 0
                <5>1. i - 1 \in 0 .. n
                    BY <4>1, <4>3
                <5>2. g[i] = f[i] /\ g[i - 1] = f[i - 1]
                    BY <2>3, <4>1, <5>1
                <5>3. QED
                    BY <2>2, <4>1, <4>3, <5>2
            <4>4. QED
                BY <4>2, <4>3
        <3>3. QED
            BY <3>1, <3>2
    <2>6. IsKept(g, s, set, n + 1)
        <3>1. g = [i \in 0 .. n + 1 |-> g[i]]
            BY DEF g
        <3>2. g = [i \in 0 .. n + 1 |-> step(g, i)]
            BY <2>5, <3>1
        <3>3. QED
            BY <3>2 DEF IsKept
    <2>7. QED
        BY <2>6
<1>3. Nat \subseteq T
    <2> HIDE DEF T
    <2>1. QED
        BY <1>1, <1>2, NaturalInduction
<1>4. QED
    BY <1>3

\* What Kept returns is the last value of such a function.
LEMMA KeptIsIterated ==
    ASSUME NEW s, NEW set, Len(s) \in Nat
    PROVE  \E kept : IsKept(kept, s, set, Len(s)) /\ Kept(s, set) = kept[Len(s)]
<1> DEFINE kept == CHOOSE k : IsKept(k, s, set, Len(s))
<1>1. \E k : IsKept(k, s, set, Len(s))
    BY KeptExists
<1>2. IsKept(kept, s, set, Len(s))
    BY <1>1
<1>3. Kept(s, set) = kept[Len(s)]
    BY DEF Kept, IsKept
<1>4. QED
    BY <1>2, <1>3

\* Kept returns what is in the set, and nothing twice that was there once.
LEMMA KeptProperties ==
    ASSUME NEW S, NEW s \in Seq(S), NEW set
    PROVE  /\ Kept(s, set) \in Seq(S)
           /\ Range(Kept(s, set)) = Range(s) \cap set
           /\ IsInjective(s) => IsInjective(Kept(s, set))
<1>1. /\ Len(s) \in Nat /\ DOMAIN s = 1 .. Len(s)
      /\ Range(s) = {s[i] : i \in 1 .. Len(s)}
      /\ \A i \in 1 .. Len(s) : s[i] \in S
    BY SeqRange, ElementOfSeq
<1>2. PICK kept : IsKept(kept, s, set, Len(s)) /\ Kept(s, set) = kept[Len(s)]
    BY <1>1, KeptIsIterated
<1>3. /\ kept[0] = << >>
      /\ \A n \in 1 .. Len(s) : kept[n] =
             IF s[n] \in set THEN Append(kept[n - 1], s[n]) ELSE kept[n - 1]
    <2> DEFINE step(n) == IF n = 0 THEN << >>
                          ELSE IF s[n] \in set THEN Append(kept[n - 1], s[n])
                                               ELSE kept[n - 1]
    <2>1. kept = [n \in 0 .. Len(s) |-> step(n)]
        BY <1>2 DEF IsKept
    <2>2. ASSUME NEW n \in 0 .. Len(s) PROVE kept[n] = step(n)
        <3> HIDE DEF step
        <3>1. QED
            BY <2>1
    <2>3. 0 \in 0 .. Len(s) /\ \A n \in 1 .. Len(s) : n \in 0 .. Len(s) /\ n # 0
        BY <1>1
    <2>4. QED
        BY <2>2, <2>3
<1> DEFINE first(n) == {s[i] : i \in 1 .. n}
           Good(n) == /\ kept[n] \in Seq(S)
                      /\ Range(kept[n]) = first(n) \cap set
                      /\ IsInjective(s) => IsInjective(kept[n])
           T == {n \in Nat : n <= Len(s) => Good(n)}
<1>4. 0 \in T
    <2>1. << >> \in Seq(S) /\ Range(<< >>) = {} /\ IsInjective(<< >>)
        BY DEF Range, IsInjective
    <2>2. first(0) = {}
        OBVIOUS
    <2>3. QED
        BY <1>3, <2>1, <2>2
<1>5. ASSUME NEW n \in Nat, n \in T PROVE n + 1 \in T
    <2>1. SUFFICES ASSUME n + 1 <= Len(s) PROVE Good(n + 1)
        OBVIOUS
    <2>2. /\ n <= Len(s) /\ n + 1 \in 1 .. Len(s) /\ (n + 1) - 1 = n
        BY <1>1, <2>1
    <2>3. Good(n)
        BY <1>5, <2>2
    <2>4. PICK k \in Seq(S) : k = kept[n]
        BY <2>3
    <2>5. PICK x \in S : x = s[n + 1]
        BY <1>1, <2>2
    <2>6. kept[n + 1] = IF x \in set THEN Append(k, x) ELSE k
        BY <1>3, <2>2, <2>4, <2>5
    <2>7. first(n + 1) = first(n) \cup {x}
        BY <2>5
    <2>8. IsInjective(s) => x \notin first(n)
        <3>1. SUFFICES ASSUME IsInjective(s), NEW i \in 1 .. n, s[i] = s[n + 1]
                       PROVE  FALSE
            BY <2>5
        <3>2. i \in DOMAIN s /\ n + 1 \in DOMAIN s /\ i # n + 1
            BY <1>1, <2>2
        <3>3. QED
            BY <3>1, <3>2 DEF IsInjective
    <2> HIDE DEF first
    <2>9. /\ Range(k) = first(n) \cap set
          /\ IsInjective(s) => IsInjective(k)
        BY <2>3, <2>4
    <2>10. CASE x \in set
        <3>1. /\ Append(k, x) \in Seq(S) /\ Range(Append(k, x)) = Range(k) \cup {x}
              /\ IsInjective(k) /\ x \notin Range(k) => IsInjective(Append(k, x))
            BY AppendRange
        <3>2. kept[n + 1] = Append(k, x)
            BY <2>6, <2>10
        <3>3. Range(k) \cup {x} = first(n + 1) \cap set
            BY <2>7, <2>9, <2>10
        <3>4. IsInjective(s) => x \notin Range(k)
            BY <2>8, <2>9
        <3>5. QED
            BY <2>9, <3>1, <3>2, <3>3, <3>4
    <2>11. CASE x \notin set
        <3>1. kept[n + 1] = k
            BY <2>6, <2>11
        <3>2. first(n) \cap set = first(n + 1) \cap set
            BY <2>7, <2>11
        <3>3. QED
            BY <2>9, <3>1, <3>2
    <2>12. QED
        BY <2>10, <2>11
<1>6. Len(s) \in T
    <2> HIDE DEF T
    <2>1. QED
        BY <1>1, <1>4, <1>5, NaturalInduction
<1>7. Good(Len(s))
    BY <1>1, <1>6
<1>8. first(Len(s)) = Range(s)
    BY <1>1
<1>9. QED
    BY <1>2, <1>7, <1>8

----------------------------------------------------------------------------
(***************************************************************************)
(* What holds of one client, and steps that leave it as it is.             *)
(***************************************************************************)

\* What EchoesAreFaithful says of client c.
EchoIsFaithful(c) ==
    IF conn[c].state = "closed"
    THEN IsPrefix(conn[c].received, SentBy(c))
    ELSE conn[c].received \o conn[c].toClient \o ReplyTo(c) \o conn[c].toServer
             = SentBy(c)

\* The fields of a connection.
LEMMA ConnectionFields ==
    ASSUME StreamInvariant, NEW c \in Clients
    PROVE  /\ conn[c] \in Connection
           /\ conn[c].received \in ByteSeq /\ conn[c].toClient \in ByteSeq
           /\ conn[c].toServer \in ByteSeq /\ conn[c].sent \in Nat
           /\ ReplyTo(c) \in ByteSeq
           /\ EchoIsFaithful(c)
           /\ SentBy(c) \in ByteSeq /\ Len(SentBy(c)) = conn[c].sent
<1>1. conn[c] \in Connection
    BY DEF StreamInvariant
<1>2. ReplyTo(c) \in ByteSeq
    <2>1. << >> \in ByteSeq
        BY DEF ByteSeq
    <2>2. QED
        BY <2>1 DEF StreamInvariant, ReplyTo
<1>3. EchoIsFaithful(c)
    BY DEF StreamInvariant, EchoesAreFaithful, EchoIsFaithful
<1>4. SentBy(c) \in ByteSeq /\ Len(SentBy(c)) = conn[c].sent
    <2>1. conn[c].sent \in Nat
        BY <1>1 DEF Connection
    <2>2. QED
        BY <2>1, FirstBytes DEF SentBy
<1>5. QED
    BY <1>1, <1>2, <1>3, <1>4 DEF Connection

\* The first of four sequences of bytes is a prefix of them all.
LEMMA FirstIsPrefix ==
    ASSUME NEW p \in ByteSeq, NEW q \in ByteSeq, NEW v \in ByteSeq, NEW w \in ByteSeq
    PROVE  IsPrefix(p, p \o q \o v \o w)
<1>1. (p \o q) \o v = p \o (q \o v)
    BY BytesAssociate
<1>2. PICK back \in ByteSeq : back = q \o v
    BY BytesConcat
<1>3. (p \o back) \o w = p \o (back \o w)
    BY BytesAssociate
<1>4. PICK rest \in ByteSeq : rest = back \o w
    BY BytesConcat
<1>5. IsPrefix(p, p \o rest)
    BY PrefixOfConcat DEF ByteSeq
<1>6. QED
    BY <1>1, <1>2, <1>3, <1>4, <1>5

\* A client that is connected has a prefix of what it sent.
LEMMA OpenHasPrefix ==
    ASSUME StreamInvariant, NEW c \in Clients, conn[c].state # "closed"
    PROVE  IsPrefix(conn[c].received, SentBy(c))
<1>1. /\ conn[c].received \in ByteSeq /\ conn[c].toClient \in ByteSeq
      /\ ReplyTo(c) \in ByteSeq /\ conn[c].toServer \in ByteSeq
    BY ConnectionFields
<1>2. conn[c].received \o conn[c].toClient \o ReplyTo(c) \o conn[c].toServer
          = SentBy(c)
    BY ConnectionFields DEF EchoIsFaithful
<1>3. QED
    BY <1>1, <1>2, FirstIsPrefix

\* A client whose connection and reply do not change stays as faithful.
LEMMA FaithfulFrame ==
    ASSUME NEW c \in Clients, EchoIsFaithful(c),
           conn'[c].state = conn[c].state, conn'[c].sent = conn[c].sent,
           conn'[c].received = conn[c].received,
           conn'[c].toClient = conn[c].toClient,
           conn'[c].toServer = conn[c].toServer,
           ReplyTo(c)' = ReplyTo(c)
    PROVE  EchoIsFaithful(c)'
BY DEF EchoIsFaithful, SentBy

\* The parts of the invariant after a step.
LEMMA StreamFromParts ==
    ASSUME DOMAIN server' = {"phase", "readSet", "readReady", "reply", "started"},
           server'.reply \in ByteSeq, conn' \in [Clients -> Connection],
           server'.phase = "send" => server'.reply # << >>,
           \A c \in Clients : conn'[c].error # "none" => conn'[c].state = "closed",
           \A c \in Clients : EchoIsFaithful(c)'
    PROVE  StreamInvariant'
BY DEF StreamInvariant, EchoesAreFaithful, EchoIsFaithful

\* A step that changes one connection, and no reply to another client.
LEMMA OneConnectionKeeps ==
    ASSUME StreamInvariant, NEW c \in Clients, NEW k \in Connection,
           conn' = [conn EXCEPT ![c] = k],
           k.error # "none" => k.state = "closed",
           DOMAIN server' = DOMAIN server, server'.reply \in ByteSeq,
           server'.phase = "send" => server'.reply # << >>,
           \A d \in Clients : d # c => ReplyTo(d)' = ReplyTo(d),
           EchoIsFaithful(c)'
    PROVE  StreamInvariant'
<1>1. \A d \in Clients : d # c => conn'[d] = conn[d]
    BY DEF StreamInvariant
<1>2. conn' \in [Clients -> Connection] /\ conn'[c] = k
    BY DEF StreamInvariant
<1>3. ASSUME NEW d \in Clients PROVE EchoIsFaithful(d)'
    <2>1. CASE d = c
        BY <2>1
    <2>2. CASE d # c
        BY <1>1, <2>2, ConnectionFields, FaithfulFrame
    <2>3. QED
        BY <2>1, <2>2
<1>4. \A d \in Clients : conn'[d].error # "none" => conn'[d].state = "closed"
    BY <1>1, <1>2 DEF StreamInvariant
<1>5. QED
    BY <1>2, <1>3, <1>4, StreamFromParts DEF StreamInvariant

\* A step of a client changes its own connection only, and the server and its
\* replies not at all.
LEMMA ClientStepKeeps ==
    ASSUME StreamInvariant, NEW c \in Clients, NEW k \in Connection,
           conn' = [conn EXCEPT ![c] = k], server' = server,
           k.error # "none" => k.state = "closed",
           EchoIsFaithful(c)'
    PROVE  StreamInvariant'
<1>1. \A d \in Clients : ReplyTo(d)' = ReplyTo(d)
    BY DEF ReplyTo, Sending
<1>2. /\ DOMAIN server' = DOMAIN server /\ server'.reply \in ByteSeq
      /\ server'.phase = "send" => server'.reply # << >>
    BY DEF StreamInvariant
<1>3. QED
    BY <1>1, <1>2, OneConnectionKeeps

\* A step of the server that is not a receive or a send under way: it has no
\* reply in its hands before or after.
LEMMA IdleStepKeeps ==
    ASSUME StreamInvariant, server.phase # "send", server'.phase # "send",
           DOMAIN server' = DOMAIN server, server'.reply = server.reply,
           conn' = conn
    PROVE  StreamInvariant'
<1>1. \A c \in Clients : ReplyTo(c)' = ReplyTo(c)
    BY DEF ReplyTo, Sending
<1>2. ASSUME NEW c \in Clients PROVE EchoIsFaithful(c)'
    BY <1>1, ConnectionFields, FaithfulFrame
<1>3. QED
    BY <1>2, StreamFromParts DEF StreamInvariant

\* A select that fails ends the loop.
LEMMA SelectFailsKeeps ==
    ASSUME StreamInvariant, SelectFails
    PROVE  StreamInvariant'
<1>1. /\ server.phase = "select" /\ conn' = conn
      /\ server' = [server EXCEPT !.phase = "ended"]
    BY DEF SelectFails
<1>2. DOMAIN server = {"phase", "readSet", "readReady", "reply", "started"}
    BY DEF StreamInvariant
<1>3. /\ server'.phase = "ended" /\ server'.reply = server.reply
      /\ DOMAIN server' = DOMAIN server
    BY <1>1, <1>2
<1>4. QED
    BY <1>1, <1>3, IdleStepKeeps

\* A send to a client that has closed may be given up.
LEMMA LostSendKeeps ==
    ASSUME StreamInvariant, NEW c \in Clients, Sending(c), conn[c].state = "closed",
           NEW e \in {"none", "ECONNRESET", "EPIPE"},
           conn' = [conn EXCEPT ![c].error = e],
           server'.phase # "send", DOMAIN server' = DOMAIN server,
           server'.reply \in ByteSeq
    PROVE  StreamInvariant'
<1>1. \A d \in Clients : d # c => conn'[d] = conn[d]
    BY DEF StreamInvariant
<1>2. conn[c] \in Connection
    BY ConnectionFields
<1>3. /\ conn'[c] = [conn[c] EXCEPT !.error = e]
      /\ conn'[c] \in Connection
    BY <1>2 DEF StreamInvariant, Connection
<1>4. /\ conn'[c].state = conn[c].state /\ conn'[c].sent = conn[c].sent
      /\ conn'[c].received = conn[c].received
    BY <1>2, <1>3 DEF Connection
<1>5. \A d \in Clients : d # c => ReplyTo(d)' = ReplyTo(d)
    BY DEF ReplyTo, Sending
<1>6. ASSUME NEW d \in Clients PROVE EchoIsFaithful(d)'
    <2>1. CASE d = c
        BY <1>4, <2>1, ConnectionFields DEF EchoIsFaithful, SentBy
    <2>2. CASE d # c
        BY <1>1, <1>5, <2>2, ConnectionFields, FaithfulFrame
    <2>3. QED
        BY <2>1, <2>2
<1>7. conn' \in [Clients -> Connection]
    BY <1>3 DEF StreamInvariant
<1>8. \A d \in Clients : conn'[d].error # "none" => conn'[d].state = "closed"
    BY <1>1, <1>4 DEF StreamInvariant
<1>9. QED
    BY <1>6, <1>7, <1>8, StreamFromParts DEF StreamInvariant
----------------------------------------------------------------------------
(***************************************************************************)
(* Every action keeps the part of the invariant about the bytes.           *)
(***************************************************************************)

\* At first nobody has sent anything.
LEMMA StreamInit == Init => StreamInvariant
<1> SUFFICES ASSUME Init PROVE StreamInvariant
    OBVIOUS
<1>1. << >> \in ByteSeq
    BY DEF ByteSeq
<1>2. /\ server.phase = "select" /\ server.reply = << >>
      /\ DOMAIN server = {"phase", "readSet", "readReady", "reply", "started"}
    BY DEF Init
<1>3. conn \in [Clients -> Connection]
    BY <1>1 DEF Init, Connection
<1>4. ASSUME NEW c \in Clients
      PROVE  conn[c].received \o conn[c].toClient \o ReplyTo(c) \o conn[c].toServer
                 = SentBy(c)
    <2>1. /\ conn[c].received = << >> /\ conn[c].toClient = << >>
          /\ conn[c].toServer = << >> /\ conn[c].sent = 0
        BY DEF Init
    <2>2. ReplyTo(c) = << >>
        BY <1>2 DEF ReplyTo, Sending
    <2>3. SentBy(c) = << >>
        BY <2>1 DEF SentBy
    <2>4. << >> \o << >> \o << >> \o << >> = << >>
        BY <1>1, ConcatEmptySeq DEF ByteSeq
    <2>5. QED
        BY <2>1, <2>2, <2>3, <2>4
<1>5. \A c \in Clients : conn[c].state = "new" /\ conn[c].error = "none"
    BY DEF Init
<1>6. QED
    BY <1>1, <1>2, <1>3, <1>4, <1>5 DEF StreamInvariant, EchoesAreFaithful

\* Connecting sends nothing.
LEMMA ConnectKeeps ==
    ASSUME StreamInvariant, NEW c \in Clients, Connect(c)
    PROVE  StreamInvariant'
<1> DEFINE k == [conn[c] EXCEPT !.state = "open"]
<1>1. /\ conn' = [conn EXCEPT ![c] = k] /\ server' = server
      /\ conn[c].state = "new"
    BY DEF Connect
<1>2. conn[c] \in Connection /\ EchoIsFaithful(c)
    BY ConnectionFields
<1>3. /\ k \in Connection /\ k.state = "open" /\ k.error = conn[c].error
      /\ k.received = conn[c].received /\ k.toClient = conn[c].toClient
      /\ k.toServer = conn[c].toServer /\ k.sent = conn[c].sent
    BY <1>2 DEF Connection
<1> HIDE DEF k
<1>4. conn'[c] = k
    BY <1>1 DEF StreamInvariant
<1>5. ReplyTo(c)' = ReplyTo(c)
    BY <1>1 DEF ReplyTo, Sending
<1>6. EchoIsFaithful(c)'
    BY <1>1, <1>2, <1>3, <1>4, <1>5 DEF EchoIsFaithful, SentBy
<1>7. k.error = "none"
    BY <1>1, <1>3 DEF StreamInvariant
<1>8. QED
    BY <1>1, <1>3, <1>6, <1>7, ClientStepKeeps

\* A byte that is sent is at the end of all that is on its way.
LEMMA ClientSendsKeeps ==
    ASSUME StreamInvariant, NEW c \in Clients, ClientSends(c)
    PROVE  StreamInvariant'
<1> DEFINE b == <<c, conn[c].sent + 1>>
           middle == [conn[c] EXCEPT !.sent = @ + 1]
           k == [middle EXCEPT !.toServer = Append(@, b)]
<1>1. conn[c] \in Connection /\ EchoIsFaithful(c)
      /\ conn[c].received \in ByteSeq /\ conn[c].toClient \in ByteSeq
      /\ conn[c].toServer \in ByteSeq /\ conn[c].sent \in Nat
      /\ ReplyTo(c) \in ByteSeq
      /\ SentBy(c) \in ByteSeq /\ Len(SentBy(c)) = conn[c].sent
    BY ConnectionFields
<1>2. conn' = [conn EXCEPT ![c].sent = @ + 1, ![c].toServer = Append(@, b)]
      /\ server' = server /\ conn[c].state = "open"
    BY DEF ClientSends
<1>3. b \in Clients \X Nat
    BY <1>1
<1>4. Append(conn[c].toServer, b) \in ByteSeq
    BY <1>1, <1>3, AppendProperties DEF ByteSeq
<1>5. /\ middle \in Connection /\ middle.state = "open"
      /\ middle.error = conn[c].error
      /\ middle.received = conn[c].received /\ middle.toClient = conn[c].toClient
      /\ middle.toServer = conn[c].toServer /\ middle.sent = conn[c].sent + 1
    BY <1>1, <1>2 DEF Connection
<1>6. conn' = [conn EXCEPT ![c] = k]
    BY <1>1, <1>2 DEF StreamInvariant, Connection
<1> HIDE DEF middle
<1>7. /\ k \in Connection /\ k.state = "open" /\ k.error = conn[c].error
      /\ k.received = conn[c].received /\ k.toClient = conn[c].toClient
      /\ k.toServer = Append(conn[c].toServer, b) /\ k.sent = conn[c].sent + 1
    BY <1>4, <1>5 DEF Connection
<1> HIDE DEF k
<1>8. conn'[c] = k
    BY <1>6 DEF StreamInvariant
<1>9. SentBy(c)' = Append(SentBy(c), b)
    <2>1. SentBy(c)' = [n \in 1 .. conn[c].sent + 1 |-> <<c, n>>]
        BY <1>7, <1>8 DEF SentBy
    <2>2. conn[c].sent + 1 \in Nat
        BY <1>1
    <2>3. SentBy(c)' \in ByteSeq /\ Len(SentBy(c)') = conn[c].sent + 1
        BY <2>1, <2>2, FirstBytes
    <2>4. /\ Append(SentBy(c), b) \in ByteSeq
          /\ Len(Append(SentBy(c), b)) = conn[c].sent + 1
          /\ \A n \in 1 .. conn[c].sent : Append(SentBy(c), b)[n] = SentBy(c)[n]
          /\ Append(SentBy(c), b)[conn[c].sent + 1] = b
        BY <1>1, <1>3, AppendProperties DEF ByteSeq
    <2>5. \A n \in 1 .. conn[c].sent : SentBy(c)[n] = <<c, n>>
        BY DEF SentBy
    <2>6. ASSUME NEW n \in 1 .. conn[c].sent + 1
          PROVE  SentBy(c)'[n] = Append(SentBy(c), b)[n]
        <3>1. SentBy(c)'[n] = <<c, n>>
            BY <2>1
        <3>2. CASE n = conn[c].sent + 1
            BY <2>4, <3>1, <3>2
        <3>3. CASE n # conn[c].sent + 1
            <4>1. n \in 1 .. conn[c].sent
                BY <1>1, <3>3
            <4>2. QED
                BY <2>4, <2>5, <3>1, <4>1
        <3>4. QED
            BY <3>2, <3>3
    <2>7. QED
        BY <2>3, <2>4, <2>6, SeqEqual DEF ByteSeq
<1> DEFINE first == conn[c].received \o conn[c].toClient \o ReplyTo(c)
<1>10. first \in ByteSeq
    BY <1>1, ConcatProperties DEF ByteSeq
<1>11. first \o conn[c].toServer = SentBy(c)
    BY <1>1, <1>2 DEF EchoIsFaithful
<1> HIDE DEF first
<1>12. first \o Append(conn[c].toServer, b) = Append(first \o conn[c].toServer, b)
    BY <1>1, <1>3, <1>10, BytesAppend
<1>13. ReplyTo(c)' = ReplyTo(c)
    BY <1>2 DEF ReplyTo, Sending
<1>14. EchoIsFaithful(c)'
    <2>1. first \o k.toServer = SentBy(c)'
        BY <1>7, <1>9, <1>11, <1>12
    <2>2. QED
        BY <1>7, <1>8, <1>13, <2>1 DEF EchoIsFaithful, first
<1>15. k.error = "none"
    BY <1>2, <1>7 DEF StreamInvariant
<1>16. QED
    BY <1>2, <1>6, <1>7, <1>14, <1>15, ClientStepKeeps

\* A byte that is read was the first on its way back.
LEMMA ClientReadsKeeps ==
    ASSUME StreamInvariant, NEW c \in Clients, ClientReads(c)
    PROVE  StreamInvariant'
<1> DEFINE old == conn[c]
           middle == [old EXCEPT !.received = Append(@, Head(old.toClient))]
           k == [middle EXCEPT !.toClient = Tail(@)]
<1>1. old \in Connection /\ EchoIsFaithful(c)
      /\ old.received \in ByteSeq /\ old.toClient \in ByteSeq
    BY ConnectionFields
<1>2. /\ conn' = [conn EXCEPT ![c].received = Append(@, Head(conn[c].toClient)),
                              ![c].toClient = Tail(@)]
      /\ server' = server /\ old.state = "open" /\ old.toClient # << >>
    BY DEF ClientReads
<1>3. /\ Head(old.toClient) \in Clients \X Nat /\ Tail(old.toClient) \in ByteSeq
    BY <1>1, <1>2, HeadTailProperties DEF ByteSeq
<1>4. Append(old.received, Head(old.toClient)) \in ByteSeq
    BY <1>1, <1>3, AppendProperties DEF ByteSeq
<1>5. /\ middle \in Connection /\ middle.state = "open"
      /\ middle.error = old.error
      /\ middle.received = Append(old.received, Head(old.toClient))
      /\ middle.toClient = old.toClient
      /\ middle.toServer = old.toServer /\ middle.sent = old.sent
    BY <1>1, <1>2, <1>4 DEF Connection
<1>6. conn' = [conn EXCEPT ![c] = k]
    BY <1>1, <1>2 DEF StreamInvariant, Connection
<1> HIDE DEF middle
<1>7. /\ k \in Connection /\ k.state = "open" /\ k.error = old.error
      /\ k.received = Append(old.received, Head(old.toClient))
      /\ k.toClient = Tail(old.toClient)
      /\ k.toServer = old.toServer /\ k.sent = old.sent
    BY <1>3, <1>5 DEF Connection
<1> HIDE DEF k
<1>8. conn'[c] = k
    BY <1>6 DEF StreamInvariant
<1>9. k.received \o k.toClient = old.received \o old.toClient
    BY <1>1, <1>2, <1>7, MoveHead DEF ByteSeq
<1>10. ReplyTo(c)' = ReplyTo(c)
    BY <1>2 DEF ReplyTo, Sending
<1>11. EchoIsFaithful(c)'
    BY <1>1, <1>2, <1>7, <1>8, <1>9, <1>10 DEF EchoIsFaithful, SentBy
<1>12. k.error = "none"
    BY <1>2, <1>7 DEF StreamInvariant
<1>13. QED
    BY <1>2, <1>6, <1>7, <1>11, <1>12, ClientStepKeeps

\* A client that closes has a prefix of what it sent.
LEMMA ClientClosesKeeps ==
    ASSUME StreamInvariant, NEW c \in Clients, ClientCloses(c)
    PROVE  StreamInvariant'
<1> DEFINE old == conn[c]
           reset == old.toClient # << >>
<1>1. old \in Connection /\ EchoIsFaithful(c)
      /\ old.received \in ByteSeq /\ old.toClient \in ByteSeq
      /\ old.toServer \in ByteSeq /\ ReplyTo(c) \in ByteSeq
    BY ConnectionFields
<1>2. PICK lost \in {FALSE, reset} :
          conn' = [conn EXCEPT ![c].state = "closed",
                               ![c].error = IF reset THEN "ECONNRESET" ELSE "none",
                               ![c].toClient = << >>,
                               ![c].toServer = IF lost THEN << >> ELSE @]
    BY DEF ClientCloses
<1>3. server' = server /\ old.state = "open"
    BY DEF ClientCloses
<1> DEFINE k == [state    |-> "closed",
                 sent     |-> old.sent,
                 received |-> old.received,
                 toServer |-> IF lost THEN << >> ELSE old.toServer,
                 toClient |-> << >>,
                 error    |-> IF reset THEN "ECONNRESET" ELSE "none"]
<1>4. k \in Connection
    <2>1. << >> \in ByteSeq
        BY DEF ByteSeq
    <2>2. QED
        BY <1>1, <2>1 DEF Connection
<1>5. conn' = [conn EXCEPT ![c] = k]
    <2>1. conn[c] = [state |-> old.state, sent |-> old.sent,
                     received |-> old.received, toServer |-> old.toServer,
                     toClient |-> old.toClient, error |-> old.error]
        BY <1>1 DEF Connection
    <2>2. conn'[c] = k
        BY <1>2, <2>1 DEF StreamInvariant
    <2>3. \A d \in Clients : d # c => conn'[d] = conn[d]
        BY <1>2 DEF StreamInvariant
    <2>4. DOMAIN conn' = Clients /\ conn' = [d \in Clients |-> conn'[d]]
        BY <1>2 DEF StreamInvariant
    <2> HIDE DEF k
    <2>5. QED
        BY <2>2, <2>3, <2>4 DEF StreamInvariant
<1>6. k.state = "closed" /\ k.received = old.received /\ k.sent = old.sent
    OBVIOUS
<1> HIDE DEF k
<1>7. conn'[c] = k
    BY <1>5 DEF StreamInvariant
<1>8. IsPrefix(old.received, SentBy(c))
    BY <1>3, OpenHasPrefix
<1>9. EchoIsFaithful(c)'
    BY <1>6, <1>7, <1>8 DEF EchoIsFaithful, SentBy
<1>10. QED
    BY <1>3, <1>4, <1>5, <1>6, <1>9, ClientStepKeeps

\* What a socket that was served leaves of the server.
LEMMA NextReadyFields ==
    ASSUME NEW s, DOMAIN s = {"phase", "readSet", "readReady", "reply", "started"}
    PROVE  /\ DOMAIN NextReady(s) = DOMAIN s
           /\ NextReady(s).phase # "send"
           /\ NextReady(s).reply = s.reply
BY DEF NextReady

\* The server waits in select, or accepts, or removes a socket: nothing is
\* received or sent.
LEMMA SelectKeeps == StreamInvariant /\ Select => StreamInvariant'
<1> SUFFICES ASSUME StreamInvariant, Select PROVE StreamInvariant'
    OBVIOUS
<1>1. DOMAIN server = {"phase", "readSet", "readReady", "reply", "started"}
    BY DEF StreamInvariant
<1>2. PICK ready : server' = [server EXCEPT !.phase = "serve", !.readReady = ready]
    BY DEF Select
<1>3. /\ DOMAIN server' = DOMAIN server /\ server'.phase # "send"
      /\ server'.reply = server.reply
    BY <1>1, <1>2
<1>4. server.phase # "send" /\ conn' = conn
    BY DEF Select
<1>5. QED
    BY <1>3, <1>4, IdleStepKeeps

LEMMA AcceptKeeps == StreamInvariant /\ Accept => StreamInvariant'
<1> SUFFICES ASSUME StreamInvariant, Accept PROVE StreamInvariant'
    OBVIOUS
<1>1. DOMAIN server = {"phase", "readSet", "readReady", "reply", "started"}
    BY DEF StreamInvariant
<1>2. PICK s : /\ server' = NextReady(s)
               /\ \/ s = server
                  \/ s = [server EXCEPT !.readSet = Append(@, Head(backlog))]
    BY DEF Accept
<1>3. DOMAIN s = DOMAIN server /\ s.reply = server.reply
    BY <1>1, <1>2
<1>4. /\ DOMAIN server' = DOMAIN server /\ server'.phase # "send"
      /\ server'.reply = server.reply
    BY <1>1, <1>2, <1>3, NextReadyFields
<1>5. server.phase # "send" /\ conn' = conn
    BY DEF Accept, Serving
<1>6. QED
    BY <1>4, <1>5, IdleStepKeeps

LEMMA RemoveSocketKeeps ==
    ASSUME StreamInvariant, NEW c \in Clients, RemoveSocket(c)
    PROVE  StreamInvariant'
<1>1. DOMAIN server = {"phase", "readSet", "readReady", "reply", "started"}
    BY DEF StreamInvariant
<1>2. PICK s : /\ server' = NextReady(s)
               /\ s = [server EXCEPT !.readSet = Kept(@, Sockets \ {c})]
    BY DEF RemoveSocket
<1>3. DOMAIN s = DOMAIN server /\ s.reply = server.reply
    BY <1>1, <1>2
<1>4. /\ DOMAIN server' = DOMAIN server /\ server'.phase # "send"
      /\ server'.reply = server.reply
    BY <1>1, <1>2, <1>3, NextReadyFields
<1>5. server.phase # "send" /\ conn' = conn
    BY DEF RemoveSocket, Serving
<1>6. QED
    BY <1>4, <1>5, IdleStepKeeps

\* What is left of the server when a send returns.
LEMMA SendReturnsFields ==
    ASSUME StreamInvariant, SendReturns
    PROVE  /\ DOMAIN server' = DOMAIN server /\ server'.phase # "send"
           /\ server'.reply = << >> /\ << >> \in ByteSeq
<1>1. DOMAIN server = {"phase", "readSet", "readReady", "reply", "started"}
    BY DEF StreamInvariant
<1>2. PICK s : server' = NextReady(s) /\ s = [server EXCEPT !.reply = << >>]
    BY DEF SendReturns
<1>3. DOMAIN s = DOMAIN server /\ s.reply = << >>
    BY <1>1, <1>2
<1>4. << >> \in ByteSeq
    BY DEF ByteSeq
<1>5. QED
    BY <1>1, <1>2, <1>3, <1>4, NextReadyFields

LEMMA SendToClosedKeeps ==
    ASSUME StreamInvariant, NEW c \in Clients, SendToClosed(c)
    PROVE  StreamInvariant'
<1>1. PICK e \in {"none", "EPIPE"} : conn' = [conn EXCEPT ![c].error = e]
    BY DEF SendToClosed
<1>2. Sending(c) /\ conn[c].state = "closed" /\ SendReturns
    BY DEF SendToClosed
<1>3. QED
    BY <1>1, <1>2, SendReturnsFields, LostSendKeeps

LEMMA SendToResetKeeps ==
    ASSUME StreamInvariant, NEW c \in Clients, SendToReset(c)
    PROVE  StreamInvariant'
<1>1. Sending(c) /\ conn[c].error # "none" /\ conn[c] \in Connection
    BY ConnectionFields DEF SendToReset
<1>2. conn[c].state = "closed"
    BY <1>1 DEF StreamInvariant
<1>3. PICK e \in {"none", "ECONNRESET", "EPIPE"} :
          conn' = [conn EXCEPT ![c].error = e]
    <2>1. CASE conn' = conn
        <3>1. conn[c].error \in {"none", "ECONNRESET", "EPIPE"}
            BY <1>1 DEF Connection
        <3>2. conn' = [conn EXCEPT ![c].error = conn[c].error]
            BY <1>1, <2>1 DEF StreamInvariant, Connection
        <3>3. QED
            BY <3>1, <3>2
    <2>2. CASE conn' = [conn EXCEPT ![c].error = "EPIPE"]
        BY <2>2
    <2>3. QED
        BY <2>1, <2>2 DEF SendToReset
<1>4. /\ server'.phase # "send" /\ DOMAIN server' = DOMAIN server
      /\ server'.reply \in ByteSeq
    <2>1. CASE SendReturns
        BY <2>1, SendReturnsFields
    <2>2. CASE server' = [server EXCEPT !.phase = "ended"]
        BY <2>2 DEF StreamInvariant
    <2>3. QED
        BY <2>1, <2>2 DEF SendToReset
<1>5. QED
    BY <1>1, <1>2, <1>3, <1>4, LostSendKeeps
\* A receive takes a first part of what is there.
LEMMA ReceivedIsFirstPart ==
    ASSUME NEW s \in ByteSeq
    PROVE  /\ Received(s) \in ByteSeq
           /\ SubSeq(s, Len(Received(s)) + 1, Len(s)) \in ByteSeq
           /\ Received(s) \o SubSeq(s, Len(Received(s)) + 1, Len(s)) = s
<1> DEFINE k == Min({BufferSize, Len(s)})
<1>1. Len(s) \in Nat /\ BufferSize \in Nat
    BY EchoAssumption, LenProperties DEF ByteSeq
<1>2. k \in 0 .. Len(s)
    <2>1. \E x \in {BufferSize, Len(s)} : \A y \in {BufferSize, Len(s)} : x <= y
        BY <1>1
    <2>2. k \in {BufferSize, Len(s)} /\ \A y \in {BufferSize, Len(s)} : k <= y
        BY <2>1 DEF Min
    <2> HIDE DEF k
    <2>3. QED
        BY <1>1, <2>2
<1>3. Received(s) = SubSeq(s, 1, k)
    BY DEF Received
<1> HIDE DEF k
<1>4. /\ SubSeq(s, 1, k) \in ByteSeq
      /\ SubSeq(s, k + 1, Len(s)) \in ByteSeq
      /\ SubSeq(s, 1, k) \o SubSeq(s, k + 1, Len(s)) = s
    BY <1>2, CutAnywhere DEF ByteSeq
<1>5. Len(SubSeq(s, 1, k)) = k
    BY <1>1, <1>2, SubSeqProperties DEF ByteSeq
<1>6. QED
    BY <1>3, <1>4, <1>5

\* What is received moves from the connection into the hands of the server.
LEMMA ReceiveKeeps ==
    ASSUME StreamInvariant, NEW c \in Clients, Receive(c)
    PROVE  StreamInvariant'
<1> DEFINE old == conn[c]
           bytes == Received(old.toServer)
           rest == SubSeq(old.toServer, Len(bytes) + 1, Len(old.toServer))
           k == [old EXCEPT !.toServer = rest]
<1>1. /\ old \in Connection /\ EchoIsFaithful(c)
      /\ old.received \in ByteSeq /\ old.toClient \in ByteSeq
      /\ old.toServer \in ByteSeq
    BY ConnectionFields
<1>2. /\ bytes # << >>
      /\ server' = [server EXCEPT !.phase = "send", !.reply = bytes,
                                  !.started = FALSE]
      /\ conn' = [conn EXCEPT ![c].toServer = SubSeq(@, Len(bytes) + 1, Len(@))]
      /\ server.phase = "serve" /\ Head(server.readReady) = c
    BY DEF Receive, Serving
<1>3. bytes \in ByteSeq /\ rest \in ByteSeq /\ bytes \o rest = old.toServer
    BY <1>1, ReceivedIsFirstPart
<1>4. conn' = [conn EXCEPT ![c] = k]
    BY <1>1, <1>2 DEF StreamInvariant, Connection
<1> HIDE DEF rest, bytes
<1>5. /\ k \in Connection /\ k.state = old.state /\ k.error = old.error
      /\ k.received = old.received /\ k.toClient = old.toClient
      /\ k.toServer = rest /\ k.sent = old.sent
    BY <1>1, <1>3 DEF Connection
<1> HIDE DEF k
<1>6. conn'[c] = k
    BY <1>4 DEF StreamInvariant
<1>7. /\ DOMAIN server' = DOMAIN server /\ server'.reply = bytes
      /\ server'.phase = "send" /\ server'.readReady = server.readReady
    BY <1>2 DEF StreamInvariant
<1>8. ReplyTo(c) = << >> /\ ReplyTo(c)' = bytes
    BY <1>2, <1>7 DEF ReplyTo, Sending
<1>9. \A d \in Clients : d # c => ReplyTo(d)' = ReplyTo(d)
    BY <1>2, <1>7 DEF ReplyTo, Sending
<1>10. EchoIsFaithful(c)'
    <2>1. CASE old.state = "closed"
        BY <1>1, <1>5, <1>6, <2>1 DEF EchoIsFaithful, SentBy
    <2>2. CASE old.state # "closed"
        <3>1. PICK back \in ByteSeq : back = old.received \o old.toClient
            BY <1>1, BytesConcat
        <3>2. back \o << >> = back
            BY <3>1, ConcatEmptySeq DEF ByteSeq
        <3>3. back \o old.toServer = SentBy(c)
            BY <1>1, <1>8, <2>2, <3>1, <3>2 DEF EchoIsFaithful
        <3>4. (back \o bytes) \o rest = back \o (bytes \o rest)
            BY <1>3, <3>1, BytesAssociate
        <3>5. (back \o bytes) \o rest = SentBy(c)
            BY <1>3, <3>3, <3>4
        <3>6. k.received \o k.toClient \o bytes \o k.toServer = SentBy(c)
            BY <1>5, <3>1, <3>5
        <3>7. QED
            BY <1>5, <1>6, <1>8, <2>2, <3>6 DEF EchoIsFaithful, SentBy
    <2>3. QED
        BY <2>1, <2>2
<1>11. k.error # "none" => k.state = "closed"
    BY <1>5 DEF StreamInvariant
<1>12. /\ server'.reply \in ByteSeq
       /\ server'.phase = "send" => server'.reply # << >>
    BY <1>2, <1>3, <1>7
<1>13. k \in Connection /\ DOMAIN server' = DOMAIN server
    BY <1>5, <1>7
<1>14. QED
    BY <1>4, <1>9, <1>10, <1>11, <1>12, <1>13, OneConnectionKeeps
\* A byte that is sent was the first of the reply, and is the last of what is
\* on its way back.
LEMMA SendByteKeeps ==
    ASSUME StreamInvariant, NEW c \in Clients, SendByte(c)
    PROVE  StreamInvariant'
<1> DEFINE old == conn[c]
           byte == Head(server.reply)
           left == Tail(server.reply)
           k == [old EXCEPT !.toClient = Append(@, byte)]
<1>1. /\ old \in Connection /\ EchoIsFaithful(c)
      /\ old.received \in ByteSeq /\ old.toClient \in ByteSeq
      /\ old.toServer \in ByteSeq
    BY ConnectionFields
<1>2. /\ Sending(c) /\ old.state = "open"
      /\ conn' = [conn EXCEPT ![c].toClient = Append(@, byte)]
      /\ IF left = << >>
         THEN SendReturns
         ELSE server' = [server EXCEPT !.reply = left, !.started = TRUE]
    BY DEF SendByte, Unsent
<1>3. /\ server.reply \in ByteSeq /\ server.reply # << >>
      /\ byte \in Clients \X Nat /\ left \in ByteSeq
    <2>1. server.reply \in ByteSeq /\ server.reply # << >>
        BY <1>2 DEF StreamInvariant, Sending
    <2>2. QED
        BY <2>1, HeadTailProperties DEF ByteSeq
<1>4. Append(old.toClient, byte) \in ByteSeq
    BY <1>1, <1>3, AppendProperties DEF ByteSeq
<1>5. conn' = [conn EXCEPT ![c] = k]
    BY <1>1, <1>2 DEF StreamInvariant, Connection
<1>6. /\ k \in Connection /\ k.state = "open" /\ k.error = old.error
      /\ k.received = old.received /\ k.toClient = Append(old.toClient, byte)
      /\ k.toServer = old.toServer /\ k.sent = old.sent
    BY <1>1, <1>2, <1>4 DEF Connection
<1> HIDE DEF k
<1>7. conn'[c] = k
    BY <1>5 DEF StreamInvariant
<1>8. /\ DOMAIN server' = DOMAIN server
      /\ server'.reply = left
      /\ server'.phase = "send" => server'.reply # << >>
      /\ ReplyTo(c)' = left
      /\ \A d \in Clients : d # c => ReplyTo(d)' = ReplyTo(d)
    <2>1. server.phase = "send" /\ Head(server.readReady) = c
        BY <1>2 DEF Sending
    <2>2. \A d \in Clients : d # c => ReplyTo(d) = << >>
        BY <2>1 DEF ReplyTo, Sending
    <2>3. CASE left = << >>
        <3>1. /\ DOMAIN server' = DOMAIN server /\ server'.phase # "send"
              /\ server'.reply = << >>
            BY <1>2, <2>3, SendReturnsFields
        <3>2. \A d \in Clients : ReplyTo(d)' = << >>
            BY <3>1 DEF ReplyTo, Sending
        <3>3. QED
            BY <2>2, <2>3, <3>1, <3>2
    <2>4. CASE left # << >>
        <3> HIDE DEF left
        <3>1. /\ DOMAIN server' = DOMAIN server /\ server'.phase = "send"
              /\ server'.reply = left /\ server'.readReady = server.readReady
            BY <1>2, <2>1, <2>4 DEF StreamInvariant
        <3>2. ReplyTo(c)' = left
            BY <2>1, <3>1 DEF ReplyTo, Sending
        <3>3. \A d \in Clients : d # c => ReplyTo(d)' = << >>
            BY <2>1, <3>1 DEF ReplyTo, Sending
        <3>4. QED
            BY <2>2, <2>4, <3>1, <3>2, <3>3
    <2>5. QED
        BY <2>3, <2>4
<1>9. EchoIsFaithful(c)'
    <2>1. ReplyTo(c) = server.reply
        BY <1>2 DEF ReplyTo
    <2>2. old.received \o old.toClient \o server.reply \o old.toServer = SentBy(c)
        BY <1>1, <1>2, <2>1 DEF EchoIsFaithful
    <2>3. PICK back \in ByteSeq : back = old.received \o old.toClient
        BY <1>1, BytesConcat
    <2>4. old.received \o Append(old.toClient, byte) = Append(back, byte)
        BY <1>1, <1>3, <2>3, BytesAppend
    <2>5. Append(back, byte) \o left = back \o server.reply
        BY <1>3, <2>3, MoveHead DEF ByteSeq
    <2> HIDE DEF byte, left
    <2>6. k.received \o k.toClient \o left \o k.toServer = SentBy(c)
        BY <1>6, <2>2, <2>3, <2>4, <2>5
    <2>7. QED
        BY <1>6, <1>7, <1>8, <2>6 DEF EchoIsFaithful, SentBy
<1>10. k.error # "none" => k.state = "closed"
    BY <1>2, <1>6 DEF StreamInvariant
<1> HIDE DEF byte, left
<1>11. k \in Connection /\ server'.reply \in ByteSeq
    BY <1>3, <1>6, <1>8
<1>12. QED
    BY <1>5, <1>8, <1>9, <1>10, <1>11, OneConnectionKeeps

\* Every step keeps what the invariant says of the bytes.
LEMMA StreamNext == StreamInvariant /\ [Next]_vars => StreamInvariant'
<1> SUFFICES ASSUME StreamInvariant, [Next]_vars PROVE StreamInvariant'
    OBVIOUS
<1>1. CASE Select
    BY <1>1, SelectKeeps
<1>2. CASE Accept
    BY <1>2, AcceptKeeps
<1>3. ASSUME NEW c \in Clients, Receive(c) PROVE StreamInvariant'
    BY <1>3, ReceiveKeeps
<1>4. ASSUME NEW c \in Clients, RemoveSocket(c) PROVE StreamInvariant'
    BY <1>4, RemoveSocketKeeps
<1>5. ASSUME NEW c \in Clients, SendByte(c) PROVE StreamInvariant'
    BY <1>5, SendByteKeeps
<1>6. ASSUME NEW c \in Clients, SendToClosed(c) PROVE StreamInvariant'
    BY <1>6, SendToClosedKeeps
<1>7. ASSUME NEW c \in Clients, SendToReset(c) PROVE StreamInvariant'
    BY <1>7, SendToResetKeeps
<1>8. ASSUME NEW c \in Clients, Connect(c) PROVE StreamInvariant'
    BY <1>8, ConnectKeeps
<1>9. ASSUME NEW c \in Clients, ClientSends(c) PROVE StreamInvariant'
    BY <1>9, ClientSendsKeeps
<1>10. ASSUME NEW c \in Clients, ClientReads(c) PROVE StreamInvariant'
    BY <1>10, ClientReadsKeeps
<1>11. ASSUME NEW c \in Clients, ClientCloses(c) PROVE StreamInvariant'
    BY <1>11, ClientClosesKeeps
<1>12. CASE UNCHANGED vars
    BY <1>12 DEF vars, StreamInvariant, EchoesAreFaithful, ReplyTo, Sending, SentBy
<1>13. CASE SelectFails
    BY <1>13, SelectFailsKeeps
<1>14. QED
    BY <1>1, <1>2, <1>3, <1>4, <1>5, <1>6, <1>7, <1>8, <1>9, <1>10, <1>11, <1>12,
       <1>13 DEF Next, ServerStep

----------------------------------------------------------------------------
(***************************************************************************)
(* The vectors of sockets, their descriptors, and what is to be accepted.  *)
(***************************************************************************)

ServerFields == {"phase", "readSet", "readReady", "reply", "started"}

\* The invariant, by what its parts are about.
ServerPart ==
    /\ server.phase \in {"select", "serve", "send", "ended"}
    /\ server.readSet \in Seq(DOMAIN descriptor)
    /\ server.readReady \in Seq(DOMAIN descriptor)
    /\ server.reply \in ByteSeq
    /\ server.started \in BOOLEAN
    /\ server.phase \in {"serve", "send"} => server.readReady # << >>
    /\ IsInjective(server.readSet)
    /\ IsInjective(server.readReady)

DescriptorPart ==
    /\ DOMAIN descriptor \subseteq Sockets
    /\ descriptor \in [DOMAIN descriptor -> 0 .. MaxDescriptors - 1]
    /\ IsInjective(descriptor)

BacklogPart ==
    /\ backlog \in Seq(Clients)
    /\ IsInjective(backlog)
    /\ Range(backlog) \cap DOMAIN descriptor = {}
    /\ \A c \in Clients :
           conn[c].state = "new" => c \notin Range(backlog) \cup DOMAIN descriptor

ConnectionPart ==
    /\ conn \in [Clients -> Connection]
    /\ \A c \in Clients :
           /\ conn[c].sent <= MaxSent[c]
           /\ Len(conn[c].toServer) <= ToServer
           /\ Len(conn[c].toClient) <= ToClient

\* The parts make up the invariant.
LEMMA Parts ==
    SocketInvariant <=> /\ ServerPart /\ DescriptorPart /\ BacklogPart
                        /\ ConnectionPart /\ NoReadyCallWaits
BY DEF SocketInvariant, TypeOK, ServerPart, DescriptorPart, BacklogPart,
       ConnectionPart

\* And so after a step.
LEMMA PartsAfter ==
    ASSUME ServerPart', DescriptorPart', BacklogPart', ConnectionPart',
           NoReadyCallWaits'
    PROVE  SocketInvariant'
BY DEF SocketInvariant, TypeOK, ServerPart, DescriptorPart, BacklogPart,
       ConnectionPart

\* A step that leaves the server's vectors alone.
LEMMA ServerPartFrame ==
    ASSUME ServerPart, server' = server, descriptor' = descriptor
    PROVE  ServerPart'
BY DEF ServerPart

\* Nor the descriptors.
LEMMA DescriptorPartFrame ==
    ASSUME DescriptorPart, descriptor' = descriptor
    PROVE  DescriptorPart'
BY DEF DescriptorPart

\* A step that changes one connection, within its limits.
LEMMA ConnectionPartKeeps ==
    ASSUME ConnectionPart, NEW c \in Clients, NEW k \in Connection,
           conn' = [conn EXCEPT ![c] = k],
           k.sent <= MaxSent[c], Len(k.toServer) <= ToServer,
           Len(k.toClient) <= ToClient
    PROVE  /\ ConnectionPart'
           /\ conn'[c] = k
           /\ \A d \in Clients : d # c => conn'[d] = conn[d]
BY DEF ConnectionPart

\* A connection that is not new stays so, and the backlog as it is.
LEMMA BacklogPartFrame ==
    ASSUME BacklogPart, ConnectionPart,
           descriptor' = descriptor, backlog' = backlog,
           \A d \in Clients : conn'[d].state = "new" => conn[d].state = "new"
    PROVE  BacklogPart'
BY DEF BacklogPart

\* What was readable stays so.
LEMMA ReadableStays ==
    ASSUME DescriptorPart, ServerPart, NoReadyCallWaits,
           Range(ToServe') \subseteq Range(ToServe),
           Range(ToServe) \subseteq Sockets,
           backlog # << >> => backlog' # << >>,
           \A d \in Clients \cap Range(ToServe') :
               (conn[d].toServer # << >> \/ conn[d].state = "closed")
                   => (conn'[d].toServer # << >> \/ conn'[d].state = "closed")
    PROVE  NoReadyCallWaits'
<1>1. ASSUME NEW s \in Range(ToServe') PROVE Readable(s)'
    <2>1. Readable(s)
        BY <1>1 DEF NoReadyCallWaits
    <2>2. CASE s = listenSocket
        BY <2>1, <2>2 DEF Readable
    <2>3. CASE s # listenSocket
        <3>1. s \in Clients
            BY <2>3 DEF Sockets
        <3>2. QED
            BY <2>1, <2>3, <3>1 DEF Readable
    <2>4. QED
        BY <2>2, <2>3
<1>2. QED
    BY <1>1 DEF NoReadyCallWaits

\* What is still to be served.
LEMMA ToServeFacts ==
    ASSUME ServerPart, DescriptorPart
    PROVE  /\ Range(server.readReady) \subseteq Sockets
           /\ Range(ToServe) \subseteq Range(server.readReady)
           /\ server.phase \in {"serve", "send"} =>
                  /\ Tail(server.readReady) \in Seq(DOMAIN descriptor)
                  /\ IsInjective(Tail(server.readReady))
                  /\ Head(server.readReady) \in Range(server.readReady)
                  /\ Head(server.readReady) \notin Range(Tail(server.readReady))
                  /\ Range(Tail(server.readReady)) \subseteq Range(ToServe)
                  /\ Len(server.readReady) # 1 => Tail(server.readReady) # << >>
<1> DEFINE ready == server.readReady
<1>1. ready \in Seq(DOMAIN descriptor) /\ IsInjective(ready)
    BY DEF ServerPart
<1>2. Range(ready) \subseteq Sockets
    BY <1>1, SeqRange DEF DescriptorPart
<1>3. server.phase \in {"serve", "send"} => ready # << >>
    BY DEF ServerPart
<1> HIDE DEF ready
<1>4. ASSUME ready # << >>
      PROVE  /\ Tail(ready) \in Seq(DOMAIN descriptor) /\ IsInjective(Tail(ready))
             /\ Head(ready) \in Range(ready) /\ Head(ready) \notin Range(Tail(ready))
             /\ Range(Tail(ready)) \subseteq Range(ready)
             /\ Len(ready) # 1 => Tail(ready) # << >>
    <2>1. /\ Tail(ready) \in Seq(DOMAIN descriptor)
          /\ Len(Tail(ready)) = Len(ready) - 1
          /\ Head(ready) \in Range(ready)
          /\ Range(ready) = Range(Tail(ready)) \cup {Head(ready)}
          /\ IsInjective(Tail(ready)) /\ Head(ready) \notin Range(Tail(ready))
        BY <1>1, <1>4, TailRange
    <2>2. Len(ready) # 1 => Tail(ready) # << >>
        <3>1. Len(ready) \in Nat /\ Len(<< >>) = 0
            BY <1>1, SeqRange
        <3>2. QED
            BY <2>1, <3>1
    <2>3. QED
        BY <2>1, <2>2
<1>5. ToServe = IF server.phase = "send" THEN Tail(ready) ELSE ready
    BY DEF ToServe, ready
<1>6. Range(ToServe) \subseteq Range(ready)
    BY <1>3, <1>4, <1>5
<1>7. QED
    BY <1>2, <1>3, <1>4, <1>5, <1>6 DEF ready

\* A step of a client, which changes its own connection only.
LEMMA ClientStepKeepsSockets ==
    ASSUME SocketInvariant, NEW c \in Clients, NEW k \in Connection,
           conn' = [conn EXCEPT ![c] = k],
           server' = server, descriptor' = descriptor, backlog' = backlog,
           k.state # "new", k.sent <= MaxSent[c], Len(k.toServer) <= ToServer,
           Len(k.toClient) <= ToClient,
           conn[c].toServer # << >> \/ conn[c].state = "closed"
               => k.toServer # << >> \/ k.state = "closed"
    PROVE  SocketInvariant'
<1>1. /\ ServerPart /\ DescriptorPart /\ BacklogPart
      /\ ConnectionPart /\ NoReadyCallWaits
    BY Parts
<1>2. ServerPart' /\ DescriptorPart'
    BY <1>1, ServerPartFrame, DescriptorPartFrame
<1>3. /\ ConnectionPart'
      /\ conn'[c] = k
      /\ \A d \in Clients : d # c => conn'[d] = conn[d]
    BY <1>1, ConnectionPartKeeps
<1>4. BacklogPart'
    BY <1>1, <1>3, BacklogPartFrame
<1>5. NoReadyCallWaits'
    <2>1. ToServe' = ToServe /\ Range(ToServe) \subseteq Sockets
        BY <1>1, ToServeFacts DEF ToServe
    <2>2. \A d \in Clients :
              (conn[d].toServer # << >> \/ conn[d].state = "closed")
                  => (conn'[d].toServer # << >> \/ conn'[d].state = "closed")
        BY <1>3
    <2>3. QED
        BY <1>1, <2>1, <2>2, ReadableStays
<1>6. QED
    BY <1>2, <1>3, <1>4, <1>5, PartsAfter

\* A client that connects was in no vector, and waits to be accepted.
LEMMA ConnectKeepsSockets ==
    ASSUME StreamInvariant, SocketInvariant, NEW c \in Clients, Connect(c)
    PROVE  SocketInvariant'
<1>1. /\ ServerPart /\ DescriptorPart /\ BacklogPart
      /\ ConnectionPart /\ NoReadyCallWaits
    BY Parts
<1>2. PICK k : k = [conn[c] EXCEPT !.state = "open"] /\ conn' = [conn EXCEPT ![c] = k]
    BY DEF Connect
<1>3. /\ conn[c].state = "new" /\ backlog' = Append(backlog, c)
      /\ server' = server /\ descriptor' = descriptor
    BY DEF Connect
<1>4. conn[c] \in Connection
    BY <1>1 DEF ConnectionPart
<1>5. /\ k \in Connection /\ k.state = "open" /\ k.sent = conn[c].sent
      /\ k.toServer = conn[c].toServer /\ k.toClient = conn[c].toClient
    BY <1>2, <1>4 DEF Connection
<1>6. /\ k.sent <= MaxSent[c] /\ Len(k.toServer) <= ToServer
      /\ Len(k.toClient) <= ToClient
    BY <1>1, <1>5 DEF ConnectionPart
<1>7. /\ ConnectionPart' /\ conn'[c] = k
      /\ \A d \in Clients : d # c => conn'[d] = conn[d]
    BY <1>1, <1>2, <1>5, <1>6, ConnectionPartKeeps
<1>8. ServerPart' /\ DescriptorPart'
    BY <1>1, <1>3, ServerPartFrame, DescriptorPartFrame
<1>9. c \notin Range(backlog) \cup DOMAIN descriptor
    BY <1>1, <1>3 DEF BacklogPart
<1>10. PICK after : after = Append(backlog, c)
    OBVIOUS
<1>11. /\ after \in Seq(Clients) /\ after # << >> /\ IsInjective(after)
       /\ Range(after) = Range(backlog) \cup {c}
    BY <1>1, <1>9, <1>10, AppendRange DEF BacklogPart
<1>12. BacklogPart'
    <2>1. backlog' = after
        BY <1>3, <1>10
    <2>2. after \in Seq(Clients) /\ IsInjective(after)
        BY <1>11
    <2>3. Range(after) \cap DOMAIN descriptor = {}
        BY <1>1, <1>9, <1>11 DEF BacklogPart
    <2>4. ASSUME NEW d \in Clients, conn'[d].state = "new"
          PROVE  d \notin Range(after) \cup DOMAIN descriptor
        <3>1. d # c /\ conn[d].state = "new"
            BY <1>5, <1>7, <2>4
        <3>2. d \notin Range(backlog) \cup DOMAIN descriptor
            BY <1>1, <3>1 DEF BacklogPart
        <3>3. QED
            BY <1>11, <3>1, <3>2
    <2>5. QED
        BY <1>3, <2>1, <2>2, <2>3, <2>4 DEF BacklogPart
<1>13. NoReadyCallWaits'
    <2>1. ToServe' = ToServe /\ Range(ToServe) \subseteq Sockets
        BY <1>1, <1>3, ToServeFacts DEF ToServe
    <2>2. \A d \in Clients :
              (conn[d].toServer # << >> \/ conn[d].state = "closed")
                  => (conn'[d].toServer # << >> \/ conn'[d].state = "closed")
        BY <1>3, <1>5, <1>7
    <2>3. backlog' # << >>
        BY <1>3, <1>10, <1>11
    <2>4. QED
        BY <1>1, <2>1, <2>2, <2>3, ReadableStays
<1>14. QED
    BY <1>7, <1>8, <1>12, <1>13, PartsAfter

\* Bytes make a socket ready.
LEMMA ClientSendsKeepsSockets ==
    ASSUME StreamInvariant, SocketInvariant, NEW c \in Clients, ClientSends(c)
    PROVE  SocketInvariant'
<1> DEFINE byte == <<c, conn[c].sent + 1>>
           bytes == Append(conn[c].toServer, byte)
           k == [conn[c] EXCEPT !.sent = @ + 1, !.toServer = bytes]
<1>1. ConnectionPart /\ conn[c] \in Connection
    BY Parts DEF ConnectionPart
<1>2. /\ conn[c].sent \in Nat /\ conn[c].toServer \in ByteSeq
      /\ MaxSent[c] \in Nat /\ ToServer \in Nat
    BY <1>1, EchoAssumption DEF Connection
<1>3. byte \in Clients \X Nat
    BY <1>2
<1> HIDE DEF byte
<1>4. /\ bytes \in ByteSeq /\ bytes # << >>
      /\ Len(bytes) = Len(conn[c].toServer) + 1 /\ Len(conn[c].toServer) \in Nat
    BY <1>2, <1>3, AppendProperties, LenProperties DEF ByteSeq
<1>5. /\ conn[c].state = "open" /\ conn[c].sent < MaxSent[c]
      /\ Len(conn[c].toServer) < ToServer
      /\ server' = server /\ descriptor' = descriptor /\ backlog' = backlog
    BY DEF ClientSends
<1>6. conn' = [conn EXCEPT ![c] = k]
    BY <1>1 DEF ClientSends, byte, Connection, ConnectionPart
<1> HIDE DEF bytes
<1>7. /\ k \in Connection /\ k.state = "open" /\ k.sent = conn[c].sent + 1
      /\ k.toServer = bytes /\ k.toClient = conn[c].toClient
    <2>1. PICK n \in Nat : n = conn[c].sent + 1
        BY <1>2
    <2>2. k = [conn[c] EXCEPT !.sent = n, !.toServer = bytes]
        BY <1>1, <2>1 DEF Connection
    <2> HIDE DEF k
    <2>3. QED
        BY <1>1, <1>4, <1>5, <2>1, <2>2 DEF Connection
<1> HIDE DEF k
<1>8. /\ k.sent <= MaxSent[c] /\ Len(k.toServer) <= ToServer
      /\ Len(k.toClient) <= ToClient /\ k.toServer # << >> /\ k.state # "new"
    BY <1>1, <1>2, <1>4, <1>5, <1>7 DEF ConnectionPart
<1>9. QED
    BY <1>5, <1>6, <1>7, <1>8, ClientStepKeepsSockets

\* What a client reads is nothing to the server.
LEMMA ClientReadsKeepsSockets ==
    ASSUME StreamInvariant, SocketInvariant, NEW c \in Clients, ClientReads(c)
    PROVE  SocketInvariant'
<1> DEFINE left == Tail(conn[c].toClient)
           has == Append(conn[c].received, Head(conn[c].toClient))
           k == [conn[c] EXCEPT !.received = has, !.toClient = left]
<1>1. ConnectionPart /\ conn[c] \in Connection
    BY Parts DEF ConnectionPart
<1>2. /\ conn[c].received \in ByteSeq /\ conn[c].toClient \in ByteSeq
    BY <1>1 DEF Connection
<1>3. /\ conn[c].state = "open" /\ conn[c].toClient # << >>
      /\ server' = server /\ descriptor' = descriptor /\ backlog' = backlog
    BY DEF ClientReads
<1>4. /\ left \in ByteSeq /\ Len(left) = Len(conn[c].toClient) - 1
      /\ Len(conn[c].toClient) \in Nat
      /\ Head(conn[c].toClient) \in Clients \X Nat
    BY <1>2, <1>3, HeadTailProperties, LenProperties DEF ByteSeq
<1>5. has \in ByteSeq
    BY <1>2, <1>4, AppendProperties DEF ByteSeq
<1>6. conn' = [conn EXCEPT ![c] = k]
    BY <1>1 DEF ClientReads, Connection, ConnectionPart
<1> HIDE DEF left, has
<1>7. /\ k \in Connection /\ k.state = "open" /\ k.sent = conn[c].sent
      /\ k.toServer = conn[c].toServer /\ k.toClient = left
    BY <1>1, <1>3, <1>4, <1>5 DEF Connection
<1> HIDE DEF k
<1>8. /\ k.sent <= MaxSent[c] /\ Len(k.toServer) <= ToServer
      /\ Len(k.toClient) <= ToClient /\ k.state # "new"
    BY <1>1, <1>4, <1>7, EchoAssumption DEF ConnectionPart
<1>9. conn[c].toServer # << >> \/ conn[c].state = "closed"
          => k.toServer # << >> \/ k.state = "closed"
    BY <1>3, <1>7
<1>10. QED
    BY <1>3, <1>6, <1>7, <1>8, <1>9, ClientStepKeepsSockets

\* A connection that ends is ready for good, whatever was lost.
LEMMA ClientClosesKeepsSockets ==
    ASSUME StreamInvariant, SocketInvariant, NEW c \in Clients, ClientCloses(c)
    PROVE  SocketInvariant'
<1>1. ConnectionPart /\ conn[c] \in Connection
    BY Parts DEF ConnectionPart
<1>2. << >> \in ByteSeq /\ Len(<< >>) = 0
    BY DEF ByteSeq
<1>3. PICK e \in {"none", "ECONNRESET", "EPIPE"}, bytes \in {<< >>, conn[c].toServer} :
          conn' = [conn EXCEPT ![c].state = "closed", ![c].error = e,
                               ![c].toClient = << >>, ![c].toServer = bytes]
    BY DEF ClientCloses
<1>4. server' = server /\ descriptor' = descriptor /\ backlog' = backlog
    BY DEF ClientCloses
<1>5. bytes \in ByteSeq /\ Len(bytes) <= ToServer
    BY <1>1, <1>2, EchoAssumption DEF Connection, ConnectionPart
<1> DEFINE k == [conn[c] EXCEPT !.state = "closed", !.error = e,
                                !.toClient = << >>, !.toServer = bytes]
<1>6. conn' = [conn EXCEPT ![c] = k]
    BY <1>1, <1>3 DEF ConnectionPart, Connection
<1>7. /\ k \in Connection /\ k.state = "closed" /\ k.sent = conn[c].sent
      /\ k.toServer = bytes /\ k.toClient = << >>
    BY <1>1, <1>2, <1>5 DEF Connection
<1> HIDE DEF k
<1>8. /\ k.sent <= MaxSent[c] /\ Len(k.toServer) <= ToServer
      /\ Len(k.toClient) <= ToClient /\ k.state # "new"
    BY <1>1, <1>2, <1>5, <1>7, EchoAssumption DEF ConnectionPart
<1>9. QED
    BY <1>4, <1>6, <1>7, <1>8, ClientStepKeepsSockets

\* The server goes on to the next socket of the turn.
LEMMA NextReadyKeepsVectors ==
    ASSUME ServerPart, DescriptorPart, server.phase \in {"serve", "send"},
           NEW s, DOMAIN s = ServerFields,
           s.readReady = server.readReady, s.reply \in ByteSeq, s.started \in BOOLEAN,
           NEW held, DOMAIN descriptor \subseteq held,
           s.readSet \in Seq(held), IsInjective(s.readSet),
           server' = NextReady(s), DOMAIN descriptor' = held
    PROVE  ServerPart' /\ ToServe' = Tail(server.readReady)
<1>1. PICK t \in Seq(DOMAIN descriptor) :
          /\ t = Tail(server.readReady) /\ IsInjective(t)
          /\ Len(server.readReady) # 1 => t # << >>
    BY ToServeFacts
<1>2. t \in Seq(held)
    BY SeqMonotonic
<1>3. /\ server'.readReady = t /\ server'.readSet = s.readSet
      /\ server'.reply = s.reply /\ server'.started = s.started
      /\ server'.phase = IF Len(s.readReady) = 1 THEN "select" ELSE "serve"
    BY <1>1 DEF NextReady, ServerFields
<1>4. /\ server'.phase \in {"select", "serve"}
      /\ server'.phase = "serve" => t # << >>
    BY <1>1, <1>3
<1>5. ServerPart'
    BY <1>1, <1>2, <1>3, <1>4 DEF ServerPart
<1>6. ToServe' = t
    BY <1>3, <1>4 DEF ToServe
<1>7. QED
    BY <1>1, <1>5, <1>6

\* A step of the server that serves c, or is done with it, changes nothing for
\* the sockets whose turn is still to come.
LEMMA ServingStepKeepsSockets ==
    ASSUME SocketInvariant, NEW c \in Clients, server.phase \in {"serve", "send"},
           Head(server.readReady) = c,
           ServerPart', ToServe' = Tail(server.readReady),
           descriptor' = descriptor, backlog' = backlog,
           NEW k \in Connection, conn' = [conn EXCEPT ![c] = k],
           k.state = conn[c].state, k.sent = conn[c].sent,
           Len(k.toServer) <= ToServer, Len(k.toClient) <= ToClient
    PROVE  SocketInvariant'
<1>1. /\ ServerPart /\ DescriptorPart /\ BacklogPart
      /\ ConnectionPart /\ NoReadyCallWaits
    BY Parts
<1>2. k.sent <= MaxSent[c]
    BY <1>1 DEF ConnectionPart
<1>3. /\ ConnectionPart' /\ conn'[c] = k
      /\ \A d \in Clients : d # c => conn'[d] = conn[d]
    BY <1>1, <1>2, ConnectionPartKeeps
<1>4. DescriptorPart' /\ BacklogPart'
    BY <1>1, <1>3, DescriptorPartFrame, BacklogPartFrame
<1>5. /\ Range(ToServe') \subseteq Range(ToServe) /\ c \notin Range(ToServe')
      /\ Range(ToServe) \subseteq Sockets
    BY <1>1, ToServeFacts
<1>6. \A d \in Clients \cap Range(ToServe') :
          (conn[d].toServer # << >> \/ conn[d].state = "closed")
              => (conn'[d].toServer # << >> \/ conn'[d].state = "closed")
    BY <1>3, <1>5
<1>7. NoReadyCallWaits'
    BY <1>1, <1>5, <1>6, ReadableStays
<1>8. QED
    BY <1>3, <1>4, <1>7, PartsAfter

\* A socket that is removed keeps its descriptor until the turn ends.
LEMMA RemoveSocketKeepsSockets ==
    ASSUME StreamInvariant, SocketInvariant, NEW c \in Clients, RemoveSocket(c)
    PROVE  SocketInvariant'
<1>1. ServerPart /\ DescriptorPart /\ ConnectionPart
    BY Parts
<1>2. DOMAIN server = ServerFields
    BY DEF StreamInvariant, ServerFields
<1>3. PICK left : left = Kept(server.readSet, Sockets \ {c})
    OBVIOUS
<1>4. PICK s : s = [server EXCEPT !.readSet = left]
    OBVIOUS
<1>5. /\ server' = NextReady(s) /\ descriptor' = descriptor /\ backlog' = backlog
      /\ conn' = conn /\ server.phase = "serve" /\ Head(server.readReady) = c
    BY <1>3, <1>4 DEF RemoveSocket, Serving
<1>6. /\ left \in Seq(DOMAIN descriptor) /\ IsInjective(left)
    BY <1>1, <1>3, KeptProperties DEF ServerPart
<1>7. /\ DOMAIN s = ServerFields /\ s.readSet = left /\ s.reply = server.reply
      /\ s.readReady = server.readReady /\ s.started = server.started
    BY <1>2, <1>4 DEF ServerFields
<1>8. s.reply \in ByteSeq /\ s.started \in BOOLEAN
    BY <1>1, <1>7 DEF ServerPart
<1>9. ServerPart' /\ ToServe' = Tail(server.readReady)
    BY <1>1, <1>5, <1>6, <1>7, <1>8, NextReadyKeepsVectors
<1>10. /\ conn[c] \in Connection /\ conn' = [conn EXCEPT ![c] = conn[c]]
       /\ Len(conn[c].toServer) <= ToServer /\ Len(conn[c].toClient) <= ToClient
    BY <1>1, <1>5 DEF ConnectionPart
<1>11. QED
    BY <1>5, <1>9, <1>10, ServingStepKeepsSockets

\* After a send the turn goes on.
LEMMA SendReturnsKeepsVectors ==
    ASSUME StreamInvariant, SocketInvariant, SendReturns, server.phase = "send",
           descriptor' = descriptor
    PROVE  ServerPart' /\ ToServe' = Tail(server.readReady)
<1>1. ServerPart /\ DescriptorPart
    BY Parts
<1>2. DOMAIN server = ServerFields
    BY DEF StreamInvariant, ServerFields
<1>3. PICK s : s = [server EXCEPT !.reply = << >>]
    OBVIOUS
<1>4. server' = NextReady(s)
    BY <1>3 DEF SendReturns
<1>5. /\ DOMAIN s = ServerFields /\ s.readSet = server.readSet /\ s.reply = << >>
      /\ s.readReady = server.readReady /\ s.started = server.started
    BY <1>2, <1>3 DEF ServerFields
<1>6. /\ s.reply \in ByteSeq /\ s.started \in BOOLEAN
      /\ s.readSet \in Seq(DOMAIN descriptor) /\ IsInjective(s.readSet)
    BY <1>1, <1>5 DEF ServerPart, ByteSeq
<1>7. QED
    BY <1>1, <1>4, <1>5, <1>6, NextReadyKeepsVectors

\* A send that is given up changes the error of the connection only.
LEMMA SendGivenUpKeepsSockets ==
    ASSUME StreamInvariant, SocketInvariant, NEW c \in Clients, Sending(c),
           NEW e \in {"none", "ECONNRESET", "EPIPE"},
           conn' = [conn EXCEPT ![c].error = e],
           SendReturns, descriptor' = descriptor, backlog' = backlog
    PROVE  SocketInvariant'
<1>1. ConnectionPart /\ conn[c] \in Connection
    BY Parts DEF ConnectionPart
<1>2. server.phase = "send" /\ Head(server.readReady) = c
    BY DEF Sending
<1>3. ServerPart' /\ ToServe' = Tail(server.readReady)
    BY <1>2, SendReturnsKeepsVectors
<1>4. PICK k : k = [conn[c] EXCEPT !.error = e]
    OBVIOUS
<1>5. conn' = [conn EXCEPT ![c] = k]
    BY <1>4
<1>6. /\ k \in Connection /\ k.state = conn[c].state /\ k.sent = conn[c].sent
      /\ k.toServer = conn[c].toServer /\ k.toClient = conn[c].toClient
    BY <1>1, <1>4 DEF Connection
<1>7. Len(k.toServer) <= ToServer /\ Len(k.toClient) <= ToClient
    BY <1>1, <1>6 DEF ConnectionPart
<1>8. QED
    BY <1>2, <1>3, <1>5, <1>6, <1>7, ServingStepKeepsSockets

\* A send to a client that has closed.
LEMMA SendToClosedKeepsSockets ==
    ASSUME StreamInvariant, SocketInvariant, NEW c \in Clients, SendToClosed(c)
    PROVE  SocketInvariant'
<1>1. PICK e \in {"none", "EPIPE"} : conn' = [conn EXCEPT ![c].error = e]
    BY DEF SendToClosed
<1>2. /\ Sending(c) /\ SendReturns
      /\ descriptor' = descriptor /\ backlog' = backlog
    BY DEF SendToClosed
<1>3. QED
    BY <1>1, <1>2, SendGivenUpKeepsSockets

\* And a later one, which may end the process.
LEMMA SendToResetKeepsSockets ==
    ASSUME StreamInvariant, SocketInvariant, NEW c \in Clients, SendToReset(c)
    PROVE  SocketInvariant'
<1>1. /\ ServerPart /\ DescriptorPart /\ BacklogPart
      /\ ConnectionPart /\ NoReadyCallWaits
    BY Parts
<1>2. /\ Sending(c) /\ descriptor' = descriptor /\ backlog' = backlog
      /\ conn[c] \in Connection /\ conn[c].error # "none"
    BY <1>1 DEF SendToReset, ConnectionPart
<1>3. CASE SendReturns /\ conn' = conn
    <2>1. conn' = [conn EXCEPT ![c].error = conn[c].error]
        BY <1>1, <1>2, <1>3 DEF Connection, ConnectionPart
    <2>2. conn[c].error \in {"none", "ECONNRESET", "EPIPE"}
        BY <1>2 DEF Connection
    <2>3. QED
        BY <1>2, <1>3, <2>1, <2>2, SendGivenUpKeepsSockets
<1>4. CASE SendReturns /\ conn' = [conn EXCEPT ![c].error = "EPIPE"]
    BY <1>2, <1>4, SendGivenUpKeepsSockets
<1>5. CASE server' = [server EXCEPT !.phase = "ended"] /\ conn' = conn
    <2>1. DOMAIN server = ServerFields
        BY DEF StreamInvariant, ServerFields
    <2>2. /\ server'.phase = "ended" /\ server'.readSet = server.readSet
          /\ server'.readReady = server.readReady /\ server'.reply = server.reply
          /\ server'.started = server.started
        BY <1>5, <2>1 DEF ServerFields
    <2>3. ServerPart'
        BY <1>1, <1>2, <2>2 DEF ServerPart
    <2>4. DescriptorPart' /\ BacklogPart' /\ ConnectionPart'
        BY <1>1, <1>2, <1>5 DEF DescriptorPart, BacklogPart, ConnectionPart
    <2>5. NoReadyCallWaits'
        <3>1. /\ server.phase = "send" /\ Head(server.readReady) = c
              /\ server.readReady # << >>
              /\ server.readReady \in Seq(DOMAIN descriptor)
            BY <1>1, <1>2 DEF Sending, ServerPart
        <3>2. Range(server.readReady) = Range(Tail(server.readReady)) \cup {c}
            BY <3>1, TailRange
        <3>3. ToServe' = server.readReady /\ ToServe = Tail(server.readReady)
            BY <2>2, <3>1 DEF ToServe
        <3>4. Readable(c)
            <4>1. conn[c].state = "closed"
                BY <1>2 DEF StreamInvariant
            <4>2. c # listenSocket
                BY EchoAssumption
            <4>3. QED
                BY <4>1, <4>2 DEF Readable
        <3>5. \A s \in Range(server.readReady) : Readable(s)
            BY <1>1, <3>2, <3>3, <3>4 DEF NoReadyCallWaits
        <3>6. \A s : Readable(s)' = Readable(s)
            BY <1>2, <1>5 DEF Readable
        <3>7. QED
            BY <3>3, <3>5, <3>6 DEF NoReadyCallWaits
    <2>6. QED
        BY <2>3, <2>4, <2>5, PartsAfter
<1>6. QED
    BY <1>3, <1>4, <1>5 DEF SendToReset

\* A byte is sent.
LEMMA SendByteKeepsSockets ==
    ASSUME StreamInvariant, SocketInvariant, NEW c \in Clients, SendByte(c)
    PROVE  SocketInvariant'
<1>1. ServerPart /\ DescriptorPart /\ ConnectionPart /\ conn[c] \in Connection
    BY Parts DEF ConnectionPart
<1>2. /\ server.phase = "send" /\ Head(server.readReady) = c
      /\ descriptor' = descriptor /\ backlog' = backlog
      /\ Len(conn[c].toClient) < ToClient
    BY DEF SendByte, Sending
<1>3. /\ server.reply \in ByteSeq /\ server.reply # << >>
      /\ Head(server.reply) \in Clients \X Nat /\ Tail(server.reply) \in ByteSeq
    <2>1. server.reply \in ByteSeq /\ server.reply # << >>
        BY <1>2 DEF StreamInvariant
    <2>2. QED
        BY <2>1, HeadTailProperties DEF ByteSeq
<1>4. PICK bytes : bytes = Append(conn[c].toClient, Head(server.reply))
    OBVIOUS
<1>5. /\ conn[c].toClient \in ByteSeq /\ bytes \in ByteSeq
      /\ Len(bytes) = Len(conn[c].toClient) + 1 /\ Len(conn[c].toClient) \in Nat
    <2>1. conn[c].toClient \in ByteSeq
        BY <1>1 DEF Connection
    <2>2. QED
        BY <1>3, <1>4, <2>1, AppendProperties, LenProperties DEF ByteSeq
<1>6. PICK k : k = [conn[c] EXCEPT !.toClient = bytes]
    OBVIOUS
<1>7. conn' = [conn EXCEPT ![c] = k]
    BY <1>1, <1>4, <1>6 DEF SendByte
<1>8. /\ k \in Connection /\ k.state = conn[c].state /\ k.sent = conn[c].sent
      /\ k.toServer = conn[c].toServer /\ k.toClient = bytes
    BY <1>1, <1>5, <1>6 DEF Connection
<1>9. Len(k.toServer) <= ToServer /\ Len(k.toClient) <= ToClient
    BY <1>1, <1>2, <1>5, <1>8, EchoAssumption DEF ConnectionPart
<1>10. ServerPart' /\ ToServe' = Tail(server.readReady)
    <2>1. CASE SendReturns
        BY <1>2, <2>1, SendReturnsKeepsVectors
    <2>2. CASE server' = [server EXCEPT !.reply = Tail(server.reply), !.started = TRUE]
        <3>1. DOMAIN server = ServerFields
            BY DEF StreamInvariant, ServerFields
        <3>2. /\ server'.phase = "send" /\ server'.readSet = server.readSet
              /\ server'.readReady = server.readReady
              /\ server'.reply = Tail(server.reply) /\ server'.started = TRUE
            BY <1>2, <2>2, <3>1 DEF ServerFields
        <3>3. ServerPart'
            BY <1>1, <1>2, <1>3, <3>2 DEF ServerPart
        <3>4. QED
            BY <3>2, <3>3 DEF ToServe
    <2>3. QED
        BY <2>1, <2>2 DEF SendByte, Unsent
<1>11. QED
    BY <1>2, <1>7, <1>8, <1>9, <1>10, ServingStepKeepsSockets

\* What is received was there for the socket served, and is of no other.
LEMMA ReceiveKeepsSockets ==
    ASSUME StreamInvariant, SocketInvariant, NEW c \in Clients, Receive(c)
    PROVE  SocketInvariant'
<1>1. ServerPart /\ DescriptorPart /\ ConnectionPart /\ conn[c] \in Connection
    BY Parts DEF ConnectionPart
<1>2. PICK bytes : bytes = Received(conn[c].toServer)
    OBVIOUS
<1>3. /\ server.phase = "serve" /\ Head(server.readReady) = c /\ bytes # << >>
      /\ descriptor' = descriptor /\ backlog' = backlog
      /\ server' = [server EXCEPT !.phase = "send", !.reply = bytes,
                                  !.started = FALSE]
      /\ conn' = [conn EXCEPT ![c].toServer = SubSeq(@, Len(bytes) + 1, Len(@))]
    BY <1>2 DEF Receive, Serving
<1>4. conn[c].toServer \in ByteSeq /\ Len(conn[c].toServer) <= ToServer
    BY <1>1 DEF Connection, ConnectionPart
<1>5. PICK rest : rest = SubSeq(conn[c].toServer, Len(bytes) + 1,
                                Len(conn[c].toServer))
    OBVIOUS
<1>6. bytes \in ByteSeq /\ rest \in ByteSeq /\ bytes \o rest = conn[c].toServer
    BY <1>2, <1>4, <1>5, ReceivedIsFirstPart
<1>7. Len(rest) <= ToServer
    <2>1. Len(bytes \o rest) = Len(bytes) + Len(rest)
        BY <1>6, ConcatProperties DEF ByteSeq
    <2>2. Len(bytes) \in Nat /\ Len(rest) \in Nat
        BY <1>6, LenProperties DEF ByteSeq
    <2>3. QED
        BY <1>4, <1>6, <2>1, <2>2, EchoAssumption
<1>8. PICK k : k = [conn[c] EXCEPT !.toServer = rest]
    OBVIOUS
<1>9. conn' = [conn EXCEPT ![c] = k]
    BY <1>1, <1>3, <1>5, <1>8
<1>10. /\ k \in Connection /\ k.state = conn[c].state /\ k.sent = conn[c].sent
       /\ k.toServer = rest /\ k.toClient = conn[c].toClient
    BY <1>1, <1>6, <1>8 DEF Connection
<1>11. Len(k.toServer) <= ToServer /\ Len(k.toClient) <= ToClient
    BY <1>1, <1>7, <1>10 DEF ConnectionPart
<1>12. ServerPart' /\ ToServe' = Tail(server.readReady)
    <2>1. DOMAIN server = ServerFields
        BY DEF StreamInvariant, ServerFields
    <2>2. /\ server'.phase = "send" /\ server'.readSet = server.readSet
          /\ server'.readReady = server.readReady
          /\ server'.reply = bytes /\ server'.started = FALSE
        BY <1>3, <2>1 DEF ServerFields
    <2>3. ServerPart'
        BY <1>1, <1>3, <1>6, <2>2 DEF ServerPart
    <2>4. QED
        BY <2>2, <2>3 DEF ToServe
<1>13. QED
    BY <1>3, <1>9, <1>10, <1>11, <1>12, ServingStepKeepsSockets

\* select reports sockets that are ready, as no two share a descriptor.
LEMMA SelectKeepsSockets ==
    ASSUME StreamInvariant, SocketInvariant, Select
    PROVE  SocketInvariant'
<1>1. /\ ServerPart /\ DescriptorPart /\ BacklogPart /\ ConnectionPart
    BY Parts
<1>2. PICK ready : ready = ReadyDescriptors(server.readSet)
    OBVIOUS
<1>3. PICK kept : kept = Kept(server.readSet,
                              {s \in DOMAIN descriptor : descriptor[s] \in ready})
    OBVIOUS
<1>4. PICK held : held = Range(server.readSet)
    OBVIOUS
<1>5. /\ ready # {} /\ backlog' = backlog /\ conn' = conn
      /\ server' = [server EXCEPT !.phase = "serve", !.readReady = kept]
      /\ descriptor' = [s \in held |-> descriptor[s]]
    BY <1>2, <1>3, <1>4 DEF Select, FilterSocketVectorFromFdSet, Destroyed, Restrict
<1>6. /\ server.readSet \in Seq(DOMAIN descriptor) /\ IsInjective(server.readSet)
    BY <1>1 DEF ServerPart
<1>7. /\ held \subseteq DOMAIN descriptor /\ server.readSet \in Seq(held)
    BY <1>4, <1>6, SeqRange, SeqOfRange
<1>8. /\ kept \in Seq(held) /\ IsInjective(kept)
      /\ Range(kept) = {s \in held : descriptor[s] \in ready}
    <2>1. PICK set : set = {s \in DOMAIN descriptor : descriptor[s] \in ready}
        OBVIOUS
    <2>2. /\ kept \in Seq(held) /\ IsInjective(kept)
          /\ Range(kept) = held \cap set
        BY <1>3, <1>4, <1>6, <1>7, <2>1, KeptProperties
    <2>3. QED
        BY <1>7, <2>1, <2>2
<1>9. \A fd \in ready : /\ \E s \in held : descriptor[s] = fd
                        /\ \E s \in DOMAIN descriptor : descriptor[s] = fd /\ Readable(s)
    BY <1>2, <1>4 DEF ReadyDescriptors, FillFdSetFromSocketVector
<1>10. kept # << >>
    <2>1. PICK s \in held : descriptor[s] \in ready
        BY <1>5, <1>9
    <2>2. s \in Range(kept)
        BY <1>8, <2>1
    <2>3. Range(<< >>) = {}
        BY DEF Range
    <2>4. QED
        BY <2>2, <2>3
<1>11. DOMAIN descriptor' = held
    BY <1>5
<1>12. ServerPart'
    <2>1. DOMAIN server = ServerFields
        BY DEF StreamInvariant, ServerFields
    <2>2. /\ server'.phase = "serve" /\ server'.readSet = server.readSet
          /\ server'.readReady = kept
          /\ server'.reply = server.reply /\ server'.started = server.started
        BY <1>5, <2>1 DEF ServerFields
    <2>3. server.reply \in ByteSeq /\ server.started \in BOOLEAN
        BY <1>1 DEF ServerPart
    <2>4. QED
        BY <1>6, <1>7, <1>8, <1>10, <1>11, <2>2, <2>3 DEF ServerPart
<1>13. DescriptorPart'
    <2>1. descriptor' \in [held -> 0 .. MaxDescriptors - 1]
        BY <1>1, <1>5, <1>7 DEF DescriptorPart
    <2>2. IsInjective(descriptor')
        BY <1>1, <1>5, <1>7 DEF DescriptorPart, IsInjective
    <2>3. QED
        BY <1>1, <1>7, <1>11, <2>1, <2>2 DEF DescriptorPart
<1>14. BacklogPart' /\ ConnectionPart'
    BY <1>1, <1>5, <1>7, <1>11 DEF BacklogPart, ConnectionPart
<1>15. NoReadyCallWaits'
    <2>1. server'.readReady = kept /\ server'.phase = "serve"
        BY <1>5 DEF StreamInvariant
    <2>2. ToServe' = kept
        BY <2>1 DEF ToServe
    <2>3. ASSUME NEW s \in Range(kept) PROVE Readable(s)'
        <3>1. s \in held /\ descriptor[s] \in ready
            BY <1>8
        <3>2. PICK r \in DOMAIN descriptor : descriptor[r] = descriptor[s] /\ Readable(r)
            BY <1>9, <3>1
        <3>3. r = s
            BY <1>1, <1>7, <3>1, <3>2 DEF DescriptorPart, IsInjective
        <3>4. QED
            BY <1>5, <3>2, <3>3 DEF Readable
    <2>4. QED
        BY <2>2, <2>3 DEF NoReadyCallWaits
<1>16. QED
    BY <1>12, <1>13, <1>14, <1>15, PartsAfter

\* A connection is accepted with a descriptor that is free, or waits on.
LEMMA AcceptKeepsSockets ==
    ASSUME StreamInvariant, SocketInvariant, Accept
    PROVE  SocketInvariant'
<1>1. /\ ServerPart /\ DescriptorPart /\ BacklogPart
      /\ ConnectionPart /\ NoReadyCallWaits
    BY Parts
<1>2. /\ server.phase = "serve" /\ Head(server.readReady) = listenSocket
      /\ backlog # << >> /\ conn' = conn
    BY DEF Accept, Serving
<1>3. DOMAIN server = ServerFields
    BY DEF StreamInvariant, ServerFields
<1>4. /\ server.readSet \in Seq(DOMAIN descriptor) /\ IsInjective(server.readSet)
      /\ server.reply \in ByteSeq /\ server.started \in BOOLEAN
    BY <1>1 DEF ServerPart
<1>5. ConnectionPart'
    BY <1>1, <1>2 DEF ConnectionPart
<1>6. ASSUME ToServe' = Tail(server.readReady) PROVE NoReadyCallWaits'
    <2>1. /\ Range(ToServe') \subseteq Range(ToServe)
          /\ listenSocket \notin Range(ToServe')
        BY <1>1, <1>2, <1>6, ToServeFacts
    <2>2. \A s \in Range(ToServe') : s # listenSocket /\ Readable(s)
        BY <1>1, <2>1 DEF NoReadyCallWaits
    <2>3. \A s \in Range(ToServe') : Readable(s)'
        BY <1>2, <2>2 DEF Readable
    <2>4. QED
        BY <2>3 DEF NoReadyCallWaits
<1>7. CASE /\ FreeDescriptors = {} /\ server' = NextReady(server)
           /\ backlog' = backlog /\ descriptor' = descriptor
    <2>1. DescriptorPart' /\ BacklogPart'
        BY <1>1, <1>2, <1>7 DEF DescriptorPart, BacklogPart
    <2>2. ServerPart' /\ ToServe' = Tail(server.readReady)
        BY <1>1, <1>2, <1>3, <1>4, <1>7, NextReadyKeepsVectors
    <2>3. QED
        BY <1>5, <1>6, <2>1, <2>2, PartsAfter
<1>8. CASE FreeDescriptors # {}
    <2>1. PICK client : client = Head(backlog)
        OBVIOUS
    <2>2. PICK fd : fd = Min(FreeDescriptors)
        OBVIOUS
    <2>3. PICK readSet : readSet = Append(server.readSet, client)
        OBVIOUS
    <2>4. PICK s : s = [server EXCEPT !.readSet = readSet]
        OBVIOUS
    <2>5. PICK held : held = DOMAIN descriptor \cup {client}
        OBVIOUS
    <2>6. /\ server' = NextReady(s) /\ backlog' = Tail(backlog)
          /\ descriptor' = [x \in held |-> IF x = client THEN fd ELSE descriptor[x]]
        BY <1>8, <2>1, <2>2, <2>3, <2>4, <2>5 DEF Accept
    <2>7. /\ Tail(backlog) \in Seq(Clients) /\ IsInjective(Tail(backlog))
          /\ client \in Clients /\ client \in Range(backlog)
          /\ Range(backlog) = Range(Tail(backlog)) \cup {client}
          /\ client \notin Range(Tail(backlog))
        BY <1>1, <1>2, <2>1, TailRange DEF BacklogPart
    <2>8. client \notin DOMAIN descriptor
        BY <1>1, <2>7 DEF BacklogPart
    <2>9. fd \in 0 .. MaxDescriptors - 1 /\ fd \notin Range(descriptor)
        <3>1. FreeDescriptors \subseteq Nat
            BY EchoAssumption DEF FreeDescriptors
        <3>2. fd \in FreeDescriptors
            BY <1>8, <2>2, <3>1, Minimum
        <3>3. QED
            BY <3>2 DEF FreeDescriptors
    <2>10. DOMAIN descriptor' = held
        BY <2>6
    <2>11. DescriptorPart'
        <3>1. held \subseteq Sockets
            BY <1>1, <2>5, <2>7 DEF DescriptorPart, Sockets
        <3>2. descriptor' \in [held -> 0 .. MaxDescriptors - 1]
            BY <1>1, <2>5, <2>6, <2>9 DEF DescriptorPart
        <3>3. IsInjective(descriptor')
            BY <1>1, <2>5, <2>6, <2>8, <2>9 DEF DescriptorPart, IsInjective, Range
        <3>4. QED
            BY <2>10, <3>1, <3>2, <3>3 DEF DescriptorPart
    <2>12. BacklogPart'
        <3>1. Range(Tail(backlog)) \cap held = {}
            BY <1>1, <2>5, <2>7 DEF BacklogPart
        <3>2. ASSUME NEW c \in Clients, conn[c].state = "new"
              PROVE  c \notin Range(Tail(backlog)) \cup held
            BY <1>1, <2>5, <2>7, <3>2 DEF BacklogPart
        <3>3. QED
            BY <1>2, <2>6, <2>7, <2>10, <3>1, <3>2 DEF BacklogPart
    <2>13. readSet \in Seq(held) /\ IsInjective(readSet)
        <3>1. server.readSet \in Seq(held) /\ client \in held
            BY <1>4, <2>5, SeqMonotonic
        <3>2. client \notin Range(server.readSet)
            BY <1>4, <2>8, SeqRange
        <3>3. QED
            BY <1>4, <2>3, <3>1, <3>2, AppendRange
    <2>14. /\ DOMAIN s = ServerFields /\ s.readSet = readSet /\ s.reply = server.reply
           /\ s.readReady = server.readReady /\ s.started = server.started
        BY <1>3, <2>4 DEF ServerFields
    <2>15. ServerPart' /\ ToServe' = Tail(server.readReady)
        BY <1>1, <1>2, <1>4, <2>5, <2>6, <2>10, <2>13, <2>14, NextReadyKeepsVectors
    <2>16. QED
        BY <1>5, <1>6, <2>11, <2>12, <2>15, PartsAfter
<1>9. QED
    BY <1>7, <1>8 DEF Accept

\* At first there is the listening socket only.
LEMMA SocketInit == Init => SocketInvariant
<1> SUFFICES ASSUME Init PROVE SocketInvariant
    OBVIOUS
<1>1. /\ << >> \in ByteSeq /\ Len(<< >>) = 0 /\ Range(<< >>) = {} /\ IsInjective(<< >>)
    BY DEF ByteSeq, Range, IsInjective
<1>2. DOMAIN descriptor = {listenSocket} /\ descriptor[listenSocket] = 0
    BY DEF Init
<1>3. DescriptorPart
    <2>1. 0 \in 0 .. MaxDescriptors - 1
        BY EchoAssumption
    <2>2. QED
        BY <1>2, <2>1 DEF Init, DescriptorPart, Sockets, IsInjective
<1>4. ServerPart
    <2>1. PICK set : set = DOMAIN descriptor
        OBVIOUS
    <2>2. /\ <<listenSocket>> \in Seq(set) /\ << >> \in Seq(set)
          /\ IsInjective(<<listenSocket>>)
        BY <1>2, <2>1 DEF IsInjective
    <2>3. QED
        BY <1>1, <2>1, <2>2 DEF Init, ServerPart
<1>5. conn \in [Clients -> Connection] /\ \A c \in Clients : conn[c].state = "new"
    BY <1>1 DEF Init, Connection
<1>6. ConnectionPart
    BY <1>1, <1>5, EchoAssumption DEF Init, ConnectionPart
<1>7. BacklogPart
    <2>1. << >> \in Seq(Clients)
        OBVIOUS
    <2>2. Clients \cap DOMAIN descriptor = {}
        BY <1>2, EchoAssumption
    <2>3. QED
        BY <1>1, <2>1, <2>2 DEF Init, BacklogPart
<1>8. NoReadyCallWaits
    BY <1>1 DEF Init, NoReadyCallWaits, ToServe
<1>9. QED
    BY <1>3, <1>4, <1>6, <1>7, <1>8, Parts

\* A select that fails leaves the vectors as the last turn left them.
LEMMA SelectFailsKeepsSockets ==
    ASSUME StreamInvariant, SocketInvariant, SelectFails
    PROVE  SocketInvariant'
<1>1. /\ ServerPart /\ DescriptorPart /\ BacklogPart
      /\ ConnectionPart /\ NoReadyCallWaits
    BY Parts
<1>2. /\ server.phase = "select" /\ server' = [server EXCEPT !.phase = "ended"]
      /\ descriptor' = descriptor /\ backlog' = backlog /\ conn' = conn
    BY DEF SelectFails
<1>3. DOMAIN server = ServerFields
    BY DEF StreamInvariant, ServerFields
<1>4. /\ server'.phase = "ended" /\ server'.readSet = server.readSet
      /\ server'.readReady = server.readReady /\ server'.reply = server.reply
      /\ server'.started = server.started
    BY <1>2, <1>3 DEF ServerFields
<1>5. ServerPart'
    BY <1>1, <1>2, <1>4 DEF ServerPart
<1>6. DescriptorPart' /\ BacklogPart' /\ ConnectionPart'
    BY <1>1, <1>2 DEF DescriptorPart, BacklogPart, ConnectionPart
<1>7. NoReadyCallWaits'
    <2>1. ToServe' = ToServe
        BY <1>2, <1>4 DEF ToServe
    <2>2. \A s \in Range(ToServe) : Readable(s)' = Readable(s)
        BY <1>2 DEF Readable
    <2>3. QED
        BY <1>1, <2>1, <2>2 DEF NoReadyCallWaits
<1>8. QED
    BY <1>5, <1>6, <1>7, PartsAfter

\* Every step keeps the invariant about the sockets.
LEMMA SocketNext ==
    StreamInvariant /\ SocketInvariant /\ [Next]_vars => SocketInvariant'
<1> SUFFICES ASSUME StreamInvariant, SocketInvariant, [Next]_vars
             PROVE  SocketInvariant'
    OBVIOUS
<1>1. CASE Select
    BY <1>1, SelectKeepsSockets
<1>2. CASE Accept
    BY <1>2, AcceptKeepsSockets
<1>3. ASSUME NEW c \in Clients, Receive(c) PROVE SocketInvariant'
    BY <1>3, ReceiveKeepsSockets
<1>4. ASSUME NEW c \in Clients, RemoveSocket(c) PROVE SocketInvariant'
    BY <1>4, RemoveSocketKeepsSockets
<1>5. ASSUME NEW c \in Clients, SendByte(c) PROVE SocketInvariant'
    BY <1>5, SendByteKeepsSockets
<1>6. ASSUME NEW c \in Clients, SendToClosed(c) PROVE SocketInvariant'
    BY <1>6, SendToClosedKeepsSockets
<1>7. ASSUME NEW c \in Clients, SendToReset(c) PROVE SocketInvariant'
    BY <1>7, SendToResetKeepsSockets
<1>8. ASSUME NEW c \in Clients, Connect(c) PROVE SocketInvariant'
    BY <1>8, ConnectKeepsSockets
<1>9. ASSUME NEW c \in Clients, ClientSends(c) PROVE SocketInvariant'
    BY <1>9, ClientSendsKeepsSockets
<1>10. ASSUME NEW c \in Clients, ClientReads(c) PROVE SocketInvariant'
    BY <1>10, ClientReadsKeepsSockets
<1>11. ASSUME NEW c \in Clients, ClientCloses(c) PROVE SocketInvariant'
    BY <1>11, ClientClosesKeepsSockets
<1>12. CASE UNCHANGED vars
    BY <1>12 DEF vars, SocketInvariant, TypeOK, NoReadyCallWaits, ToServe, Readable
<1>13. CASE SelectFails
    BY <1>13, SelectFailsKeepsSockets
<1>14. QED
    BY <1>1, <1>2, <1>3, <1>4, <1>5, <1>6, <1>7, <1>8, <1>9, <1>10, <1>11, <1>12,
       <1>13 DEF Next, ServerStep

----------------------------------------------------------------------------
(***************************************************************************)
(* The theorems.                                                           *)
(***************************************************************************)

\* The invariant holds: a send under way has bytes left, only clients that have
\* closed have errors, the bytes of every client are where they should be, no
\* socket is twice in a vector, no descriptor has two sockets, no connection is
\* accepted twice, and every socket whose turn is to come is ready.
THEOREM InvariantHolds == Spec => []EchoInvariant
<1>1. Init => EchoInvariant
    BY StreamInit, SocketInit DEF EchoInvariant
<1>2. EchoInvariant /\ [Next]_vars => EchoInvariant'
    BY StreamNext, SocketNext DEF EchoInvariant
<1>3. QED
    BY <1>1, <1>2, PTL DEF Spec

\* The state has its type: the vectors hold sockets that are not destroyed, of
\* which the process has only so many, and a connection carries only so much.
THEOREM TypeCorrect == Spec => []TypeOK
<1>1. EchoInvariant => TypeOK
    BY DEF EchoInvariant, SocketInvariant
<1>2. QED
    BY <1>1, InvariantHolds, PTL

\* No byte is lost, repeated, overtaken or sent to another client, for any
\* number of clients that connect, send, read and leave in any order, and any
\* sizes of the buffer and of what a connection holds.
THEOREM EchoesStayFaithful == Spec => []EchoesAreFaithful
<1>1. EchoInvariant => EchoesAreFaithful
    BY DEF EchoInvariant, StreamInvariant
<1>2. QED
    BY <1>1, InvariantHolds, PTL

\* Neither accept nor recv ever waits: what select reported is true until it is
\* used, for any number of clients and descriptors, whoever leaves meanwhile.
THEOREM ReadyCallsNeverWait == Spec => []NoReadyCallWaits
<1>1. EchoInvariant => NoReadyCallWaits
    BY DEF EchoInvariant, SocketInvariant
<1>2. QED
    BY <1>1, InvariantHolds, PTL
=============================================================================
