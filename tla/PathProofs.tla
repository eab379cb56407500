------------------------------ MODULE PathProofs -----------------------------
(***************************************************************************)
(* Proofs about the two components that work on paths letter by letter:    *)
(* Listing, for every set of entries, trees, requests and provider         *)
(* ceilings and every tree that other programs make; and FileUriPath, for  *)
(* every character table and every URI.  They share the first section.     *)
(***************************************************************************)
EXTENDS Listing, FileUriPath, SequenceTheorems, FiniteSetTheorems, WellFoundedInduction, TLAPS

(***************************************************************************)
(* Sequences.                                                              *)
(***************************************************************************)

\* Every set of naturals that is not empty has a least element: the form of
\* induction used below.
LEMMA LeastNatural ==
    ASSUME NEW T, T \subseteq Nat, T # {}
    PROVE  \E n \in T : \A m \in T : n <= m
  <1> DEFINE R == OpToRel(<, Nat)
  <1>1. IsWellFoundedOn(R, Nat)
    BY NatLessThanWellFounded
  <1>2. \A x, y \in Nat : <<y, x>> \in R <=> y < x
    BY DEF OpToRel
  <1> HIDE DEF R
  <1>3. PICK n \in T : \A m \in T : ~(<<m, n>> \in R)
    BY <1>1, WFMin
  <1>4. ASSUME NEW m \in T PROVE n <= m
    <2>1. m \in Nat /\ n \in Nat
      OBVIOUS
    <2>2. ~(m < n)
      BY <1>2, <1>3, <2>1
    <2> QED BY <2>1, <2>2
  <1> QED BY <1>4

\* IsPrefix, component by component.
LEMMA PrefixByItems ==
    ASSUME NEW S, NEW s \in Seq(S), NEW t \in Seq(S)
    PROVE  IsPrefix(s, t) <=> Len(s) <= Len(t) /\ \A i \in 1..Len(s) : s[i] = t[i]
  <1>1. Len(s) \in Nat /\ Len(t) \in Nat
    BY LenProperties
  <1>2. CASE ~(Len(s) <= Len(t))
    BY <1>2 DEF IsPrefix
  <1>3. CASE Len(s) <= Len(t)
    <2> DEFINE u == SubSeq(t, 1, Len(s))
    <2>1. SubSeq(s, 1, Len(s)) = s
      BY SubSeqFull
    <2>2. \A i \in 1..Len(s) : t[i] \in S
      BY <1>1, <1>3, ElementOfSeq
    <2>3. u \in Seq(S) /\ Len(u) = Len(s) /\ \A i \in 1..Len(s) : u[i] = t[i]
      <3>1. 1 \in Int /\ Len(s) \in Int
        BY <1>1
      <3> QED BY <1>1, <2>2, <3>1, SubSeqProperties
    <2> HIDE DEF u
    <2>4. (\A i \in 1..Len(s) : s[i] = t[i]) => s = u
      BY <2>3, SeqEqual
    <2> QED BY <1>3, <2>1, <2>3, <2>4 DEF IsPrefix, u
  <1> QED BY <1>2, <1>3

\* FlattenSeq is the last of the partial concatenations.
LEMMA FlattenUnfolds ==
    ASSUME NEW S, NEW s \in Seq(Seq(S)), Len(s) # 0
    PROVE  \E f \in [1..Len(s) -> Seq(S)] :
              /\ f[1] = s[1] /\ \A j \in 2..Len(s) : f[j] = f[j - 1] \o s[j]
              /\ FlattenSeq(s) = f[Len(s)]
  <1> DEFINE n == Len(s)
             Partial(f, k) == f = [i \in 1..k |-> IF i = 1 THEN s[i] ELSE f[i - 1] \o s[i]]
             T == {k \in Nat : k \in 1..n /\ ~(\E f \in [1..k -> Seq(S)] : Partial(f, k))}
  <1>1. n \in Nat \ {0} /\ \A i \in 1..n : s[i] \in Seq(S)
    BY LenProperties, ElementOfSeq
  <1> HIDE DEF n
  <1>2. T = {}
    <2> SUFFICES ASSUME T # {} PROVE FALSE
      OBVIOUS
    <2>1. PICK k \in T : \A m \in T : k <= m
      <3>1. T \subseteq Nat
        OBVIOUS
      <3> HIDE DEF T
      <3> QED BY <3>1, LeastNatural
    <2>2. k \in 1..n /\ ~(\E f \in [1..k -> Seq(S)] : Partial(f, k))
      OBVIOUS
    <2>3. CASE k = 1
      <3> DEFINE f == [i \in 1..1 |-> s[1]]
      <3>1. f \in [1..1 -> Seq(S)]
        BY <1>1
      <3>2. Partial(f, 1)
        OBVIOUS
      <3> QED BY <2>2, <2>3, <3>1, <3>2
    <2>4. CASE k # 1
      <3>1. k - 1 \in 1..n /\ k - 1 \in Nat /\ ~(k <= k - 1)
        BY <1>1, <2>2, <2>4
      <3>2. k - 1 \notin T
        BY <2>1, <3>1
      <3>3. PICK f \in [1..(k - 1) -> Seq(S)] : Partial(f, k - 1)
        BY <3>1, <3>2
      <3> DEFINE g == [i \in 1..k |-> IF i = k THEN f[k - 1] \o s[k] ELSE f[i]]
      <3>4. f[k - 1] \o s[k] \in Seq(S)
        BY <1>1, <2>2, <3>1, ConcatProperties
      <3>5. \A i \in 1..k : i # k => i \in 1..(k - 1)
        BY <2>2
      <3>6. g \in [1..k -> Seq(S)]
        BY <3>4, <3>5
      <3>7. \A i \in 1..k : g[i] = IF i = 1 THEN s[i] ELSE g[i - 1] \o s[i]
        <4> SUFFICES ASSUME NEW i \in 1..k
                     PROVE  g[i] = IF i = 1 THEN s[i] ELSE g[i - 1] \o s[i]
          OBVIOUS
        <4>1. CASE i = k
          <5>1. k - 1 \in 1..k /\ k - 1 # k /\ k \in 1..k
            BY <2>2, <3>1
          <5>2. g[k - 1] = f[k - 1] /\ g[k] = f[k - 1] \o s[k]
            BY <5>1
          <5> QED BY <2>4, <4>1, <5>2
        <4>2. CASE i # k
          <5>1. i \in 1..(k - 1) /\ g[i] = f[i]
            BY <3>5, <4>2
          <5>2. f[i] = IF i = 1 THEN s[i] ELSE f[i - 1] \o s[i]
            BY <3>3, <5>1
          <5>3. i # 1 => i - 1 \in 1..k /\ i - 1 # k
            BY <2>2, <5>1
          <5>4. i # 1 => g[i - 1] = f[i - 1]
            BY <5>3
          <5> QED BY <5>1, <5>2, <5>4
        <4> QED BY <4>1, <4>2
      <3>8. Partial(g, k)
        BY <3>6, <3>7
      <3> QED BY <2>2, <3>6, <3>8
    <2> QED BY <2>3, <2>4
  <1>3. \E f : Partial(f, n)
    <2>1. n \in 1..n /\ n \in Nat
      BY <1>1
    <2>2. n \notin T
      BY <1>2
    <2>3. \E f \in [1..n -> Seq(S)] : Partial(f, n)
      BY <2>1, <2>2
    <2> QED BY <2>3
  <1> DEFINE f == CHOOSE f : Partial(f, n)
  <1>4. Partial(f, n)
    <2> HIDE DEF Partial
    <2> QED BY <1>3
  <1>5. FlattenSeq(s) = f[n]
    BY DEF FlattenSeq, n
  <1> HIDE DEF f
  <1>6. \A i \in 1..n : f[i] = IF i = 1 THEN s[i] ELSE f[i - 1] \o s[i]
    BY <1>4
  <1>7. f \in [1..n -> Seq(S)]
    <2> DEFINE B == {k \in Nat : k \in 1..n /\ f[k] \notin Seq(S)}
    <2>1. B = {}
      <3> SUFFICES ASSUME B # {} PROVE FALSE
        OBVIOUS
      <3>1. PICK k \in B : \A m \in B : k <= m
        <4>1. B \subseteq Nat
          OBVIOUS
        <4> HIDE DEF B
        <4> QED BY <4>1, LeastNatural
      <3>2. k \in 1..n /\ f[k] \notin Seq(S) /\ s[k] \in Seq(S)
        BY <1>1
      <3>3. k # 1
        BY <1>6, <3>2
      <3>4. k - 1 \in 1..n /\ k - 1 \in Nat /\ ~(k <= k - 1)
        BY <1>1, <3>2, <3>3
      <3>5. f[k - 1] \in Seq(S)
        BY <3>1, <3>4
      <3>6. f[k] = f[k - 1] \o s[k]
        BY <1>6, <3>2, <3>3
      <3> QED BY <3>2, <3>5, <3>6, ConcatProperties
    <2>2. DOMAIN f = 1..n
      BY <1>4
    <2>3. \A k \in 1..n : k \in Nat
      BY <1>1
    <2>4. \A k \in 1..n : f[k] \in Seq(S)
      BY <2>1, <2>3
    <2>5. f = [i \in 1..n |-> f[i]]
      BY <1>4, <1>6
    <2> QED BY <2>4, <2>5
  <1>8. \A j \in 2..n : j \in 1..n /\ j # 1
    BY <1>1
  <1>9. f[1] = s[1] /\ \A j \in 2..n : f[j] = f[j - 1] \o s[j]
    <2>1. 1 \in 1..n
      BY <1>1
    <2>2. f[1] = s[1]
      BY <1>6, <2>1, Zenon
    <2>3. \A j \in 2..n : f[j] = f[j - 1] \o s[j]
      BY <1>6, <1>8, Zenon
    <2> QED BY <2>2, <2>3
  <1> QED BY <1>5, <1>7, <1>9 DEF n

\* A function on 1..n is a sequence.
LEMMA FunctionIsSeq ==
    ASSUME NEW S, NEW n \in Nat, NEW w \in [1..n -> S]
    PROVE  w \in Seq(S) /\ Len(w) = n
  <1>1. w \in Seq(S)
    BY SeqDef
  <1>2. Len(w) \in Nat /\ 1..Len(w) = 1..n
    BY <1>1, LenProperties
  <1>3. Len(w) <= n
    <2> SUFFICES ASSUME Len(w) > n PROVE FALSE
      BY <1>2
    <2>1. Len(w) \in 1..Len(w) /\ Len(w) \notin 1..n
      BY <1>2
    <2> QED BY <1>2, <2>1
  <1>4. n <= Len(w)
    <2> SUFFICES ASSUME n > Len(w) PROVE FALSE
      BY <1>2
    <2>1. n \in 1..n /\ n \notin 1..Len(w)
      BY <1>2
    <2> QED BY <1>2, <2>1
  <1> QED BY <1>1, <1>2, <1>3, <1>4

\* Induction on the length of a sequence, over the set G of those for which
\* a claim holds.
LEMMA ByLength ==
    ASSUME NEW S, NEW G,
           \A s \in Seq(S) : (\A r \in Seq(S) : Len(r) < Len(s) => r \in G) => s \in G
    PROVE  \A s \in Seq(S) : s \in G
  <1> DEFINE T == {n \in Nat : \E s \in Seq(S) : Len(s) = n /\ s \notin G}
  <1>1. ASSUME NEW s \in Seq(S), s \notin G PROVE FALSE
    <2>1. Len(s) \in T
      BY <1>1, LenProperties
    <2>2. PICK n \in T : \A m \in T : n <= m
      <3>1. T \subseteq Nat
        OBVIOUS
      <3> HIDE DEF T
      <3> QED BY <2>1, <3>1, LeastNatural
    <2>3. PICK t \in Seq(S) : Len(t) = n /\ t \notin G
      OBVIOUS
    <2>4. ASSUME NEW r \in Seq(S), Len(r) < Len(t) PROVE r \in G
      <3>1. SUFFICES ASSUME r \notin G PROVE FALSE
        OBVIOUS
      <3>2. Len(r) \in T
        BY <3>1, LenProperties
      <3>3. n <= Len(r)
        BY <2>2, <3>2
      <3> QED BY <2>3, <2>4, <3>3, LenProperties
    <2> QED BY <2>3, <2>4
  <1> QED BY <1>1

\* One element put before a sequence.
LEMMA ConsSeq ==
    ASSUME NEW S, NEW x \in S, NEW r \in Seq(S)
    PROVE  /\ <<x>> \in Seq(S) /\ <<x>> \o r \in Seq(S) \ {<<>>} /\ Len(<<x>> \o r) = Len(r) + 1
           /\ (<<x>> \o r)[1] = x /\ \A i \in 1..Len(r) : (<<x>> \o r)[i + 1] = r[i]
  <1>1. <<x>> \in Seq(S) /\ Len(<<x>>) = 1 /\ <<x>>[1] = x
    OBVIOUS
  <1>2. Len(r) \in Nat
    BY LenProperties
  <1> DEFINE s == <<x>> \o r
  <1>3. /\ s \in Seq(S) /\ Len(s) = 1 + Len(r)
        /\ \A i \in 1..(1 + Len(r)) : s[i] = IF i <= 1 THEN <<x>>[i] ELSE r[i - 1]
    BY <1>1, ConcatProperties
  <1> HIDE DEF s
  <1>4. s # <<>>
    BY <1>2, <1>3, EmptySeq
  <1>5. s[1] = x
    BY <1>1, <1>2, <1>3
  <1>6. ASSUME NEW i \in 1..Len(r) PROVE s[i + 1] = r[i]
    <2>1. i + 1 \in 1..(1 + Len(r)) /\ ~(i + 1 <= 1) /\ (i + 1) - 1 = i
      BY <1>2
    <2> QED BY <1>3, <2>1
  <1> QED BY <1>1, <1>2, <1>3, <1>4, <1>5, <1>6 DEF s

\* What is left of a sequence after its first n elements, and those.
LEMMA CutAt ==
    ASSUME NEW S, NEW s \in Seq(S), NEW n \in 0..Len(s)
    PROVE  /\ SubSeq(s, 1, n) \in Seq(S) /\ Len(SubSeq(s, 1, n)) = n
           /\ SubSeq(s, n + 1, Len(s)) \in Seq(S) /\ Len(SubSeq(s, n + 1, Len(s))) = Len(s) - n
           /\ s = SubSeq(s, 1, n) \o SubSeq(s, n + 1, Len(s))
           /\ \A i \in 1..n : SubSeq(s, 1, n)[i] = s[i]
  <1>1. Len(s) \in Nat /\ n \in Nat /\ n <= Len(s)
    BY LenProperties
  <1>2. \A i \in 1..n : s[i] \in S
    BY <1>1, ElementOfSeq
  <1>3. \A i \in (n + 1)..Len(s) : s[i] \in S
    BY <1>1, ElementOfSeq
  <1>4. 1 \in Int /\ n \in Int /\ n + 1 \in Int /\ Len(s) \in Int
    BY <1>1
  <1>5. /\ SubSeq(s, 1, n) \in Seq(S)
        /\ Len(SubSeq(s, 1, n)) = IF 1 <= n THEN n - 1 + 1 ELSE 0
        /\ \A i \in 1..(n - 1 + 1) : SubSeq(s, 1, n)[i] = s[1 + i - 1]
    BY <1>2, <1>4, SubSeqProperties
  <1>6. /\ SubSeq(s, n + 1, Len(s)) \in Seq(S)
        /\ Len(SubSeq(s, n + 1, Len(s))) = IF n + 1 <= Len(s) THEN Len(s) - (n + 1) + 1 ELSE 0
    BY <1>3, <1>4, SubSeqProperties
  <1>7. SubSeq(s, 1, n) \o SubSeq(s, n + 1, Len(s)) = SubSeq(s, 1, Len(s))
    <2>1. 1 \in 1..(Len(s) + 1) /\ n \in (1 - 1)..Len(s) /\ Len(s) \in n..Len(s)
      BY <1>1
    <2> QED BY <2>1, ConcatAdjacentSubSeq
  <1>8. s = SubSeq(s, 1, Len(s))
    BY SubSeqFull
  <1>9. /\ Len(SubSeq(s, 1, n)) = n /\ Len(SubSeq(s, n + 1, Len(s))) = Len(s) - n
        /\ \A i \in 1..n : SubSeq(s, 1, n)[i] = s[i]
    BY <1>1, <1>5, <1>6
  <1> QED BY <1>5, <1>6, <1>7, <1>8, <1>9

\* What is left of a concatenation after its first part.
LEMMA Dropped ==
    ASSUME NEW S, NEW a \in Seq(S), NEW r \in Seq(S)
    PROVE  SubSeq(a \o r, Len(a) + 1, Len(a \o r)) = r
  <1> DEFINE s == a \o r
  <1>1. /\ Len(a) \in Nat /\ Len(r) \in Nat /\ s \in Seq(S) /\ Len(s) = Len(a) + Len(r)
        /\ \A i \in 1..(Len(a) + Len(r)) : s[i] = IF i <= Len(a) THEN a[i] ELSE r[i - Len(a)]
    BY LenProperties, ConcatProperties
  <1> HIDE DEF s
  <1> DEFINE t == SubSeq(s, Len(a) + 1, Len(s))
  <1>2. /\ t \in Seq(S) /\ Len(t) = IF Len(a) + 1 <= Len(s) THEN Len(s) - (Len(a) + 1) + 1 ELSE 0
        /\ \A i \in 1..(Len(s) - (Len(a) + 1) + 1) : t[i] = s[Len(a) + 1 + i - 1]
    <2>1. \A i \in (Len(a) + 1)..Len(s) : s[i] \in S
      BY <1>1, ElementOfSeq
    <2>2. Len(a) + 1 \in Int /\ Len(s) \in Int
      BY <1>1
    <2> QED BY <2>1, <2>2, SubSeqProperties
  <1> HIDE DEF t
  <1>3. Len(t) = Len(r)
    BY <1>1, <1>2
  <1>4. ASSUME NEW i \in 1..Len(t) PROVE t[i] = r[i]
    <2>1. /\ i \in 1..(Len(s) - (Len(a) + 1) + 1) /\ Len(a) + 1 + i - 1 = Len(a) + i
          /\ Len(a) + i \in 1..(Len(a) + Len(r)) /\ ~(Len(a) + i <= Len(a))
          /\ (Len(a) + i) - Len(a) = i
      BY <1>1, <1>3
    <2>2. t[i] = s[Len(a) + i]
      BY <1>2, <2>1
    <2> QED BY <1>1, <2>1, <2>2
  <1> QED BY <1>2, <1>3, <1>4, SeqEqual DEF s, t

(***************************************************************************)
(* Scan.                                                                   *)
(***************************************************************************)

\* Every turn moves on.
Turns(S, D, width, piece) ==
    \A s \in Seq(S) \ {<<>>} : width[s] \in Nat \ {0} /\ piece[s] \in Seq(D)

\* f pushes a piece and goes on with what is left.
Loop(f, S, D, width, piece) ==
    /\ f[<<>>] = <<>>
    /\ \A s \in Seq(S) : f[s] \in Seq(D)
    /\ \A s \in Seq(S) \ {<<>>} : f[s] = piece[s] \o f[SubSeq(s, width[s] + 1, Len(s))]

\* A loop whose turns all move on is defined for every sequence.
LEMMA ScanUnfolds ==
    ASSUME NEW S, NEW D, NEW width, NEW piece, Turns(S, D, width, piece)
    PROVE  Loop(Scan(S, width, piece), S, D, width, piece)
  <1> DEFINE rest(s) == SubSeq(s, width[s] + 1, Len(s))
             turn(f, s) == IF s = <<>> THEN <<>> ELSE piece[s] \o f[rest(s)]
             upTo(n) == {s \in Seq(S) : Len(s) <= n}
             ok(f, n) == f = [s \in upTo(n) |-> turn(f, s)]
  <1>0. \A s \in Seq(S) \ {<<>>} : width[s] \in Nat \ {0} /\ piece[s] \in Seq(D)
    BY DEF Turns
  <1>1. ASSUME NEW s \in Seq(S), s # <<>>
        PROVE  rest(s) \in Seq(S) /\ Len(rest(s)) < Len(s)
    <2>1. Len(s) \in Nat \ {0} /\ width[s] \in Nat \ {0}
      BY <1>0, <1>1, EmptySeq
    <2>2. \A i \in (width[s] + 1)..Len(s) : s[i] \in S
      BY <2>1, ElementOfSeq
    <2>3. width[s] + 1 \in Int /\ Len(s) \in Int
      BY <2>1
    <2>4. /\ rest(s) \in Seq(S)
          /\ Len(rest(s)) = IF width[s] + 1 <= Len(s) THEN Len(s) - (width[s] + 1) + 1 ELSE 0
      BY <2>2, <2>3, SubSeqProperties
    <2> HIDE DEF rest
    <2> QED BY <2>1, <2>4
  <1> HIDE DEF rest
  <1>2. \A s \in Seq(S) : Len(s) \in Nat
    BY LenProperties
  \* Two partial loops agree where both are defined.
  <1>3. ASSUME NEW m \in Nat, NEW n \in Nat, NEW f, NEW g, ok(f, m), ok(g, n)
        PROVE  \A s \in Seq(S) : Len(s) <= m /\ Len(s) <= n => f[s] = g[s]
    <2> DEFINE G == {s \in Seq(S) : Len(s) <= m /\ Len(s) <= n => f[s] = g[s]}
    <2>1. ASSUME NEW s \in Seq(S), \A r \in Seq(S) : Len(r) < Len(s) => r \in G PROVE s \in G
      <3> SUFFICES ASSUME Len(s) <= m, Len(s) <= n PROVE f[s] = g[s]
        OBVIOUS
      <3>1. f[s] = turn(f, s) /\ g[s] = turn(g, s)
        <4>1. s \in upTo(m) /\ s \in upTo(n)
          OBVIOUS
        <4> QED BY <1>3, <4>1
      <3>2. CASE s = <<>>
        BY <3>1, <3>2
      <3>3. CASE s # <<>>
        <4>1. rest(s) \in Seq(S) /\ Len(rest(s)) < Len(s)
          BY <1>1, <3>3
        <4>2. rest(s) \in G /\ Len(rest(s)) <= m /\ Len(rest(s)) <= n
          <5>1. Len(rest(s)) \in Nat /\ Len(s) \in Nat
            BY <1>2, <4>1
          <5>2. Len(rest(s)) <= m /\ Len(rest(s)) <= n
            BY <4>1, <5>1
          <5> QED BY <2>1, <4>1, <5>2
        <4>3. f[rest(s)] = g[rest(s)]
          BY <4>2
        <4> QED BY <3>1, <3>3, <4>3
      <3> QED BY <3>2, <3>3
    <2> HIDE DEF G
    <2>2. \A s \in Seq(S) : s \in G
      BY <2>1, ByLength
    <2> QED BY <2>2 DEF G
  \* There is one for every length.
  <1>4. \A n \in Nat : \E f : ok(f, n)
    <2> DEFINE T == {n \in Nat : ~\E f : ok(f, n)}
    <2>1. SUFFICES ASSUME T # {} PROVE FALSE
      OBVIOUS
    <2>2. PICK n \in T : \A m \in T : n <= m
      <3>1. T \subseteq Nat
        OBVIOUS
      <3> HIDE DEF T
      <3> QED BY <2>1, <3>1, LeastNatural
    <2>3. CASE n = 0
      <3> DEFINE f == [s \in upTo(0) |-> <<>>]
      <3>1. \A s \in upTo(0) : s = <<>>
        BY EmptySeq
      <3>2. ok(f, 0)
        BY <3>1
      <3> QED BY <2>3, <3>2
    <2>4. CASE n # 0
      <3>1. n - 1 \in Nat /\ ~(n <= n - 1)
        BY <2>4
      <3>2. PICK g : ok(g, n - 1)
        BY <2>2, <3>1
      <3> DEFINE f == [s \in upTo(n) |-> turn(g, s)]
      <3>3. ASSUME NEW s \in Seq(S), Len(s) <= n - 1 PROVE f[s] = g[s]
        <4>1. s \in upTo(n - 1) /\ s \in upTo(n)
          BY <1>2, <3>1, <3>3
        <4>2. g[s] = turn(g, s)
          BY <3>2, <4>1
        <4> QED BY <4>1, <4>2
      <3>4. ASSUME NEW s \in upTo(n) PROVE turn(f, s) = turn(g, s)
        <4>1. CASE s = <<>>
          BY <4>1
        <4>2. CASE s # <<>>
          <5>1. rest(s) \in Seq(S) /\ Len(rest(s)) < Len(s)
            BY <1>1, <4>2
          <5>2. Len(rest(s)) <= n - 1
            <6>1. Len(rest(s)) \in Nat /\ Len(s) \in Nat /\ Len(s) <= n /\ n \in Nat
              BY <1>2, <5>1
            <6> QED BY <5>1, <6>1
          <5>3. f[rest(s)] = g[rest(s)]
            BY <3>3, <5>1, <5>2
          <5> HIDE DEF f
          <5> QED BY <5>3
        <4> QED BY <4>1, <4>2
      <3>5. ok(f, n)
        BY <3>4
      <3> QED BY <3>5
    <2> QED BY <2>3, <2>4
  <1> HIDE DEF ok
  <1> DEFINE part(n) == CHOOSE f : ok(f, n)
             F == [s \in Seq(S) |-> part(Len(s))[s]]
  <1>5. \A n \in Nat : ok(part(n), n)
    BY <1>4
  <1> HIDE DEF part
  <1>6. F = [s \in Seq(S) |-> turn(F, s)]
    <2>1. ASSUME NEW s \in Seq(S) PROVE F[s] = turn(F, s)
      <3>1. ok(part(Len(s)), Len(s)) /\ s \in upTo(Len(s))
        BY <1>2, <1>5
      <3>2. F[s] = turn(part(Len(s)), s)
        BY <3>1 DEF ok
      <3>3. CASE s = <<>>
        BY <3>2, <3>3
      <3>4. CASE s # <<>>
        <4>1. rest(s) \in Seq(S) /\ Len(rest(s)) < Len(s) /\ Len(s) \in Nat /\ Len(rest(s)) \in Nat
          BY <1>1, <1>2, <3>4
        <4>2. Len(rest(s)) <= Len(s) /\ Len(rest(s)) <= Len(rest(s))
          BY <4>1
        <4>3. part(Len(s))[rest(s)] = part(Len(rest(s)))[rest(s)]
          BY <1>3, <1>5, <4>1, <4>2
        <4>4. part(Len(s))[rest(s)] = F[rest(s)]
          BY <4>1, <4>3
        <4> HIDE DEF F
        <4> QED BY <3>2, <3>4, <4>4
      <3> QED BY <3>3, <3>4
    <2> QED BY <2>1
  <1> DEFINE H == Scan(S, width, piece)
  <1>7. H = [s \in Seq(S) |-> turn(H, s)]
    <2> DEFINE g == CHOOSE g : g = [s \in Seq(S) |-> turn(g, s)]
    <2>1. H = g
      BY Zenon DEF Scan, rest
    <2>2. g = [s \in Seq(S) |-> turn(g, s)]
      <3> HIDE DEF F, turn
      <3> QED BY <1>6
    <2> HIDE DEF g, H
    <2> QED BY <2>1, <2>2
  <1> HIDE DEF H, F
  <1>8. H[<<>>] = <<>>
    BY <1>7, EmptySeq
  <1>9. \A s \in Seq(S) \ {<<>>} : H[s] = piece[s] \o H[rest(s)]
    BY <1>7
  <1>10. \A s \in Seq(S) : H[s] \in Seq(D)
    <2> DEFINE G == {s \in Seq(S) : H[s] \in Seq(D)}
    <2>1. ASSUME NEW s \in Seq(S), \A r \in Seq(S) : Len(r) < Len(s) => r \in G PROVE s \in G
      <3>1. CASE s = <<>>
        BY <1>8, <3>1, EmptySeq
      <3>2. CASE s # <<>>
        <4>1. rest(s) \in G /\ piece[s] \in Seq(D)
          BY <1>0, <1>1, <2>1, <3>2
        <4>2. H[rest(s)] \in Seq(D)
          BY <4>1
        <4>3. H[s] = piece[s] \o H[rest(s)]
          BY <1>9, <3>2
        <4>4. H[s] \in Seq(D)
          BY <4>1, <4>2, <4>3, ConcatProperties, Zenon
        <4> QED BY <4>4
      <3> QED BY <3>1, <3>2
    <2> HIDE DEF G
    <2>2. \A s \in Seq(S) : s \in G
      BY <2>1, ByLength
    <2> QED BY <2>2 DEF G
  <1> QED BY <1>8, <1>9, <1>10 DEF H, rest, Loop

\* A turn that takes the first part of a sequence.
Advances(f, S, width, piece) ==
    \A a, r \in Seq(S) :
        a # <<>> /\ width[a \o r] = Len(a) => f[a \o r] = piece[a \o r] \o f[r]

\* A turn pushes its piece and goes on behind the part it took.
LEMMA LoopTurn ==
    ASSUME NEW f, NEW S, NEW D, NEW width, NEW piece, Loop(f, S, D, width, piece)
    PROVE  Advances(f, S, width, piece)
  <1> SUFFICES ASSUME NEW a \in Seq(S), NEW r \in Seq(S), a # <<>>, width[a \o r] = Len(a)
               PROVE  f[a \o r] = piece[a \o r] \o f[r]
    BY DEF Advances
  <1>1. a \o r \in Seq(S) \ {<<>>}
    BY ConcatProperties, ConcatEqualIffEmpty
  <1>2. SubSeq(a \o r, width[a \o r] + 1, Len(a \o r)) = r
    BY Dropped
  <1> QED BY <1>1, <1>2, Zenon DEF Loop

\* Concatenations may be regrouped.
Associative(S) == \A a, b, c \in Seq(S) : (a \o b) \o c = a \o (b \o c)

\* Concatenation is associative: stated once, to be cited by name.
LEMMA Regroup == \A S : Associative(S)
  BY ConcatAssociative DEF Associative

\* A sequence that is not empty has a head and a rest.
LEMMA HeadAndRest ==
    ASSUME NEW S, NEW s \in Seq(S), s # <<>>
    PROVE  \E x \in S, r \in Seq(S) : s = <<x>> \o r /\ Len(r) < Len(s)
  <1>1. Len(s) \in Nat \ {0} /\ 1 \in 0..Len(s) /\ 1 \in 1..Len(s)
    BY EmptySeq
  <1> DEFINE a == SubSeq(s, 1, 1)
             r == SubSeq(s, 2, Len(s))
  <1>2. /\ a \in Seq(S) /\ Len(a) = 1 /\ r \in Seq(S) /\ Len(r) = Len(s) - 1 /\ s = a \o r
        /\ a[1] = s[1]
    <2>1. 1 + 1 = 2 /\ 1 \in 1..1
      OBVIOUS
    <2>2. \A n \in 0..Len(s) :
             /\ SubSeq(s, 1, n) \in Seq(S) /\ Len(SubSeq(s, 1, n)) = n
             /\ SubSeq(s, n + 1, Len(s)) \in Seq(S)
             /\ Len(SubSeq(s, n + 1, Len(s))) = Len(s) - n
             /\ s = SubSeq(s, 1, n) \o SubSeq(s, n + 1, Len(s))
             /\ \A i \in 1..n : SubSeq(s, 1, n)[i] = s[i]
      BY CutAt
    <2> QED BY <1>1, <2>1, <2>2
  <1>3. s[1] \in S
    BY <1>1, ElementOfSeq
  <1> HIDE DEF a, r
  <1>4. a = <<s[1]>>
    <2>1. <<s[1]>> \in Seq(S) /\ Len(<<s[1]>>) = 1 /\ <<s[1]>>[1] = s[1]
      BY <1>3
    <2> QED BY <1>2, <2>1, SeqEqual
  <1>5. Len(r) < Len(s)
    BY <1>1, <1>2
  <1> QED BY <1>2, <1>3, <1>4, <1>5

(***************************************************************************)
(* Concatenations of images.                                               *)
(***************************************************************************)

\* FlattenSeq from the left.
LEMMA FlattenCons ==
    ASSUME NEW S, NEW s \in Seq(Seq(S)), NEW a \in Seq(S)
    PROVE  /\ FlattenSeq(s) \in Seq(S)
           /\ FlattenSeq(<<a>> \o s) = a \o FlattenSeq(s)
  <1>0. Associative(S)
    BY Regroup
  <1> DEFINE n == Len(s)
             t == <<a>> \o s
  <1>1. n \in Nat
    BY LenProperties
  <1>2. t \in Seq(Seq(S)) /\ Len(t) = n + 1 /\ t[1] = a /\ \A i \in 1..n : t[i + 1] = s[i]
    BY ConsSeq
  <1> HIDE DEF t
  <1>3. PICK g \in [1..(n + 1) -> Seq(S)] :
           /\ g[1] = t[1] /\ \A j \in 2..(n + 1) : g[j] = g[j - 1] \o t[j]
           /\ FlattenSeq(t) = g[n + 1]
    <2>1. Len(t) # 0
      BY <1>1, <1>2
    <2>2. \E g \in [1..Len(t) -> Seq(S)] :
             /\ g[1] = t[1] /\ \A j \in 2..Len(t) : g[j] = g[j - 1] \o t[j]
             /\ FlattenSeq(t) = g[Len(t)]
      BY <1>2, <2>1, FlattenUnfolds, Zenon
    <2> QED BY <1>2, <2>2
  <1>4. CASE n = 0
    <2>1. s = <<>>
      BY <1>4, EmptySeq
    <2>2. FlattenSeq(s) = <<>>
      BY <1>4, <2>1 DEF FlattenSeq
    <2>3. FlattenSeq(t) = a
      BY <1>2, <1>3, <1>4
    <2> QED BY <2>2, <2>3, ConcatEmptySeq, EmptySeq DEF t
  <1>5. CASE n # 0
    <2>1. PICK f \in [1..n -> Seq(S)] :
             /\ f[1] = s[1] /\ \A j \in 2..n : f[j] = f[j - 1] \o s[j]
             /\ FlattenSeq(s) = f[n]
      BY <1>5, FlattenUnfolds
    <2>2. \A j \in 1..n : s[j] \in Seq(S)
      BY ElementOfSeq
    <2> DEFINE T == {j \in Nat : j \in 1..n /\ g[j + 1] # a \o f[j]}
    <2>3. T = {}
      <3> SUFFICES ASSUME T # {} PROVE FALSE
        OBVIOUS
      <3>1. PICK k \in T : \A m \in T : k <= m
        <4>1. T \subseteq Nat
          OBVIOUS
        <4> HIDE DEF T
        <4> QED BY <4>1, LeastNatural
      <3>2. k \in 1..n /\ k + 1 \in 2..(n + 1) /\ (k + 1) - 1 = k /\ g[k + 1] # a \o f[k]
        BY <1>1
      <3>3. g[k + 1] = g[k] \o s[k]
        BY <1>2, <1>3, <3>2
      <3>4. CASE k = 1
        BY <1>2, <1>3, <2>1, <3>2, <3>3, <3>4
      <3>5. CASE k # 1
        <4>1. k - 1 \in 1..n /\ k - 1 \in Nat /\ ~(k <= k - 1) /\ (k - 1) + 1 = k /\ k \in 2..n
          BY <1>1, <3>2, <3>5
        <4>2. g[k] = a \o f[k - 1]
          BY <3>1, <4>1
        <4>3. f[k] = f[k - 1] \o s[k]
          BY <2>1, <4>1
        <4>4. f[k - 1] \in Seq(S) /\ s[k] \in Seq(S)
          BY <2>2, <3>2, <4>1
        <4>5. (a \o f[k - 1]) \o s[k] = a \o (f[k - 1] \o s[k])
          BY <1>0, <4>4 DEF Associative
        <4> QED BY <3>2, <3>3, <4>2, <4>3, <4>5
      <3> QED BY <3>4, <3>5
    <2>4. n \in 1..n
      BY <1>1, <1>5
    <2>5. g[n + 1] = a \o f[n]
      BY <1>1, <2>3, <2>4
    <2> QED BY <1>3, <2>1, <2>4, <2>5 DEF t
  <1> QED BY <1>4, <1>5

\* f puts the images under e one after another.
Morphism(f, e, S, X) ==
    /\ f[<<>>] = <<>>
    /\ \A t \in Seq(X) : f[t] \in Seq(S)
    /\ \A x \in X, t \in Seq(X) : f[<<x>> \o t] = e[x] \o f[t]
    /\ \A t, u \in Seq(X) : f[t \o u] = f[t] \o f[u]

\* The images under e, one by one.
Mapped(e, t) == [i \in 1..Len(t) |-> e[t[i]]]

Maps(e, X, Y) ==
    \A t \in Seq(X) :
        /\ Mapped(e, t) \in Seq(Y) /\ Len(Mapped(e, t)) = Len(t)
        /\ \A x \in X : Mapped(e, <<x>> \o t) = <<e[x]>> \o Mapped(e, t)

\* Mapping goes element by element.
LEMMA MappedLaws ==
    ASSUME NEW X, NEW Y, NEW e \in [X -> Y]
    PROVE  Maps(e, X, Y)
  <1>1. \A u \in Seq(X) : Mapped(e, u) \in Seq(Y) /\ Len(Mapped(e, u)) = Len(u)
    <2> SUFFICES ASSUME NEW u \in Seq(X)
                 PROVE  Mapped(e, u) \in Seq(Y) /\ Len(Mapped(e, u)) = Len(u)
      OBVIOUS
    <2>1. Len(u) \in Nat
      BY LenProperties
    <2>2. Mapped(e, u) \in [1..Len(u) -> Y]
      BY ElementOfSeq DEF Mapped
    <2> QED BY <2>1, <2>2, FunctionIsSeq
  <1>2. ASSUME NEW t \in Seq(X), NEW x \in X
        PROVE  Mapped(e, <<x>> \o t) = <<e[x]>> \o Mapped(e, t)
    <2> DEFINE u == <<x>> \o t
               m == Mapped(e, t)
               v == <<e[x]>> \o m
               w == Mapped(e, u)
    <2>1. /\ u \in Seq(X) /\ Len(u) = Len(t) + 1 /\ Len(t) \in Nat
          /\ u[1] = x /\ \A i \in 1..Len(t) : u[i + 1] = t[i]
      BY ConsSeq, LenProperties
    <2>2. m \in Seq(Y) /\ e[x] \in Y /\ Len(m) = Len(t) /\ \A i \in 1..Len(t) : m[i] = e[t[i]]
      BY <1>1 DEF Mapped
    <2> HIDE DEF m
    <2>3. /\ v \in Seq(Y) /\ Len(v) = Len(t) + 1 /\ v[1] = e[x]
          /\ \A i \in 1..Len(t) : v[i + 1] = m[i]
      BY <2>2, ConsSeq
    <2>4. w \in Seq(Y) /\ Len(w) = Len(t) + 1
      BY <1>1, <2>1
    <2>5. ASSUME NEW i \in 1..Len(w) PROVE w[i] = v[i]
      <3>1. i \in 1..Len(u) /\ i \in 1..(Len(t) + 1)
        BY <2>1, <2>4
      <3> HIDE DEF u, v
      <3>2. w[i] = e[u[i]]
        BY <3>1 DEF Mapped
      <3>3. CASE i = 1
        BY <2>1, <2>3, <3>2, <3>3
      <3>4. CASE i # 1
        <4>1. i - 1 \in 1..Len(t) /\ (i - 1) + 1 = i
          BY <2>1, <3>1, <3>4
        <4>2. u[i] = t[i - 1] /\ v[i] = m[i - 1]
          BY <2>1, <2>3, <4>1
        <4> QED BY <2>2, <3>2, <4>1, <4>2
      <3> QED BY <3>3, <3>4
    <2>6. w = v
      <3> HIDE DEF v, w
      <3> QED BY <2>3, <2>4, <2>5, SeqEqual
    <2> QED BY <2>6 DEF m
  <1> QED BY <1>1, <1>2 DEF Maps

\* Flattened images are concatenated element by element.
LEMMA FlattenMap ==
    ASSUME NEW S, NEW X, NEW e \in [X -> Seq(S)]
    PROVE  Morphism([t \in Seq(X) |-> FlattenSeq(Mapped(e, t))], e, S, X)
  <1> DEFINE f == [t \in Seq(X) |-> FlattenSeq(Mapped(e, t))]
  <1>10. Maps(e, X, Seq(S))
    BY MappedLaws
  <1>1. \A t \in Seq(X) : Mapped(e, t) \in Seq(Seq(S))
    BY <1>10 DEF Maps
  <1>2. f[<<>>] = <<>>
    <2>1. <<>> \in Seq(X) /\ Len(<<>>) = 0
      BY EmptySeq
    <2>2. Mapped(e, <<>>) = <<>>
      BY DEF Mapped
    <2>3. FlattenSeq(Mapped(e, <<>>)) = <<>>
      BY <2>2 DEF FlattenSeq
    <2> QED BY <2>1, <2>3
  <1>3. \A t \in Seq(X) : f[t] \in Seq(S)
    <2> SUFFICES ASSUME NEW t \in Seq(X) PROVE f[t] \in Seq(S)
      OBVIOUS
    <2>1. <<>> \in Seq(S) /\ Mapped(e, t) \in Seq(Seq(S))
      BY <1>1, EmptySeq
    <2>2. FlattenSeq(Mapped(e, t)) \in Seq(S)
      BY <2>1, FlattenCons
    <2> QED BY <2>2
  <1>4. ASSUME NEW x \in X, NEW t \in Seq(X) PROVE f[<<x>> \o t] = e[x] \o f[t]
    <2>1. <<x>> \o t \in Seq(X)
      BY ConsSeq
    <2>2. Mapped(e, <<x>> \o t) = <<e[x]>> \o Mapped(e, t)
      BY <1>10 DEF Maps
    <2>3. FlattenSeq(<<e[x]>> \o Mapped(e, t)) = e[x] \o FlattenSeq(Mapped(e, t))
      BY <1>1, FlattenCons
    <2> QED BY <2>1, <2>2, <2>3
  <1> HIDE DEF f
  <1>6. Associative(S) /\ Associative(X)
    BY Regroup
  <1>5. \A t, u \in Seq(X) : f[t \o u] = f[t] \o f[u]
    <2> SUFFICES ASSUME NEW u \in Seq(X) PROVE \A t \in Seq(X) : f[t \o u] = f[t] \o f[u]
      OBVIOUS
    <2> DEFINE G == {t \in Seq(X) : f[t \o u] = f[t] \o f[u]}
    <2>1. ASSUME NEW t \in Seq(X), \A r \in Seq(X) : Len(r) < Len(t) => r \in G PROVE t \in G
      <3>1. CASE t = <<>>
        <4>1. t \o u = u /\ f[t] \o f[u] = f[u]
          BY <1>2, <1>3, <3>1, ConcatEmptySeq
        <4> QED BY <4>1
      <3>2. CASE t # <<>>
        <4>1. PICK x \in X, r \in Seq(X) : t = <<x>> \o r /\ Len(r) < Len(t)
          BY <3>2, HeadAndRest
        <4>2. f[r \o u] = f[r] \o f[u]
          BY <2>1, <4>1
        <4>3. t \o u = <<x>> \o (r \o u) /\ r \o u \in Seq(X)
          <5>1. <<x>> \in Seq(X)
            BY ConsSeq
          <5>2. (<<x>> \o r) \o u = <<x>> \o (r \o u)
            BY <1>6, <5>1 DEF Associative
          <5> QED BY <4>1, <5>2, ConcatProperties
        <4>4. f[t \o u] = e[x] \o (f[r] \o f[u]) /\ f[t] = e[x] \o f[r]
          BY <1>4, <4>1, <4>2, <4>3
        <4>5. e[x] \in Seq(S) /\ f[r] \in Seq(S) /\ f[u] \in Seq(S)
          BY <1>3, <4>1
        <4>6. (e[x] \o f[r]) \o f[u] = e[x] \o (f[r] \o f[u])
          BY <1>6, <4>5 DEF Associative
        <4> QED BY <4>4, <4>6
      <3> QED BY <3>1, <3>2
    <2> HIDE DEF G
    <2>2. \A t \in Seq(X) : t \in G
      BY <2>1, ByLength
    <2> QED BY <2>2 DEF G
  <1> QED BY <1>2, <1>3, <1>4, <1>5 DEF f, Morphism

Inv == TypeOK /\ ListInv

(***************************************************************************)
(* A listing: paths as sequences.                                          *)
(***************************************************************************)

\* The parent of an entry below the first level.
LEMMA FrontOf ==
    ASSUME NEW S, NEW e \in Seq(S), Len(e) > 1
    PROVE  /\ Front(e) \in Seq(S) /\ Len(Front(e)) = Len(e) - 1
           /\ \A i \in 1..(Len(e) - 1) : Front(e)[i] = e[i]
  <1>1. Len(e) \in Nat
    BY LenProperties
  <1>2. \A i \in 1..(Len(e) - 1) : e[i] \in S
    BY <1>1, ElementOfSeq
  <1>3. 1 \in Int /\ Len(e) - 1 \in Int
    BY <1>1
  <1>4. /\ SubSeq(e, 1, Len(e) - 1) \in Seq(S)
        /\ Len(SubSeq(e, 1, Len(e) - 1)) = Len(e) - 1
        /\ \A i \in 1..(Len(e) - 1) : SubSeq(e, 1, Len(e) - 1)[i] = e[i]
    BY <1>1, <1>2, <1>3, SubSeqProperties
  <1> QED BY <1>4 DEF Front

\* Entries are paths, and the parent of one is one.
LEMMA EntryType ==
    ASSUME NEW e \in Entries
    PROVE  /\ e \in Paths /\ Len(e) \in Nat \ {0}
           /\ Len(e) > 1 => Front(e) \in Entries
  <1>1. e \in Paths /\ e # <<>> /\ Ancestors(e) \subseteq Entries
    BY ConstantsAssumption
  <1>2. Len(e) \in Nat \ {0}
    BY <1>1, EmptySeq DEF Paths
  <1>3. Len(e) > 1 => Front(e) \in Ancestors(e)
    <2>1. Len(e) > 1 => Len(e) - 1 \in 1..Len(e)
      BY <1>2
    <2> QED BY <2>1 DEF Front, Ancestors
  <1> QED BY <1>1, <1>2, <1>3

\* What is below an ancestor of an entry's parent is below that of the entry.
LEMMA BelowParent ==
    ASSUME NEW p \in Entries, NEW e \in Entries, Len(e) > 1, Front(e) \in Below(p)
    PROVE  e \in Below(p)
  <1>1. /\ p \in Seq(Names) /\ e \in Seq(Names) /\ Len(p) \in Nat /\ Len(e) \in Nat
    BY EntryType DEF Paths
  <1>2. /\ Front(e) \in Seq(Names) /\ Len(Front(e)) = Len(e) - 1
        /\ \A i \in 1..(Len(e) - 1) : Front(e)[i] = e[i]
    BY <1>1, FrontOf
  <1>3. Len(p) <= Len(e) - 1 /\ \A i \in 1..Len(p) : p[i] = Front(e)[i]
    BY <1>1, <1>2, PrefixByItems DEF Below
  <1>4. Len(p) <= Len(e) /\ \A i \in 1..Len(p) : p[i] = e[i]
    BY <1>1, <1>2, <1>3
  <1> QED BY <1>1, <1>4, PrefixByItems DEF Below

(***************************************************************************)
(* The text of a path.                                                     *)
(***************************************************************************)

\* The letters of a text.
Letters == STRING \cup {"/"}

LEMMA SlashWord == <<"/">> \in Seq(Letters) /\ Len(<<"/">>) = 1 /\ <<"/">>[1] = "/"
  <1>1. "/" \in Letters
    BY DEF Letters
  <1>2. <<"/">>[1] = "/"
    OBVIOUS
  <1>3. <<"/">> \in Seq(Letters)
    BY <1>1
  <1>4. Len(<<"/">>) = 1
    OBVIOUS
  <1> QED BY <1>2, <1>3, <1>4

\* Where the components of a path lie in its text with a slash at the end:
\* component j after the offset o[j - 1], its slash at o[j].
LaidOut(e, t, o) ==
    /\ t \in Seq(Letters) /\ o \in [0..Len(e) -> Nat]
    /\ o[0] = 0 /\ o[Len(e)] = Len(t)
    /\ \A j \in 1..Len(e) :
          /\ o[j] = o[j - 1] + Len(e[j]) + 1 /\ o[j] <= Len(t)
          /\ t[o[j]] = "/"
          /\ \A i \in 1..Len(e[j]) : t[o[j - 1] + i] = e[j][i]

\* A path is laid out in its text.
LEMMA TextLaidOut ==
    ASSUME NEW e \in Paths, e # <<>>
    PROVE  /\ Text(e) \in Seq(Letters)
           /\ \E o : LaidOut(e, Text(e) \o <<"/">>, o)
  <1> DEFINE n == Len(e)
             w == [i \in 1..Len(e) |-> IF i = 1 THEN e[i] ELSE <<"/">> \o e[i]]
  <1>1. n \in Nat \ {0} /\ \A i \in 1..n : e[i] \in Seq(Letters) /\ Len(e[i]) \in Nat
    <2>1. e \in Seq(Names) /\ n \in Nat \ {0}
      BY EmptySeq DEF Paths
    <2>2. \A i \in 1..n : e[i] \in Names
      BY <2>1, ElementOfSeq
    <2>3. ASSUME NEW i \in 1..n PROVE e[i] \in Seq(Letters)
      <3>1. e[i] \in Seq(STRING) /\ STRING \subseteq Letters
        BY <2>2 DEF Names, Letters
      <3> QED BY <3>1, SeqMonotonic
    <2> QED BY <2>1, <2>3, LenProperties
  <1>2. <<"/">> \in Seq(Letters) /\ Len(<<"/">>) = 1 /\ <<"/">>[1] = "/"
    BY SlashWord
  <1>3. \A i \in 1..n : /\ <<"/">> \o e[i] \in Seq(Letters)
                        /\ Len(<<"/">> \o e[i]) = 1 + Len(e[i])
                        /\ (<<"/">> \o e[i])[1] = "/"
                        /\ \A k \in 1..Len(e[i]) : (<<"/">> \o e[i])[1 + k] = e[i][k]
    BY <1>1, <1>2, ConcatProperties
  <1>4. w \in Seq(Seq(Letters)) /\ Len(w) = n
    <2>1. \A i \in 1..n : w[i] \in Seq(Letters)
      BY <1>1, <1>3
    <2>2. w \in [1..n -> Seq(Letters)]
      BY <2>1
    <2> HIDE DEF w, n
    <2> QED BY <1>1, <2>2, FunctionIsSeq
  <1>5. PICK f \in [1..n -> Seq(Letters)] :
            /\ f[1] = w[1] /\ \A j \in 2..n : f[j] = f[j - 1] \o w[j]
            /\ FlattenSeq(w) = f[n]
    <2> HIDE DEF w, n
    <2> QED BY <1>1, <1>4, FlattenUnfolds
  <1>6. Text(e) = f[n] /\ Text(e) \in Seq(Letters)
    BY <1>1, <1>5 DEF Text
  <1>7. /\ f[1] = e[1]
        /\ \A j \in 2..n : f[j] = f[j - 1] \o (<<"/">> \o e[j])
    <2>1. 1 \in 1..n /\ \A j \in 2..n : j \in 1..n /\ j # 1
      BY <1>1
    <2>2. w[1] = e[1] /\ \A j \in 2..n : w[j] = <<"/">> \o e[j]
      BY <2>1
    <2> QED BY <1>5, <2>2
  <1> HIDE DEF w
  <1>8. \A j \in 1..n : f[j] \in Seq(Letters) /\ Len(f[j]) \in Nat
    BY <1>5, LenProperties
  <1>9. ASSUME NEW j \in 2..n
        PROVE  /\ Len(f[j]) = Len(f[j - 1]) + 1 + Len(e[j])
               /\ \A i \in 1..Len(f[j - 1]) : f[j][i] = f[j - 1][i]
               /\ f[j][Len(f[j - 1]) + 1] = "/"
               /\ \A i \in 1..Len(e[j]) : f[j][Len(f[j - 1]) + 1 + i] = e[j][i]
    <2> DEFINE a == f[j - 1]
               b == <<"/">> \o e[j]
    <2>1. /\ j \in 1..n /\ j - 1 \in 1..n
      BY <1>1
    <2>2. /\ a \in Seq(Letters) /\ Len(a) \in Nat /\ b \in Seq(Letters)
          /\ Len(b) = 1 + Len(e[j]) /\ b[1] = "/" /\ Len(e[j]) \in Nat
          /\ \A k \in 1..Len(e[j]) : b[1 + k] = e[j][k]
      BY <1>1, <1>3, <1>8, <2>1
    <2>3. f[j] = a \o b
      BY <1>7
    <2> HIDE DEF a, b
    <2>4. /\ Len(a \o b) = Len(a) + Len(b)
          /\ \A i \in 1..Len(a) + Len(b) :
                (a \o b)[i] = IF i <= Len(a) THEN a[i] ELSE b[i - Len(a)]
      <3>1. a \in Seq(Letters) /\ b \in Seq(Letters)
        BY <2>2
      <3> QED BY <3>1, ConcatProperties
    <2>5. \A i \in 1..Len(a) : (a \o b)[i] = a[i]
      BY <2>2, <2>4
    <2>6. ASSUME NEW k \in 1..Len(b) PROVE (a \o b)[Len(a) + k] = b[k]
      <3>1. /\ Len(a) + k \in 1..Len(a) + Len(b) /\ ~(Len(a) + k <= Len(a))
            /\ (Len(a) + k) - Len(a) = k
        BY <2>2
      <3> QED BY <2>4, <3>1
    <2>7. (a \o b)[Len(a) + 1] = "/"
      BY <2>2, <2>6
    <2>8. ASSUME NEW i \in 1..Len(e[j]) PROVE (a \o b)[Len(a) + 1 + i] = e[j][i]
      <3>1. 1 + i \in 1..Len(b) /\ Len(a) + 1 + i = Len(a) + (1 + i)
        BY <2>2
      <3>2. (a \o b)[Len(a) + (1 + i)] = b[1 + i]
        BY <2>6, <3>1
      <3> QED BY <2>2, <3>1, <3>2
    <2>9. Len(a \o b) = Len(a) + 1 + Len(e[j])
      <3>1. \A x, y \in Nat : x + (1 + y) = x + 1 + y
        OBVIOUS
      <3>2. Len(a) + (1 + Len(e[j])) = Len(a) + 1 + Len(e[j])
        BY <2>2, <3>1, Zenon
      <3>3. Len(a \o b) = Len(a) + (1 + Len(e[j]))
        BY <2>2, <2>4, Zenon
      <3> QED BY <3>2, <3>3, Zenon
    <2> QED BY <2>3, <2>5, <2>7, <2>8, <2>9 DEF a
  <1>10. ASSUME NEW j \in 1..n
         PROVE  Len(f[j]) <= Len(f[n]) /\ \A i \in 1..Len(f[j]) : f[n][i] = f[j][i]
    <2> DEFINE Ext(k) == Len(f[j]) <= Len(f[k]) /\ \A i \in 1..Len(f[j]) : f[k][i] = f[j][i]
               T == {k \in Nat : k \in j..n /\ ~Ext(k)}
    <2>1. j \in Nat /\ Len(f[j]) \in Nat
      BY <1>1, <1>8
    <2>2. T = {}
      <3> SUFFICES ASSUME T # {} PROVE FALSE
        OBVIOUS
      <3>1. PICK k \in T : \A m \in T : k <= m
        <4>1. T \subseteq Nat
          OBVIOUS
        <4> HIDE DEF T
        <4> QED BY <4>1, LeastNatural
      <3>2. k \in j..n /\ ~Ext(k)
        OBVIOUS
      <3>3. k # j
        BY <2>1, <3>2
      <3>4. k - 1 \in j..n /\ k - 1 \in Nat /\ ~(k <= k - 1) /\ k \in 2..n /\ k - 1 \in 1..n
        BY <1>1, <2>1, <3>2, <3>3
      <3>5. Ext(k - 1)
        <4> HIDE DEF Ext
        <4> QED BY <3>1, <3>4
      <3>6. /\ Len(f[k]) = Len(f[k - 1]) + 1 + Len(e[k])
            /\ \A i \in 1..Len(f[k - 1]) : f[k][i] = f[k - 1][i]
        BY <1>9, <3>4
      <3>7. Len(f[k - 1]) \in Nat /\ Len(e[k]) \in Nat
        <4>1. k \in 1..n
          BY <1>1, <3>4
        <4> QED BY <1>1, <1>8, <3>4, <4>1
      <3>8. Len(f[j]) <= Len(f[k])
        <4>1. \A x, y, z \in Nat : x <= y => x <= y + 1 + z
          OBVIOUS
        <4> QED BY <2>1, <3>5, <3>6, <3>7, <4>1
      <3>9. \A i \in 1..Len(f[j]) : i \in 1..Len(f[k - 1])
        BY <2>1, <3>5, <3>7
      <3>10. \A i \in 1..Len(f[j]) : f[k][i] = f[j][i]
        BY <3>5, <3>6, <3>9
      <3> QED BY <3>2, <3>8, <3>10
    <2>3. n \in Nat /\ n \in j..n
      BY <1>1
    <2>4. Ext(n)
      <3> HIDE DEF Ext
      <3> QED BY <2>2, <2>3
    <2> QED BY <2>4
  <1> DEFINE t == f[n] \o <<"/">>
             o == [j \in 0..n |-> IF j = 0 THEN 0 ELSE Len(f[j]) + 1]
  <1>11. /\ t \in Seq(Letters) /\ Len(t) = Len(f[n]) + 1 /\ t[Len(f[n]) + 1] = "/"
         /\ \A i \in 1..Len(f[n]) : t[i] = f[n][i]
    <2> DEFINE a == f[n]
    <2>1. a \in Seq(Letters) /\ Len(a) \in Nat
      BY <1>1, <1>8
    <2> HIDE DEF a
    <2>2. /\ a \o <<"/">> \in Seq(Letters) /\ Len(a \o <<"/">>) = Len(a) + 1
          /\ \A i \in 1..Len(a) + 1 :
                (a \o <<"/">>)[i] = IF i <= Len(a) THEN a[i] ELSE <<"/">>[i - Len(a)]
      BY <1>2, <2>1, ConcatProperties
    <2>3. \A i \in 1..Len(a) : (a \o <<"/">>)[i] = a[i]
      BY <2>1, <2>2
    <2>4. (a \o <<"/">>)[Len(a) + 1] = "/"
      <3>1. Len(a) + 1 \in 1..Len(a) + 1 /\ ~(Len(a) + 1 <= Len(a)) /\ (Len(a) + 1) - Len(a) = 1
        BY <2>1
      <3> QED BY <1>2, <2>2, <3>1
    <2> QED BY <2>2, <2>3, <2>4 DEF a
  <1>12. o \in [0..n -> Nat] /\ o[0] = 0 /\ \A j \in 1..n : o[j] = Len(f[j]) + 1
    <2>1. 0 \in 0..n /\ \A j \in 0..n : j # 0 => j \in 1..n
      BY <1>1
    <2>2. \A j \in 1..n : j \in 0..n /\ j # 0
      BY <1>1
    <2>3. \A j \in 1..n : Len(f[j]) + 1 \in Nat
      BY <1>8
    <2>4. \A j \in 0..n : (IF j = 0 THEN 0 ELSE Len(f[j]) + 1) \in Nat
      BY <2>1, <2>3
    <2> QED BY <2>1, <2>2, <2>4
  <1>13. n \in 1..n /\ o[n] = Len(t)
    BY <1>1, <1>11, <1>12
  <1> HIDE DEF t, o
  <1>14. ASSUME NEW j \in 1..n
         PROVE  /\ o[j] = o[j - 1] + Len(e[j]) + 1 /\ o[j] <= Len(t)
                /\ t[o[j]] = "/"
                /\ \A i \in 1..Len(e[j]) : t[o[j - 1] + i] = e[j][i]
    <2>1. /\ Len(f[j]) \in Nat /\ Len(e[j]) \in Nat /\ Len(f[n]) \in Nat
          /\ Len(f[j]) <= Len(f[n]) /\ o[j] = Len(f[j]) + 1
      BY <1>1, <1>8, <1>10, <1>12, <1>13
    <2>2. o[j] <= Len(t)
      BY <1>11, <2>1
    <2>3. \A i \in 1..Len(f[j]) : i \in 1..Len(f[n]) /\ t[i] = f[j][i]
      BY <1>10, <1>11, <2>1
    <2>4. t[o[j]] = "/"
      <3>1. CASE j = n
        BY <1>11, <2>1, <3>1
      <3>2. CASE j # n
        <4>1. j + 1 \in 2..n /\ (j + 1) - 1 = j /\ j + 1 \in 1..n
          BY <1>1, <3>2
        <4>2. /\ Len(f[j + 1]) = Len(f[j]) + 1 + Len(e[j + 1])
              /\ f[j + 1][Len(f[j]) + 1] = "/"
          BY <1>9, <4>1
        <4>3. Len(e[j + 1]) \in Nat /\ Len(f[j + 1]) \in Nat
          BY <1>1, <1>8, <4>1
        <4>4. Len(f[j]) + 1 \in 1..Len(f[j + 1])
          <5>1. \A x, y \in Nat : x + 1 \in 1..(x + 1 + y)
            OBVIOUS
          <5> QED BY <2>1, <4>2, <4>3, <5>1
        <4>5. Len(f[j]) + 1 \in 1..Len(f[n])
          <5>1. Len(f[j + 1]) <= Len(f[n])
            BY <1>10, <4>1
          <5>2. \A x, y, z \in Nat : z \in 1..x /\ x <= y => z \in 1..y
            OBVIOUS
          <5>3. Len(f[j]) + 1 \in Nat
            BY <2>1
          <5> QED BY <2>1, <4>3, <4>4, <5>1, <5>2, <5>3
        <4>6. t[Len(f[j]) + 1] = f[n][Len(f[j]) + 1]
          BY <1>11, <4>5
        <4>7. f[n][Len(f[j]) + 1] = f[j + 1][Len(f[j]) + 1]
          BY <1>10, <4>1, <4>4
        <4> QED BY <2>1, <4>2, <4>6, <4>7
      <3> QED BY <3>1, <3>2
    <2>5. /\ o[j] = o[j - 1] + Len(e[j]) + 1
          /\ \A i \in 1..Len(e[j]) : t[o[j - 1] + i] = e[j][i]
      <3>1. CASE j = 1
        <4>1. o[j - 1] = 0 /\ f[j] = e[j]
          BY <1>7, <1>12, <3>1
        <4>2. \A i \in 1..Len(e[j]) : 0 + i = i
          BY <2>1
        <4> QED BY <2>1, <2>3, <4>1, <4>2
      <3>2. CASE j # 1
        <4>1. j \in 2..n /\ j - 1 \in 1..n
          BY <1>1, <3>2
        <4>2. /\ Len(f[j]) = Len(f[j - 1]) + 1 + Len(e[j])
              /\ \A i \in 1..Len(e[j]) : f[j][Len(f[j - 1]) + 1 + i] = e[j][i]
          BY <1>9, <4>1
        <4>3. o[j - 1] = Len(f[j - 1]) + 1 /\ Len(f[j - 1]) \in Nat
          BY <1>8, <1>12, <4>1
        <4>4. o[j] = o[j - 1] + Len(e[j]) + 1
          BY <2>1, <4>2, <4>3
        <4>5. ASSUME NEW i \in 1..Len(e[j]) PROVE t[o[j - 1] + i] = e[j][i]
          <5>1. \A x, y \in Nat : \A z \in 1..y : x + 1 + z \in 1..(x + 1 + y)
            OBVIOUS
          <5>2. Len(f[j - 1]) + 1 + i \in 1..Len(f[j])
            BY <2>1, <4>2, <4>3, <5>1
          <5> QED BY <2>3, <4>2, <4>3, <5>2
        <4> QED BY <4>4, <4>5
      <3> QED BY <3>1, <3>2
    <2> QED BY <2>2, <2>4, <2>5
  <1>15. LaidOut(e, t, o)
    BY <1>11, <1>12, <1>13, <1>14 DEF LaidOut
  <1> QED BY <1>6, <1>15 DEF t

\* What a text laid out over offsets is, component by component: each begins
\* after the slash of the one before, has no slash and is followed by one.
Layout(e, t, o) ==
    /\ t \in Seq(Letters) /\ Len(t) \in Nat /\ Len(e) \in Nat /\ o[0] = 0 /\ o[Len(e)] = Len(t)
    /\ \A j \in 0..Len(e) : o[j] \in Nat /\ o[j] <= Len(t)
    /\ \A j \in 1..Len(e) :
          /\ j - 1 \in 0..Len(e) /\ j \in 0..Len(e)
          /\ e[j] \in Seq(STRING) /\ Len(e[j]) \in Nat
          /\ \A i \in 1..Len(e[j]) : e[j][i] # "/"
          /\ o[j] = o[j - 1] + Len(e[j]) + 1 /\ t[o[j]] = "/"
          /\ \A i \in 1..Len(e[j]) : t[o[j - 1] + i] = e[j][i]

\* The facts of a layout, with what is known of a path.
LEMMA LayoutFacts ==
    ASSUME NEW e \in Paths, NEW t, NEW o, LaidOut(e, t, o)
    PROVE  Layout(e, t, o)
  <1>1. Len(e) \in Nat /\ \A j \in 1..Len(e) : e[j] \in Names
    BY LenProperties, ElementOfSeq DEF Paths
  <1>2. /\ t \in Seq(Letters) /\ o \in [0..Len(e) -> Nat] /\ o[0] = 0 /\ o[Len(e)] = Len(t)
        /\ \A j \in 1..Len(e) :
              /\ o[j] = o[j - 1] + Len(e[j]) + 1 /\ o[j] <= Len(t)
              /\ t[o[j]] = "/"
              /\ \A i \in 1..Len(e[j]) : t[o[j - 1] + i] = e[j][i]
    BY DEF LaidOut
  <1>3. Len(t) \in Nat
    BY <1>2, LenProperties
  <1>4. ASSUME NEW j \in 0..Len(e) PROVE o[j] \in Nat /\ o[j] <= Len(t)
    <2>1. CASE j = 0
      BY <1>2, <1>3, <2>1
    <2>2. CASE j # 0
      <3>1. j \in 1..Len(e)
        BY <1>1, <2>2
      <3> QED BY <1>2, <3>1
    <2> QED BY <2>1, <2>2
  <1>5. ASSUME NEW j \in 1..Len(e)
        PROVE  /\ j - 1 \in 0..Len(e) /\ j \in 0..Len(e)
               /\ e[j] \in Seq(STRING) /\ Len(e[j]) \in Nat
               /\ \A i \in 1..Len(e[j]) : e[j][i] # "/"
    <2>1. e[j] \in Seq(STRING) /\ \A i \in 1..Len(e[j]) : e[j][i] # "/"
      BY <1>1 DEF Names
    <2>2. Len(e[j]) \in Nat
      BY <2>1, LenProperties
    <2>3. j - 1 \in 0..Len(e) /\ j \in 0..Len(e)
      BY <1>1
    <2> QED BY <2>1, <2>2, <2>3
  <1> QED BY <1>1, <1>2, <1>3, <1>4, <1>5 DEF Layout

\* A component begins where the text has the one that ends a common path, and
\* a name has no slash: the texts have the same component there.
LEMMA SameComponent ==
    ASSUME NEW u, NEW t, NEW a \in Seq(STRING), NEW b \in Seq(STRING), NEW k \in Nat,
           Len(u) \in Nat, \A i \in 1..Len(u) : u[i] = t[i],
           k + Len(a) + 1 <= Len(u), u[k + Len(a) + 1] = "/", t[k + Len(b) + 1] = "/",
           \A i \in 1..Len(a) : u[k + i] = a[i] /\ a[i] # "/",
           \A i \in 1..Len(b) : t[k + i] = b[i] /\ b[i] # "/"
    PROVE  a = b
  <1>1. Len(a) \in Nat /\ Len(b) \in Nat
    BY LenProperties
  <1>2. ~(Len(a) < Len(b))
    <2> SUFFICES ASSUME Len(a) < Len(b) PROVE FALSE
      OBVIOUS
    <2>1. Len(a) + 1 \in 1..Len(b) /\ k + (Len(a) + 1) = k + Len(a) + 1
      BY <1>1
    <2>2. k + Len(a) + 1 \in 1..Len(u)
      BY <1>1
    <2>3. t[k + (Len(a) + 1)] # "/"
      BY <2>1
    <2> QED BY <2>1, <2>2, <2>3
  <1>3. ~(Len(b) < Len(a))
    <2> SUFFICES ASSUME Len(b) < Len(a) PROVE FALSE
      OBVIOUS
    <2>1. Len(b) + 1 \in 1..Len(a) /\ k + (Len(b) + 1) = k + Len(b) + 1
      BY <1>1
    <2>2. k + Len(b) + 1 \in 1..Len(u)
      BY <1>1
    <2>3. u[k + (Len(b) + 1)] # "/"
      BY <2>1
    <2> QED BY <2>1, <2>2, <2>3
  <1>4. Len(a) = Len(b)
    BY <1>1, <1>2, <1>3
  <1>5. ASSUME NEW i \in 1..Len(a) PROVE a[i] = b[i]
    <2>1. k + i \in 1..Len(u)
      BY <1>1
    <2> QED BY <1>4, <2>1
  <1> QED BY <1>4, <1>5, SeqEqual

\* A text that begins with another, both with their last slash, has its
\* components: otherwise take the first component in which they differ.
LEMMA ComponentsOfText ==
    ASSUME NEW p \in Paths, NEW u, NEW q, LaidOut(p, u, q),
           NEW e \in Paths, NEW t, NEW o, LaidOut(e, t, o), IsPrefix(u, t)
    PROVE  IsPrefix(p, e)
  <1>1. /\ u \in Seq(Letters) /\ Len(u) \in Nat /\ Len(p) \in Nat /\ q[0] = 0 /\ q[Len(p)] = Len(u)
        /\ \A j \in 0..Len(p) : q[j] \in Nat /\ q[j] <= Len(u)
        /\ \A j \in 1..Len(p) :
              /\ j - 1 \in 0..Len(p) /\ j \in 0..Len(p)
              /\ p[j] \in Seq(STRING) /\ Len(p[j]) \in Nat
              /\ \A i \in 1..Len(p[j]) : p[j][i] # "/"
              /\ q[j] = q[j - 1] + Len(p[j]) + 1 /\ u[q[j]] = "/"
              /\ \A i \in 1..Len(p[j]) : u[q[j - 1] + i] = p[j][i]
    <2>1. Layout(p, u, q)
      BY LayoutFacts
    <2> QED BY <2>1 DEF Layout
  <1>2. /\ t \in Seq(Letters) /\ Len(t) \in Nat /\ Len(e) \in Nat /\ o[0] = 0 /\ o[Len(e)] = Len(t)
        /\ \A j \in 1..Len(e) :
              /\ j - 1 \in 0..Len(e) /\ j \in 0..Len(e)
              /\ e[j] \in Seq(STRING) /\ Len(e[j]) \in Nat
              /\ \A i \in 1..Len(e[j]) : e[j][i] # "/"
              /\ o[j] = o[j - 1] + Len(e[j]) + 1 /\ t[o[j]] = "/"
              /\ \A i \in 1..Len(e[j]) : t[o[j - 1] + i] = e[j][i]
    <2>1. Layout(e, t, o)
      BY LayoutFacts
    <2> QED BY <2>1 DEF Layout
  <1>3. Len(u) <= Len(t) /\ \A i \in 1..Len(u) : u[i] = t[i]
    BY <1>1, <1>2, PrefixByItems
  <1> DEFINE Same(k) == k <= Len(e) /\ q[k] = o[k] /\ (k # 0 => p[k] = e[k])
             T == {k \in Nat : k \in 0..Len(p) /\ ~Same(k)}
  <1>4. T = {}
    <2> SUFFICES ASSUME T # {} PROVE FALSE
      OBVIOUS
    <2>1. PICK k \in T : \A m \in T : k <= m
      <3>1. T \subseteq Nat
        OBVIOUS
      <3> HIDE DEF T
      <3> QED BY <3>1, LeastNatural
    <2>2. k \in 0..Len(p) /\ ~Same(k)
      OBVIOUS
    <2>3. k # 0
      BY <1>1, <1>2, <2>2
    <2>4. k \in 1..Len(p) /\ k - 1 \in 0..Len(p) /\ k - 1 \in Nat /\ ~(k <= k - 1)
      BY <1>1, <2>2, <2>3
    <2>5. Same(k - 1)
      <3> HIDE DEF Same
      <3> QED BY <2>1, <2>4
    <2>6. /\ q[k - 1] \in Nat /\ q[k] \in Nat /\ q[k] <= Len(u) /\ Len(p[k]) \in Nat
          /\ q[k] = q[k - 1] + Len(p[k]) + 1
          /\ p[k] \in Seq(STRING) /\ u[q[k - 1] + Len(p[k]) + 1] = "/"
          /\ \A i \in 1..Len(p[k]) : u[q[k - 1] + i] = p[k][i] /\ p[k][i] # "/"
      <3>1. k \in 0..Len(p)
        BY <2>2
      <3> QED BY <1>1, <2>4, <3>1
    <2>7. q[k - 1] < Len(t)
      <3>1. \A x, y, z, v, c \in Nat : v = x + y + 1 /\ v <= z /\ z <= c => x < c
        OBVIOUS
      <3> QED BY <1>1, <1>2, <1>3, <2>6, <3>1
    <2>8. k - 1 # Len(e)
      BY <1>2, <2>5, <2>6, <2>7
    <2>9. k \in 1..Len(e)
      BY <1>2, <2>4, <2>5, <2>8
    <2>10. /\ o[k] = q[k - 1] + Len(e[k]) + 1 /\ Len(e[k]) \in Nat
           /\ e[k] \in Seq(STRING) /\ t[q[k - 1] + Len(e[k]) + 1] = "/"
           /\ \A i \in 1..Len(e[k]) : t[q[k - 1] + i] = e[k][i] /\ e[k][i] # "/"
      BY <1>2, <2>5, <2>9
    <2>11. p[k] = e[k]
      <3> DEFINE a == p[k]
                 b == e[k]
                 x == q[k - 1]
      <3>1. x \in Nat /\ a \in Seq(STRING) /\ b \in Seq(STRING) /\ x + Len(a) + 1 <= Len(u)
        BY <2>6, <2>10
      <3>2. /\ u[x + Len(a) + 1] = "/" /\ t[x + Len(b) + 1] = "/"
            /\ \A i \in 1..Len(a) : u[x + i] = a[i] /\ a[i] # "/"
            /\ \A i \in 1..Len(b) : t[x + i] = b[i] /\ b[i] # "/"
        BY <2>6, <2>10
      <3>3. Len(u) \in Nat
        BY <1>1
      <3> HIDE DEF Same, T, a, b, x
      <3>4. a = b
        BY <1>3, <3>1, <3>2, <3>3, SameComponent
      <3> QED BY <3>4 DEF a, b
    <2> QED BY <1>2, <2>2, <2>6, <2>9, <2>10, <2>11
  <1>5. \A k \in 0..Len(p) : Same(k)
    <2>1. \A k \in 0..Len(p) : k \in Nat
      BY <1>1
    <2> HIDE DEF Same
    <2> QED BY <1>4, <2>1
  <1>6. Len(p) <= Len(e)
    <2>1. Len(p) \in 0..Len(p)
      BY <1>1
    <2> QED BY <1>5, <2>1
  <1>7. \A k \in 1..Len(p) : p[k] = e[k]
    <2>1. \A k \in 1..Len(p) : k \in 0..Len(p) /\ k # 0
      BY <1>1
    <2> QED BY <1>5, <2>1
  <1> QED BY <1>6, <1>7, PrefixByItems DEF Paths

\* And the text of a path begins with that of every path it begins with.
LEMMA TextOfComponents ==
    ASSUME NEW p \in Paths, NEW u, NEW q, LaidOut(p, u, q),
           NEW e \in Paths, NEW t, NEW o, LaidOut(e, t, o), IsPrefix(p, e)
    PROVE  IsPrefix(u, t)
  <1>1. /\ u \in Seq(Letters) /\ Len(u) \in Nat /\ Len(p) \in Nat /\ q[0] = 0 /\ q[Len(p)] = Len(u)
        /\ \A j \in 0..Len(p) : q[j] \in Nat /\ q[j] <= Len(u)
        /\ \A j \in 1..Len(p) :
              /\ j - 1 \in 0..Len(p) /\ j \in 0..Len(p) /\ Len(p[j]) \in Nat
              /\ q[j] = q[j - 1] + Len(p[j]) + 1 /\ u[q[j]] = "/"
              /\ \A i \in 1..Len(p[j]) : u[q[j - 1] + i] = p[j][i]
    <2>1. Layout(p, u, q)
      BY LayoutFacts
    <2> QED BY <2>1 DEF Layout
  <1>2. /\ t \in Seq(Letters) /\ Len(t) \in Nat /\ Len(e) \in Nat /\ o[0] = 0
        /\ \A j \in 0..Len(e) : o[j] \in Nat /\ o[j] <= Len(t)
        /\ \A j \in 1..Len(e) :
              /\ o[j] = o[j - 1] + Len(e[j]) + 1 /\ t[o[j]] = "/"
              /\ \A i \in 1..Len(e[j]) : t[o[j - 1] + i] = e[j][i]
    <2>1. Layout(e, t, o)
      BY LayoutFacts
    <2> QED BY <2>1 DEF Layout
  <1>3. Len(p) <= Len(e) /\ \A j \in 1..Len(p) : p[j] = e[j]
    BY PrefixByItems DEF Paths
  <1>4. \A j \in 0..Len(p) : q[j] = o[j]
    <2> DEFINE T == {k \in Nat : k \in 0..Len(p) /\ q[k] # o[k]}
    <2>1. T = {}
      <3> SUFFICES ASSUME T # {} PROVE FALSE
        OBVIOUS
      <3>1. PICK k \in T : \A m \in T : k <= m
        <4>1. T \subseteq Nat
          OBVIOUS
        <4> HIDE DEF T
        <4> QED BY <4>1, LeastNatural
      <3>2. k \in 0..Len(p) /\ q[k] # o[k]
        OBVIOUS
      <3>3. k # 0
        BY <1>1, <1>2, <3>2
      <3>4. k \in 1..Len(p) /\ k \in 1..Len(e) /\ k - 1 \in 0..Len(p) /\ k - 1 \in Nat /\ ~(k <= k - 1)
        BY <1>1, <1>2, <1>3, <3>2, <3>3
      <3>5. q[k - 1] = o[k - 1]
        BY <3>1, <3>4
      <3>6. q[k] = q[k - 1] + Len(p[k]) + 1 /\ o[k] = o[k - 1] + Len(e[k]) + 1 /\ p[k] = e[k]
        BY <1>1, <1>2, <1>3, <3>4
      <3> QED BY <3>2, <3>5, <3>6
    <2>2. \A k \in 0..Len(p) : k \in Nat
      BY <1>1
    <2> QED BY <2>1, <2>2
  <1>5. Len(u) <= Len(t)
    <2>1. Len(p) \in 0..Len(p) /\ Len(p) \in 0..Len(e)
      BY <1>1, <1>2, <1>3
    <2> QED BY <1>1, <1>2, <1>4, <2>1
  <1>6. ASSUME NEW i \in 1..Len(u) PROVE u[i] = t[i]
    <2> DEFINE T == {k \in Nat : k \in 0..Len(p) /\ i <= q[k]}
    <2>1. PICK k \in T : \A m \in T : k <= m
      <3>1. Len(p) \in T
        BY <1>1
      <3>2. T \subseteq Nat
        OBVIOUS
      <3> HIDE DEF T
      <3> QED BY <3>1, <3>2, LeastNatural
    <2>2. k \in 0..Len(p) /\ i <= q[k] /\ i \in Nat /\ i > 0
      BY <1>1
    <2>3. k # 0
      BY <1>1, <2>2
    <2>4. k \in 1..Len(p) /\ k \in 1..Len(e) /\ k - 1 \in 0..Len(p) /\ k - 1 \in Nat /\ ~(k <= k - 1)
      BY <1>1, <1>2, <1>3, <2>2, <2>3
    <2>5. ~(i <= q[k - 1])
      BY <2>1, <2>4
    <2>6. /\ q[k - 1] \in Nat /\ q[k] \in Nat /\ Len(p[k]) \in Nat
          /\ q[k] = q[k - 1] + Len(p[k]) + 1 /\ u[q[k]] = "/"
          /\ \A x \in 1..Len(p[k]) : u[q[k - 1] + x] = p[k][x]
      BY <1>1, <2>2, <2>4
    <2>7. /\ t[q[k]] = "/" /\ \A x \in 1..Len(p[k]) : t[q[k - 1] + x] = p[k][x]
      <3>1. p[k] = e[k] /\ q[k] = o[k] /\ q[k - 1] = o[k - 1]
        BY <1>3, <1>4, <2>2, <2>4
      <3>2. /\ t[o[k]] = "/" /\ \A x \in 1..Len(e[k]) : t[o[k - 1] + x] = e[k][x]
        BY <1>2, <2>4
      <3> QED BY <3>1, <3>2, Zenon
    <2>8. CASE i = q[k]
      BY <2>6, <2>7, <2>8
    <2>9. CASE i # q[k]
      <3>1. i - q[k - 1] \in 1..Len(p[k]) /\ q[k - 1] + (i - q[k - 1]) = i
        <4>1. \A x, y, l, c \in Nat : ~(x <= y) /\ x <= c /\ x # c /\ c = y + l + 1
                => x - y \in 1..l /\ y + (x - y) = x
          OBVIOUS
        <4> QED BY <2>2, <2>5, <2>6, <2>9, <4>1
      <3> QED BY <2>6, <2>7, <3>1
    <2> QED BY <2>8, <2>9
  <1> QED BY <1>1, <1>2, <1>5, <1>6, PrefixByItems

LEMMA RequestFields ==
    ASSUME NEW r \in Requests
    PROVE  /\ r.scope \in {"Host", "Rooted"} /\ r.recursive \in BOOLEAN
           /\ r.path \in LogicalPaths \cup {None}
           /\ r.filter.kind \in {"none", "subtree", "literal"} /\ r.filter.prefix \in Paths
           /\ r.filter.kind = "subtree" => r.filter.prefix # <<>>
           /\ r.depth \in 0..Unlimited /\ r.entries \in 0..Unlimited
           /\ r.symlinks \in {"Default", "Reject", "Follow", "Unsupported"}
  <1>1. r \in RequestType /\ (r.filter.kind = "subtree" => r.filter.prefix # <<>>)
    BY ConstantsAssumption
  <1> QED BY <1>1 DEF RequestType

\* The textual test of a subtree filter is the one by components.
THEOREM SubtreeByComponents ==
    ASSUME NEW r \in Requests, r.filter.kind = "subtree", NEW e \in Entries
    PROVE  Matches(r.filter, e) <=> IsPrefix(r.filter.prefix, e)
  <1> DEFINE p == r.filter.prefix
             u == Text(p)
             t == Text(e)
  <1>1. p \in Paths /\ p # <<>> /\ e \in Paths /\ e # <<>>
    BY RequestFields, ConstantsAssumption
  <1>2. u \in Seq(Letters) /\ t \in Seq(Letters) /\ Len(u) \in Nat /\ Len(t) \in Nat
    BY <1>1, TextLaidOut, LenProperties
  <1>3. PICK q : LaidOut(p, u \o <<"/">>, q)
    BY <1>1, TextLaidOut
  <1>4. PICK o : LaidOut(e, t \o <<"/">>, o)
    BY <1>1, TextLaidOut
  <1>5. Matches(r.filter, e) <=> t = u \/ IsPrefix(u \o <<"/">>, t)
    BY DEF Matches
  <1> HIDE DEF p, u, t
  <1>6. IsPrefix(u \o <<"/">>, t \o <<"/">>) <=> IsPrefix(p, e)
    BY <1>1, <1>3, <1>4, ComponentsOfText, TextOfComponents
  <1>7. IsPrefix(u \o <<"/">>, t \o <<"/">>) <=> t = u \/ IsPrefix(u \o <<"/">>, t)
    <2> DEFINE v == u \o <<"/">>
               w == t \o <<"/">>
    <2>1. /\ v \in Seq(Letters) /\ Len(v) = Len(u) + 1
          /\ w \in Seq(Letters) /\ Len(w) = Len(t) + 1
          /\ \A i \in 1..Len(u) : v[i] = u[i]
          /\ \A i \in 1..Len(t) : w[i] = t[i]
      BY <1>2, SlashWord, ConcatProperties
    <2> HIDE DEF v, w
    <2>2. IsPrefix(v, w)
          <=> Len(u) + 1 <= Len(t) + 1
              /\ \A i \in 1..(Len(u) + 1) : v[i] = w[i]
      BY <2>1, PrefixByItems
    <2>3. IsPrefix(v, t)
          <=> Len(u) + 1 <= Len(t) /\ \A i \in 1..(Len(u) + 1) : v[i] = t[i]
      BY <1>2, <2>1, PrefixByItems, SMTT(30)
    <2>4. t = u => IsPrefix(v, w)
      <3>1. t = u => v = w
        BY DEF v, w
      <3> QED BY <1>2, <2>2, <3>1
    <2>5. Len(u) + 1 <= Len(t)
          => (IsPrefix(v, w) <=> IsPrefix(v, t))
      <3> SUFFICES ASSUME Len(u) + 1 <= Len(t)
                   PROVE  IsPrefix(v, w) <=> IsPrefix(v, t)
        OBVIOUS
      <3>1. \A i \in 1..(Len(u) + 1) : i \in 1..Len(t)
        BY <1>2
      <3>2. \A i \in 1..(Len(u) + 1) : w[i] = t[i]
        BY <2>1, <3>1
      <3>3. Len(u) + 1 <= Len(t) + 1
        BY <1>2
      <3> QED BY <2>2, <2>3, <3>2, <3>3
    <2>6. ASSUME IsPrefix(v, w), ~(Len(u) + 1 <= Len(t)) PROVE t = u
      <3>1. Len(u) = Len(t) /\ \A i \in 1..Len(u) : i \in 1..(Len(u) + 1)
        BY <1>2, <2>2, <2>6
      <3>2. \A i \in 1..Len(u) : u[i] = t[i]
        BY <2>1, <2>2, <2>6, <3>1
      <3> QED BY <1>2, <3>1, <3>2, SeqEqual
    <2> QED BY <2>3, <2>4, <2>5, <2>6 DEF v, w
  <1> QED BY <1>5, <1>6, <1>7 DEF p

(***************************************************************************)
(* The option mapping.                                                     *)
(***************************************************************************)

LEMMA CeilingFields ==
    ASSUME NEW c \in Ceilings
    PROVE  c.depth \in 0..Unlimited /\ c.entries \in 0..Unlimited
  <1>1. c \in [depth : 0..Unlimited, entries : 0..Unlimited]
    BY ConstantsAssumption
  <1> QED BY <1>1

\* The walker gets budgets no wider than those of the request and of the
\* provider; the entry budget of the request only without a filter.
LEMMA MappedOptions ==
    ASSUME NEW r \in Requests, NEW c \in Ceilings
    PROVE  LET n == NativeOptions(r, c) IN
           /\ n.recursive = (r.recursive \/ r.filter.kind = "subtree")
           /\ n.symlinks = NativeSymlinkPolicy(r)
           /\ n.depth \in 0..Unlimited /\ n.entries \in 0..Unlimited
           /\ n.depth <= r.depth /\ n.depth <= c.depth /\ n.entries <= c.entries
           /\ \/ n.entries = c.entries
              \/ r.filter.kind = "none" /\ n.entries = r.entries
           /\ n.depth = r.depth \/ n.depth = c.depth
  <1>1. /\ r.depth \in 0..Unlimited /\ r.entries \in 0..Unlimited
        /\ c.depth \in 0..Unlimited /\ c.entries \in 0..Unlimited /\ Unlimited \in Nat
    BY RequestFields, CeilingFields, ConstantsAssumption
  <1>2. /\ NativeOptions(r, c).recursive = (r.recursive \/ r.filter.kind = "subtree")
        /\ NativeOptions(r, c).symlinks = NativeSymlinkPolicy(r)
        /\ NativeOptions(r, c).depth = Tighten(r.depth, c.depth)
        /\ NativeOptions(r, c).entries = Tighten(ForwardedEntries(r), c.entries)
    BY DEF NativeOptions
  <1>3. /\ Tighten(r.depth, c.depth) \in 0..Unlimited
        /\ Tighten(r.depth, c.depth) <= r.depth /\ Tighten(r.depth, c.depth) <= c.depth
        /\ Tighten(r.depth, c.depth) = r.depth \/ Tighten(r.depth, c.depth) = c.depth
    BY <1>1 DEF Tighten
  <1>4. /\ Tighten(ForwardedEntries(r), c.entries) \in 0..Unlimited
        /\ Tighten(ForwardedEntries(r), c.entries) <= c.entries
        /\ \/ Tighten(ForwardedEntries(r), c.entries) = c.entries
           \/ r.filter.kind = "none" /\ Tighten(ForwardedEntries(r), c.entries) = r.entries
    BY <1>1 DEF Tighten, ForwardedEntries
  <1> QED BY <1>2, <1>3, <1>4

\* An entry of a request that was accepted is named as the request names its
\* directory, and the name leads back to the entry.
LEMMA EntryPathLeadsBack ==
    ASSUME NEW r \in Requests, Rejection(r) = "none", NEW e \in Entries
    PROVE  /\ EntryPath(r, e) \in LogicalPaths
           /\ EntryPath(r, e).absolute = r.path.absolute
           /\ Locate(EntryPath(r, e)) = Locate(r.path) \o e
  <1> DEFINE c == r.path.components
  <1>1. r.path # None /\ (r.path.absolute \/ r.scope = "Rooted")
    BY RequestFields DEF Rejection
  <1>2. r.path.absolute \in BOOLEAN /\ c \in Seq(Names) /\ Cwd \in Seq(Names) /\ e \in Seq(Names)
    BY <1>1, RequestFields, EntryType, ConstantsAssumption DEF LogicalPaths, Paths
  <1>3. c \o e \in Seq(Names) /\ Cwd \o c \in Seq(Names) /\ Cwd \o (c \o e) = (Cwd \o c) \o e
    <2>1. c \o e \in Seq(Names)
      BY <1>2, ConcatProperties
    <2>2. Cwd \o c \in Seq(Names)
      BY <1>2, ConcatProperties
    <2>3. (Cwd \o c) \o e = Cwd \o (c \o e)
      <3>1. ASSUME NEW a \in Seq(Names), NEW b \in Seq(Names), NEW d \in Seq(Names)
            PROVE  (a \o b) \o d = a \o (b \o d)
        BY ConcatAssociative
      <3> HIDE DEF c
      <3> QED BY <1>2, <3>1
    <2> QED BY <2>1, <2>2, <2>3
  <1>4. CASE r.path.absolute
    <2>1. EntryPath(r, e) = [absolute |-> TRUE, components |-> c \o e]
      BY <1>4 DEF EntryPath, Locate
    <2> QED BY <1>3, <1>4, <2>1 DEF LogicalPaths, Paths, Locate
  <1>5. CASE ~r.path.absolute
    <2>1. EntryPath(r, e) = [absolute |-> FALSE, components |-> c \o e]
      BY <1>1, <1>5 DEF EntryPath
    <2>2. EntryPath(r, e) \in LogicalPaths
      BY <1>3, <2>1 DEF LogicalPaths, Paths
    <2>3. EntryPath(r, e).absolute = FALSE /\ EntryPath(r, e).components = c \o e
      BY <2>1
    <2>4. r.path.absolute = FALSE
      BY <1>2, <1>5
    <2>5. Locate(EntryPath(r, e)) = Cwd \o (c \o e) /\ Locate(r.path) = Cwd \o c
      BY <2>3, <2>4 DEF Locate
    <2> QED BY <1>3, <2>2, <2>3, <2>4, <2>5
  <1> QED BY <1>4, <1>5

(***************************************************************************)
(* The walker.                                                             *)
(***************************************************************************)

\* What the walker may yield next is in reach of its options: below a link
\* only if that is to be followed.
LEMMA CandidateInReach ==
    ASSUME Inv, Opened, NEW e \in Candidates
    PROVE  e \in Entries /\ e \in present \ yielded /\ InReach(e)
  <1>1. /\ e \in present \ yielded /\ Len(e) <= native.depth
        /\ Len(e) = 1 \/ Descends(Front(e))
    BY DEF Candidates
  <1>2. e \in Entries /\ \A y \in yielded : y \in Entries /\ InReach(y)
    BY <1>1 DEF Inv, TypeOK, ListInv, EntriesInv
  <1>3. e \in Seq(Names) /\ Len(e) \in Nat \ {0}
    BY <1>2, EntryType DEF Paths
  <1>4. CASE Len(e) = 1
    BY <1>1, <1>2, <1>4 DEF InReach, BehindLink
  <1>5. CASE Len(e) # 1
    <2> DEFINE p == Front(e)
    <2>1. /\ Len(p) = Len(e) - 1 /\ \A i \in 1..(Len(e) - 1) : p[i] = e[i]
      <3>1. Len(e) > 1
        BY <1>3, <1>5
      <3> QED BY <1>3, <3>1, FrontOf
    <2>2. native.recursive /\ InReach(p) /\ (Last(p) \in OutLinks => MayFollow)
      BY <1>1, <1>2, <1>5 DEF Descends, MayFollow
    <2> HIDE DEF p
    <2>3. BehindLink(e) => MayFollow
      <3> SUFFICES ASSUME NEW i \in 1..(Len(e) - 1), e[i] \in OutLinks PROVE MayFollow
        BY DEF BehindLink
      <3>1. CASE i = Len(e) - 1
        <4>1. Last(p) = e[i]
          BY <1>3, <2>1, <3>1 DEF Last
        <4> QED BY <2>2, <4>1
      <3>2. CASE i # Len(e) - 1
        <4>1. i \in 1..(Len(p) - 1) /\ p[i] \in OutLinks
          BY <1>3, <2>1, <3>2
        <4>2. BehindLink(p)
          BY <4>1 DEF BehindLink
        <4> QED BY <2>2, <4>2 DEF InReach
      <3> QED BY <3>1, <3>2
    <2> QED BY <1>1, <1>2, <2>2, <2>3 DEF InReach
  <1> QED BY <1>4, <1>5

\* A step of next_entry that the walker contributes nothing to.
LEMMA QuietStep ==
    ASSUME Inv, UNCHANGED <<tree, ceiling, request, native, yielded, walked, returned, reported>>,
           UNCHANGED status \/ (status = "open" /\ status' = "closed"),
           lost' \in BOOLEAN, dead' \in BOOLEAN, calling' \in BOOLEAN, answer' \in Answers,
           dead' => lost', calling' => status' = "open" /\ answer' # "end",
           Opened \/ UNCHANGED answer
    PROVE  Inv'
  <1>1. TypeOK'
    BY DEF Inv, TypeOK, tree
  <1>2. TreeInv'
    BY DEF Inv, ListInv, TreeInv, Connected, tree
  <1>3. Opened' <=> Opened
    BY DEF Opened
  <1>4. StreamInv'
    BY <1>3 DEF Inv, ListInv, StreamInv, Opened
  <1>5. \A e : InReach(e)' <=> InReach(e)
    BY DEF InReach, MayFollow, BehindLink
  <1>6. \A r : ReturnedOK(r)' <=> ReturnedOK(r)
    BY <1>5 DEF ReturnedOK
  <1>7. \A e : Accounted(e)' <=> Accounted(e)
    BY DEF Accounted
  <1>8. EntriesInv'
    BY <1>3, <1>5, <1>6, <1>7 DEF Inv, ListInv, EntriesInv
  <1> QED BY <1>1, <1>2, <1>4, <1>8 DEF Inv, ListInv

\* list preserves the invariant.
LEMMA ListStep ==
    ASSUME Inv, NEW r \in Requests, List(r)
    PROVE  Inv'
  <1>1. /\ status = "new" /\ request' = r /\ steady' = present
        /\ UNCHANGED <<present, ceiling, walker, calling, returned, reported>>
        /\ \/ status' = "rejected" /\ answer' \in {Rejection(r), "NativeFailure", "InvalidPath"}
           \/ /\ status' = "open" /\ answer' = "opened" /\ Rejection(r) = "none"
              /\ native' = NativeOptions(r, ceiling)
    BY DEF List
  <1>2. Rejection(r) \in {"none", "InvalidOptions", "InvalidPath", "RequirementNotMet"}
    BY DEF Rejection
  <1>3. /\ TypeOK /\ TreeInv /\ ~Opened /\ yielded = {} /\ walked = 0 /\ returned = <<>>
        /\ ~calling /\ (dead => lost)
    BY <1>1 DEF Inv, ListInv, StreamInv, Opened, TypeOK
  <1>4. TypeOK'
    BY <1>1, <1>2, <1>3 DEF TypeOK, walker, Answers
  <1>5. TreeInv'
    BY <1>1, <1>3 DEF TreeInv, Connected
  <1>6. StreamInv'
    BY <1>1, <1>2, <1>3 DEF StreamInv, Opened, walker
  <1>7. EntriesInv'
    <2>1. Len(returned') = 0 /\ yielded' = {} /\ returned' = <<>>
      BY <1>1, <1>3, EmptySeq DEF walker
    <2>2. request'.entries \in 0..Unlimited /\ Unlimited \in Nat
      BY <1>1, RequestFields, ConstantsAssumption
    <2> QED BY <2>1, <2>2 DEF EntriesInv
  <1> QED BY <1>4, <1>5, <1>6, <1>7 DEF Inv, ListInv

\* What every entry that the walker yields brings about.
LEMMA YieldStep ==
    ASSUME Inv, NEW e, Yields(e), UNCHANGED <<tree, ceiling, request, native>>
    PROVE  /\ e \in Entries /\ InReach(e) /\ status = "open" /\ calling /\ ~dead
           /\ request \in Requests /\ Rejection(request) = "none"
           /\ walked' \in 0..Unlimited /\ walked <= walked' /\ walked' <= walked + 1
           /\ yielded' \subseteq Entries /\ yielded' = yielded \cup {e}
           /\ TreeInv' /\ UNCHANGED <<lost, dead>>
           /\ \A x : InReach(x)' <=> InReach(x)
           /\ \A x \in yielded' : InReach(x)'
  <1>1. calling /\ ~dead /\ BudgetLeft /\ e \in Candidates
    BY DEF Yields
  <1>2. status = "open" /\ Opened
    BY <1>1 DEF Inv, ListInv, StreamInv, Opened
  <1>3. e \in Entries /\ InReach(e)
    BY <1>1, <1>2, CandidateInReach
  <1>4. request \in Requests /\ Rejection(request) = "none"
    BY <1>2 DEF Inv, ListInv, StreamInv
  <1>5. yielded' = yielded \cup {e} /\ yielded' \subseteq Entries /\ UNCHANGED <<lost, dead>>
    BY <1>3 DEF Yields, Inv, TypeOK
  <1>6. walked' \in 0..Unlimited /\ walked <= walked' /\ walked' <= walked + 1
    <2>1. walked \in 0..Unlimited /\ Unlimited \in Nat /\ walked' = Tighten(walked + 1, Unlimited)
      BY ConstantsAssumption DEF Inv, TypeOK, Yields
    <2> QED BY <2>1 DEF Tighten
  <1>7. TreeInv'
    BY DEF Inv, ListInv, TreeInv, Connected, tree
  <1>8. \A x : InReach(x)' <=> InReach(x)
    BY DEF InReach, MayFollow, BehindLink
  <1>9. \A x \in yielded' : InReach(x)'
    BY <1>2, <1>3, <1>5, <1>8 DEF Inv, ListInv, EntriesInv
  <1> QED BY <1>1, <1>2, <1>3, <1>4, <1>5, <1>6, <1>7, <1>8, <1>9

\* An entry without a logical path, relative or of its own, is reported.
LEMMA UnmappableInv ==
    ASSUME Inv, NEW e \in Entries, Unmappable(e) \/ Unplaced(e)
    PROVE  Inv'
  <1>1. /\ Yields(e) /\ reported' = reported \cup {e}
        /\ calling' = FALSE /\ answer' = "InvalidPath"
        /\ UNCHANGED <<tree, ceiling, request, status, native, returned>>
    BY DEF Unmappable, Unplaced, Passes, Answer
  <1>2. /\ status = "open" /\ walked' \in 0..Unlimited /\ yielded' \subseteq Entries
        /\ yielded' = yielded \cup {e} /\ TreeInv' /\ UNCHANGED <<lost, dead>>
        /\ \A x : InReach(x)' <=> InReach(x)
        /\ \A x \in yielded' : InReach(x)'
    BY <1>1, YieldStep
  <1>3. TypeOK'
    BY <1>1, <1>2 DEF Inv, TypeOK, tree, Answers
  <1>4. StreamInv'
    BY <1>1, <1>2 DEF Inv, ListInv, StreamInv, Opened
  <1>5. \A r : ReturnedOK(r)' <=> ReturnedOK(r)
    BY <1>1, <1>2 DEF ReturnedOK
  <1>6. \A x \in yielded' : Accounted(x)'
    <2>1. \A x \in yielded : Accounted(x)
      BY <1>2 DEF Inv, ListInv, EntriesInv, Opened
    <2> QED BY <1>1, <1>2, <2>1 DEF Accounted
  <1>7. EntriesInv'
    BY <1>1, <1>2, <1>5, <1>6 DEF Inv, ListInv, EntriesInv, Opened
  <1> QED BY <1>2, <1>3, <1>4, <1>7 DEF Inv, ListInv

\* An entry that the filter refuses is passed over.
LEMMA SkipInv ==
    ASSUME Inv, NEW e \in Entries, Skip(e)
    PROVE  Inv'
  <1>1. /\ Yields(e) /\ Mappable(e) /\ ~Matches(request.filter, e)
        /\ UNCHANGED <<tree, ceiling, request, status, native, calling, returned, reported, answer>>
    BY DEF Skip
  <1>2. /\ status = "open" /\ walked' \in 0..Unlimited /\ yielded' \subseteq Entries
        /\ yielded' = yielded \cup {e} /\ TreeInv' /\ UNCHANGED <<lost, dead>>
        /\ \A x : InReach(x)' <=> InReach(x)
        /\ \A x \in yielded' : InReach(x)'
    BY <1>1, YieldStep
  <1>3. TypeOK'
    BY <1>1, <1>2 DEF Inv, TypeOK, tree
  <1>4. StreamInv'
    BY <1>1, <1>2 DEF Inv, ListInv, StreamInv, Opened
  <1>5. \A r : ReturnedOK(r)' <=> ReturnedOK(r)
    BY <1>1, <1>2 DEF ReturnedOK
  <1>6. \A x \in yielded' : Accounted(x)'
    <2>1. \A x \in yielded : Accounted(x)
      BY <1>2 DEF Inv, ListInv, EntriesInv, Opened
    <2> QED BY <1>1, <1>2, <2>1 DEF Accounted
  <1>7. EntriesInv'
    BY <1>1, <1>2, <1>5, <1>6 DEF Inv, ListInv, EntriesInv, Opened
  <1> QED BY <1>2, <1>3, <1>4, <1>7 DEF Inv, ListInv

\* An entry that passes the filter is returned, or ends the stream when the
\* facade's count is used up.
LEMMA DeliverInv ==
    ASSUME Inv, NEW e \in Entries, Deliver(e) \/ Overrun(e)
    PROVE  Inv'
  <1> DEFINE new == [at |-> e, path |-> EntryPath(request, e)]
  <1>1. /\ Yields(e) /\ Mappable(e) /\ Matches(request.filter, e) /\ calling' = FALSE
        /\ UNCHANGED <<tree, ceiling, request, native, reported>>
        /\ \/ /\ Len(returned) < request.entries \/ request.entries = Unlimited
              /\ returned' = Append(returned, new) /\ answer' = "entry" /\ UNCHANGED status
           \/ answer' = "ResourceLimitExceeded" /\ status' = "closed" /\ UNCHANGED returned
    BY DEF Deliver, Overrun, Passes, CountLeft, Answer
  <1>2. /\ status = "open" /\ walked' \in 0..Unlimited /\ yielded' \subseteq Entries
        /\ yielded' = yielded \cup {e} /\ TreeInv' /\ UNCHANGED <<lost, dead>>
        /\ InReach(e) /\ request \in Requests /\ Rejection(request) = "none"
        /\ \A x : InReach(x)' <=> InReach(x)
        /\ \A x \in yielded' : InReach(x)'
    BY <1>1, YieldStep
  <1>3. new \in Returned /\ new.at = e /\ new.path = EntryPath(request, e)
    BY <1>2, EntryPathLeadsBack DEF Returned
  <1> HIDE DEF new
  <1>4. /\ returned \in Seq(Returned) /\ Len(returned) \in Nat
        /\ \A i \in 1..Len(returned) : ReturnedOK(returned[i])
        /\ request.entries # Unlimited => Len(returned) <= request.entries
        /\ \A x \in yielded : Accounted(x)
    <2>1. returned \in Seq(Returned)
      BY DEF Inv, TypeOK
    <2> QED BY <1>2, <2>1, LenProperties DEF Inv, ListInv, EntriesInv, Opened
  <1>5. \A r : ReturnedOK(r)' <=> ReturnedOK(r)
    BY <1>1, <1>2 DEF ReturnedOK
  <1>6. StreamInv'
    BY <1>1, <1>2 DEF Inv, ListInv, StreamInv, Opened
  <1>7. CASE /\ Len(returned) < request.entries \/ request.entries = Unlimited
             /\ returned' = Append(returned, new) /\ answer' = "entry" /\ UNCHANGED status
    <2>1. /\ returned' \in Seq(Returned) /\ Len(returned') = Len(returned) + 1
          /\ returned'[Len(returned) + 1] = new
          /\ \A i \in 1..Len(returned) : returned'[i] = returned[i]
      BY <1>3, <1>4, <1>7
    <2>2. TypeOK'
      BY <1>1, <1>2, <1>7, <2>1 DEF Inv, TypeOK, tree, Answers
    <2>3. ReturnedOK(new)
      BY <1>1, <1>2, <1>3 DEF ReturnedOK
    <2>4. \A i \in 1..Len(returned') : ReturnedOK(returned'[i])
      <3> SUFFICES ASSUME NEW i \in 1..Len(returned') PROVE ReturnedOK(returned'[i])
        OBVIOUS
      <3>1. CASE i = Len(returned) + 1
        BY <2>1, <2>3, <3>1
      <3>2. CASE i # Len(returned) + 1
        <4>1. i \in 1..Len(returned)
          BY <1>4, <2>1, <3>2
        <4> QED BY <1>4, <2>1, <4>1
      <3> QED BY <3>1, <3>2
    <2>5. \A x \in yielded' : Accounted(x)'
      <3>1. \A x : (\E i \in 1..Len(returned) : returned[i].at = x) =>
                      \E i \in 1..Len(returned') : returned'[i].at = x
        BY <1>4, <2>1
      <3>2. \E i \in 1..Len(returned') : returned'[i].at = e
        BY <1>3, <1>4, <2>1
      <3> QED BY <1>1, <1>2, <1>4, <3>1, <3>2 DEF Accounted
    <2>6. request'.entries # Unlimited => Len(returned') <= request'.entries
      <3>1. request.entries \in Nat
        BY <1>2, RequestFields, ConstantsAssumption
      <3> QED BY <1>1, <1>4, <1>7, <2>1, <3>1
    <2>7. EntriesInv'
      <3>1. \A i \in 1..Len(returned') : ReturnedOK(returned[i])'
        BY <1>5, <2>4
      <3> QED BY <1>2, <2>5, <2>6, <3>1 DEF EntriesInv
    <2> QED BY <1>2, <1>6, <2>2, <2>7 DEF Inv, ListInv
  <1>8. CASE answer' = "ResourceLimitExceeded" /\ status' = "closed" /\ UNCHANGED returned
    <2>1. TypeOK'
      BY <1>1, <1>2, <1>8 DEF Inv, TypeOK, tree, Answers
    <2>2. EntriesInv'
      BY <1>1, <1>2, <1>4, <1>5, <1>8 DEF EntriesInv
    <2> QED BY <1>2, <1>6, <2>1, <2>2 DEF Inv, ListInv
  <1> QED BY <1>1, <1>7, <1>8

\* The steps of next_entry preserve the invariant.
LEMMA StepInv ==
    ASSUME Inv, Step
    PROVE  Inv'
  <1>1. TypeOK /\ StreamInv
    BY DEF Inv, ListInv
  <1>2. CASE End
    <2>1. calling /\ Opened /\ (dead => lost)
      BY <1>1, <1>2 DEF End, StreamInv, Opened
    <2> QED BY <1>1, <1>2, <2>1, QuietStep DEF End, Answer, TypeOK, walker, Answers
  <1>3. CASE Exceeds
    <2>1. calling /\ Opened
      BY <1>1, <1>3 DEF Exceeds, StreamInv, Opened
    <2> QED BY <1>1, <1>3, <2>1, QuietStep DEF Exceeds, Answer, TypeOK, Answers
  <1>4. CASE WalkFails
    <2>1. calling /\ Opened
      BY <1>1, <1>4 DEF WalkFails, StreamInv, Opened
    <2> QED BY <1>1, <1>4, <2>1, QuietStep DEF WalkFails, Answer, TypeOK, Answers
  <1> QED BY <1>2, <1>3, <1>4, UnmappableInv, SkipInv, DeliverInv DEF Step

\* The caller asks and closes.
LEMMA CallerInv ==
    ASSUME Inv, Ask \/ Close
    PROVE  Inv'
  <1>1. TypeOK /\ StreamInv
    BY DEF Inv, ListInv
  <1>2. CASE Ask
    <2>1. status = "open" /\ answer # "end" /\ (dead => lost)
      BY <1>1, <1>2 DEF Ask, StreamInv
    <2> QED BY <1>1, <1>2, <2>1, QuietStep DEF Ask, TypeOK, walker
  <1>3. CASE Close
    <2>1. status = "open" /\ ~calling /\ (dead => lost)
      BY <1>1, <1>3 DEF Close, StreamInv
    <2> QED BY <1>1, <1>3, <2>1, QuietStep DEF Close, TypeOK, walker
  <1> QED BY <1>2, <1>3

(***************************************************************************)
(* Other programs.                                                         *)
(***************************************************************************)

\* A step of other programs while a stream is open.
LEMMA ChurnFrame ==
    ASSUME Inv, TreeInv', present' \subseteq Entries, steady' \subseteq Entries,
           yielded' \subseteq yielded, status = "open",
           UNCHANGED <<ceiling, request, status, native, walked, lost, dead, calling, returned,
                       reported, answer>>
    PROVE  Inv'
  <1>1. TypeOK'
    BY DEF Inv, TypeOK
  <1>2. StreamInv'
    BY DEF Inv, ListInv, StreamInv, Opened
  <1>3. \A e : InReach(e)' <=> InReach(e)
    BY DEF InReach, MayFollow, BehindLink
  <1>4. \A r : ReturnedOK(r)' <=> ReturnedOK(r)
    BY <1>3 DEF ReturnedOK
  <1>5. \A e : Accounted(e)' <=> Accounted(e)
    BY DEF Accounted
  <1>6. EntriesInv'
    BY <1>3, <1>4, <1>5 DEF Inv, ListInv, EntriesInv, Opened
  <1> QED BY <1>1, <1>2, <1>6 DEF Inv, ListInv

\* What is left of a tree when a subtree goes is a tree.
LEMMA PrunedConnected ==
    ASSUME NEW t, t \subseteq Entries, Connected(t), NEW p \in Entries
    PROVE  Connected(t \ Below(p))
  <1> SUFFICES ASSUME NEW e \in t \ Below(p), Len(e) > 1 PROVE Front(e) \in t \ Below(p)
    BY DEF Connected
  <1>1. Front(e) \in t
    BY DEF Connected
  <1>2. Front(e) \notin Below(p)
    BY BelowParent
  <1> QED BY <1>1, <1>2

LEMMA ChurnInv ==
    ASSUME Inv, Churn
    PROVE  Inv'
  <1>1. /\ status = "open" /\ Connected(present) /\ Connected(steady) /\ steady \subseteq present
        /\ present \subseteq Entries /\ steady \subseteq Entries
    BY DEF Churn, Inv, TypeOK, ListInv, TreeInv
  <1>2. ASSUME NEW e \in Entries, Create(e) PROVE Inv'
    <2>1. TreeInv'
      <3>1. /\ present' = present \cup {e} /\ steady' = steady
            /\ Len(e) > 1 => Front(e) \in present
        BY <1>2, EntryType DEF Create
      <3>2. Connected(present \cup {e})
        BY <1>1, <3>1 DEF Connected
      <3>3. Connected(present)' /\ Connected(steady)'
        BY <1>1, <3>1, <3>2 DEF Connected
      <3> QED BY <1>1, <3>1, <3>3 DEF TreeInv
    <2> QED BY <1>1, <1>2, <2>1, ChurnFrame DEF Create, walker
  <1>3. ASSUME NEW e \in Entries, Delete(e) PROVE Inv'
    <2>1. present' = present \ Below(e) /\ steady' = steady \ Below(e)
      BY <1>3 DEF Delete
    <2>2. Connected(present \ Below(e)) /\ Connected(steady \ Below(e))
      BY <1>1, PrunedConnected
    <2>3. TreeInv'
      <3>1. Connected(present)' /\ Connected(steady)'
        BY <2>1, <2>2 DEF Connected
      <3> QED BY <1>1, <2>1, <3>1 DEF TreeInv
    <2> QED BY <1>1, <1>3, <2>1, <2>3, ChurnFrame DEF Delete
  <1> QED BY <1>2, <1>3 DEF Churn

LEMMA InitInv == Init => Inv
  <1> SUFFICES ASSUME Init PROVE Inv
    OBVIOUS
  <1>1. present \subseteq Entries /\ \A e \in present : Ancestors(e) \subseteq present
    BY ConstantsAssumption DEF Init
  <1>2. TypeOK
    <2>1. returned \in Seq(Returned) /\ 0 \in 0..Unlimited
      BY EmptySeq, ConstantsAssumption DEF Init
    <2> QED BY <1>1, <2>1 DEF Init, TypeOK, Answers
  <1>3. TreeInv
    <2>1. Connected(present)
      <3> SUFFICES ASSUME NEW e \in present, Len(e) > 1 PROVE Front(e) \in present
        BY DEF Connected
      <3>1. Len(e) - 1 \in 1..Len(e)
        BY <1>1, EntryType
      <3>2. Front(e) \in Ancestors(e)
        BY <3>1 DEF Front, Ancestors
      <3> QED BY <1>1, <3>2
    <2> QED BY <2>1 DEF TreeInv, Init, Connected
  <1>4. StreamInv /\ EntriesInv
    BY DEF Init, StreamInv, EntriesInv, Opened
  <1> QED BY <1>2, <1>3, <1>4 DEF Inv, ListInv

LEMMA NextInv == Inv /\ [Next]_vars => Inv'
  <1> SUFFICES ASSUME Inv, [Next]_vars PROVE Inv'
    OBVIOUS
  <1>1. CASE UNCHANGED vars
    <2>1. TypeOK /\ StreamInv
      BY DEF Inv, ListInv
    <2> QED BY <1>1, <2>1, QuietStep DEF vars, tree, TypeOK, StreamInv
  <1> QED BY <1>1, ListStep, CallerInv, StepInv, ChurnInv DEF Next

\* The inductive invariant holds.
THEOREM ListCorrect == Spec => []Inv
  BY InitInv, NextInv, PTL DEF Spec

(***************************************************************************)
(* Budgets.                                                                *)
(***************************************************************************)

\* A walker that has a ceiling stops there.
LEMMA WithinCeiling ==
    ASSUME Inv, CeilingsHold, NEW e, Yields(e), UNCHANGED <<tree, ceiling, request, native>>
    PROVE  ceiling'.entries # Unlimited => walked' <= ceiling'.entries
  <1>1. /\ calling /\ Opened /\ BudgetLeft
    BY DEF Yields, Inv, ListInv, StreamInv, Opened
  <1>2. /\ native = NativeOptions(request, ceiling) /\ request \in Requests /\ ceiling \in Ceilings
    BY <1>1 DEF Inv, TypeOK, ListInv, StreamInv
  <1>3. /\ native.entries \in 0..Unlimited /\ native.entries <= ceiling.entries
        /\ ceiling.entries \in 0..Unlimited /\ Unlimited \in Nat
    BY <1>2, MappedOptions, CeilingFields, ConstantsAssumption
  <1>4. walked \in 0..Unlimited /\ walked' \in 0..Unlimited /\ walked' <= walked + 1
    BY YieldStep DEF Inv, TypeOK
  <1>5. ceiling.entries # Unlimited => walked < native.entries
    BY <1>1, <1>3 DEF BudgetLeft
  <1> QED BY <1>3, <1>4, <1>5

LEMMA CeilingsStep == Inv /\ Inv' /\ CeilingsHold /\ [Next]_vars => CeilingsHold'
  <1> SUFFICES ASSUME Inv, Inv', CeilingsHold, [Next]_vars PROVE CeilingsHold'
    OBVIOUS
  <1>1. \A e \in yielded' : Len(e) <= ceiling'.depth
    <2> SUFFICES ASSUME NEW e \in yielded' PROVE Len(e) <= ceiling'.depth
      OBVIOUS
    <2>1. Opened' /\ e \in Entries
      BY DEF Inv, TypeOK, ListInv, StreamInv
    <2>2. /\ native' = NativeOptions(request', ceiling') /\ request' \in Requests
          /\ ceiling' \in Ceilings /\ Len(e) <= native'.depth
      BY <2>1 DEF Inv, TypeOK, ListInv, StreamInv, EntriesInv, InReach
    <2>3. native'.depth \in 0..Unlimited /\ native'.depth <= ceiling'.depth
      BY <2>2, MappedOptions
    <2>4. ceiling'.depth \in 0..Unlimited /\ Len(e) \in Nat /\ Unlimited \in Nat
      BY <2>1, <2>2, CeilingFields, EntryType, ConstantsAssumption
    <2> QED BY <2>2, <2>3, <2>4
  <1>2. CASE UNCHANGED <<walked, ceiling>>
    BY <1>1, <1>2 DEF CeilingsHold
  <1>3. ASSUME NEW e \in Entries, Unmappable(e) \/ Skip(e) \/ Unplaced(e) \/ Deliver(e) \/ Overrun(e)
        PROVE  CeilingsHold'
    <2>1. Yields(e) /\ UNCHANGED <<tree, ceiling, request, native>>
      BY <1>3 DEF Unmappable, Skip, Unplaced, Deliver, Overrun, Passes
    <2> QED BY <1>1, <2>1, WithinCeiling DEF CeilingsHold
  <1> QED BY <1>2, <1>3 DEF Next, vars, List, Ask, Close, Step, End, Exceeds, WalkFails, Churn,
             Create, Delete, walker

\* A budget error is earned when it is answered, and stays so.
LEMMA BudgetStep == Inv /\ BudgetErrorsEarned /\ [Next]_vars => BudgetErrorsEarned'
  <1> SUFFICES ASSUME Inv, BudgetErrorsEarned, [Next]_vars, answer' = "ResourceLimitExceeded"
               PROVE  BudgetErrorsEarned'
    BY DEF BudgetErrorsEarned
  <1>1. walked \in Nat /\ ceiling \in Ceilings /\ ceiling.entries \in Nat
    BY CeilingFields, ConstantsAssumption DEF Inv, TypeOK
  <1>2. CASE UNCHANGED <<answer, returned, request, walked, ceiling>>
    BY <1>2 DEF BudgetErrorsEarned
  <1>3. ASSUME NEW e \in Entries, Skip(e) PROVE BudgetErrorsEarned'
    <2>1. /\ Yields(e) /\ UNCHANGED <<answer, returned, request, ceiling>>
          /\ UNCHANGED <<tree, native>>
      BY <1>3 DEF Skip
    <2>2. /\ request \in Requests /\ walked' \in 0..Unlimited /\ walked <= walked'
      BY <2>1, YieldStep
    <2>3. request.entries \in Nat /\ walked' \in Nat
      BY <2>2, RequestFields, ConstantsAssumption
    <2> QED BY <1>1, <2>1, <2>2, <2>3 DEF BudgetErrorsEarned
  <1>4. ASSUME NEW e \in Entries, Overrun(e) PROVE BudgetErrorsEarned'
    <2>1. /\ Yields(e) /\ UNCHANGED <<tree, ceiling, request, native>> /\ UNCHANGED returned
          /\ ~(Len(returned) < request.entries) /\ request.entries # Unlimited
      BY <1>4 DEF Overrun, Passes, CountLeft
    <2>2. request \in Requests /\ status = "open"
      BY <2>1, YieldStep
    <2>3. Len(returned) <= request.entries
      BY <2>1, <2>2 DEF Inv, ListInv, EntriesInv, Opened
    <2>4. request.entries \in Nat /\ Len(returned) \in Nat
      <3>1. returned \in Seq(Returned)
        BY DEF Inv, TypeOK
      <3> QED BY <2>2, <3>1, LenProperties, RequestFields, ConstantsAssumption
    <2>5. Len(returned) = request.entries
      BY <2>1, <2>3, <2>4
    <2> QED BY <2>1, <2>5 DEF BudgetErrorsEarned
  <1>5. CASE Exceeds
    <2>1. /\ calling /\ ~BudgetLeft /\ UNCHANGED <<ceiling, request, walked, returned>>
      BY <1>5 DEF Exceeds
    <2>2. Opened
      BY <2>1 DEF Inv, ListInv, StreamInv, Opened
    <2>3. native = NativeOptions(request, ceiling) /\ request \in Requests
      BY <2>2 DEF Inv, ListInv, StreamInv
    <2>4. /\ native.entries \in Nat
          /\ native.entries = ceiling.entries
             \/ (request.filter.kind = "none" /\ native.entries = request.entries)
      BY <1>1, <2>3, MappedOptions, ConstantsAssumption
    <2>5. walked >= native.entries
      BY <1>1, <2>1, <2>4 DEF BudgetLeft
    <2> QED BY <1>1, <2>1, <2>4, <2>5 DEF BudgetErrorsEarned
  <1>6. ASSUME NEW r \in Requests, List(r) PROVE FALSE
    BY <1>6 DEF List, Rejection
  <1>7. ~(\E e \in Entries : Unmappable(e) \/ Unplaced(e) \/ Deliver(e)) /\ ~End /\ ~WalkFails
    BY DEF Unmappable, Unplaced, Deliver, End, WalkFails, Answer
  <1> QED BY <1>2, <1>3, <1>4, <1>5, <1>6, <1>7 DEF Next, vars, Ask, Close, Step, Churn,
             Create, Delete, walker

(***************************************************************************)
(* Completeness.                                                           *)
(***************************************************************************)

\* What the request wants the walker to reach.
Wanted(e) ==
    /\ Len(e) <= native.depth /\ (Len(e) = 1 \/ native.recursive)
    /\ BehindLink(e) => LinksFollowed

\* The directory of an entry that is wanted is wanted.
LEMMA ParentWanted ==
    ASSUME NEW e \in Entries, Len(e) > 1, Wanted(e), native.depth \in Nat
    PROVE  /\ Wanted(Front(e)) /\ Len(Front(e)) = Len(e) - 1
           /\ Last(Front(e)) \in OutLinks => BehindLink(e)
  <1>1. e \in Seq(Names) /\ Len(e) \in Nat
    BY EntryType DEF Paths
  <1>2. Len(Front(e)) = Len(e) - 1 /\ \A i \in 1..(Len(e) - 1) : Front(e)[i] = e[i]
    BY <1>1, FrontOf
  <1>3. BehindLink(Front(e)) => BehindLink(e)
    <2> SUFFICES ASSUME NEW i \in 1..(Len(Front(e)) - 1), Front(e)[i] \in OutLinks
                 PROVE  BehindLink(e)
      BY DEF BehindLink
    <2>1. i \in 1..(Len(e) - 1)
      BY <1>1, <1>2
    <2> QED BY <1>2, <2>1 DEF BehindLink
  <1>4. Last(Front(e)) \in OutLinks => BehindLink(e)
    <2>1. Len(e) - 1 \in 1..(Len(e) - 1)
      BY <1>1
    <2>2. Last(Front(e)) = e[Len(e) - 1]
      BY <1>2, <2>1 DEF Last
    <2> QED BY <2>1, <2>2 DEF BehindLink
  <1>5. Len(Front(e)) <= native.depth
    BY <1>1, <1>2 DEF Wanted
  <1>6. native.recursive
    <2>1. Len(e) # 1
      BY <1>1
    <2> QED BY <2>1, Zenon DEF Wanted
  <1> QED BY <1>2, <1>3, <1>4, <1>5, <1>6 DEF Wanted

\* When the walker owes nothing it has passed all that is wanted and was there
\* all along: otherwise take the shortest path it has not passed.
LEMMA AllPassed ==
    ASSUME Inv, Opened, Owed = {}, NEW e \in steady, Wanted(e)
    PROVE  e \in yielded
  <1>1. /\ TypeOK /\ TreeInv /\ request \in Requests /\ ceiling \in Ceilings
        /\ native = NativeOptions(request, ceiling)
    BY DEF Inv, TypeOK, ListInv, StreamInv
  <1>2. native.depth \in Nat /\ native.symlinks = NativeSymlinkPolicy(request)
    BY <1>1, MappedOptions, ConstantsAssumption
  <1>3. LinksFollowed => native.symlinks = "FollowAcrossScope"
    BY <1>2 DEF LinksFollowed, NativeSymlinkPolicy
  <1>4. \A x \in steady : x \in Entries /\ Len(x) \in Nat \ {0}
    BY <1>1, EntryType DEF TypeOK
  <1> DEFINE missed == {x \in steady \ yielded : Wanted(x)}
             T == {n \in Nat : \E x \in missed : Len(x) = n}
  <1> SUFFICES ASSUME e \notin yielded PROVE FALSE
    OBVIOUS
  <1>5. T \subseteq Nat /\ T # {}
    BY <1>4
  <1>6. PICK n \in T : \A m \in T : n <= m
    BY <1>5, LeastNatural
  <1>7. PICK x \in missed : Len(x) = n
    OBVIOUS
  <1>8. x \in steady /\ x \notin yielded /\ Wanted(x) /\ x \in Entries /\ Len(x) \in Nat \ {0}
    BY <1>4
  <1>9. Len(x) = 1 \/ Descends(Front(x))
    <2> SUFFICES ASSUME Len(x) # 1 PROVE Descends(Front(x))
      OBVIOUS
    <2>1. Len(x) > 1
      <3>1. \A k \in Nat \ {0} : k # 1 => k > 1
        OBVIOUS
      <3>2. Len(x) \in Nat \ {0} /\ Len(x) # 1
        BY <1>8
      <3> QED BY <3>1, <3>2, Zenon
    <2>2. /\ Wanted(Front(x)) /\ Len(Front(x)) = Len(x) - 1
          /\ Last(Front(x)) \in OutLinks => BehindLink(x)
      BY <1>2, <1>8, <2>1, ParentWanted
    <2>3. Front(x) \in steady
      BY <1>1, <1>8, <2>1 DEF TreeInv, Connected
    <2>4. Front(x) \in yielded
      <3> SUFFICES ASSUME Front(x) \notin yielded PROVE FALSE
        OBVIOUS
      <3>1. Front(x) \in missed /\ Len(x) - 1 \in Nat
        BY <1>8, <2>2, <2>3
      <3>2. Len(x) - 1 \in T
        BY <2>2, <3>1
      <3> HIDE DEF T
      <3>3. Len(x) <= Len(x) - 1
        BY <1>6, <1>7, <3>2
      <3> QED BY <1>8, <3>3
    <2>5. Last(Front(x)) \in OutLinks => native.symlinks = "FollowAcrossScope"
      BY <1>3, <1>8, <2>2 DEF Wanted
    <2>6. native.recursive
      BY <1>8, <2>1 DEF Wanted
    <2> QED BY <2>4, <2>5, <2>6 DEF Descends
  <1>10. x \in Candidates
    BY <1>1, <1>8, <1>9 DEF Candidates, TreeInv, Wanted
  <1>11. native.symlinks = "Default" => ~BehindLink(x)
    BY <1>3, <1>8 DEF Wanted
  <1> QED BY <1>8, <1>10, <1>11 DEF Owed

\* What is asked for is wanted of the walker and passes the filter.
LEMMA AskedWanted ==
    ASSUME Inv, Opened, NEW e \in Entries, Asked(e), BehindLink(e) => LinksFollowed
    PROVE  Wanted(e) /\ Matches(request.filter, e)
  <1>1. /\ request \in Requests /\ ceiling \in Ceilings /\ Rejection(request) = "none"
        /\ native = NativeOptions(request, ceiling)
    BY DEF Inv, TypeOK, ListInv, StreamInv
  <1>2. /\ native.recursive = (request.recursive \/ request.filter.kind = "subtree")
        /\ native.depth = request.depth \/ native.depth = ceiling.depth
    BY <1>1, MappedOptions
  <1>3. Wanted(e)
    BY <1>2 DEF Wanted, Asked
  <1>4. request.filter.kind \in {"none", "subtree"}
    <2>1. request.filter.kind # "literal"
      BY <1>1, RequestFields DEF Rejection
    <2> QED BY <1>1, <2>1, RequestFields
  <1>5. Matches(request.filter, e)
    <2>1. CASE request.filter.kind = "none"
      BY <2>1 DEF Matches
    <2>2. CASE request.filter.kind = "subtree"
      BY <1>1, <2>2, SubtreeByComponents DEF Asked
    <2> QED BY <1>4, <2>1, <2>2
  <1> QED BY <1>3, <1>5

\* Nothing is lost at the end of a stream, and nothing afterwards.
LEMMA NothingLostStep == Inv /\ NothingLost /\ [Next]_vars => NothingLost'
  <1> SUFFICES ASSUME Inv, NothingLost, [Next]_vars, answer' = "end", ~lost' PROVE NothingLost'
    BY DEF NothingLost
  <1>1. calling => answer # "end"
    BY DEF Inv, ListInv, StreamInv
  <1>2. CASE /\ UNCHANGED <<answer, lost, request, ceiling, returned, reported>>
             /\ steady' \subseteq steady
    BY <1>2 DEF NothingLost, Asked, LinksFollowed
  <1>3. CASE End
    <2>1. /\ calling /\ (dead \/ Owed = {})
          /\ UNCHANGED <<tree, ceiling, request, status, native, walker, returned, reported>>
      BY <1>3 DEF End
    <2>2. status = "open" /\ Opened /\ Owed = {} /\ ~lost
      BY <2>1 DEF Inv, ListInv, StreamInv, Opened, walker
    <2>3. ASSUME NEW e \in steady, Asked(e), BehindLink(e) => LinksFollowed
          PROVE  e \in reported \/ \E i \in 1..Len(returned) : returned[i].at = e
      <3>1. e \in Entries
        BY DEF Inv, TypeOK
      <3>2. Wanted(e) /\ Matches(request.filter, e)
        BY <2>2, <2>3, <3>1, AskedWanted
      <3>3. e \in yielded
        BY <2>2, <3>2, AllPassed
      <3>4. Accounted(e)
        BY <2>2, <3>3 DEF Inv, ListInv, EntriesInv
      <3> QED BY <3>2, <3>4 DEF Accounted
    <2>4. UNCHANGED <<steady, request, ceiling, returned, reported>>
      BY <2>1 DEF tree
    <2> QED BY <2>3, <2>4 DEF NothingLost, Asked, LinksFollowed
  <1>4. ASSUME NEW r \in Requests, List(r) PROVE FALSE
    BY <1>4 DEF List, Rejection
  <1>5. /\ ~(\E e \in Entries : Unmappable(e) \/ Unplaced(e) \/ Deliver(e) \/ Overrun(e))
        /\ ~Exceeds /\ ~WalkFails
    BY DEF Unmappable, Unplaced, Deliver, Overrun, Exceeds, WalkFails, Answer
  <1>6. ~(\E e \in Entries : Skip(e)) /\ ~Ask
    BY <1>1 DEF Skip, Yields, Ask
  <1>7. CASE Close \/ Churn \/ UNCHANGED vars
    BY <1>2, <1>7 DEF Close, Churn, Create, Delete, vars, walker, tree
  <1> QED BY <1>3, <1>4, <1>5, <1>6, <1>7 DEF Next, Step

(***************************************************************************)
(* The theorems.                                                           *)
(***************************************************************************)

\* Every variable keeps its type.
THEOREM TypeCorrect == Spec => []TypeOK
  <1>1. Inv => TypeOK
    BY DEF Inv
  <1> QED BY <1>1, ListCorrect, PTL

\* The provider's ceilings on depth and entries hold for every request, while
\* the tree changes (tighten_resource_limits).
THEOREM CeilingsCorrect == Spec => []CeilingsHold
  <1>1. Init => CeilingsHold
    BY CeilingFields, ConstantsAssumption DEF Init, CeilingsHold
  <1> QED BY <1>1, CeilingsStep, ListCorrect, PTL DEF Spec

\* No listing meets anything behind a link it may not follow
\* (native_symlink_policy).
THEOREM LinksCorrect == Spec => []LinksContained
  <1>1. Inv => LinksContained
    <2> SUFFICES ASSUME Inv, request.scope = "Rooted" \/ request.symlinks = "Reject",
                        NEW e \in yielded
                 PROVE  ~BehindLink(e)
      BY DEF LinksContained
    <2>1. Opened
      BY DEF Inv, ListInv, StreamInv
    <2>2. /\ request \in Requests /\ ceiling \in Ceilings /\ InReach(e)
          /\ native = NativeOptions(request, ceiling)
      BY <2>1 DEF Inv, TypeOK, ListInv, StreamInv, EntriesInv
    <2>3. native.symlinks = NativeSymlinkPolicy(request)
      BY <2>2, MappedOptions
    <2>4. ~MayFollow
      BY <2>2, <2>3, RequestFields DEF MayFollow, NativeSymlinkPolicy
    <2> QED BY <2>2, <2>4 DEF InReach
  <1> QED BY <1>1, ListCorrect, PTL

\* A budget error is owed to a budget that was used up (list, the facade).
THEOREM BudgetCorrect == Spec => []BudgetErrorsEarned
  <1>1. Init => BudgetErrorsEarned
    BY DEF Init, BudgetErrorsEarned
  <1> QED BY <1>1, BudgetStep, ListCorrect, PTL DEF Spec

\* Every returned path is of the requested kind, leads back to its entry, and
\* that entry was asked for (next_entry, EntryPath, matches).
THEOREM PathsCorrect == Spec => []PathsReusable
  <1>1. Inv => PathsReusable
    <2> SUFFICES ASSUME Inv, NEW i \in 1..Len(returned)
                 PROVE  /\ returned[i].path.absolute = request.path.absolute
                        /\ Locate(returned[i].path) = Locate(request.path) \o returned[i].at
                        /\ Asked(returned[i].at)
      BY DEF PathsReusable
    <2> DEFINE r == returned[i]
    <2>1. r \in Returned /\ r.at \in Entries /\ Opened
      <3>1. returned \in Seq(Returned)
        BY DEF Inv, TypeOK
      <3>2. r \in Returned /\ returned # <<>>
        BY <3>1, ElementOfSeq, EmptySeq
      <3>3. Opened
        BY <3>2 DEF Inv, ListInv, StreamInv
      <3> QED BY <3>2, <3>3 DEF Returned
    <2>2. /\ request \in Requests /\ ceiling \in Ceilings /\ Rejection(request) = "none"
          /\ native = NativeOptions(request, ceiling) /\ ReturnedOK(r)
      BY <2>1 DEF Inv, TypeOK, ListInv, StreamInv, EntriesInv
    <2>3. r.path = EntryPath(request, r.at) /\ InReach(r.at) /\ Matches(request.filter, r.at)
      BY <2>2 DEF ReturnedOK
    <2>4. r.path.absolute = request.path.absolute /\ Locate(r.path) = Locate(request.path) \o r.at
      BY <2>1, <2>2, <2>3, EntryPathLeadsBack
    <2> HIDE DEF r
    <2>5. Asked(r.at)
      <3>1. /\ native.depth \in 0..Unlimited /\ native.depth <= request.depth
            /\ native.depth <= ceiling.depth
            /\ native.recursive = (request.recursive \/ request.filter.kind = "subtree")
        BY <2>2, MappedOptions
      <3>2. /\ request.depth \in Nat /\ ceiling.depth \in Nat /\ native.depth \in Nat
            /\ Len(r.at) \in Nat
        BY <2>1, <2>2, <3>1, RequestFields, CeilingFields, EntryType, ConstantsAssumption
      <3>3. Len(r.at) <= native.depth /\ (Len(r.at) = 1 \/ native.recursive)
        BY <2>3 DEF InReach
      <3>4. Len(r.at) <= request.depth /\ Len(r.at) <= ceiling.depth
        BY <3>1, <3>2, <3>3
      <3>5. request.filter.kind = "subtree" => IsPrefix(request.filter.prefix, r.at)
        BY <2>1, <2>2, <2>3, SubtreeByComponents
      <3> QED BY <3>1, <3>3, <3>4, <3>5 DEF Asked
    <2> QED BY <2>4, <2>5 DEF r
  <1> QED BY <1>1, ListCorrect, PTL

\* No entry that was asked for and there all along is lost when the stream
\* ends without a failure of the walker (next_entry, list).
THEOREM NothingLostCorrect == Spec => []NothingLost
  <1>1. Init => NothingLost
    BY DEF Init, NothingLost
  <1> QED BY <1>1, NothingLostStep, ListCorrect, PTL DEF Spec

(***************************************************************************)
(* Escapes.                                                                *)
(***************************************************************************)

\* The character table.
LEMMA Table ==
  /\ Percent \in Bytes /\ Percent \in Scalars /\ Slash \in Scalars /\ Slash # Percent
  /\ Ascii \subseteq Bytes /\ Ascii \subseteq Scalars /\ NUL # Percent /\ Backslash # Percent
  /\ DigitChars \subseteq Ascii /\ DigitChars \cap {NUL, Slash, Percent, Backslash} = {}
  /\ \A h, l \in DigitChars : <<HexValue[h], HexValue[l]>> \in Bytes
  /\ \A b \in Bytes : b = <<b[1], b[2]>> /\ b[1] \in Halves /\ b[2] \in Halves
  /\ \A v \in Halves : HexDigit[v] \in DigitChars /\ HexValue[HexDigit[v]] = v
  /\ Err \notin Bytes /\ Err \notin Seq(Bytes) /\ Err \notin Seq(Scalars)
  BY UriAssumption DEF Bytes, Scalars, DigitChars

\* The three characters of an escape.
LEMMA Triple ==
    ASSUME NEW S, NEW x \in S, NEW y \in S, NEW z \in S, NEW r \in Seq(S)
    PROVE  /\ <<x, y, z>> \in Seq(S) /\ Len(<<x, y, z>>) = 3 /\ <<x, y, z>> # <<>>
           /\ <<x, y, z>> \o r \in Seq(S) \ {<<>>} /\ Len(<<x, y, z>> \o r) = Len(r) + 3
           /\ (<<x, y, z>> \o r)[1] = x /\ (<<x, y, z>> \o r)[2] = y /\ (<<x, y, z>> \o r)[3] = z
           /\ \A i \in 1..Len(r) : (<<x, y, z>> \o r)[i + 3] = r[i]
  <1> DEFINE a == <<x, y, z>>
             s == a \o r
  <1>1. a \in Seq(S) /\ Len(a) = 3 /\ a[1] = x /\ a[2] = y /\ a[3] = z /\ a # <<>>
    OBVIOUS
  <1>2. Len(r) \in Nat
    BY LenProperties
  <1> HIDE DEF a
  <1>3. /\ s \in Seq(S) /\ Len(s) = 3 + Len(r)
        /\ \A i \in 1..(3 + Len(r)) : s[i] = IF i <= 3 THEN a[i] ELSE r[i - 3]
    <2>1. /\ s \in Seq(S) /\ Len(s) = Len(a) + Len(r)
          /\ \A i \in 1..(Len(a) + Len(r)) : s[i] = IF i <= Len(a) THEN a[i] ELSE r[i - Len(a)]
      BY <1>1, ConcatProperties, Zenon
    <2> QED BY <1>1, <2>1
  <1> HIDE DEF s
  <1>4. s # <<>>
    BY <1>2, <1>3, EmptySeq
  <1>5. s[1] = x /\ s[2] = y /\ s[3] = z
    BY <1>1, <1>2, <1>3
  <1>6. ASSUME NEW i \in 1..Len(r) PROVE s[i + 3] = r[i]
    <2>1. i + 3 \in 1..(3 + Len(r)) /\ ~(i + 3 <= 3) /\ (i + 3) - 3 = i
      BY <1>2
    <2> QED BY <1>3, <2>1
  <1> QED BY <1>1, <1>2, <1>3, <1>4, <1>5, <1>6 DEF s, a

\* The first three of more than two elements.
LEMMA FirstThree ==
    ASSUME NEW S, NEW s \in Seq(S), Len(s) > 2
    PROVE  \E r \in Seq(S) : s = <<s[1], s[2], s[3]>> \o r /\ Len(r) < Len(s)
  <1>1. Len(s) \in Nat /\ 3 \in 0..Len(s) /\ {1, 2, 3} \subseteq 1..Len(s)
    BY LenProperties
  <1>2. s[1] \in S /\ s[2] \in S /\ s[3] \in S
    BY <1>1, ElementOfSeq
  <1>3. \A n \in 0..Len(s) :
           /\ SubSeq(s, 1, n) \in Seq(S) /\ Len(SubSeq(s, 1, n)) = n
           /\ SubSeq(s, n + 1, Len(s)) \in Seq(S)
           /\ Len(SubSeq(s, n + 1, Len(s))) = Len(s) - n
           /\ s = SubSeq(s, 1, n) \o SubSeq(s, n + 1, Len(s))
           /\ \A i \in 1..n : SubSeq(s, 1, n)[i] = s[i]
    BY CutAt
  <1> DEFINE a == SubSeq(s, 1, 3)
             r == SubSeq(s, 3 + 1, Len(s))
  <1>4. /\ a \in Seq(S) /\ Len(a) = 3 /\ r \in Seq(S) /\ Len(r) = Len(s) - 3 /\ s = a \o r
        /\ \A i \in 1..3 : a[i] = s[i]
    BY <1>1, <1>3
  <1> HIDE DEF a, r
  <1>5. a = <<s[1], s[2], s[3]>>
    <2> DEFINE b == <<s[1], s[2], s[3]>>
    <2>1. b \in Seq(S) /\ Len(b) = 3 /\ b[1] = s[1] /\ b[2] = s[2] /\ b[3] = s[3]
      BY <1>2
    <2> HIDE DEF b
    <2>2. \A i \in 1..Len(a) : a[i] = b[i]
      BY <1>4, <2>1
    <2>3. a = b
      BY <1>4, <2>1, <2>2, SeqEqual
    <2> QED BY <2>3 DEF b
  <1>6. Len(r) < Len(s)
    BY <1>1, <1>4
  <1> QED BY <1>4, <1>5, <1>6

\* The turns of decode_uri_bytes.
LEMMA UnescapeTurns ==
  /\ Unescape[<<>>] = <<>>
  /\ \A s \in Seq(Bytes) : Unescape[s] \in Seq(Bytes \cup {Err})
  /\ \A x \in Bytes \ {Percent}, r \in Seq(Bytes) : Unescape[<<x>> \o r] = <<x>> \o Unescape[r]
  /\ \A h, l \in DigitChars, r \in Seq(Bytes) :
        Unescape[<<Percent, h, l>> \o r] = << <<HexValue[h], HexValue[l]>> >> \o Unescape[r]
  /\ \A s \in Seq(Bytes) \ {<<>>} : ~EscapeAt(s) /\ s[1] = Percent => Contains(Unescape[s], Err)
  <1> DEFINE width == [s \in Seq(Bytes) |-> IF EscapeAt(s) THEN 3 ELSE 1]
             piece == [s \in Seq(Bytes) |-> <<UnescapedByte(s)>>]
             D == Bytes \cup {Err}
  <1>1. ASSUME NEW s \in Seq(Bytes), s # <<>>
        PROVE  /\ width[s] \in Nat \ {0} /\ UnescapedByte(s) \in D
               /\ Len(s) \in Nat \ {0} /\ s[1] \in Bytes
    <2>1. Len(s) \in Nat \ {0} /\ s[1] \in Bytes
      BY <1>1, EmptySeq, ElementOfSeq
    <2>2. UnescapedByte(s) \in D
      BY <2>1, Table DEF UnescapedByte, EscapeAt
    <2> QED BY <2>1, <2>2
  <1>2. Turns(Bytes, D, width, piece)
    BY <1>1 DEF Turns
  <1>3. Loop(Unescape, Bytes, D, width, piece)
    <2> HIDE DEF width, piece, D
    <2>1. Loop(Scan(Bytes, width, piece), Bytes, D, width, piece)
      BY <1>2, ScanUnfolds
    <2> QED BY <2>1 DEF Unescape, width, piece
  <1>4. ASSUME NEW a \in Seq(Bytes), NEW r \in Seq(Bytes), a # <<>>, width[a \o r] = Len(a),
               a \o r \in Seq(Bytes)
        PROVE  Unescape[a \o r] = <<UnescapedByte(a \o r)>> \o Unescape[r]
    <2> HIDE DEF width, D
    <2>1. Unescape[a \o r] = piece[a \o r] \o Unescape[r]
      <3> HIDE DEF piece
      <3>1. Advances(Unescape, Bytes, width, piece)
        BY <1>3, LoopTurn
      <3> QED BY <1>4, <3>1 DEF Advances
    <2> QED BY <1>4, <2>1
  <1>5. Unescape[<<>>] = <<>> /\ \A s \in Seq(Bytes) : Unescape[s] \in Seq(D)
    BY <1>3 DEF Loop
  <1>6. ASSUME NEW x \in Bytes \ {Percent}, NEW r \in Seq(Bytes)
        PROVE  Unescape[<<x>> \o r] = <<x>> \o Unescape[r]
    <2> DEFINE a == <<x>>
    <2>1. a \in Seq(Bytes) /\ Len(a) = 1 /\ a # <<>> /\ a \o r \in Seq(Bytes) /\ (a \o r)[1] = x
      BY ConsSeq
    <2>2. ~EscapeAt(a \o r) /\ (a \o r)[1] # Percent /\ (a \o r)[1] = x
      BY <2>1 DEF EscapeAt
    <2> HIDE DEF a
    <2>3. width[a \o r] = Len(a) /\ UnescapedByte(a \o r) = x
      BY <2>1, <2>2 DEF UnescapedByte
    <2>4. Unescape[a \o r] = <<UnescapedByte(a \o r)>> \o Unescape[r]
      <3> HIDE DEF width
      <3> QED BY <1>4, <2>1, <2>3
    <2> QED BY <2>3, <2>4 DEF a
  <1>7. ASSUME NEW h \in DigitChars, NEW l \in DigitChars, NEW r \in Seq(Bytes)
        PROVE  Unescape[<<Percent, h, l>> \o r] = << <<HexValue[h], HexValue[l]>> >> \o Unescape[r]
    <2> DEFINE a == <<Percent, h, l>>
    <2>0. Percent \in Bytes /\ h \in Bytes /\ l \in Bytes
      BY Table
    <2>1. /\ a \in Seq(Bytes) /\ Len(a) = 3 /\ a # <<>> /\ a \o r \in Seq(Bytes)
          /\ Len(a \o r) = Len(r) + 3 /\ Len(r) \in Nat
          /\ (a \o r)[1] = Percent /\ (a \o r)[2] = h /\ (a \o r)[3] = l
      BY <2>0, Triple, LenProperties
    <2> HIDE DEF a
    <2>2. EscapeAt(a \o r)
      BY <2>1 DEF EscapeAt
    <2>3. width[a \o r] = Len(a) /\ UnescapedByte(a \o r) = <<HexValue[h], HexValue[l]>>
      BY <2>1, <2>2 DEF UnescapedByte
    <2>4. Unescape[a \o r] = <<UnescapedByte(a \o r)>> \o Unescape[r]
      <3> HIDE DEF width
      <3> QED BY <1>4, <2>1, <2>3
    <2> QED BY <2>3, <2>4 DEF a
  <1>8. ASSUME NEW s \in Seq(Bytes), s # <<>>, ~EscapeAt(s), s[1] = Percent
        PROVE  Contains(Unescape[s], Err)
    <2> DEFINE rest == SubSeq(s, width[s] + 1, Len(s))
    <2>1. Unescape[s] = piece[s] \o Unescape[rest]
      <3> HIDE DEF width, piece, D
      <3> QED BY <1>3, <1>8 DEF Loop
    <2>2. piece[s] = <<Err>>
      BY <1>8 DEF UnescapedByte
    <2>3. rest \in Seq(Bytes)
      <3>1. 1 \in 0..Len(s) /\ width[s] = 1
        BY <1>1, <1>8
      <3>2. \A n \in 0..Len(s) : SubSeq(s, n + 1, Len(s)) \in Seq(Bytes)
        BY CutAt
      <3> QED BY <3>1, <3>2
    <2> HIDE DEF rest, piece
    <2>4. Unescape[rest] \in Seq(D) /\ Err \in D
      BY <1>5, <2>3
    <2> HIDE DEF D
    <2> DEFINE w == Unescape[rest]
    <2>5. Len(<<Err>> \o w) = Len(w) + 1 /\ (<<Err>> \o w)[1] = Err /\ Len(w) \in Nat
      <3> HIDE DEF w
      <3>1. w \in Seq(D)
        BY <2>4 DEF w
      <3> QED BY <2>4, <3>1, ConsSeq, LenProperties
    <2> HIDE DEF w
    <2>6. 1 \in 1..Len(<<Err>> \o w)
      BY <2>5
    <2>7. Contains(<<Err>> \o w, Err)
      BY <2>5, <2>6 DEF Contains
    <2> QED BY <2>1, <2>2, <2>7 DEF w
  <1> QED BY <1>5, <1>6, <1>7, <1>8

\* a is one character or one escape, and stands for the byte b.
Unit(a, b) ==
    /\ a \in Seq(Bytes) /\ b \in Bytes
    /\ \/ a = <<b>> /\ b # Percent
       \/ \E h, l \in DigitChars : a = <<Percent, h, l>> /\ b = <<HexValue[h], HexValue[l]>>

\* s is a unit of d characters for the byte b, and then r.
Shape(s, b, r, d) ==
    /\ s \in Seq(Bytes) /\ s # <<>> /\ r \in Seq(Bytes) /\ b \in Bytes
    /\ Len(r) \in Nat /\ Len(s) = Len(r) + d
    /\ \A i \in 1..Len(r) : s[i + d] = r[i]
    /\ \/ d = 1 /\ s[1] = b /\ b # Percent
       \/ /\ d = 3 /\ s[1] = Percent /\ s[2] \in DigitChars /\ s[3] \in DigitChars
          /\ b = <<HexValue[s[2]], HexValue[s[3]]>>

\* A unit before a text is taken off in one turn.
LEMMA UnitShape ==
    ASSUME NEW a, NEW b, Unit(a, b), NEW r \in Seq(Bytes)
    PROVE  Shape(a \o r, b, r, Len(a)) /\ Unescape[a \o r] = <<b>> \o Unescape[r]
  <1>1. a \in Seq(Bytes) /\ b \in Bytes /\ Len(r) \in Nat
    BY LenProperties DEF Unit
  <1>2. CASE a = <<b>> /\ b # Percent
    <2>1. Len(a) = 1
      BY <1>2
    <2>2. /\ a \o r \in Seq(Bytes) \ {<<>>} /\ Len(a \o r) = Len(r) + 1
          /\ (a \o r)[1] = b /\ \A i \in 1..Len(r) : (a \o r)[i + 1] = r[i]
      BY <1>1, <1>2, ConsSeq
    <2>3. Shape(a \o r, b, r, 1)
      BY <1>1, <1>2, <2>2 DEF Shape
    <2>4. Unescape[a \o r] = <<b>> \o Unescape[r]
      BY <1>1, <1>2, UnescapeTurns
    <2> QED BY <2>1, <2>3, <2>4
  <1>3. ASSUME NEW h \in DigitChars, NEW l \in DigitChars,
               a = <<Percent, h, l>>, b = <<HexValue[h], HexValue[l]>>
        PROVE  Shape(a \o r, b, r, Len(a)) /\ Unescape[a \o r] = <<b>> \o Unescape[r]
    <2>0. Percent \in Bytes /\ h \in Bytes /\ l \in Bytes
      BY Table
    <2>1. Len(a) = 3
      BY <1>3
    <2>2. /\ a \o r \in Seq(Bytes) \ {<<>>} /\ Len(a \o r) = Len(r) + 3
          /\ (a \o r)[1] = Percent /\ (a \o r)[2] = h /\ (a \o r)[3] = l
          /\ \A i \in 1..Len(r) : (a \o r)[i + 3] = r[i]
      BY <1>3, <2>0, Triple
    <2>3. Shape(a \o r, b, r, 3)
      BY <1>1, <1>3, <2>2 DEF Shape
    <2>4. Unescape[a \o r] = <<b>> \o Unescape[r]
      BY <1>3, UnescapeTurns
    <2> QED BY <2>1, <2>3, <2>4
  <1> QED BY <1>2, <1>3 DEF Unit

\* A unit at the head neither makes escapes malformed nor mends them.
LEMMA ShapeWellFormed ==
    ASSUME NEW s, NEW b, NEW r, NEW d, Shape(s, b, r, d)
    PROVE  WellFormed(s) <=> WellFormed(r)
  <1>1. /\ Len(r) \in Nat /\ Len(s) = Len(r) + d /\ d \in {1, 3}
        /\ \A i \in 1..Len(r) : s[i + d] = r[i]
    BY DEF Shape
  <1>2. \A i \in 1..d : s[i] = Percent =>
            i + 2 <= Len(s) /\ s[i + 1] \in DigitChars /\ s[i + 2] \in DigitChars
    <2>1. CASE d = 1
      BY <2>1 DEF Shape
    <2>2. CASE d = 3
      <3>1. s[2] # Percent /\ s[3] # Percent /\ s[2] \in DigitChars /\ s[3] \in DigitChars
        BY <2>2, Table DEF Shape
      <3> QED BY <1>1, <2>2, <3>1
    <2> QED BY <1>1, <2>1, <2>2
  <1>3. ASSUME WellFormed(s), NEW i \in 1..Len(r), r[i] = Percent
        PROVE  i + 2 <= Len(r) /\ r[i + 1] \in DigitChars /\ r[i + 2] \in DigitChars
    <2>1. i + d \in 1..Len(s) /\ s[i + d] = Percent
      BY <1>1, <1>3
    <2>2. /\ (i + d) + 2 <= Len(s) /\ s[(i + d) + 1] \in DigitChars
          /\ s[(i + d) + 2] \in DigitChars
      BY <1>3, <2>1 DEF WellFormed
    <2>3. /\ i + 2 <= Len(r) /\ i + 1 \in 1..Len(r) /\ i + 2 \in 1..Len(r)
          /\ (i + d) + 1 = (i + 1) + d /\ (i + d) + 2 = (i + 2) + d
      BY <1>1, <2>2
    <2> QED BY <1>1, <2>2, <2>3
  <1>4. ASSUME WellFormed(r), NEW j \in 1..Len(s), s[j] = Percent
        PROVE  j + 2 <= Len(s) /\ s[j + 1] \in DigitChars /\ s[j + 2] \in DigitChars
    <2>1. CASE j <= d
      <3>1. j \in 1..d
        BY <1>1, <2>1
      <3> QED BY <1>2, <1>4, <3>1
    <2>2. CASE ~(j <= d)
      <3> DEFINE i == j - d
      <3>1. i \in 1..Len(r) /\ i + d = j
        BY <1>1, <2>2
      <3> HIDE DEF i
      <3>2. r[i] = Percent
        BY <1>1, <1>4, <3>1
      <3>3. i + 2 <= Len(r) /\ r[i + 1] \in DigitChars /\ r[i + 2] \in DigitChars
        BY <1>4, <3>1, <3>2 DEF WellFormed
      <3>4. /\ i + 1 \in 1..Len(r) /\ i + 2 \in 1..Len(r)
            /\ j + 1 = (i + 1) + d /\ j + 2 = (i + 2) + d /\ j + 2 <= Len(s)
        BY <1>1, <3>1, <3>3
      <3> QED BY <1>1, <3>3, <3>4
    <2> QED BY <2>1, <2>2
  <1> QED BY <1>3, <1>4 DEF WellFormed

\* A character begins a byte unless an escape goes on there.
LEMMA StartsAt ==
    ASSUME NEW s, NEW i, Len(s) \in Nat
    PROVE  i \in Starts(s) <=>
              /\ i \in 1..Len(s)
              /\ 1 < i => s[i - 1] # Percent
              /\ 2 < i => s[i - 2] # Percent
  <1>1. 1..2 = {1, 2}
    OBVIOUS
  <1> QED BY <1>1 DEF Starts

\* The starts behind a unit are those of the rest, moved.
LEMMA ShapeStarts ==
    ASSUME NEW s, NEW b, NEW r, NEW d, Shape(s, b, r, d)
    PROVE  /\ 1 \in Starts(s)
           /\ \A i \in Starts(r) : i + d \in Starts(s)
           /\ \A j \in Starts(s) : j # 1 => j - d \in Starts(r)
  <1>1. /\ Len(r) \in Nat /\ Len(s) = Len(r) + d /\ d \in {1, 3} /\ Len(s) \in Nat
        /\ \A i \in 1..Len(r) : s[i + d] = r[i]
    BY DEF Shape
  <1>2. s[d] # Percent /\ (d = 3 => s[1] = Percent /\ s[2] # Percent)
    BY Table DEF Shape
  <1>3. 1 \in Starts(s)
    BY <1>1, StartsAt
  <1>4. ASSUME NEW i \in Starts(r) PROVE i + d \in Starts(s)
    <2>1. /\ i \in 1..Len(r) /\ (1 < i => r[i - 1] # Percent) /\ (2 < i => r[i - 2] # Percent)
      BY <1>1, StartsAt
    <2>2. s[(i + d) - 1] # Percent
      <3>1. CASE i = 1
        BY <1>1, <1>2, <3>1
      <3>2. CASE i # 1
        <4>1. i - 1 \in 1..Len(r) /\ 1 < i /\ (i + d) - 1 = (i - 1) + d
          BY <1>1, <2>1, <3>2
        <4> QED BY <1>1, <2>1, <4>1
      <3> QED BY <3>1, <3>2
    <2>3. 2 < i + d => s[(i + d) - 2] # Percent
      <3>1. CASE i = 1 /\ d = 3
        BY <1>2, <3>1
      <3>2. CASE i = 1 /\ d = 1
        BY <3>2
      <3>3. CASE i = 2
        BY <1>1, <1>2, <3>3
      <3>4. CASE i # 1 /\ i # 2
        <4>1. i - 2 \in 1..Len(r) /\ 2 < i /\ (i + d) - 2 = (i - 2) + d
          BY <1>1, <2>1, <3>4
        <4> QED BY <1>1, <2>1, <4>1
      <3> QED BY <1>1, <3>1, <3>2, <3>3, <3>4
    <2>4. i + d \in 1..Len(s)
      BY <1>1, <2>1
    <2> QED BY <1>1, <2>2, <2>3, <2>4, StartsAt
  <1>5. ASSUME NEW j \in Starts(s), j # 1 PROVE j - d \in Starts(r)
    <2>1. /\ j \in 1..Len(s) /\ (1 < j => s[j - 1] # Percent) /\ (2 < j => s[j - 2] # Percent)
      BY <1>1, StartsAt
    <2> DEFINE i == j - d
    <2>2. i \in 1..Len(r) /\ i + d = j
      <3>1. d < j
        <4>1. CASE d = 1
          BY <1>5, <2>1, <4>1
        <4>2. CASE d = 3
          <5>1. j # 2
            BY <1>2, <2>1, <4>2
          <5>2. j # 3
            BY <1>2, <2>1, <4>2
          <5> QED BY <1>5, <2>1, <4>2, <5>1, <5>2
        <4> QED BY <1>1, <4>1, <4>2
      <3> QED BY <1>1, <2>1, <3>1
    <2> HIDE DEF i
    <2>3. ASSUME 1 < i PROVE r[i - 1] # Percent
      <3>1. i - 1 \in 1..Len(r) /\ (i - 1) + d = j - 1 /\ 1 < j
        BY <1>1, <2>2, <2>3
      <3> QED BY <1>1, <2>1, <3>1
    <2>4. ASSUME 2 < i PROVE r[i - 2] # Percent
      <3>1. i - 2 \in 1..Len(r) /\ (i - 2) + d = j - 2 /\ 2 < j
        BY <1>1, <2>2, <2>4
      <3> QED BY <1>1, <2>1, <3>1
    <2>5. i \in Starts(r)
      BY <1>1, <2>2, <2>3, <2>4, StartsAt
    <2> QED BY <2>5 DEF i
  <1> QED BY <1>3, <1>4, <1>5

\* The rank of a byte among those that begin in s.
Rank(s, i) == Cardinality({k \in Starts(s) : k <= i})

\* Starts can be counted.
LEMMA StartsFinite ==
    ASSUME NEW s, Len(s) \in Nat
    PROVE  /\ IsFiniteSet(Starts(s)) /\ Starts(s) \subseteq 1..Len(s)
           /\ Cardinality(Starts(s)) \in Nat
           /\ \A i \in Starts(s) : Rank(s, i) \in 1..Cardinality(Starts(s))
  <1>1. Starts(s) \subseteq 1..Len(s)
    BY DEF Starts
  <1>2. IsFiniteSet(1..Len(s))
    BY FS_Interval
  <1>3. IsFiniteSet(Starts(s))
    BY <1>1, <1>2, FS_Subset
  <1>4. Cardinality(Starts(s)) \in Nat
    BY <1>3, FS_CardinalityType
  <1>5. ASSUME NEW i \in Starts(s) PROVE Rank(s, i) \in 1..Cardinality(Starts(s))
    <2> DEFINE K == {k \in Starts(s) : k <= i}
    <2>1. K \subseteq Starts(s) /\ i \in K
      BY <1>1
    <2> HIDE DEF K
    <2>2. IsFiniteSet(K) /\ Cardinality(K) <= Cardinality(Starts(s))
      BY <1>3, <2>1, FS_Subset
    <2>3. Cardinality(K) \in Nat /\ Cardinality(K) # 0
      BY <2>1, <2>2, FS_CardinalityType, FS_EmptySet
    <2>4. Rank(s, i) = Cardinality(K)
      BY DEF Rank, K
    <2> QED BY <1>4, <2>2, <2>3, <2>4
  <1> QED BY <1>1, <1>3, <1>4, <1>5

\* Moving a finite set of numbers by d and adding 1 to it.
LEMMA ShiftedCount ==
    ASSUME NEW K, IsFiniteSet(K), K \subseteq Nat \ {0}, NEW d \in Nat \ {0}
    PROVE  Cardinality({1} \cup {k + d : k \in K}) = Cardinality(K) + 1
  <1> DEFINE T == {k + d : k \in K}
             f == [k \in K |-> k + d]
  <1>1. f \in Bijection(K, T)
    <2>1. f \in [K -> T]
      OBVIOUS
    <2>2. \A a, b \in K : f[a] = f[b] => a = b
      OBVIOUS
    <2>3. \A t \in T : \E a \in K : f[a] = t
      OBVIOUS
    <2>4. DOMAIN f = K
      OBVIOUS
    <2> HIDE DEF f, T
    <2> QED BY <2>1, <2>2, <2>3, <2>4 DEF Bijection, Injection, Surjection, IsInjective
  <1>2. ExistsBijection(K, T)
    BY <1>1 DEF ExistsBijection
  <1>3. 1 \notin T
    OBVIOUS
  <1> HIDE DEF T, f
  <1>4. IsFiniteSet(T) /\ Cardinality(T) = Cardinality(K)
    BY <1>2, FS_Bijection
  <1>5. Cardinality(T \cup {1}) = Cardinality(T) + 1
    BY <1>3, <1>4, FS_AddElement
  <1>6. {1} \cup T = T \cup {1}
    OBVIOUS
  <1> QED BY <1>4, <1>5, <1>6 DEF T

\* A unit before a text puts its byte before the bytes of the text.
LEMMA ShapeSpells ==
    ASSUME NEW s, NEW b, NEW r, NEW d, Shape(s, b, r, d), NEW v \in Seq(Bytes), Spells(r, v)
    PROVE  Spells(s, <<b>> \o v)
  <1>1. /\ Len(r) \in Nat /\ Len(s) = Len(r) + d /\ d \in {1, 3} /\ Len(s) \in Nat /\ b \in Bytes
        /\ \A i \in 1..Len(r) : s[i + d] = r[i]
    BY DEF Shape
  <1>2. WellFormed(r) /\ WellFormed(s) /\ Len(v) = Cardinality(Starts(r))
    BY ShapeWellFormed DEF Spells
  <1>3. \A i \in Starts(r) : v[Rank(r, i)] = ByteAt(r, i)
    BY DEF Spells, Rank
  <1>4. /\ Starts(r) \subseteq 1..Len(r) /\ IsFiniteSet(Starts(r))
        /\ Starts(s) \subseteq 1..Len(s)
        /\ \A i \in Starts(r) : Rank(r, i) \in 1..Len(v)
    BY <1>1, <1>2, StartsFinite
  <1>5. /\ 1 \in Starts(s) /\ \A i \in Starts(r) : i + d \in Starts(s)
        /\ \A j \in Starts(s) : j # 1 => j - d \in Starts(r)
    BY ShapeStarts
  <1>6. /\ Len(<<b>> \o v) = Len(v) + 1 /\ (<<b>> \o v)[1] = b
        /\ \A i \in 1..Len(v) : (<<b>> \o v)[i + 1] = v[i]
    BY <1>1, ConsSeq
  <1>7. \A i \in Starts(r) : i \in Nat \ {0}
    BY <1>1, <1>4
  <1>8. \A j \in Starts(s) : j \in Nat \ {0}
    BY <1>1, <1>4
  <1>9. Cardinality(Starts(s)) = Len(v) + 1
    <2>1. Starts(s) = {1} \cup {k + d : k \in Starts(r)}
      <3>1. ASSUME NEW j \in Starts(s) PROVE j \in {1} \cup {k + d : k \in Starts(r)}
        <4>1. j = (j - d) + d
          BY <1>1, <1>8
        <4> QED BY <1>5, <4>1
      <3> QED BY <1>5, <3>1
    <2>2. Cardinality({1} \cup {k + d : k \in Starts(r)}) = Cardinality(Starts(r)) + 1
      <3>1. Starts(r) \subseteq Nat \ {0} /\ d \in Nat \ {0}
        BY <1>1, <1>7
      <3> QED BY <1>4, <3>1, ShiftedCount
    <2> QED BY <1>2, <2>1, <2>2
  <1>10. ASSUME NEW i \in Starts(r)
         PROVE  Rank(s, i + d) = Rank(r, i) + 1 /\ ByteAt(s, i + d) = ByteAt(r, i)
    <2> DEFINE K == {k \in Starts(r) : k <= i}
    <2>1. {k \in Starts(s) : k <= i + d} = {1} \cup {k + d : k \in K}
      <3>1. ASSUME NEW j \in Starts(s), j <= i + d PROVE j \in {1} \cup {k + d : k \in K}
        <4>1. CASE j = 1
          BY <4>1
        <4>2. CASE j # 1
          <5>1. j - d \in Starts(r)
            BY <1>5, <4>2
          <5>2. j = (j - d) + d /\ j - d <= i
            BY <1>1, <1>7, <1>8, <3>1
          <5> QED BY <5>1, <5>2
        <4> QED BY <4>1, <4>2
      <3>2. ASSUME NEW k \in K PROVE k + d \in Starts(s) /\ k + d <= i + d
        <4>1. k \in Starts(r) /\ k <= i
          OBVIOUS
        <4>2. k + d <= i + d
          BY <1>1, <1>7, <4>1
        <4> QED BY <1>5, <4>1, <4>2
      <3>3. 1 \in Starts(s) /\ 1 <= i + d
        BY <1>1, <1>5, <1>7
      <3> QED BY <3>1, <3>2, <3>3
    <2>2. K \subseteq Starts(r)
      OBVIOUS
    <2>3. Rank(r, i) = Cardinality(K)
      BY DEF Rank
    <2>4. Rank(s, i + d) = Cardinality({1} \cup {k + d : k \in K})
      <3> HIDE DEF K
      <3> QED BY <2>1 DEF Rank
    <2> HIDE DEF K
    <2>5. IsFiniteSet(K) /\ K \subseteq Nat \ {0} /\ d \in Nat \ {0}
      BY <1>1, <1>4, <1>7, <2>2, FS_Subset
    <2>6. Rank(s, i + d) = Rank(r, i) + 1
      BY <2>3, <2>4, <2>5, ShiftedCount
    <2>7. ByteAt(s, i + d) = ByteAt(r, i)
      <3>1. i \in 1..Len(r) /\ s[i + d] = r[i]
        BY <1>1, <1>4
      <3>2. CASE r[i] # Percent
        BY <3>1, <3>2 DEF ByteAt
      <3>3. CASE r[i] = Percent
        <4>1. i + 2 <= Len(r)
          BY <1>2, <3>1, <3>3 DEF WellFormed
        <4>2. /\ i + 1 \in 1..Len(r) /\ i + 2 \in 1..Len(r)
              /\ (i + d) + 1 = (i + 1) + d /\ (i + d) + 2 = (i + 2) + d
          BY <1>1, <3>1, <4>1
        <4>3. s[(i + d) + 1] = r[i + 1] /\ s[(i + d) + 2] = r[i + 2]
          BY <1>1, <4>2
        <4> QED BY <3>1, <3>3, <4>3 DEF ByteAt
      <3> QED BY <3>2, <3>3
    <2> QED BY <2>6, <2>7
  <1>11. Rank(s, 1) = 1 /\ ByteAt(s, 1) = b
    <2>1. {k \in Starts(s) : k <= 1} = {1}
      BY <1>5, <1>8
    <2>2. Cardinality({1}) = 1
      BY FS_Singleton
    <2>3. ByteAt(s, 1) = b
      BY DEF Shape, ByteAt
    <2> QED BY <2>1, <2>2, <2>3 DEF Rank
  <1>12. ASSUME NEW j \in Starts(s) PROVE (<<b>> \o v)[Rank(s, j)] = ByteAt(s, j)
    <2>1. CASE j = 1
      BY <1>6, <1>11, <2>1
    <2>2. CASE j # 1
      <3> DEFINE i == j - d
      <3>1. i \in Starts(r) /\ j = i + d
        BY <1>1, <1>5, <1>8, <2>2
      <3> HIDE DEF i
      <3>2. (<<b>> \o v)[Rank(r, i) + 1] = v[Rank(r, i)]
        BY <1>4, <1>6, <3>1
      <3> QED BY <1>3, <1>10, <3>1, <3>2
    <2> QED BY <2>1, <2>2
  <1> QED BY <1>2, <1>6, <1>9, <1>12 DEF Spells, Rank

\* A byte of s, other than a digit, whether or not it is written as an escape.
Holds(s, v) == \E i \in 1..Len(s) : ByteAt(s, i) = v

\* So it does for the characters that the text holds.
LEMMA ShapeHolds ==
    ASSUME NEW s, NEW b, NEW r, NEW d, Shape(s, b, r, d), WellFormed(r),
           NEW v, v \notin DigitChars
    PROVE  Holds(s, v) <=> b = v \/ Holds(r, v)
  <1>1. /\ Len(r) \in Nat /\ Len(s) = Len(r) + d /\ d \in {1, 3} /\ Len(s) \in Nat
        /\ \A i \in 1..Len(r) : s[i + d] = r[i]
    BY DEF Shape
  <1>2. ASSUME NEW i \in 1..Len(r) PROVE ByteAt(s, i + d) = ByteAt(r, i)
    <2>1. s[i + d] = r[i]
      BY <1>1
    <2>2. CASE r[i] # Percent
      BY <2>1, <2>2 DEF ByteAt
    <2>3. CASE r[i] = Percent
      <3>1. i + 2 <= Len(r)
        BY <2>3 DEF WellFormed
      <3>2. /\ i + 1 \in 1..Len(r) /\ i + 2 \in 1..Len(r)
            /\ (i + d) + 1 = (i + 1) + d /\ (i + d) + 2 = (i + 2) + d
        BY <1>1, <3>1
      <3>3. s[(i + d) + 1] = r[i + 1] /\ s[(i + d) + 2] = r[i + 2]
        BY <1>1, <3>2
      <3> QED BY <2>1, <2>3, <3>3 DEF ByteAt
    <2> QED BY <2>2, <2>3
  <1>3. ByteAt(s, 1) = b /\ 1 \in 1..Len(s)
    BY <1>1 DEF Shape, ByteAt
  <1>4. ASSUME NEW j \in 1..Len(s), ByteAt(s, j) = v PROVE b = v \/ Holds(r, v)
    <2>1. CASE j = 1
      BY <1>3, <1>4, <2>1
    <2>2. CASE j # 1 /\ j <= d
      <3>1. d = 3 /\ j \in {2, 3}
        BY <1>1, <2>2
      <3>2. s[2] \in DigitChars /\ s[3] \in DigitChars
        BY <3>1 DEF Shape
      <3>3. s[j] \in DigitChars /\ s[j] # Percent
        BY <3>1, <3>2, Table
      <3> QED BY <1>4, <3>3 DEF ByteAt
    <2>3. CASE ~(j <= d)
      <3>1. j - d \in 1..Len(r) /\ (j - d) + d = j
        BY <1>1, <2>3
      <3>2. ByteAt(r, j - d) = v
        BY <1>2, <1>4, <3>1
      <3> QED BY <3>1, <3>2 DEF Holds
    <2> QED BY <2>1, <2>2, <2>3
  <1>5. ASSUME NEW i \in 1..Len(r), ByteAt(r, i) = v PROVE Holds(s, v)
    <2>1. i + d \in 1..Len(s) /\ ByteAt(s, i + d) = v
      BY <1>1, <1>2, <1>5
    <2> QED BY <2>1 DEF Holds
  <1>6. b = v => Holds(s, v)
    BY <1>3 DEF Holds
  <1> QED BY <1>4, <1>5, <1>6 DEF Holds

\* What a sequence with one element before it contains.
LEMMA ContainsCons ==
    ASSUME NEW S, NEW b \in S, NEW w \in Seq(S), NEW v
    PROVE  Contains(<<b>> \o w, v) <=> b = v \/ Contains(w, v)
  <1> DEFINE s == <<b>> \o w
  <1>1. /\ Len(w) \in Nat /\ Len(s) = Len(w) + 1 /\ s[1] = b
        /\ \A i \in 1..Len(w) : s[i + 1] = w[i]
    BY ConsSeq, LenProperties
  <1> HIDE DEF s
  <1>2. ASSUME NEW j \in 1..Len(s), s[j] = v PROVE b = v \/ Contains(w, v)
    <2>1. CASE j = 1
      BY <1>1, <1>2, <2>1
    <2>2. CASE j # 1
      <3>1. j - 1 \in 1..Len(w) /\ (j - 1) + 1 = j
        BY <1>1, <2>2
      <3>2. w[j - 1] = v
        BY <1>1, <1>2, <3>1
      <3> QED BY <3>1, <3>2 DEF Contains
    <2> QED BY <2>1, <2>2
  <1>3. ASSUME NEW i \in 1..Len(w), w[i] = v PROVE Contains(s, v)
    <2>1. i + 1 \in 1..Len(s) /\ s[i + 1] = v
      BY <1>1, <1>3
    <2> QED BY <2>1 DEF Contains
  <1>4. b = v => Contains(s, v)
    <2>1. 1 \in 1..Len(s)
      BY <1>1
    <2> QED BY <1>1, <2>1 DEF Contains
  <1>5. Contains(s, v) => b = v \/ Contains(w, v)
    BY <1>2 DEF Contains
  <1>6. Contains(w, v) => Contains(s, v)
    BY <1>3 DEF Contains
  <1> QED BY <1>4, <1>5, <1>6 DEF s

\* A text begins with a unit, or with a percent sign that begins none.
LEMMA UnitAtHead ==
    ASSUME NEW s \in Seq(Bytes), s # <<>>
    PROVE  \/ \E a, b : Unit(a, b) /\ \E r \in Seq(Bytes) : s = a \o r /\ Len(r) < Len(s)
           \/ s[1] = Percent /\ ~EscapeAt(s)
  <1>1. CASE EscapeAt(s)
    <2>1. Len(s) > 2 /\ s[1] = Percent /\ s[2] \in DigitChars /\ s[3] \in DigitChars
      BY <1>1 DEF EscapeAt
    <2>2. PICK r \in Seq(Bytes) : s = <<s[1], s[2], s[3]>> \o r /\ Len(r) < Len(s)
      BY <2>1, FirstThree
    <2> DEFINE a == <<s[1], s[2], s[3]>>
               b == <<HexValue[s[2]], HexValue[s[3]]>>
    <2>3. a \in Seq(Bytes) /\ b \in Bytes
      <3>1. s[1] \in Bytes /\ s[2] \in Bytes /\ s[3] \in Bytes
        BY <2>1, Table
      <3> QED BY <2>1, <3>1, Table
    <2>4. Unit(a, b)
      BY <2>1, <2>3 DEF Unit
    <2> QED BY <2>2, <2>4
  <1>2. CASE s[1] # Percent
    <2>1. PICK x \in Bytes, r \in Seq(Bytes) : s = <<x>> \o r /\ Len(r) < Len(s)
      BY HeadAndRest
    <2>2. s[1] = x /\ <<x>> \in Seq(Bytes)
      BY <2>1, ConsSeq
    <2>3. Unit(<<x>>, x)
      BY <1>2, <2>2 DEF Unit
    <2> QED BY <2>1, <2>3
  <1> QED BY <1>1, <1>2

\* What decode_uri_bytes makes of a component: it gives up on malformed
\* escapes alone, and otherwise finds the bytes that the component spells.
Decoded(s) ==
    /\ WellFormed(s) <=> ~Contains(Unescape[s], Err)
    /\ WellFormed(s) =>
          /\ Unescape[s] \in Seq(Bytes) /\ Spells(s, Unescape[s])
          /\ \A v : v \notin DigitChars => (Holds(s, v) <=> Contains(Unescape[s], v))

\* This holds of every component.
LEMMA Unescaped == \A s \in Seq(Bytes) : Decoded(s)
  <1> DEFINE G == {s \in Seq(Bytes) : Decoded(s)}
  <1>1. ASSUME NEW s \in Seq(Bytes), \A r \in Seq(Bytes) : Len(r) < Len(s) => r \in G
        PROVE  s \in G
    <2>1. CASE s = <<>>
      <3>1. Len(s) = 0 /\ 1..Len(s) = {} /\ <<>> \in Seq(Bytes)
        BY <2>1, EmptySeq
      <3>2. Starts(s) = {} /\ WellFormed(s) /\ \A v : ~Holds(s, v) /\ ~Contains(s, v)
        BY <3>1 DEF Starts, WellFormed, Holds, Contains
      <3>3. Spells(s, s)
        BY <3>1, <3>2, FS_EmptySet DEF Spells
      <3>4. Unescape[s] = s
        BY <2>1, UnescapeTurns
      <3> QED BY <2>1, <3>1, <3>2, <3>3, <3>4 DEF Decoded
    <2>2. ASSUME NEW a, NEW b, Unit(a, b), NEW r \in Seq(Bytes), s = a \o r, Len(r) < Len(s)
          PROVE  Decoded(s)
      <3>1. Decoded(r)
        BY <1>1, <2>2
      <3>2. Shape(s, b, r, Len(a)) /\ Unescape[s] = <<b>> \o Unescape[r] /\ b \in Bytes
        BY <2>2, UnitShape DEF Unit
      <3>3. WellFormed(s) <=> WellFormed(r)
        BY <3>2, ShapeWellFormed
      <3> DEFINE w == Unescape[r]
      <3>4. w \in Seq(Bytes \cup {Err})
        BY UnescapeTurns
      <3> HIDE DEF w
      <3>5. \A v : Contains(<<b>> \o w, v) <=> b = v \/ Contains(w, v)
        <4>1. b \in Bytes \cup {Err}
          BY <3>2
        <4> QED BY <3>4, <4>1, ContainsCons
      <3>6. b # Err
        BY <3>2, Table
      <3>7. WellFormed(s) <=> ~Contains(Unescape[s], Err)
        BY <3>1, <3>2, <3>3, <3>5, <3>6 DEF Decoded, w
      <3>8. ASSUME WellFormed(r)
            PROVE  /\ <<b>> \o w \in Seq(Bytes) /\ Spells(s, <<b>> \o w)
                   /\ \A v : v \notin DigitChars => (Holds(s, v) <=> Contains(<<b>> \o w, v))
        <4>1. w \in Seq(Bytes) /\ Spells(r, w)
          BY <3>1, <3>8 DEF Decoded, w
        <4>2. \A v : v \notin DigitChars => (Holds(r, v) <=> Contains(w, v))
          BY <3>1, <3>8 DEF Decoded, w
        <4>3. \A v : v \notin DigitChars => (Holds(s, v) <=> b = v \/ Holds(r, v))
          BY <3>2, <3>8, ShapeHolds
        <4>4. <<b>> \o w \in Seq(Bytes)
          BY <3>2, <4>1, ConsSeq
        <4>5. Spells(s, <<b>> \o w)
          BY <3>2, <4>1, ShapeSpells
        <4> QED BY <3>5, <4>2, <4>3, <4>4, <4>5
      <3> QED BY <3>2, <3>3, <3>7, <3>8 DEF Decoded, w
    <2>3. CASE s # <<>> /\ s[1] = Percent /\ ~EscapeAt(s)
      <3>1. Contains(Unescape[s], Err)
        BY <2>3, UnescapeTurns
      <3>2. Len(s) \in Nat \ {0}
        BY <2>3, EmptySeq
      <3>3. ~WellFormed(s)
        <4>1. 1 \in 1..Len(s) /\ 1 + 1 = 2 /\ 1 + 2 = 3 /\ (3 <= Len(s) => Len(s) > 2)
          BY <3>2
        <4> QED BY <2>3, <4>1 DEF WellFormed, EscapeAt
      <3> QED BY <3>1, <3>3 DEF Decoded
    <2>4. CASE s # <<>>
      BY <2>2, <2>3, <2>4, UnitAtHead
    <2> QED BY <2>1, <2>4
  <1> HIDE DEF G
  <1>2. \A s \in Seq(Bytes) : s \in G
    BY <1>1, ByLength
  <1> QED BY <1>2 DEF G

\* A text made of units is unescaped unit by unit.
Units(e, X) == X \subseteq Bytes /\ \A b \in X : Unit(e[b], b)
ByUnits(f, X) == \A h \in Seq(X), r \in Seq(Bytes) : Unescape[f[h] \o r] = h \o Unescape[r]

\* When each byte of X has a unit, the text made of them is unescaped to them.
LEMMA UnitsUnescape ==
    ASSUME NEW S, NEW X, NEW f, NEW e, S \subseteq Bytes, Units(e, X), Morphism(f, e, S, X)
    PROVE  ByUnits(f, X)
  <1> DEFINE G == {h \in Seq(X) : \A r \in Seq(Bytes) : Unescape[f[h] \o r] = h \o Unescape[r]}
  <1>1. ASSUME NEW h \in Seq(X), \A t \in Seq(X) : Len(t) < Len(h) => t \in G PROVE h \in G
    <2> SUFFICES ASSUME NEW r \in Seq(Bytes) PROVE Unescape[f[h] \o r] = h \o Unescape[r]
      OBVIOUS
    <2>0. Associative(Bytes) /\ Associative(Bytes \cup {Err})
      BY Regroup
    <2> DEFINE w == Unescape[r]
    <2>1. w \in Seq(Bytes \cup {Err})
      BY UnescapeTurns
    <2> HIDE DEF w
    <2>2. CASE h = <<>>
      <3>1. f[h] = <<>>
        BY <2>2 DEF Morphism
      <3>2. <<>> \o r = r /\ <<>> \o w = w
        BY <2>1, ConcatEmptySeq
      <3> QED BY <2>2, <3>1, <3>2 DEF w
    <2>3. CASE h # <<>>
      <3>1. PICK b \in X, t \in Seq(X) : h = <<b>> \o t /\ Len(t) < Len(h)
        BY <2>3, HeadAndRest
      <3>2. f[h] = e[b] \o f[t] /\ f[t] \in Seq(S)
        BY <3>1 DEF Morphism
      <3>3. f[t] \in Seq(Bytes) /\ t \in Seq(Bytes \cup {Err})
        BY <3>2, SeqMonotonic DEF Units
      <3>4. Unit(e[b], b) /\ e[b] \in Seq(Bytes) /\ b \in Bytes
        BY DEF Unit, Units
      <3>5. f[h] \o r = e[b] \o (f[t] \o r) /\ f[t] \o r \in Seq(Bytes)
        <4>1. (e[b] \o f[t]) \o r = e[b] \o (f[t] \o r)
          BY <2>0, <3>3, <3>4 DEF Associative
        <4>2. f[t] \o r \in Seq(Bytes)
          BY <3>3, ConcatProperties
        <4> QED BY <3>2, <4>1, <4>2
      <3>6. Unescape[e[b] \o (f[t] \o r)] = <<b>> \o Unescape[f[t] \o r]
        BY <3>4, <3>5, UnitShape
      <3>7. Unescape[f[t] \o r] = t \o w
        BY <1>1, <3>1 DEF w
      <3>8. <<b>> \o (t \o w) = (<<b>> \o t) \o w
        <4>1. <<b>> \in Seq(Bytes \cup {Err})
          BY <3>4
        <4> QED BY <2>0, <2>1, <3>3, <4>1 DEF Associative
      <3> QED BY <3>1, <3>5, <3>6, <3>7, <3>8 DEF w
    <2> QED BY <2>2, <2>3
  <1> HIDE DEF G
  <1>2. \A h \in Seq(X) : h \in G
    BY <1>1, ByLength
  <1> QED BY <1>2 DEF G, ByUnits

(***************************************************************************)
(* The images that the codec is made of.                                   *)
(***************************************************************************)

AllEscapes == [t \in Seq(Bytes) |-> Escapes(t)]
AllBytes == [t \in Seq(Scalars) |-> AsBytes(t)]
AllUris == [t \in Seq(Bytes) |-> UriOf(t)]
UriChars == Ascii \ {Slash}
EscapeChars == DigitChars \cup {Percent}

\* Escapes and canonical URIs are ASCII.
LEMMA EscapeCharsAscii ==
  /\ EscapeChars \subseteq UriChars /\ UriChars \subseteq Ascii
  /\ Slash \notin EscapeChars /\ Backslash \notin EscapeChars
  BY Table, UriAssumption DEF EscapeChars, UriChars

\* Each of the codec's texts is a concatenation of images.
LEMMA Images ==
  /\ Morphism(AllEscapes, [b \in Bytes |-> Escaped(b)], EscapeChars, Bytes)
  /\ Morphism(AllBytes, [c \in Scalars |-> Utf8(c)], Bytes, Scalars)
  /\ Morphism(AllUris, [b \in Bytes |-> UriByte(b)], UriChars, Bytes)
  <1>1. \A b \in Bytes : Escaped(b) \in Seq(EscapeChars)
    <2> SUFFICES ASSUME NEW b \in Bytes PROVE Escaped(b) \in Seq(EscapeChars)
      OBVIOUS
    <2>1. b[1] \in Halves /\ b[2] \in Halves
      BY Table
    <2>2. HexDigit[b[1]] \in EscapeChars /\ HexDigit[b[2]] \in EscapeChars /\ Percent \in EscapeChars
      BY <2>1, Table DEF EscapeChars
    <2> QED BY <2>2 DEF Escaped
  <1>2. \A c \in Scalars : Utf8(c) \in Seq(Bytes)
    <2> SUFFICES ASSUME NEW c \in Scalars PROVE Utf8(c) \in Seq(Bytes)
      OBVIOUS
    <2>1. CASE c \in Wide
      <3>1. Encoding[c] \in Seq(Bytes \ Ascii)
        BY <2>1, UriAssumption
      <3>2. Encoding[c] \in Seq(Bytes)
        BY <3>1, SeqMonotonic
      <3> QED BY <2>1, <3>2 DEF Utf8
    <2>2. CASE c \notin Wide
      <3>1. c \in Bytes
        BY <2>2, Table DEF Scalars
      <3> QED BY <2>2, <3>1 DEF Utf8
    <2> QED BY <2>1, <2>2
  <1>3. \A b \in Bytes : UriByte(b) \in Seq(UriChars)
    <2> SUFFICES ASSUME NEW b \in Bytes PROVE UriByte(b) \in Seq(UriChars)
      OBVIOUS
    <2>1. CASE b \in Pchars
      <3>1. b \in UriChars
        BY <2>1, UriAssumption DEF UriChars
      <3> QED BY <2>1, <3>1 DEF UriByte
    <2>2. CASE b \notin Pchars
      <3>1. Escaped(b) \in Seq(EscapeChars)
        BY <1>1
      <3>2. Escaped(b) \in Seq(UriChars)
        BY <3>1, EscapeCharsAscii, SeqMonotonic
      <3> QED BY <2>2, <3>2 DEF UriByte
    <2> QED BY <2>1, <2>2
  <1>4. Morphism(AllEscapes, [b \in Bytes |-> Escaped(b)], EscapeChars, Bytes)
    <2> DEFINE e == [b \in Bytes |-> Escaped(b)]
    <2>1. e \in [Bytes -> Seq(EscapeChars)]
      BY <1>1
    <2>2. AllEscapes = [t \in Seq(Bytes) |-> FlattenSeq(Mapped(e, t))]
      <3>1. \A t \in Seq(Bytes) : Mapped(e, t) = [i \in 1..Len(t) |-> Escaped(t[i])]
        BY ElementOfSeq DEF Mapped
      <3> HIDE DEF e
      <3> QED BY <3>1 DEF AllEscapes, Escapes
    <2> HIDE DEF e
    <2>3. Morphism(AllEscapes, e, EscapeChars, Bytes)
      BY <2>1, <2>2, FlattenMap
    <2> QED BY <2>3 DEF e
  <1>5. Morphism(AllBytes, [c \in Scalars |-> Utf8(c)], Bytes, Scalars)
    <2> DEFINE e == [c \in Scalars |-> Utf8(c)]
    <2>1. e \in [Scalars -> Seq(Bytes)]
      BY <1>2
    <2>2. AllBytes = [t \in Seq(Scalars) |-> FlattenSeq(Mapped(e, t))]
      <3>1. \A t \in Seq(Scalars) : Mapped(e, t) = [i \in 1..Len(t) |-> Utf8(t[i])]
        BY ElementOfSeq DEF Mapped
      <3> HIDE DEF e
      <3> QED BY <3>1 DEF AllBytes, AsBytes
    <2> HIDE DEF e
    <2>3. Morphism(AllBytes, e, Bytes, Scalars)
      BY <2>1, <2>2, FlattenMap
    <2> QED BY <2>3 DEF e
  <1>6. Morphism(AllUris, [b \in Bytes |-> UriByte(b)], UriChars, Bytes)
    <2> DEFINE e == [b \in Bytes |-> UriByte(b)]
    <2>1. e \in [Bytes -> Seq(UriChars)]
      BY <1>3
    <2>2. AllUris = [t \in Seq(Bytes) |-> FlattenSeq(Mapped(e, t))]
      <3>1. \A t \in Seq(Bytes) : Mapped(e, t) = [i \in 1..Len(t) |-> UriByte(t[i])]
        BY ElementOfSeq DEF Mapped
      <3> HIDE DEF e
      <3> QED BY <3>1 DEF AllUris, UriOf
    <2> HIDE DEF e
    <2>3. Morphism(AllUris, e, UriChars, Bytes)
      BY <2>1, <2>2, FlattenMap
    <2> QED BY <2>3 DEF e
  <1> QED BY <1>4, <1>5, <1>6

\* The same, operator by operator.
LEMMA EscapesLaws ==
  /\ Escapes(<<>>) = <<>> /\ \A t \in Seq(Bytes) : Escapes(t) \in Seq(EscapeChars)
  /\ \A b \in Bytes, t \in Seq(Bytes) : Escapes(<<b>> \o t) = Escaped(b) \o Escapes(t)
  /\ \A t, u \in Seq(Bytes) : Escapes(t \o u) = Escapes(t) \o Escapes(u)
  <1>1. Morphism(AllEscapes, [b \in Bytes |-> Escaped(b)], EscapeChars, Bytes)
    BY Images
  <1>2. <<>> \in Seq(Bytes) /\ \A b \in Bytes, t \in Seq(Bytes) : <<b>> \o t \in Seq(Bytes)
    BY EmptySeq, ConsSeq
  <1>3. \A t, u \in Seq(Bytes) : t \o u \in Seq(Bytes)
    BY ConcatProperties
  <1> QED BY <1>1, <1>2, <1>3 DEF Morphism, AllEscapes

\* AsBytes, scalar by scalar.
LEMMA AsBytesLaws ==
  /\ AsBytes(<<>>) = <<>> /\ \A t \in Seq(Scalars) : AsBytes(t) \in Seq(Bytes)
  /\ \A c \in Scalars, t \in Seq(Scalars) : AsBytes(<<c>> \o t) = Utf8(c) \o AsBytes(t)
  /\ \A t, u \in Seq(Scalars) : AsBytes(t \o u) = AsBytes(t) \o AsBytes(u)
  <1>1. Morphism(AllBytes, [c \in Scalars |-> Utf8(c)], Bytes, Scalars)
    BY Images
  <1>2. <<>> \in Seq(Scalars) /\ \A b \in Scalars, t \in Seq(Scalars) : <<b>> \o t \in Seq(Scalars)
    BY EmptySeq, ConsSeq
  <1>3. \A t, u \in Seq(Scalars) : t \o u \in Seq(Scalars)
    BY ConcatProperties
  <1> QED BY <1>1, <1>2, <1>3 DEF Morphism, AllBytes

\* UriOf, byte by byte.
LEMMA UriOfLaws ==
  /\ UriOf(<<>>) = <<>> /\ \A t \in Seq(Bytes) : UriOf(t) \in Seq(UriChars)
  /\ \A b \in Bytes, t \in Seq(Bytes) : UriOf(<<b>> \o t) = UriByte(b) \o UriOf(t)
  /\ \A t, u \in Seq(Bytes) : UriOf(t \o u) = UriOf(t) \o UriOf(u)
  <1>1. Morphism(AllUris, [b \in Bytes |-> UriByte(b)], UriChars, Bytes)
    BY Images
  <1>2. <<>> \in Seq(Bytes) /\ \A b \in Bytes, t \in Seq(Bytes) : <<b>> \o t \in Seq(Bytes)
    BY EmptySeq, ConsSeq
  <1>3. \A t, u \in Seq(Bytes) : t \o u \in Seq(Bytes)
    BY ConcatProperties
  <1> QED BY <1>1, <1>2, <1>3 DEF Morphism, AllUris

\* ASCII text is its own bytes.
LEMMA AsciiText == \A t \in Seq(Ascii) : AsBytes(t) = t
  <1> DEFINE G == {t \in Seq(Ascii) : AsBytes(t) = t}
  <1>1. ASSUME NEW t \in Seq(Ascii), \A r \in Seq(Ascii) : Len(r) < Len(t) => r \in G PROVE t \in G
    <2>1. CASE t = <<>>
      BY <2>1, AsBytesLaws
    <2>2. CASE t # <<>>
      <3>1. PICK x \in Ascii, r \in Seq(Ascii) : t = <<x>> \o r /\ Len(r) < Len(t)
        BY <2>2, HeadAndRest
      <3>2. r \in Seq(Scalars) /\ x \in Scalars /\ x \notin Wide
        BY Table, UriAssumption, SeqMonotonic
      <3>3. AsBytes(t) = Utf8(x) \o AsBytes(r) /\ Utf8(x) = <<x>>
        BY <3>1, <3>2, AsBytesLaws DEF Utf8
      <3>4. AsBytes(r) = r
        BY <1>1, <3>1
      <3> QED BY <3>1, <3>3, <3>4
    <2> QED BY <2>1, <2>2
  <1> HIDE DEF G
  <1>2. \A t \in Seq(Ascii) : t \in G
    BY <1>1, ByLength
  <1> QED BY <1>2 DEF G

\* Unescaping undoes escapes and canonical URIs, and leaves what has no percent sign.
LEMMA UnescapeImages ==
  /\ \A h, r \in Seq(Bytes) : Unescape[Escapes(h) \o r] = h \o Unescape[r]
  /\ \A h, r \in Seq(Bytes) : Unescape[UriOf(h) \o r] = h \o Unescape[r]
  /\ \A h \in Seq(Bytes \ {Percent}), r \in Seq(Bytes) : Unescape[h \o r] = h \o Unescape[r]
  <1>0. UriChars \subseteq Bytes /\ EscapeChars \subseteq Bytes
    BY Table, EscapeCharsAscii DEF UriChars
  <1>1. \A b \in Bytes : Unit(Escaped(b), b)
    <2> SUFFICES ASSUME NEW b \in Bytes PROVE Unit(Escaped(b), b)
      OBVIOUS
    <2> DEFINE h == HexDigit[b[1]]
               l == HexDigit[b[2]]
    <2>1. h \in DigitChars /\ l \in DigitChars /\ b = <<HexValue[h], HexValue[l]>>
      BY Table
    <2>2. h \in Bytes /\ l \in Bytes /\ Percent \in Bytes /\ Escaped(b) = <<Percent, h, l>>
      BY <2>1, Table DEF Escaped
    <2> HIDE DEF h, l
    <2>3. <<Percent, h, l>> \in Seq(Bytes)
      BY <2>2
    <2> QED BY <2>1, <2>2, <2>3 DEF Unit
  <1>2. \A b \in Bytes \ {Percent} : Unit(<<b>>, b)
    BY DEF Unit
  <1>3. \A b \in Bytes : Unit(UriByte(b), b)
    BY <1>1, <1>2, UriAssumption DEF UriByte
  <1>4. \A h, r \in Seq(Bytes) : Unescape[Escapes(h) \o r] = h \o Unescape[r]
    <2> DEFINE e == [b \in Bytes |-> Escaped(b)]
    <2>1. Units(e, Bytes)
      BY <1>1 DEF Units
    <2>2. Morphism(AllEscapes, e, EscapeChars, Bytes)
      BY Images
    <2> HIDE DEF e
    <2>3. ByUnits(AllEscapes, Bytes)
      BY <1>0, <2>1, <2>2, UnitsUnescape
    <2> QED BY <2>3 DEF AllEscapes, ByUnits
  <1>5. \A h, r \in Seq(Bytes) : Unescape[UriOf(h) \o r] = h \o Unescape[r]
    <2> DEFINE e == [b \in Bytes |-> UriByte(b)]
    <2>1. Units(e, Bytes)
      BY <1>3 DEF Units
    <2>2. Morphism(AllUris, e, UriChars, Bytes)
      BY Images
    <2> HIDE DEF e
    <2>3. ByUnits(AllUris, Bytes)
      BY <1>0, <2>1, <2>2, UnitsUnescape
    <2> QED BY <2>3 DEF AllUris, ByUnits
  <1>6. \A h \in Seq(Bytes \ {Percent}), r \in Seq(Bytes) : Unescape[h \o r] = h \o Unescape[r]
    <2> DEFINE X == Bytes \ {Percent}
               e == [b \in X |-> <<b>>]
               f == [t \in Seq(X) |-> t]
    <2>1. Units(e, X)
      BY <1>2 DEF Units
    <2>2. Morphism(f, e, X, X)
      <3>1. <<>> \in Seq(X) /\ \A b \in X, t \in Seq(X) : <<b>> \o t \in Seq(X)
        BY EmptySeq, ConsSeq
      <3>2. \A t, u \in Seq(X) : t \o u \in Seq(X)
        BY ConcatProperties
      <3> QED BY <3>1, <3>2 DEF Morphism
    <2>3. X \subseteq Bytes
      OBVIOUS
    <2> HIDE DEF e, f, X
    <2>4. ByUnits(f, X)
      BY <2>1, <2>2, <2>3, UnitsUnescape
    <2>5. \A h \in Seq(X) : f[h] = h
      BY DEF f
    <2> QED BY <2>4, <2>5 DEF X, ByUnits
  <1> QED BY <1>4, <1>5, <1>6

\* The canonical URI of a component spells its bytes.
LEMMA UriOfUnescapes ==
    ASSUME NEW bs \in Seq(Bytes)
    PROVE  UriOf(bs) \in Seq(Scalars \ {Slash}) /\ Unescape[AsBytes(UriOf(bs))] = bs
  <1>1. UriOf(bs) \in Seq(UriChars)
    BY UriOfLaws
  <1>2. UriChars \subseteq Ascii /\ UriChars \subseteq Bytes /\ UriChars \subseteq Scalars \ {Slash}
    BY Table DEF UriChars
  <1>3. UriOf(bs) \in Seq(Ascii) /\ UriOf(bs) \in Seq(Bytes) /\ UriOf(bs) \in Seq(Scalars \ {Slash})
    BY <1>1, <1>2, SeqMonotonic
  <1>4. AsBytes(UriOf(bs)) = UriOf(bs)
    BY <1>3, AsciiText
  <1>5. <<>> \in Seq(Bytes) /\ Unescape[<<>>] = <<>>
    BY EmptySeq, UnescapeTurns
  <1>6. Unescape[UriOf(bs) \o <<>>] = bs \o <<>>
    BY <1>5, UnescapeImages
  <1>7. UriOf(bs) \o <<>> = UriOf(bs) /\ bs \o <<>> = bs
    BY <1>3, ConcatEmptySeq
  <1> QED BY <1>3, <1>4, <1>6, <1>7

(***************************************************************************)
(* The canonical form of bytes.                                            *)
(***************************************************************************)

\* The bytes that are escaped in it are neither pchars nor separators.
Rough == Bytes \ (Pchars \cup {Slash, Backslash})

\* p is a scalar that stands for itself, or the escapes of h.
Kept(p, h) ==
    \/ \E c \in Scalars \ ({Percent} \cup Controls) : p = <<c>> /\ h = Utf8(c)
    \/ h \in Seq(Rough) /\ p = Escapes(h)

\* What std::str promises of the encoding of a scalar.
LEMMA Utf8Laws ==
    ASSUME NEW c \in Scalars
    PROVE  /\ Utf8(c) \in Seq(Bytes) \ {<<>>} /\ Len(Utf8(c)) \in Nat \ {0}
           /\ c \in Wide => Utf8(c) \in Seq(Bytes \ Ascii)
           /\ c \notin Wide => c \in Ascii /\ Utf8(c) = <<c>>
           /\ c \in Bytes <=> c \notin Wide
           /\ Bytes \ Ascii \subseteq Rough
  <1>1. c \in Wide => Utf8(c) \in Seq(Bytes \ Ascii) \ {<<>>} /\ c \notin Bytes
    BY UriAssumption DEF Utf8
  <1>2. c \notin Wide => c \in Ascii /\ c \in Bytes /\ Utf8(c) = <<c>>
    BY UriAssumption DEF Utf8, Scalars
  <1>3. c \in Wide => Utf8(c) \in Seq(Bytes)
    BY <1>1, SeqMonotonic
  <1>4. ASSUME c \notin Wide PROVE Utf8(c) \in Seq(Bytes) \ {<<>>}
    <2>1. c \in Bytes /\ Utf8(c) = <<c>>
      BY <1>2, <1>4
    <2>2. <<c>> \in Seq(Bytes) /\ <<c>> # <<>>
      BY <2>1
    <2> QED BY <2>1, <2>2
  <1>5. Utf8(c) \in Seq(Bytes) \ {<<>>}
    BY <1>1, <1>3, <1>4
  <1>6. Len(Utf8(c)) \in Nat \ {0}
    <2> DEFINE u == Utf8(c)
    <2> HIDE DEF u
    <2>1. u \in Seq(Bytes) /\ u # <<>>
      BY <1>5 DEF u
    <2>2. Len(u) \in Nat \ {0}
      BY <2>1, EmptySeq
    <2> QED BY <2>2 DEF u
  <1>7. Bytes \ Ascii \subseteq Rough
    BY UriAssumption DEF Rough
  <1> QED BY <1>1, <1>2, <1>5, <1>6, <1>7

\* A bounded set of naturals that is not empty has a greatest element.
LEMMA GreatestNatural ==
    ASSUME NEW N \in Nat, NEW T, T \subseteq 1..N, T # {}
    PROVE  \E n \in T : \A m \in T : m <= n
  <1> DEFINE D == {N - m : m \in T}
  <1>1. \A m \in T : m \in 1..N /\ N - m \in Nat
    OBVIOUS
  <1>2. PICK d \in D : \A e \in D : d <= e
    <2>1. D \subseteq Nat /\ D # {}
      BY <1>1
    <2> HIDE DEF D
    <2> QED BY <2>1, LeastNatural
  <1>3. PICK n \in T : d = N - n
    OBVIOUS
  <1>4. ASSUME NEW m \in T PROVE m <= n
    <2>1. d <= N - m
      BY <1>2
    <2> QED BY <1>1, <1>3, <2>1
  <1> QED BY <1>4

\* A head that is no scalar holds no ASCII.
LEMMA InvalidHead ==
    ASSUME NEW bs \in Seq(Bytes), bs # <<>>, HeadScalars(bs) = {}
    PROVE  /\ InvalidLength(bs) \in 1..Len(bs)
           /\ SubSeq(bs, 1, InvalidLength(bs)) \in Seq(Rough)
  <1> DEFINE begun == {n \in 1..Len(bs) :
                          \E c \in Wide : IsPrefix(SubSeq(bs, 1, n), Encoding[c])}
             n == InvalidLength(bs)
  <1>0. Len(bs) \in Nat \ {0} /\ 1 \in 1..Len(bs) /\ 1..Len(bs) \subseteq 0..Len(bs)
    BY EmptySeq
  <1>1. \A m \in 1..Len(bs) :
           /\ SubSeq(bs, 1, m) \in Seq(Bytes) /\ Len(SubSeq(bs, 1, m)) = m
           /\ \A i \in 1..m : SubSeq(bs, 1, m)[i] = bs[i]
    BY <1>0, CutAt
  <1>2. bs[1] \in Bytes \ Ascii
    <2>1. bs[1] \in Bytes
      BY <1>0, ElementOfSeq
    <2>2. SUFFICES ASSUME bs[1] \in Ascii PROVE FALSE
      BY <2>1
    <2>3. bs[1] \in Scalars /\ Utf8(bs[1]) = <<bs[1]>>
      BY <2>2, UriAssumption DEF Scalars, Utf8
    <2>4. IsPrefix(<<bs[1]>>, bs)
      <3> DEFINE a == <<bs[1]>>
      <3>1. a \in Seq(Bytes) /\ Len(a) = 1 /\ a[1] = bs[1]
        BY <2>1
      <3> HIDE DEF a
      <3>2. Len(a) <= Len(bs) /\ \A i \in 1..Len(a) : a[i] = bs[i]
        BY <1>0, <3>1
      <3>3. IsPrefix(a, bs)
        BY <3>1, <3>2, PrefixByItems
      <3> QED BY <3>3 DEF a
    <2> QED BY <2>3, <2>4 DEF HeadScalars
  <1>3. CASE begun = {} \/ Len(bs) \in begun
    <2>1. n = 1
      BY <1>3 DEF InvalidLength
    <2> DEFINE h == SubSeq(bs, 1, 1)
    <2>2. h \in Seq(Bytes) /\ Len(h) = 1 /\ h[1] = bs[1]
      BY <1>0, <1>1
    <2> HIDE DEF h
    <2>3. h = <<bs[1]>>
      <3>1. <<bs[1]>> \in Seq(Bytes) /\ Len(<<bs[1]>>) = 1 /\ <<bs[1]>>[1] = bs[1]
        BY <1>2
      <3> QED BY <2>2, <3>1, SeqEqual
    <2>4. bs[1] \in Rough
      BY <1>2, UriAssumption DEF Rough
    <2>5. h \in Seq(Rough)
      BY <2>3, <2>4
    <2> QED BY <1>0, <2>1, <2>5 DEF h
  <1>4. CASE ~(begun = {} \/ Len(bs) \in begun)
    <2>1. n = CHOOSE m \in begun : \A k \in begun : k <= m
      BY <1>4 DEF InvalidLength
    <2>2. \E m \in begun : \A k \in begun : k <= m
      <3>1. begun \subseteq 1..Len(bs) /\ begun # {} /\ Len(bs) \in Nat
        BY <1>0, <1>4
      <3> HIDE DEF begun
      <3> QED BY <3>1, GreatestNatural
    <2>3. n \in begun
      <3> HIDE DEF begun, n
      <3> QED BY <2>1, <2>2
    <2>4. PICK c \in Wide : IsPrefix(SubSeq(bs, 1, n), Encoding[c])
      BY <2>3
    <2>5. n \in 1..Len(bs)
      BY <2>3
    <2> HIDE DEF n, begun
    <2> DEFINE h == SubSeq(bs, 1, n)
    <2>6. h \in Seq(Bytes) /\ Len(h) = n
      BY <1>1, <2>5
    <2>7. Encoding[c] \in Seq(Bytes \ Ascii)
      BY UriAssumption
    <2>8. Encoding[c] \in Seq(Bytes) /\ Len(Encoding[c]) \in Nat
      BY <2>7, SeqMonotonic, LenProperties
    <2> DEFINE w == Encoding[c]
    <2> HIDE DEF h, w
    <2>9. Len(h) <= Len(w) /\ \A i \in 1..Len(h) : h[i] = w[i]
      <3>1. IsPrefix(h, w) /\ h \in Seq(Bytes) /\ w \in Seq(Bytes)
        BY <2>4, <2>6, <2>8 DEF h, w
      <3> QED BY <3>1, PrefixByItems
    <2>10. \A i \in 1..n : h[i] \in Rough
      <3> SUFFICES ASSUME NEW i \in 1..n PROVE h[i] \in Rough
        OBVIOUS
      <3>1. i \in 1..Len(w) /\ h[i] = w[i]
        BY <2>5, <2>6, <2>8, <2>9 DEF w
      <3>2. w[i] \in Bytes \ Ascii
        BY <2>7, <3>1, ElementOfSeq DEF w
      <3> QED BY <3>1, <3>2, UriAssumption DEF Rough
    <2>11. h \in [1..n -> Rough] /\ n \in Nat
      <3>1. h \in [1..n -> Bytes]
        BY <2>6, LenProperties
      <3> QED BY <1>0, <2>5, <2>10, <3>1
    <2>12. h \in Seq(Rough)
      BY <2>11, FunctionIsSeq
    <2> QED BY <2>5, <2>12 DEF h, n
  <1> QED BY <1>3, <1>4

\* One turn of canonicalize_uri_bytes.
LEMMA CanonicalHead ==
    ASSUME NEW bs \in Seq(Bytes), bs # <<>>
    PROVE  /\ HeadLength(bs) \in 1..Len(bs) /\ HeadText(bs) \in Seq(Scalars)
           /\ Kept(HeadText(bs), SubSeq(bs, 1, HeadLength(bs)))
  <1>0. Len(bs) \in Nat
    BY LenProperties
  <1>1. CASE HeadScalars(bs) # {}
    <2> DEFINE c == HeadScalar(bs)
    <2>1. c \in Scalars /\ IsPrefix(Utf8(c), bs)
      BY <1>1 DEF HeadScalar, HeadScalars
    <2> DEFINE u == Utf8(c)
    <2>2. HeadLength(bs) = Len(u) /\ HeadText(bs) = PushedScalar(c)
      BY <1>1 DEF HeadLength, HeadText
    <2> HIDE DEF c
    <2>3. /\ u \in Seq(Bytes) /\ Len(u) \in Nat \ {0} /\ (c \in Wide => u \in Seq(Bytes \ Ascii))
          /\ (c \notin Wide => c \in Ascii /\ u = <<c>>) /\ Bytes \ Ascii \subseteq Rough
      BY <2>1, Utf8Laws
    <2>4. Len(u) <= Len(bs) /\ SubSeq(u, 1, Len(u)) = SubSeq(bs, 1, Len(u))
      BY <2>1 DEF IsPrefix
    <2> HIDE DEF u
    <2>5. SubSeq(bs, 1, Len(u)) = u
      BY <2>3, <2>4, SubSeqFull
    <2>8. HeadLength(bs) \in 1..Len(bs)
      BY <1>0, <2>2, <2>3, <2>4
    <2>9. SubSeq(bs, 1, HeadLength(bs)) = u
      BY <2>2, <2>5
    <2>6. CASE c = Percent \/ c \in Controls
      <3>1. PushedScalar(c) = Escapes(u)
        BY <2>6 DEF PushedScalar, u
      <3>2. u \in Seq(Rough)
        <4>1. CASE c \in Wide
          BY <2>3, <4>1, SeqMonotonic
        <4>2. CASE c \notin Wide
          <5>1. c \in Rough
            BY <2>3, <2>6, <4>2, UriAssumption DEF Rough
          <5>2. <<c>> \in Seq(Rough)
            BY <5>1
          <5> QED BY <2>3, <4>2, <5>2
        <4> QED BY <4>1, <4>2
      <3>3. Escapes(u) \in Seq(EscapeChars)
        BY <2>3, EscapesLaws
      <3>4. EscapeChars \subseteq Scalars
        BY EscapeCharsAscii, Table
      <3>5. Escapes(u) \in Seq(Scalars)
        BY <3>3, <3>4, SeqMonotonic
      <3>6. Kept(Escapes(u), u)
        BY <3>2 DEF Kept
      <3> QED BY <2>2, <2>8, <2>9, <3>1, <3>5, <3>6, Zenon
    <2>7. CASE ~(c = Percent \/ c \in Controls)
      <3>1. PushedScalar(c) = <<c>>
        BY <2>7 DEF PushedScalar
      <3>2. Kept(<<c>>, u)
        BY <2>1, <2>7 DEF Kept, u
      <3>3. <<c>> \in Seq(Scalars)
        BY <2>1
      <3> QED BY <2>2, <2>8, <2>9, <3>1, <3>2, <3>3, Zenon
    <2> QED BY <2>6, <2>7
  <1>2. CASE HeadScalars(bs) = {}
    <2> DEFINE n == InvalidLength(bs)
               h == SubSeq(bs, 1, n)
    <2>1. HeadLength(bs) = n /\ HeadText(bs) = Escapes(h)
      BY <1>2 DEF HeadLength, HeadText
    <2>2. n \in 1..Len(bs) /\ h \in Seq(Rough)
      BY <1>2, InvalidHead
    <2> HIDE DEF n, h
    <2>3. h \in Seq(Bytes)
      BY <2>2, SeqMonotonic DEF Rough
    <2>4. Escapes(h) \in Seq(EscapeChars)
      BY <2>3, EscapesLaws
    <2>5. EscapeChars \subseteq Scalars
      BY EscapeCharsAscii, Table
    <2>6. Escapes(h) \in Seq(Scalars)
      BY <2>4, <2>5, SeqMonotonic
    <2>7. Kept(Escapes(h), h)
      BY <2>2 DEF Kept
    <2> QED BY <2>1, <2>2, <2>6, <2>7 DEF h
  <1> QED BY <1>1, <1>2

\* The turns of canonicalize_uri_bytes.
LEMMA CanonicalTurns ==
  /\ CanonicalizeUriBytes[<<>>] = <<>>
  /\ \A bs \in Seq(Bytes) : CanonicalizeUriBytes[bs] \in Seq(Scalars)
  /\ \A bs \in Seq(Bytes) \ {<<>>} :
        \E p \in Seq(Scalars), h \in Seq(Bytes), r \in Seq(Bytes) :
           /\ Kept(p, h) /\ bs = h \o r /\ Len(r) < Len(bs)
           /\ CanonicalizeUriBytes[bs] = p \o CanonicalizeUriBytes[r]
  <1> DEFINE width == [s \in Seq(Bytes) |-> HeadLength(s)]
             piece == [s \in Seq(Bytes) |-> HeadText(s)]
  <1>1. \A s \in Seq(Bytes) : Len(s) \in Nat
    BY LenProperties
  <1>2. Turns(Bytes, Scalars, width, piece)
    <2>1. ASSUME NEW s \in Seq(Bytes) \ {<<>>}
          PROVE  HeadLength(s) \in Nat \ {0} /\ HeadText(s) \in Seq(Scalars)
      <3>1. HeadLength(s) \in 1..Len(s) /\ HeadText(s) \in Seq(Scalars) /\ Len(s) \in Nat
        BY <1>1, CanonicalHead
      <3> QED BY <3>1
    <2> QED BY <2>1 DEF Turns
  <1>3. Loop(CanonicalizeUriBytes, Bytes, Scalars, width, piece)
    <2> HIDE DEF width, piece
    <2>1. Loop(Scan(Bytes, width, piece), Bytes, Scalars, width, piece)
      BY <1>2, ScanUnfolds
    <2> QED BY <2>1 DEF CanonicalizeUriBytes, width, piece
  <1>4. ASSUME NEW bs \in Seq(Bytes) \ {<<>>}
        PROVE  \E p \in Seq(Scalars), h \in Seq(Bytes), r \in Seq(Bytes) :
                  /\ Kept(p, h) /\ bs = h \o r /\ Len(r) < Len(bs)
                  /\ CanonicalizeUriBytes[bs] = p \o CanonicalizeUriBytes[r]
    <2> DEFINE n == HeadLength(bs)
               h == SubSeq(bs, 1, n)
               r == SubSeq(bs, n + 1, Len(bs))
    <2>1. /\ n \in 1..Len(bs) /\ HeadText(bs) \in Seq(Scalars) /\ Kept(HeadText(bs), h)
          /\ Len(bs) \in Nat
      BY <1>1, CanonicalHead
    <2>2. width[bs] = n /\ piece[bs] = HeadText(bs)
      OBVIOUS
    <2>3. CanonicalizeUriBytes[bs] = piece[bs] \o CanonicalizeUriBytes[SubSeq(bs, width[bs] + 1, Len(bs))]
      <3> HIDE DEF width, piece
      <3> QED BY <1>3 DEF Loop
    <2> HIDE DEF n, width, piece
    <2>4. n \in 0..Len(bs)
      BY <2>1
    <2>5. h \in Seq(Bytes) /\ r \in Seq(Bytes) /\ Len(r) = Len(bs) - n /\ bs = h \o r
      BY <2>4, CutAt
    <2> HIDE DEF h
    <2>6. CanonicalizeUriBytes[bs] = HeadText(bs) \o CanonicalizeUriBytes[r]
      BY <2>2, <2>3
    <2> HIDE DEF r
    <2>7. Len(r) < Len(bs)
      BY <2>1, <2>5
    <2> QED BY <2>1, <2>5, <2>6, <2>7
  <1> QED BY <1>3, <1>4 DEF Loop

(***************************************************************************)
(* The canonical URI.                                                      *)
(***************************************************************************)

\* What a scalar becomes in a URI is a text.
LEMMA UriScalarType ==
    ASSUME NEW c \in Scalars
    PROVE  UriScalar(c) \in Seq(Scalars)
  <1>1. CASE c = Slash \/ IsUriPchar(c)
    BY <1>1 DEF UriScalar
  <1>2. CASE ~(c = Slash \/ IsUriPchar(c))
    <2> DEFINE u == Utf8(c)
    <2>1. u \in Seq(Bytes)
      BY Utf8Laws
    <2> HIDE DEF u
    <2>2. Escapes(u) \in Seq(EscapeChars)
      BY <2>1, EscapesLaws
    <2>3. EscapeChars \subseteq Scalars
      BY EscapeCharsAscii, Table
    <2>4. Escapes(u) \in Seq(Scalars)
      BY <2>2, <2>3, SeqMonotonic
    <2> QED BY <1>2, <2>4 DEF UriScalar, u
  <1> QED BY <1>1, <1>2

\* The turns of canonical_uri.
LEMMA UriTurns ==
  /\ CanonicalUri[<<>>] = <<>>
  /\ \A t \in Seq(Scalars) : CanonicalUri[t] \in Seq(Scalars)
  /\ \A c \in Scalars \ {Percent}, r \in Seq(Scalars) :
        CanonicalUri[<<c>> \o r] = UriScalar(c) \o CanonicalUri[r]
  /\ \A h, l \in DigitChars, r \in Seq(Scalars) :
        CanonicalUri[<<Percent, h, l>> \o r] = <<Percent, h, l>> \o CanonicalUri[r]
  <1> DEFINE width == [t \in Seq(Scalars) |-> IF EscapeAt(t) THEN 3 ELSE 1]
             piece == [t \in Seq(Scalars) |->
                          IF EscapeAt(t) THEN SubSeq(t, 1, 3) ELSE UriScalar(t[1])]
  <1>1. ASSUME NEW t \in Seq(Scalars), t # <<>>
        PROVE  width[t] \in Nat \ {0} /\ piece[t] \in Seq(Scalars)
    <2>1. Len(t) \in Nat \ {0} /\ 1 \in 1..Len(t)
      BY <1>1, EmptySeq
    <2>2. UriScalar(t[1]) \in Seq(Scalars)
      <3>1. t[1] \in Scalars
        BY <2>1, ElementOfSeq
      <3> QED BY <3>1, UriScalarType
    <2>3. ASSUME EscapeAt(t) PROVE SubSeq(t, 1, 3) \in Seq(Scalars)
      <3>1. 3 \in 0..Len(t)
        BY <2>1, <2>3 DEF EscapeAt
      <3>2. \A n \in 0..Len(t) : SubSeq(t, 1, n) \in Seq(Scalars)
        BY CutAt
      <3> QED BY <3>1, <3>2
    <2> QED BY <2>2, <2>3
  <1>2. Turns(Scalars, Scalars, width, piece)
    BY <1>1 DEF Turns
  <1>3. Loop(CanonicalUri, Scalars, Scalars, width, piece)
    <2> HIDE DEF width, piece
    <2>1. Loop(Scan(Scalars, width, piece), Scalars, Scalars, width, piece)
      BY <1>2, ScanUnfolds
    <2> QED BY <2>1 DEF CanonicalUri, width, piece
  <1>4. Advances(CanonicalUri, Scalars, width, piece)
    <2> HIDE DEF width, piece
    <2> QED BY <1>3, LoopTurn
  <1>5. ASSUME NEW c \in Scalars \ {Percent}, NEW r \in Seq(Scalars)
        PROVE  CanonicalUri[<<c>> \o r] = UriScalar(c) \o CanonicalUri[r]
    <2> DEFINE a == <<c>>
    <2>1. a \in Seq(Scalars) /\ Len(a) = 1 /\ a # <<>> /\ a \o r \in Seq(Scalars) /\ (a \o r)[1] = c
      BY ConsSeq
    <2> HIDE DEF a
    <2>2. ~EscapeAt(a \o r)
      BY <2>1 DEF EscapeAt
    <2>3. width[a \o r] = Len(a) /\ piece[a \o r] = UriScalar(c)
      BY <2>1, <2>2
    <2>4. CanonicalUri[a \o r] = piece[a \o r] \o CanonicalUri[r]
      <3> HIDE DEF width, piece
      <3> QED BY <1>4, <2>1, <2>3 DEF Advances
    <2> QED BY <2>3, <2>4 DEF a
  <1>6. ASSUME NEW h \in DigitChars, NEW l \in DigitChars, NEW r \in Seq(Scalars)
        PROVE  CanonicalUri[<<Percent, h, l>> \o r] = <<Percent, h, l>> \o CanonicalUri[r]
    <2> DEFINE a == <<Percent, h, l>>
    <2>0. Percent \in Scalars /\ h \in Scalars /\ l \in Scalars
      BY Table
    <2>1. /\ a \in Seq(Scalars) /\ Len(a) = 3 /\ a # <<>> /\ a \o r \in Seq(Scalars)
          /\ Len(a \o r) = Len(r) + 3 /\ Len(r) \in Nat /\ a[1] = Percent /\ a[2] = h /\ a[3] = l
          /\ (a \o r)[1] = Percent /\ (a \o r)[2] = h /\ (a \o r)[3] = l
      BY <2>0, Triple, LenProperties
    <2> HIDE DEF a
    <2>2. EscapeAt(a \o r)
      BY <2>1 DEF EscapeAt
    <2>3. SubSeq(a \o r, 1, 3) = a
      <3> DEFINE s == a \o r
                 u == SubSeq(s, 1, 3)
      <3>1. 3 \in 0..Len(s) /\ s \in Seq(Scalars)
        BY <2>1
      <3>2. /\ u \in Seq(Scalars) /\ Len(u) = 3 /\ \A i \in 1..3 : u[i] = s[i]
        BY <3>1, CutAt
      <3> HIDE DEF u
      <3>3. \A i \in 1..Len(u) : u[i] = a[i]
        BY <2>1, <3>2
      <3>4. u = a
        BY <2>1, <3>2, <3>3, SeqEqual
      <3> QED BY <3>4 DEF u
    <2>4. width[a \o r] = Len(a) /\ piece[a \o r] = a
      BY <2>1, <2>2, <2>3
    <2>5. CanonicalUri[a \o r] = piece[a \o r] \o CanonicalUri[r]
      <3> HIDE DEF width, piece
      <3> QED BY <1>4, <2>1, <2>4 DEF Advances
    <2> QED BY <2>4, <2>5 DEF a
  <1>7. CanonicalUri[<<>>] = <<>> /\ \A t \in Seq(Scalars) : CanonicalUri[t] \in Seq(Scalars)
    BY <1>3 DEF Loop
  <1> QED BY <1>5, <1>6, <1>7

\* Escapes in a path are kept.
LEMMA UriKeepsEscapes ==
    \A h \in Seq(Bytes), t \in Seq(Scalars) :
        CanonicalUri[Escapes(h) \o t] = Escapes(h) \o CanonicalUri[t]
  <1> SUFFICES ASSUME NEW t \in Seq(Scalars)
               PROVE  \A h \in Seq(Bytes) :
                         CanonicalUri[Escapes(h) \o t] = Escapes(h) \o CanonicalUri[t]
    OBVIOUS
  <1> DEFINE w == CanonicalUri[t]
             G == {h \in Seq(Bytes) : CanonicalUri[Escapes(h) \o t] = Escapes(h) \o w}
  <1>0. w \in Seq(Scalars) /\ Associative(Scalars)
    BY UriTurns, Regroup
  <1>1. ASSUME NEW h \in Seq(Bytes), \A r \in Seq(Bytes) : Len(r) < Len(h) => r \in G PROVE h \in G
    <2>1. CASE h = <<>>
      <3>1. Escapes(h) = <<>>
        BY <2>1, EscapesLaws
      <3> HIDE DEF w
      <3>2. <<>> \o t = t /\ <<>> \o w = w
        BY <1>0, ConcatEmptySeq
      <3> QED BY <3>1, <3>2 DEF w
    <2>2. CASE h # <<>>
      <3>1. PICK b \in Bytes, r \in Seq(Bytes) : h = <<b>> \o r /\ Len(r) < Len(h)
        BY <2>2, HeadAndRest
      <3> DEFINE x == HexDigit[b[1]]
                 y == HexDigit[b[2]]
                 e == <<Percent, x, y>>
      <3>2. Escapes(h) = Escaped(b) \o Escapes(r) /\ Escapes(r) \in Seq(EscapeChars)
        BY <3>1, EscapesLaws
      <3>3. Escaped(b) = e
        BY DEF Escaped
      <3>4. x \in DigitChars /\ y \in DigitChars
        BY Table
      <3> DEFINE z == Escapes(r)
      <3> HIDE DEF x, y
      <3>5. z \in Seq(Scalars)
        <4>1. EscapeChars \subseteq Scalars
          BY EscapeCharsAscii, Table
        <4> HIDE DEF z
        <4> QED BY <3>2, <4>1, SeqMonotonic DEF z
      <3>6. CanonicalUri[z \o t] = z \o w
        BY <1>1, <3>1
      <3> HIDE DEF z, w
      <3>7. z \o t \in Seq(Scalars)
        BY <3>5, ConcatProperties
      <3>8. CanonicalUri[e \o (z \o t)] = e \o (z \o w)
        <4>1. \A u \in Seq(Scalars) : CanonicalUri[e \o u] = e \o CanonicalUri[u]
          BY <3>4, UriTurns
        <4> HIDE DEF e
        <4>2. CanonicalUri[e \o (z \o t)] = e \o CanonicalUri[z \o t]
          BY <3>7, <4>1
        <4> QED BY <3>6, <4>2
      <3>9. e \in Seq(Scalars)
        <4>1. x \in Scalars /\ y \in Scalars /\ Percent \in Scalars
          BY <3>4, Table
        <4> QED BY <4>1
      <3> HIDE DEF e
      <3>10. (e \o z) \o t = e \o (z \o t) /\ (e \o z) \o w = e \o (z \o w)
        BY <1>0, <3>5, <3>9 DEF Associative
      <3> QED BY <3>2, <3>3, <3>8, <3>10 DEF z
    <2> QED BY <2>1, <2>2
  <1> HIDE DEF G
  <1>2. \A h \in Seq(Bytes) : h \in G
    BY <1>1, ByLength
  <1> QED BY <1>2 DEF G

\* Where no byte is a pchar, all are escaped.
LEMMA UriOfEscapes == \A h \in Seq(Bytes \ Pchars) : UriOf(h) = Escapes(h)
  <1> DEFINE X == Bytes \ Pchars
             G == {h \in Seq(X) : UriOf(h) = Escapes(h)}
  <1>1. ASSUME NEW h \in Seq(X), \A r \in Seq(X) : Len(r) < Len(h) => r \in G PROVE h \in G
    <2>1. CASE h = <<>>
      BY <2>1, EscapesLaws, UriOfLaws
    <2>2. CASE h # <<>>
      <3>1. PICK b \in X, r \in Seq(X) : h = <<b>> \o r /\ Len(r) < Len(h)
        BY <2>2, HeadAndRest
      <3>2. r \in Seq(Bytes) /\ b \in Bytes /\ b \notin Pchars
        BY SeqMonotonic
      <3>3. UriOf(h) = UriByte(b) \o UriOf(r) /\ Escapes(h) = Escaped(b) \o Escapes(r)
        BY <3>1, <3>2, EscapesLaws, UriOfLaws
      <3>4. UriOf(r) = Escapes(r) /\ UriByte(b) = Escaped(b)
        BY <1>1, <3>1, <3>2 DEF UriByte
      <3> QED BY <3>3, <3>4
    <2> QED BY <2>1, <2>2
  <1> HIDE DEF G, X
  <1>2. \A h \in Seq(X) : h \in G
    BY <1>1, ByLength
  <1> QED BY <1>2 DEF G, X

\* What a concatenation contains.
LEMMA ContainsConcat ==
    ASSUME NEW S, NEW a \in Seq(S), NEW b \in Seq(S), NEW v
    PROVE  Contains(a \o b, v) <=> Contains(a, v) \/ Contains(b, v)
  <1> DEFINE s == a \o b
  <1>1. /\ Len(a) \in Nat /\ Len(b) \in Nat /\ Len(s) = Len(a) + Len(b)
        /\ \A i \in 1..(Len(a) + Len(b)) : s[i] = IF i <= Len(a) THEN a[i] ELSE b[i - Len(a)]
    BY LenProperties, ConcatProperties
  <1> HIDE DEF s
  <1>2. ASSUME NEW i \in 1..Len(s), s[i] = v PROVE Contains(a, v) \/ Contains(b, v)
    <2>1. CASE i <= Len(a)
      <3>1. i \in 1..Len(a) /\ a[i] = v
        BY <1>1, <1>2, <2>1
      <3> QED BY <3>1 DEF Contains
    <2>2. CASE ~(i <= Len(a))
      <3>1. i - Len(a) \in 1..Len(b) /\ b[i - Len(a)] = v
        BY <1>1, <1>2, <2>2
      <3> QED BY <3>1 DEF Contains
    <2> QED BY <2>1, <2>2
  <1>3. ASSUME NEW i \in 1..Len(a), a[i] = v PROVE Contains(s, v)
    <2>1. i \in 1..Len(s) /\ s[i] = v
      BY <1>1, <1>3
    <2> QED BY <2>1 DEF Contains
  <1>4. ASSUME NEW i \in 1..Len(b), b[i] = v PROVE Contains(s, v)
    <2>1. /\ i + Len(a) \in 1..Len(s) /\ ~(i + Len(a) <= Len(a))
          /\ (i + Len(a)) - Len(a) = i
      BY <1>1
    <2>2. s[i + Len(a)] = v
      BY <1>1, <1>4, <2>1
    <2> QED BY <2>1, <2>2 DEF Contains
  <1>5. Contains(s, v) => Contains(a, v) \/ Contains(b, v)
    BY <1>2 DEF Contains
  <1>6. Contains(a, v) => Contains(s, v)
    BY <1>3 DEF Contains
  <1>7. Contains(b, v) => Contains(s, v)
    BY <1>4 DEF Contains
  <1> QED BY <1>5, <1>6, <1>7 DEF s

\* A sequence contains nothing but its elements.
LEMMA ContainsOnly ==
    ASSUME NEW S, NEW s \in Seq(S), NEW v, Contains(s, v)
    PROVE  v \in S
  BY ElementOfSeq DEF Contains

\* A piece of the canonical form spells the bytes it stands for, holds the
\* same separators, and has the canonical URI of these bytes.
LEMMA KeptLaws ==
    ASSUME NEW p \in Seq(Scalars), NEW h \in Seq(Bytes), Kept(p, h)
    PROVE  /\ AsBytes(p) \in Seq(Bytes)
           /\ \A r \in Seq(Bytes) : Unescape[AsBytes(p) \o r] = h \o Unescape[r]
           /\ \A v \in {Slash, Backslash} : Contains(p, v) <=> Contains(h, v)
           /\ ~Contains(h, Slash) =>
                 \A t \in Seq(Scalars) : CanonicalUri[p \o t] = UriOf(h) \o CanonicalUri[t]
  <1>0. AsBytes(p) \in Seq(Bytes)
    BY AsBytesLaws
  <1>00. \A v \in {Slash, Backslash} : v \in Ascii /\ v \in Bytes /\ v \notin Wide
    BY UriAssumption
  <1>1. ASSUME NEW c \in Scalars \ ({Percent} \cup Controls), p = <<c>>, h = Utf8(c)
        PROVE  /\ \A r \in Seq(Bytes) : Unescape[AsBytes(p) \o r] = h \o Unescape[r]
               /\ \A v \in {Slash, Backslash} : Contains(p, v) <=> Contains(h, v)
               /\ ~Contains(h, Slash) =>
                     \A t \in Seq(Scalars) : CanonicalUri[p \o t] = UriOf(h) \o CanonicalUri[t]
    <2>1. /\ h \in Seq(Bytes) /\ (c \in Wide => h \in Seq(Bytes \ Ascii))
          /\ (c \notin Wide => c \in Ascii /\ h = <<c>>)
      BY <1>1, Utf8Laws
    <2>2. AsBytes(p) = h
      <3>1. <<>> \in Seq(Scalars) /\ <<c>> \o <<>> = <<c>> /\ h \o <<>> = h
        BY <2>1, ConcatEmptySeq, EmptySeq
      <3>2. AsBytes(<<c>> \o <<>>) = Utf8(c) \o AsBytes(<<>>)
        BY <3>1, AsBytesLaws
      <3> QED BY <1>1, <3>1, <3>2, AsBytesLaws
    <2>3. h \in Seq(Bytes \ {Percent})
      <3>1. CASE c \in Wide
        <4>1. Bytes \ Ascii \subseteq Bytes \ {Percent}
          BY UriAssumption
        <4> QED BY <2>1, <3>1, <4>1, SeqMonotonic
      <3>2. CASE c \notin Wide
        <4>1. c \in Bytes \ {Percent}
          BY <2>1, <3>2, Table
        <4>2. <<c>> \in Seq(Bytes \ {Percent})
          BY <4>1
        <4> QED BY <2>1, <3>2, <4>2
      <3> QED BY <3>1, <3>2
    <2>4. ASSUME NEW v \in {Slash, Backslash} PROVE Contains(p, v) <=> Contains(h, v)
      <3>1. CASE c \notin Wide
        BY <1>1, <2>1, <3>1
      <3>2. CASE c \in Wide
        <4>1. ~Contains(h, v)
          <5>1. v \notin Bytes \ Ascii
            BY <1>00
          <5> QED BY <2>1, <3>2, <5>1, ContainsOnly
        <4>2. ~Contains(p, v)
          <5>1. v \notin {c} /\ <<c>> \in Seq({c})
            BY <1>00, <3>2
          <5>2. ~Contains(<<c>>, v)
            BY <5>1, ContainsOnly
          <5> QED BY <1>1, <5>2
        <4> QED BY <4>1, <4>2
      <3> QED BY <3>1, <3>2
    <2>5. ASSUME ~Contains(h, Slash), NEW t \in Seq(Scalars)
          PROVE  CanonicalUri[p \o t] = UriOf(h) \o CanonicalUri[t]
      <3>1. CanonicalUri[<<c>> \o t] = UriScalar(c) \o CanonicalUri[t]
        BY <1>1, UriTurns
      <3>2. UriScalar(c) = UriOf(h)
        <4>1. c # Slash
          <5>1. Contains(<<c>>, c)
            <6>1. Len(<<c>>) = 1 /\ 1 \in 1..1 /\ <<c>>[1] = c
              OBVIOUS
            <6> QED BY <6>1 DEF Contains
          <5>2. ~Contains(p, Slash)
            BY <2>4, <2>5
          <5> QED BY <1>1, <5>1, <5>2
        <4>2. CASE c \in Pchars
          <5>1. c \in Ascii /\ c \notin Wide /\ c \in Bytes
            BY <4>2, UriAssumption
          <5>2. UriScalar(c) = <<c>> /\ UriByte(c) = <<c>> /\ h = <<c>>
            BY <2>1, <4>2, <5>1 DEF UriScalar, IsUriPchar, UriByte
          <5>3. <<>> \in Seq(Bytes) /\ <<c>> \o <<>> = <<c>>
            BY <5>1, ConcatEmptySeq, EmptySeq
          <5>4. UriOf(<<c>> \o <<>>) = UriByte(c) \o UriOf(<<>>)
            BY <5>1, <5>3, UriOfLaws
          <5> QED BY <5>2, <5>3, <5>4, UriOfLaws
        <4>3. CASE c \notin Pchars
          <5>1. UriScalar(c) = Escapes(h)
            BY <1>1, <4>1, <4>3 DEF UriScalar, IsUriPchar
          <5>2. h \in Seq(Bytes \ Pchars)
            <6>1. CASE c \in Wide
              <7>1. Bytes \ Ascii \subseteq Bytes \ Pchars
                BY UriAssumption
              <7> QED BY <2>1, <6>1, <7>1, SeqMonotonic
            <6>2. CASE c \notin Wide
              <7>1. c \in Bytes \ Pchars
                BY <2>1, <4>3, <6>2, Table
              <7>2. <<c>> \in Seq(Bytes \ Pchars)
                BY <7>1
              <7> QED BY <2>1, <6>2, <7>2
            <6> QED BY <6>1, <6>2
          <5> QED BY <5>1, <5>2, UriOfEscapes
        <4> QED BY <4>2, <4>3
      <3> QED BY <1>1, <3>1, <3>2
    <2>6. \A r \in Seq(Bytes) : Unescape[AsBytes(p) \o r] = h \o Unescape[r]
      BY <2>2, <2>3, UnescapeImages
    <2> QED BY <2>4, <2>5, <2>6
  <1>2. ASSUME h \in Seq(Rough), p = Escapes(h)
        PROVE  /\ \A r \in Seq(Bytes) : Unescape[AsBytes(p) \o r] = h \o Unescape[r]
               /\ \A v \in {Slash, Backslash} : Contains(p, v) <=> Contains(h, v)
               /\ \A t \in Seq(Scalars) : CanonicalUri[p \o t] = UriOf(h) \o CanonicalUri[t]
    <2>1. p \in Seq(EscapeChars)
      BY <1>2, EscapesLaws
    <2>2. p \in Seq(Ascii)
      <3>1. EscapeChars \subseteq Ascii
        BY EscapeCharsAscii
      <3> QED BY <2>1, <3>1, SeqMonotonic
    <2>3. AsBytes(p) = Escapes(h)
      BY <1>2, <2>2, AsciiText
    <2>4. ASSUME NEW v \in {Slash, Backslash} PROVE Contains(p, v) <=> Contains(h, v)
      <3>1. v \notin EscapeChars /\ v \notin Rough
        BY EscapeCharsAscii DEF Rough
      <3>2. ~Contains(p, v) /\ ~Contains(h, v)
        BY <1>2, <2>1, <3>1, ContainsOnly
      <3> QED BY <3>2
    <2>5. UriOf(h) = Escapes(h)
      <3>1. Rough \subseteq Bytes \ Pchars
        BY DEF Rough
      <3>2. h \in Seq(Bytes \ Pchars)
        BY <1>2, <3>1, SeqMonotonic
      <3> QED BY <3>2, UriOfEscapes
    <2>6. \A t \in Seq(Scalars) : CanonicalUri[p \o t] = UriOf(h) \o CanonicalUri[t]
      BY <1>2, <2>5, UriKeepsEscapes
    <2>7. \A r \in Seq(Bytes) : Unescape[AsBytes(p) \o r] = h \o Unescape[r]
      BY <2>3, UnescapeImages
    <2> QED BY <2>4, <2>6, <2>7
  <1> QED BY <1>0, <1>1, <1>2 DEF Kept

\* The canonical form of bytes is another spelling of these bytes.
Canonical(bs) ==
    /\ Unescape[AsBytes(CanonicalizeUriBytes[bs])] = bs
    /\ \A v \in {Slash, Backslash} : Contains(CanonicalizeUriBytes[bs], v) <=> Contains(bs, v)
    /\ ~Contains(bs, Slash) =>
          \A t \in Seq(Scalars) :
             CanonicalUri[CanonicalizeUriBytes[bs] \o t] = UriOf(bs) \o CanonicalUri[t]

\* This holds of all bytes, UTF-8 or not.
LEMMA Canonicalized == \A bs \in Seq(Bytes) : Canonical(bs)
  <1> DEFINE G == {bs \in Seq(Bytes) : Canonical(bs)}
  <1>1. ASSUME NEW bs \in Seq(Bytes), \A r \in Seq(Bytes) : Len(r) < Len(bs) => r \in G
        PROVE  bs \in G
    <2>1. CASE bs = <<>>
      <3>1. CanonicalizeUriBytes[bs] = bs /\ AsBytes(bs) = bs /\ Unescape[bs] = bs /\ UriOf(bs) = bs
        BY <2>1, CanonicalTurns, AsBytesLaws, UnescapeTurns, UriOfLaws
      <3>2. \A t \in Seq(Scalars) : bs \o t = t /\ bs \o CanonicalUri[t] = CanonicalUri[t]
        <4> SUFFICES ASSUME NEW t \in Seq(Scalars)
                     PROVE  bs \o t = t /\ bs \o CanonicalUri[t] = CanonicalUri[t]
          OBVIOUS
        <4> DEFINE w == CanonicalUri[t]
        <4>1. w \in Seq(Scalars)
          BY UriTurns
        <4> HIDE DEF w
        <4>2. bs \o t = t /\ bs \o w = w
          BY <2>1, <4>1, ConcatEmptySeq
        <4> QED BY <4>2 DEF w
      <3> QED BY <3>1, <3>2 DEF Canonical
    <2>2. CASE bs # <<>>
      <3>1. PICK p \in Seq(Scalars), h \in Seq(Bytes), r \in Seq(Bytes) :
               /\ Kept(p, h) /\ bs = h \o r /\ Len(r) < Len(bs)
               /\ CanonicalizeUriBytes[bs] = p \o CanonicalizeUriBytes[r]
        BY <2>2, CanonicalTurns
      <3>2. /\ AsBytes(p) \in Seq(Bytes)
            /\ \A x \in Seq(Bytes) : Unescape[AsBytes(p) \o x] = h \o Unescape[x]
            /\ \A v \in {Slash, Backslash} : Contains(p, v) <=> Contains(h, v)
            /\ ~Contains(h, Slash) =>
                  \A t \in Seq(Scalars) : CanonicalUri[p \o t] = UriOf(h) \o CanonicalUri[t]
        BY <3>1, KeptLaws
      <3>3. Canonical(r)
        BY <1>1, <3>1
      <3> DEFINE w == CanonicalizeUriBytes[r]
      <3>4. w \in Seq(Scalars)
        BY CanonicalTurns
      <3>5. /\ Unescape[AsBytes(w)] = r
            /\ \A v \in {Slash, Backslash} : Contains(w, v) <=> Contains(r, v)
            /\ ~Contains(r, Slash) =>
                  \A t \in Seq(Scalars) : CanonicalUri[w \o t] = UriOf(r) \o CanonicalUri[t]
        BY <3>3 DEF Canonical
      <3>6. CanonicalizeUriBytes[bs] = p \o w
        BY <3>1
      <3> HIDE DEF w
      <3>7. AsBytes(p \o w) = AsBytes(p) \o AsBytes(w) /\ AsBytes(w) \in Seq(Bytes)
        BY <3>4, AsBytesLaws
      <3>8. Unescape[AsBytes(p \o w)] = bs
        BY <3>1, <3>2, <3>5, <3>7
      <3>9. \A v \in {Slash, Backslash} : Contains(p \o w, v) <=> Contains(bs, v)
        <4>1. \A v : Contains(p \o w, v) <=> Contains(p, v) \/ Contains(w, v)
          BY <3>4, ContainsConcat
        <4>2. \A v : Contains(h \o r, v) <=> Contains(h, v) \/ Contains(r, v)
          BY ContainsConcat
        <4> QED BY <3>1, <3>2, <3>5, <4>1, <4>2
      <3>10. ASSUME ~Contains(bs, Slash), NEW t \in Seq(Scalars)
             PROVE  CanonicalUri[(p \o w) \o t] = UriOf(bs) \o CanonicalUri[t]
        <4>1. ~Contains(h, Slash) /\ ~Contains(r, Slash)
          BY <3>1, <3>10, ContainsConcat
        <4>2. Associative(Scalars)
          BY Regroup
        <4>3. (p \o w) \o t = p \o (w \o t) /\ w \o t \in Seq(Scalars)
          BY <3>4, <4>2, ConcatProperties DEF Associative
        <4>4. CanonicalUri[p \o (w \o t)] = UriOf(h) \o CanonicalUri[w \o t]
          BY <3>2, <4>1, <4>3
        <4>5. CanonicalUri[w \o t] = UriOf(r) \o CanonicalUri[t]
          BY <3>5, <4>1
        <4> DEFINE a == UriOf(h)
                   b == UriOf(r)
                   c == CanonicalUri[t]
        <4>6. a \in Seq(Scalars) /\ b \in Seq(Scalars) /\ c \in Seq(Scalars)
          <5>1. a \in Seq(UriChars) /\ b \in Seq(UriChars)
            BY UriOfLaws
          <5>2. UriChars \subseteq Scalars
            BY EscapeCharsAscii, Table
          <5>3. c \in Seq(Scalars)
            BY UriTurns
          <5> HIDE DEF a, b
          <5> QED BY <5>1, <5>2, <5>3, SeqMonotonic
        <4>7. UriOf(bs) = a \o b
          BY <3>1, UriOfLaws
        <4>8. CanonicalUri[(p \o w) \o t] = a \o (b \o c)
          BY <4>3, <4>4, <4>5
        <4> HIDE DEF a, b, c
        <4>9. (a \o b) \o c = a \o (b \o c)
          BY <4>2, <4>6 DEF Associative
        <4> QED BY <4>7, <4>8, <4>9 DEF c
      <3> QED BY <3>6, <3>8, <3>9, <3>10 DEF Canonical
    <2> QED BY <2>1, <2>2
  <1> HIDE DEF G
  <1>2. \A bs \in Seq(Bytes) : bs \in G
    BY <1>1, ByLength
  <1> QED BY <1>2 DEF G

(***************************************************************************)
(* Components.                                                             *)
(***************************************************************************)

NoSlash == Scalars \ {Slash}

\* FirstSlash is what it says it is.
LEMMA FirstSlashLaws ==
    ASSUME NEW t \in Seq(Scalars)
    PROVE  /\ FirstSlash(t) \in 1..(Len(t) + 1)
           /\ FirstSlash(t) <= Len(t) => t[FirstSlash(t)] = Slash
           /\ \A j \in 1..(FirstSlash(t) - 1) : t[j] # Slash
  <1> DEFINE T == {i \in 1..(Len(t) + 1) : i <= Len(t) => t[i] = Slash}
  <1>1. Len(t) \in Nat
    BY LenProperties
  <1>2. Len(t) + 1 \in T /\ T \subseteq Nat
    BY <1>1
  <1>3. PICK n \in T : \A m \in T : n <= m
    <2> HIDE DEF T
    <2> QED BY <1>2, LeastNatural
  <1>4. \A j \in 1..(n - 1) : t[j] # Slash
    <2> SUFFICES ASSUME NEW j \in 1..(n - 1), t[j] = Slash PROVE FALSE
      OBVIOUS
    <2>1. j \in 1..(Len(t) + 1) /\ ~(n <= j) /\ n \in 1..(Len(t) + 1)
      BY <1>1, <1>3
    <2>2. j \in T
      BY <2>1
    <2> QED BY <1>3, <2>1, <2>2
  <1> DEFINE P(i) == /\ i <= Len(t) => t[i] = Slash
                     /\ \A j \in 1..(i - 1) : t[j] # Slash
  <1>5. \E i \in 1..(Len(t) + 1) : P(i)
    BY <1>3, <1>4
  <1>6. FirstSlash(t) = CHOOSE i \in 1..(Len(t) + 1) : P(i)
    BY DEF FirstSlash
  <1>7. FirstSlash(t) \in 1..(Len(t) + 1) /\ P(FirstSlash(t))
    <2> HIDE DEF P
    <2> QED BY <1>5, <1>6
  <1> QED BY <1>7

\* The first slash after a text without any.
LEMMA SlashAfter ==
    ASSUME NEW c \in Seq(NoSlash), NEW r \in Seq(Scalars)
    PROVE  /\ c \in Seq(Scalars) /\ c \o <<Slash>> \in Seq(Scalars)
           /\ (c \o <<Slash>>) \o r \in Seq(Scalars) /\ c \o <<Slash>> # <<>>
           /\ FirstSlash((c \o <<Slash>>) \o r) = Len(c \o <<Slash>>)
           /\ SubSeq((c \o <<Slash>>) \o r, 1, Len(c \o <<Slash>>) - 1) = c
  <1> DEFINE a == c \o <<Slash>>
             s == a \o r
             n == Len(c)
  <1>1. c \in Seq(Scalars) /\ n \in Nat /\ Len(r) \in Nat /\ \A i \in 1..n : c[i] \in NoSlash
    BY SeqMonotonic, LenProperties, ElementOfSeq DEF NoSlash
  <1>2. <<Slash>> \in Seq(Scalars) /\ Len(<<Slash>>) = 1 /\ <<Slash>>[1] = Slash
    BY Table
  <1>3. /\ a \in Seq(Scalars) /\ Len(a) = n + 1
        /\ \A i \in 1..(n + 1) : a[i] = IF i <= n THEN c[i] ELSE <<Slash>>[i - n]
    <2>1. /\ a \in Seq(Scalars) /\ Len(a) = Len(c) + Len(<<Slash>>)
          /\ \A i \in 1..(Len(c) + Len(<<Slash>>)) :
                a[i] = IF i <= Len(c) THEN c[i] ELSE <<Slash>>[i - Len(c)]
      BY <1>1, <1>2, ConcatProperties, Zenon
    <2> QED BY <1>2, <2>1
  <1>4. a[n + 1] = Slash /\ \A i \in 1..n : a[i] = c[i] /\ a[i] # Slash
    <2>1. n + 1 \in 1..(n + 1) /\ ~(n + 1 <= n) /\ (n + 1) - n = 1
      BY <1>1
    <2>2. a[n + 1] = Slash
      BY <1>2, <1>3, <2>1
    <2>3. ASSUME NEW i \in 1..n PROVE a[i] = c[i] /\ a[i] # Slash
      <3>1. i \in 1..(n + 1) /\ i <= n
        BY <1>1
      <3> QED BY <1>1, <1>3, <3>1 DEF NoSlash
    <2> QED BY <2>2, <2>3
  <1> HIDE DEF a
  <1>5. /\ s \in Seq(Scalars) /\ Len(s) = (n + 1) + Len(r)
        /\ \A i \in 1..(n + 1) : s[i] = a[i]
    <2>1. /\ s \in Seq(Scalars) /\ Len(s) = Len(a) + Len(r)
          /\ \A i \in 1..(Len(a) + Len(r)) : s[i] = IF i <= Len(a) THEN a[i] ELSE r[i - Len(a)]
      BY <1>3, ConcatProperties, Zenon
    <2>2. ASSUME NEW i \in 1..(n + 1) PROVE s[i] = a[i]
      <3>1. i \in 1..(Len(a) + Len(r)) /\ i <= Len(a)
        BY <1>1, <1>3
      <3> QED BY <2>1, <3>1
    <2> QED BY <1>3, <2>1, <2>2
  <1> HIDE DEF s, n
  <1>6. FirstSlash(s) = n + 1
    <2> DEFINE k == FirstSlash(s)
    <2>1. /\ k \in 1..(Len(s) + 1) /\ (k <= Len(s) => s[k] = Slash)
          /\ \A j \in 1..(k - 1) : s[j] # Slash
      BY <1>5, FirstSlashLaws
    <2> HIDE DEF k
    <2>2. ASSUME k < n + 1 PROVE FALSE
      <3>1. k \in 1..n /\ k <= Len(s) /\ k \in 1..(n + 1)
        BY <1>1, <1>5, <2>1, <2>2
      <3> QED BY <1>4, <1>5, <2>1, <3>1
    <2>3. ASSUME n + 1 < k PROVE FALSE
      <3>1. n + 1 \in 1..(k - 1) /\ n + 1 \in 1..(n + 1)
        BY <1>1, <1>5, <2>1, <2>3
      <3> QED BY <1>4, <1>5, <2>1, <3>1
    <2>4. k = n + 1
      <3>1. k \in Nat /\ n + 1 \in Nat
        BY <1>1, <1>5, <2>1
      <3> QED BY <2>2, <2>3, <3>1
    <2> QED BY <2>4 DEF k
  <1>7. SubSeq(s, 1, n) = c
    <2> DEFINE u == SubSeq(s, 1, n)
    <2>1. n \in 0..Len(s)
      BY <1>1, <1>5
    <2>2. u \in Seq(Scalars) /\ Len(u) = n /\ \A i \in 1..n : u[i] = s[i]
      BY <1>5, <2>1, CutAt
    <2> HIDE DEF u
    <2>3. \A i \in 1..Len(u) : u[i] = c[i]
      <3>1. \A i \in 1..n : i \in 1..(n + 1)
        BY <1>1
      <3> QED BY <1>4, <1>5, <2>2, <3>1
    <2>4. u = c
      BY <1>1, <2>2, <2>3, SeqEqual DEF n
    <2> QED BY <2>4 DEF u
  <1>8. Len(a) - 1 = n /\ a # <<>>
    BY <1>1, <1>3, EmptySeq
  <1> QED BY <1>1, <1>3, <1>5, <1>6, <1>7, <1>8 DEF a, s

\* The turns of str::split.
LEMMA ComponentTurns ==
  /\ Components[<<>>] = <<>>
  /\ \A c \in Seq(NoSlash), r \in Seq(Scalars) :
        Components[(c \o <<Slash>>) \o r] = <<c>> \o Components[r]
  <1> DEFINE width == [t \in Seq(Scalars) |-> FirstSlash(t)]
             piece == [t \in Seq(Scalars) |-> <<SubSeq(t, 1, FirstSlash(t) - 1)>>]
             D == Seq(Scalars)
  <1>1. ASSUME NEW t \in Seq(Scalars), t # <<>>
        PROVE  FirstSlash(t) \in Nat \ {0} /\ <<SubSeq(t, 1, FirstSlash(t) - 1)>> \in Seq(D)
    <2>1. FirstSlash(t) \in 1..(Len(t) + 1) /\ Len(t) \in Nat
      BY FirstSlashLaws, LenProperties
    <2>2. FirstSlash(t) - 1 \in 0..Len(t)
      BY <2>1
    <2>3. \A n \in 0..Len(t) : SubSeq(t, 1, n) \in D
      BY CutAt
    <2>4. SubSeq(t, 1, FirstSlash(t) - 1) \in D
      BY <2>2, <2>3
    <2> HIDE DEF D
    <2> QED BY <2>1, <2>4
  <1>2. Turns(Scalars, D, width, piece)
    <2> HIDE DEF D
    <2> QED BY <1>1 DEF Turns
  <1>3. Loop(Components, Scalars, D, width, piece)
    <2> HIDE DEF width, piece, D
    <2>1. Loop(Scan(Scalars, width, piece), Scalars, D, width, piece)
      BY <1>2, ScanUnfolds
    <2> QED BY <2>1 DEF Components, width, piece
  <1>4. Advances(Components, Scalars, width, piece)
    <2> HIDE DEF width, piece, D
    <2> QED BY <1>3, LoopTurn
  <1>5. ASSUME NEW c \in Seq(NoSlash), NEW r \in Seq(Scalars)
        PROVE  Components[(c \o <<Slash>>) \o r] = <<c>> \o Components[r]
    <2> DEFINE a == c \o <<Slash>>
    <2>1. /\ a \in Seq(Scalars) /\ a \o r \in Seq(Scalars) /\ a # <<>>
          /\ FirstSlash(a \o r) = Len(a) /\ SubSeq(a \o r, 1, Len(a) - 1) = c
      BY SlashAfter
    <2> HIDE DEF a
    <2>2. width[a \o r] = Len(a) /\ piece[a \o r] = <<c>>
      BY <2>1
    <2>3. Components[a \o r] = piece[a \o r] \o Components[r]
      <3> HIDE DEF width, piece
      <3> QED BY <1>4, <2>1, <2>2 DEF Advances
    <2> QED BY <2>2, <2>3 DEF a
  <1> QED BY <1>3, <1>5 DEF Loop

\* str::split, one component at a time.
LEMMA SplitUnfolds ==
    ASSUME NEW t \in Seq(Scalars)
    PROVE  /\ t \in Seq(NoSlash) => Split(t) = <<t>>
           /\ \A c \in Seq(NoSlash), r \in Seq(Scalars) :
                 Split((c \o <<Slash>>) \o r) = <<c>> \o Split(r)
  <1>0. <<Slash>> \in Seq(Scalars) /\ Slash \in Scalars /\ Associative(Scalars)
    BY Table, Regroup
  <1>1. \A u \in Seq(Scalars) : Split(u) = Components[u \o <<Slash>>]
    BY <1>0, AppendIsConcat DEF Split
  <1>2. ASSUME t \in Seq(NoSlash) PROVE Split(t) = <<t>>
    <2>1. t \o <<Slash>> \in Seq(Scalars) /\ <<>> \in Seq(Scalars)
      BY <1>0, EmptySeq, ConcatProperties
    <2>2. (t \o <<Slash>>) \o <<>> = t \o <<Slash>>
      BY <2>1, ConcatEmptySeq
    <2>3. Components[(t \o <<Slash>>) \o <<>>] = <<t>> \o Components[<<>>]
      BY <1>2, <2>1, ComponentTurns
    <2>4. <<t>> \o <<>> = <<t>>
      OBVIOUS
    <2> QED BY <1>1, <2>2, <2>3, <2>4, ComponentTurns
  <1>3. ASSUME NEW c \in Seq(NoSlash), NEW r \in Seq(Scalars)
        PROVE  Split((c \o <<Slash>>) \o r) = <<c>> \o Split(r)
    <2> DEFINE a == c \o <<Slash>>
    <2>1. a \in Seq(Scalars) /\ a \o r \in Seq(Scalars)
      BY SlashAfter
    <2> HIDE DEF a
    <2>2. (a \o r) \o <<Slash>> = a \o (r \o <<Slash>>) /\ r \o <<Slash>> \in Seq(Scalars)
      BY <1>0, <2>1, ConcatProperties DEF Associative
    <2>3. Components[a \o (r \o <<Slash>>)] = <<c>> \o Components[r \o <<Slash>>]
      BY <2>2, ComponentTurns DEF a
    <2>4. Split(a \o r) = <<c>> \o Split(r)
      BY <1>1, <2>1, <2>2, <2>3
    <2> QED BY <2>4 DEF a
  <1> QED BY <1>2, <1>3

\* A text is one component, or one component, a slash and a text.
LEMMA ComponentAtHead ==
    ASSUME NEW t \in Seq(Scalars)
    PROVE  \/ t \in Seq(NoSlash)
           \/ \E c \in Seq(NoSlash), r \in Seq(Scalars) :
                 t = (c \o <<Slash>>) \o r /\ Len(r) < Len(t)
  <1> DEFINE k == FirstSlash(t)
  <1>1. /\ k \in 1..(Len(t) + 1) /\ (k <= Len(t) => t[k] = Slash)
        /\ \A j \in 1..(k - 1) : t[j] # Slash
    BY FirstSlashLaws
  <1> HIDE DEF k
  <1>2. Len(t) \in Nat /\ t \in [1..Len(t) -> Scalars] /\ \A i \in 1..Len(t) : t[i] \in Scalars
    BY LenProperties
  <1>3. CASE ~(k <= Len(t))
    <2>1. \A i \in 1..Len(t) : t[i] \in NoSlash
      <3>1. \A i \in 1..Len(t) : i \in 1..(k - 1)
        BY <1>1, <1>2, <1>3
      <3> QED BY <1>1, <1>2, <3>1 DEF NoSlash
    <2>2. t \in [1..Len(t) -> NoSlash]
      BY <1>2, <2>1
    <2> QED BY <1>2, <2>2, FunctionIsSeq
  <1>4. CASE k <= Len(t)
    <2>1. k \in 0..Len(t) /\ k - 1 \in 0..Len(t) /\ k \in 1..Len(t)
      BY <1>1, <1>2, <1>4
    <2>2. \A n \in 0..Len(t) :
             /\ SubSeq(t, 1, n) \in Seq(Scalars) /\ Len(SubSeq(t, 1, n)) = n
             /\ SubSeq(t, n + 1, Len(t)) \in Seq(Scalars)
             /\ Len(SubSeq(t, n + 1, Len(t))) = Len(t) - n
             /\ t = SubSeq(t, 1, n) \o SubSeq(t, n + 1, Len(t))
             /\ \A i \in 1..n : SubSeq(t, 1, n)[i] = t[i]
      BY CutAt
    <2> DEFINE c == SubSeq(t, 1, k - 1)
               a == SubSeq(t, 1, k)
               r == SubSeq(t, k + 1, Len(t))
    <2>3. c \in Seq(Scalars) /\ Len(c) = k - 1 /\ \A i \in 1..(k - 1) : c[i] = t[i]
      BY <2>1, <2>2
    <2>4. /\ a \in Seq(Scalars) /\ Len(a) = k /\ r \in Seq(Scalars) /\ Len(r) = Len(t) - k
          /\ t = a \o r /\ \A i \in 1..k : a[i] = t[i]
      BY <2>1, <2>2
    <2> HIDE DEF a, c, r
    <2>5. c \in Seq(NoSlash)
      <3>1. k - 1 \in Nat /\ \A i \in 1..(k - 1) : i \in 1..Len(t)
        BY <1>2, <2>1
      <3>2. \A i \in 1..(k - 1) : c[i] \in NoSlash
        BY <1>1, <1>2, <2>3, <3>1 DEF NoSlash
      <3>3. c \in [1..(k - 1) -> Scalars]
        BY <2>3, LenProperties
      <3>4. c \in [1..(k - 1) -> NoSlash]
        BY <3>2, <3>3
      <3> QED BY <3>1, <3>4, FunctionIsSeq
    <2>6. a = c \o <<Slash>>
      <3> DEFINE b == c \o <<Slash>>
      <3>1. <<Slash>> \in Seq(Scalars) /\ Len(<<Slash>>) = 1 /\ <<Slash>>[1] = Slash
        BY Table
      <3>2. /\ b \in Seq(Scalars) /\ Len(b) = Len(c) + Len(<<Slash>>)
            /\ \A i \in 1..(Len(c) + Len(<<Slash>>)) :
                  b[i] = IF i <= Len(c) THEN c[i] ELSE <<Slash>>[i - Len(c)]
        BY <2>3, <3>1, ConcatProperties, Zenon
      <3> HIDE DEF b
      <3>3. Len(b) = k
        BY <1>2, <2>1, <2>3, <3>1, <3>2
      <3>4. ASSUME NEW i \in 1..Len(a) PROVE a[i] = b[i]
        <4>1. i \in 1..k /\ i \in 1..(Len(c) + Len(<<Slash>>))
          BY <1>2, <2>1, <2>3, <2>4, <3>1
        <4>2. CASE i <= Len(c)
          <5>1. i \in 1..(k - 1) /\ b[i] = c[i]
            BY <2>3, <3>2, <4>1, <4>2
          <5> QED BY <2>3, <2>4, <4>1, <5>1
        <4>3. CASE ~(i <= Len(c))
          <5>1. i = k /\ i - Len(c) = 1
            BY <1>2, <2>1, <2>3, <4>1, <4>3
          <5>2. b[i] = Slash
            BY <3>1, <3>2, <4>1, <4>3, <5>1
          <5> QED BY <1>1, <1>4, <2>4, <4>1, <5>1, <5>2
        <4> QED BY <4>2, <4>3
      <3>5. a = b
        BY <2>4, <3>2, <3>3, <3>4, SeqEqual
      <3> QED BY <3>5 DEF b
    <2>7. Len(r) < Len(t)
      BY <1>2, <2>1, <2>4
    <2> QED BY <2>4, <2>5, <2>6, <2>7
  <1> QED BY <1>3, <1>4

\* There is always a component, and none has a slash.
LEMMA SplitType == \A t \in Seq(Scalars) : Split(t) \in Seq(Seq(NoSlash)) \ {<<>>}
  <1> DEFINE D == Seq(NoSlash)
             G == {t \in Seq(Scalars) : Split(t) \in Seq(D) \ {<<>>}}
  <1>1. ASSUME NEW t \in Seq(Scalars), \A r \in Seq(Scalars) : Len(r) < Len(t) => r \in G
        PROVE  t \in G
    <2>1. CASE t \in D
      <3>1. Split(t) = <<t>>
        BY <2>1, SplitUnfolds
      <3>2. <<t>> \in Seq(D) /\ <<t>> # <<>>
        <4> HIDE DEF D
        <4> QED BY <2>1
      <3> QED BY <3>1, <3>2
    <2>2. ASSUME NEW c \in D, NEW r \in Seq(Scalars), t = (c \o <<Slash>>) \o r, Len(r) < Len(t)
          PROVE  t \in G
      <3>1. Split(t) = <<c>> \o Split(r)
        BY <2>2, SplitUnfolds
      <3>2. Split(r) \in Seq(D)
        BY <1>1, <2>2
      <3> HIDE DEF D
      <3>3. <<c>> \o Split(r) \in Seq(D) \ {<<>>}
        BY <3>2, ConsSeq
      <3> QED BY <3>1, <3>3
    <2> QED BY <2>1, <2>2, ComponentAtHead
  <1> HIDE DEF G
  <1>2. \A t \in Seq(Scalars) : t \in G
    BY <1>1, ByLength
  <1> QED BY <1>2 DEF G

(***************************************************************************)
(* Joined components.                                                      *)
(***************************************************************************)

\* The components g[x], each after a slash.
Trail(g, X) == [t \in Seq(X) |-> FlattenSeq(Mapped([x \in X |-> <<Slash>> \o g[x]], t))]

\* What follows the first component is laid out component by component.
LEMMA TrailLaws ==
    ASSUME NEW X, NEW g \in [X -> Seq(Scalars)]
    PROVE  Morphism(Trail(g, X), [x \in X |-> <<Slash>> \o g[x]], Scalars, X)
  <1> DEFINE e == [x \in X |-> <<Slash>> \o g[x]]
  <1>1. e \in [X -> Seq(Scalars)]
    BY Table, ConsSeq
  <1> HIDE DEF e
  <1>2. Morphism([t \in Seq(X) |-> FlattenSeq(Mapped(e, t))], e, Scalars, X)
    BY <1>1, FlattenMap
  <1> QED BY <1>2 DEF Trail, e

\* Joined components are the first one and the trail of the others.
LEMMA JoinedTrail ==
    ASSUME NEW X, NEW g \in [X -> Seq(Scalars)], NEW b \in X, NEW t \in Seq(X)
    PROVE  Joined(Mapped(g, <<b>> \o t)) = g[b] \o Trail(g, X)[t]
  <1> DEFINE e == [x \in X |-> <<Slash>> \o g[x]]
             D == Seq(Scalars)
             m == Mapped(e, t)
             u == <<b>> \o t
             cs == Mapped(g, u)
             w == [i \in 1..Len(cs) |-> IF i = 1 THEN cs[i] ELSE <<Slash>> \o cs[i]]
             v == <<g[b]>> \o m
  <1>1. e \in [X -> D] /\ g[b] \in D
    BY Table, ConsSeq
  <1>2. /\ u \in Seq(X) /\ Len(u) = Len(t) + 1 /\ Len(t) \in Nat
        /\ u[1] = b /\ \A i \in 1..Len(t) : u[i + 1] = t[i] /\ t[i] \in X
    BY ConsSeq, LenProperties, ElementOfSeq
  <1>3. m \in Seq(D) /\ Len(m) = Len(t)
    <2> HIDE DEF e, D
    <2>1. Maps(e, X, D)
      BY <1>1, MappedLaws
    <2> QED BY <2>1 DEF Maps
  <1>4. \A i \in 1..Len(t) : m[i] = <<Slash>> \o g[t[i]]
    BY <1>2 DEF Mapped
  <1>5. cs \in Seq(D) /\ Len(cs) = Len(t) + 1 /\ \A i \in 1..(Len(t) + 1) : cs[i] = g[u[i]]
    <2> HIDE DEF u, D
    <2>1. Maps(g, X, D)
      BY MappedLaws DEF D
    <2>2. cs \in Seq(D) /\ Len(cs) = Len(u)
      BY <1>2, <2>1 DEF Maps
    <2>3. \A i \in 1..Len(u) : cs[i] = g[u[i]]
      BY DEF Mapped
    <2> QED BY <1>2, <2>2, <2>3
  <1> HIDE DEF m, e, cs, u
  <1>6. /\ v \in Seq(D) /\ Len(v) = Len(t) + 1 /\ v[1] = g[b]
        /\ \A i \in 1..Len(t) : v[i + 1] = m[i]
    <2> HIDE DEF D
    <2> QED BY <1>1, <1>3, ConsSeq
  <1> HIDE DEF v
  <1>7. \A i \in 1..(Len(t) + 1) : w[i] = v[i] /\ w[i] \in D
    <2> SUFFICES ASSUME NEW i \in 1..(Len(t) + 1) PROVE w[i] = v[i] /\ w[i] \in D
      OBVIOUS
    <2>0. w[i] = IF i = 1 THEN cs[i] ELSE <<Slash>> \o cs[i]
      BY <1>5
    <2>1. CASE i = 1
      BY <1>1, <1>2, <1>5, <1>6, <2>0, <2>1
    <2>2. CASE i # 1
      <3>1. i - 1 \in 1..Len(t) /\ (i - 1) + 1 = i
        BY <1>2, <2>2
      <3>2. u[i] = t[i - 1] /\ v[i] = m[i - 1] /\ cs[i] = g[u[i]]
        BY <1>2, <1>5, <1>6, <3>1
      <3>3. v[i] = <<Slash>> \o g[t[i - 1]] /\ w[i] = <<Slash>> \o cs[i]
        BY <1>4, <2>0, <2>2, <3>1, <3>2
      <3>4. v[i] \in D
        <4>1. i \in 1..Len(v)
          BY <1>6
        <4> HIDE DEF D
        <4> QED BY <1>6, <4>1, ElementOfSeq
      <3> QED BY <3>2, <3>3, <3>4
    <2> QED BY <2>1, <2>2
  <1>8. w = v
    <2>1. w \in [1..(Len(t) + 1) -> D] /\ Len(t) + 1 \in Nat
      BY <1>2, <1>5, <1>7
    <2> HIDE DEF w, D
    <2>2. w \in Seq(D) /\ Len(w) = Len(t) + 1
      BY <2>1, FunctionIsSeq
    <2>3. \A i \in 1..Len(w) : w[i] = v[i]
      BY <1>7, <2>2
    <2> QED BY <1>6, <2>2, <2>3, SeqEqual
  <1>9. Joined(cs) = FlattenSeq(w)
    BY DEF Joined
  <1>10. FlattenSeq(v) = g[b] \o FlattenSeq(m)
    BY <1>1, <1>3, FlattenCons DEF v
  <1>11. Trail(g, X)[t] = FlattenSeq(m)
    BY DEF Trail, m, e
  <1> HIDE DEF w
  <1> QED BY <1>8, <1>9, <1>10, <1>11 DEF cs, u

\* Splitting finds the components that were joined.
LEMMA SplitTrail ==
    ASSUME NEW X, NEW g \in [X -> Seq(NoSlash)]
    PROVE  \A t \in Seq(X) : \A c \in Seq(NoSlash) :
              Split(c \o Trail(g, X)[t]) = <<c>> \o Mapped(g, t)
  <1> DEFINE D == Seq(NoSlash)
             f == Trail(g, X)
             e == [x \in X |-> <<Slash>> \o g[x]]
             G == {t \in Seq(X) : \A c \in D : Split(c \o f[t]) = <<c>> \o Mapped(g, t)}
  <1>1. g \in [X -> Seq(Scalars)] /\ \A c \in D : c \in Seq(Scalars)
    <2>1. \A c \in D : c \in Seq(Scalars)
      BY SeqMonotonic DEF NoSlash
    <2> QED BY <2>1
  <1>2. Morphism(f, e, Scalars, X)
    BY <1>1, TrailLaws
  <1>3. Maps(g, X, D)
    BY MappedLaws
  <1>4. Associative(Scalars) /\ <<Slash>> \in Seq(Scalars)
    BY Regroup, Table
  <1>5. \A t \in Seq(X) : f[t] \in Seq(Scalars)
    BY <1>2 DEF Morphism
  <1>6. ASSUME NEW t \in Seq(X), \A r \in Seq(X) : Len(r) < Len(t) => r \in G PROVE t \in G
    <2> SUFFICES ASSUME NEW c \in D PROVE Split(c \o f[t]) = <<c>> \o Mapped(g, t)
      OBVIOUS
    <2>0. c \in Seq(Scalars)
      BY <1>1
    <2>1. CASE t = <<>>
      <3>1. f[t] = <<>>
        BY <1>2, <2>1 DEF Morphism
      <3>2. Mapped(g, t) = <<>>
        BY <2>1 DEF Mapped
      <3>3. c \o <<>> = c /\ <<c>> \o <<>> = <<c>>
        BY <2>0, ConcatEmptySeq
      <3>4. Split(c) = <<c>>
        BY <2>0, SplitUnfolds
      <3> HIDE DEF f
      <3> QED BY <3>1, <3>2, <3>3, <3>4
    <2>2. CASE t # <<>>
      <3>1. PICK x \in X, r \in Seq(X) : t = <<x>> \o r /\ Len(r) < Len(t)
        BY <2>2, HeadAndRest
      <3> DEFINE d == g[x]
                 u == f[r]
                 s == <<Slash>>
      <3>2. f[t] = e[x] \o u /\ e[x] = s \o d
        <4>1. f[t] = e[x] \o u
          <5> HIDE DEF f, e
          <5> QED BY <1>2, <3>1 DEF Morphism
        <4> QED BY <4>1
      <3>3. d \in D /\ d \in Seq(Scalars) /\ u \in Seq(Scalars) /\ s \in Seq(Scalars)
        BY <1>1, <1>4, <1>5
      <3>4. Split(d \o u) = <<d>> \o Mapped(g, r)
        <4>1. r \in G
          BY <1>6, <3>1
        <4> QED BY <3>3, <4>1
      <3>5. Mapped(g, t) = <<d>> \o Mapped(g, r)
        BY <1>3, <3>1 DEF Maps
      <3> HIDE DEF f, e, u, s, d
      <3>6. c \o ((s \o d) \o u) = (c \o s) \o (d \o u)
        <4>1. (s \o d) \o u = s \o (d \o u) /\ d \o u \in Seq(Scalars)
          BY <1>4, <3>3, ConcatProperties DEF Associative
        <4> DEFINE w == d \o u
        <4> HIDE DEF w
        <4>2. (c \o s) \o w = c \o (s \o w)
          BY <1>4, <2>0, <3>3, <4>1 DEF Associative, w
        <4> QED BY <4>1, <4>2 DEF w
      <3>7. d \o u \in Seq(Scalars)
        BY <3>3, ConcatProperties
      <3>8. Split((c \o s) \o (d \o u)) = <<c>> \o Split(d \o u)
        BY <2>0, <3>7, SplitUnfolds DEF s
      <3> QED BY <3>2, <3>4, <3>5, <3>6, <3>8
    <2> QED BY <2>1, <2>2
  <1> HIDE DEF G
  <1>7. \A t \in Seq(X) : t \in G
    BY <1>6, ByLength
  <1> QED BY <1>7 DEF G, f, D

\* Splitting undoes joining.
LEMMA SplitJoined ==
    ASSUME NEW X, NEW g \in [X -> Seq(NoSlash)], NEW bss \in Seq(X), bss # <<>>
    PROVE  /\ Joined(Mapped(g, bss)) \in Seq(Scalars)
           /\ Split(Joined(Mapped(g, bss))) = Mapped(g, bss)
  <1>1. PICK b \in X, t \in Seq(X) : bss = <<b>> \o t /\ Len(t) < Len(bss)
    BY HeadAndRest
  <1>2. g \in [X -> Seq(Scalars)] /\ g[b] \in Seq(NoSlash) /\ g[b] \in Seq(Scalars)
    <2>1. \A c \in Seq(NoSlash) : c \in Seq(Scalars)
      BY SeqMonotonic DEF NoSlash
    <2> QED BY <2>1
  <1> DEFINE u == Trail(g, X)[t]
  <1>3. Joined(Mapped(g, bss)) = g[b] \o u
    BY <1>1, <1>2, JoinedTrail
  <1>4. Split(g[b] \o u) = <<g[b]>> \o Mapped(g, t)
    BY <1>2, SplitTrail
  <1>5. Mapped(g, bss) = <<g[b]>> \o Mapped(g, t)
    <2>1. Maps(g, X, Seq(NoSlash))
      BY MappedLaws
    <2> QED BY <1>1, <2>1 DEF Maps
  <1>6. u \in Seq(Scalars)
    <2>1. Morphism(Trail(g, X), [x \in X |-> <<Slash>> \o g[x]], Scalars, X)
      BY <1>2, TrailLaws
    <2> QED BY <2>1 DEF Morphism
  <1> HIDE DEF u
  <1>7. g[b] \o u \in Seq(Scalars)
    BY <1>2, <1>6, ConcatProperties
  <1> QED BY <1>3, <1>4, <1>5, <1>7

\* A sequence without v is one over the other elements.
LEMMA FreeOf ==
    ASSUME NEW S, NEW s \in Seq(S), NEW v, ~Contains(s, v)
    PROVE  s \in Seq(S \ {v})
  <1>1. Len(s) \in Nat /\ s \in [1..Len(s) -> S]
    BY LenProperties
  <1>2. \A i \in 1..Len(s) : s[i] \in S \ {v}
    BY ElementOfSeq DEF Contains
  <1>3. s \in [1..Len(s) -> S \ {v}]
    BY <1>1, <1>2
  <1> QED BY <1>1, <1>3, FunctionIsSeq

\* The bytes that a component may hold.
Contents == {bs \in Seq(Bytes) : ~Contains(bs, Slash)}
Canon == [bs \in Contents |-> CanonicalizeUriBytes[bs]]
Uris == [bs \in Contents |-> UriOf(bs)]

\* The canonical forms of allowed bytes are components.
LEMMA ContentsLaws ==
  /\ Canon \in [Contents -> Seq(NoSlash)] /\ Uris \in [Contents -> Seq(NoSlash)]
  /\ Canon \in [Contents -> Seq(Scalars)] /\ Uris \in [Contents -> Seq(Scalars)]
  <1>1. \A c \in Seq(NoSlash) : c \in Seq(Scalars)
    BY SeqMonotonic DEF NoSlash
  <1>2. ASSUME NEW bs \in Contents PROVE CanonicalizeUriBytes[bs] \in Seq(NoSlash)
    <2> DEFINE w == CanonicalizeUriBytes[bs]
    <2>1. w \in Seq(Scalars)
      BY CanonicalTurns DEF Contents
    <2>2. ~Contains(w, Slash)
      BY Canonicalized DEF Canonical, Contents
    <2> HIDE DEF w
    <2>3. w \in Seq(Scalars \ {Slash})
      BY <2>1, <2>2, FreeOf
    <2> QED BY <2>3 DEF w, NoSlash
  <1>3. ASSUME NEW bs \in Contents PROVE UriOf(bs) \in Seq(NoSlash)
    BY UriOfUnescapes DEF Contents, NoSlash
  <1>4. Canon \in [Contents -> Seq(NoSlash)] /\ Uris \in [Contents -> Seq(NoSlash)]
    BY <1>2, <1>3 DEF Canon, Uris
  <1> QED BY <1>1, <1>4

\* The canonical URI of joined components joins theirs.
LEMMA UriTrail ==
    \A t \in Seq(Contents) :
        CanonicalUri[Trail(Canon, Contents)[t]] = Trail(Uris, Contents)[t]
  <1> DEFINE f == Trail(Canon, Contents)
             h == Trail(Uris, Contents)
             e == [x \in Contents |-> <<Slash>> \o Canon[x]]
             k == [x \in Contents |-> <<Slash>> \o Uris[x]]
             G == {t \in Seq(Contents) : CanonicalUri[f[t]] = h[t]}
  <1>1. Morphism(f, e, Scalars, Contents) /\ Morphism(h, k, Scalars, Contents)
    BY ContentsLaws, TrailLaws
  <1>2. Associative(Scalars) /\ <<Slash>> \in Seq(Scalars)
    BY Regroup, Table
  <1>3. ASSUME NEW t \in Seq(Contents), \A r \in Seq(Contents) : Len(r) < Len(t) => r \in G
        PROVE  t \in G
    <2>1. CASE t = <<>>
      <3>1. f[t] = <<>> /\ h[t] = <<>>
        BY <1>1, <2>1 DEF Morphism
      <3> HIDE DEF f, h
      <3>2. CanonicalUri[f[t]] = h[t]
        BY <3>1, UriTurns
      <3> QED BY <3>2
    <2>2. CASE t # <<>>
      <3>1. PICK x \in Contents, r \in Seq(Contents) : t = <<x>> \o r /\ Len(r) < Len(t)
        BY <2>2, HeadAndRest
      <3> DEFINE c == Canon[x]
                 d == Uris[x]
                 u == f[r]
                 w == h[r]
                 s == <<Slash>>
      <3>2. f[t] = e[x] \o u /\ h[t] = k[x] \o w
        <4> HIDE DEF f, h, e, k
        <4> QED BY <1>1, <3>1 DEF Morphism
      <3>3. e[x] = s \o c /\ k[x] = s \o d
        OBVIOUS
      <3>4. /\ c \in Seq(Scalars) /\ d \in Seq(Scalars) /\ u \in Seq(Scalars)
            /\ w \in Seq(Scalars) /\ s \in Seq(Scalars)
        BY <1>1, <1>2, ContentsLaws DEF Morphism
      <3>5. CanonicalUri[u] = w
        BY <1>3, <3>1
      <3>6. \A z \in Seq(Scalars) : CanonicalUri[c \o z] = d \o CanonicalUri[z]
        BY Canonicalized DEF Canonical, Contents, Canon, Uris
      <3>7. \A z \in Seq(Scalars) : CanonicalUri[s \o z] = s \o CanonicalUri[z]
        <4>1. Slash \in Scalars \ {Percent} /\ UriScalar(Slash) = <<Slash>>
          BY Table DEF UriScalar
        <4> QED BY <4>1, UriTurns
      <3> HIDE DEF f, h, e, k, c, d, u, w, s
      <3>8. (s \o c) \o u = s \o (c \o u) /\ c \o u \in Seq(Scalars)
        BY <1>2, <3>4, ConcatProperties DEF Associative
      <3>9. (s \o d) \o w = s \o (d \o w)
        BY <1>2, <3>4 DEF Associative
      <3>10. CanonicalUri[c \o u] = d \o w
        BY <3>4, <3>5, <3>6
      <3>11. CanonicalUri[s \o (c \o u)] = s \o (d \o w)
        BY <3>7, <3>8, <3>10
      <3>12. CanonicalUri[f[t]] = h[t]
        BY <3>2, <3>3, <3>8, <3>9, <3>11
      <3> QED BY <3>12 DEF f, h
    <2> QED BY <2>1, <2>2
  <1> HIDE DEF G
  <1>4. \A t \in Seq(Contents) : t \in G
    BY <1>3, ByLength
  <1> QED BY <1>4 DEF G, f, h

\* So the canonical URI of a path joins the canonical URIs of its components.
LEMMA UriJoined ==
    ASSUME NEW bss \in Seq(Contents), bss # <<>>
    PROVE  CanonicalUri[Joined(Mapped(Canon, bss))] = Joined(Mapped(Uris, bss))
  <1>1. PICK b \in Contents, t \in Seq(Contents) : bss = <<b>> \o t /\ Len(t) < Len(bss)
    BY HeadAndRest
  <1> DEFINE u == Trail(Canon, Contents)[t]
             w == Trail(Uris, Contents)[t]
  <1>2. Joined(Mapped(Canon, bss)) = Canon[b] \o u
    BY <1>1, ContentsLaws, JoinedTrail
  <1>3. Joined(Mapped(Uris, bss)) = Uris[b] \o w
    BY <1>1, ContentsLaws, JoinedTrail
  <1>4. CanonicalUri[u] = w
    BY UriTrail
  <1>5. u \in Seq(Scalars)
    <2>1. Morphism(Trail(Canon, Contents), [x \in Contents |-> <<Slash>> \o Canon[x]], Scalars, Contents)
      BY ContentsLaws, TrailLaws
    <2> QED BY <2>1 DEF Morphism
  <1>6. CanonicalUri[Canon[b] \o u] = Uris[b] \o CanonicalUri[u]
    <2>1. \A z \in Seq(Scalars) : CanonicalUri[Canon[b] \o z] = Uris[b] \o CanonicalUri[z]
      BY Canonicalized DEF Canonical, Contents, Canon, Uris
    <2> HIDE DEF u
    <2> QED BY <1>5, <2>1
  <1> QED BY <1>2, <1>3, <1>4, <1>6

\* The bytes that decode_component lets through.
Allowed(d) ==
    /\ d \in Seq(Bytes) /\ ~Contains(d, NUL) /\ ~Contains(d, Slash)
    /\ windows => ~Contains(d, Backslash)

\* decode_component depends on the unescaped bytes alone.
LEMMA ByContents ==
    ASSUME NEW c \in Seq(Scalars)
    PROVE  LET d == Unescape[AsBytes(c)]
           IN /\ DecodeComponent(c) # Err <=> Allowed(d)
              /\ Allowed(d) => DecodeUriBytes(c) = d /\ DecodeComponent(c) = CanonicalizeUriBytes[d]
  <1> DEFINE a == AsBytes(c)
             d == Unescape[a]
             w == CanonicalizeUriBytes[d]
  <1>1. a \in Seq(Bytes)
    BY AsBytesLaws
  <1>2. Decoded(a)
    BY <1>1, Unescaped
  <1>3. Contains(d, Err) <=> d \notin Seq(Bytes)
    <2>1. d \in Seq(Bytes) => ~Contains(d, Err)
      <3> HIDE DEF d
      <3> QED BY Table, ContainsOnly
    <2>2. ~Contains(d, Err) => d \in Seq(Bytes)
      BY <1>2 DEF Decoded
    <2> QED BY <2>1, <2>2
  <1>4. DecodeUriBytes(c) = IF d \notin Seq(Bytes) \/ Contains(d, NUL) THEN Err ELSE d
    <2>1. DecodeUriBytes(c) = IF Contains(d, Err) \/ Contains(d, NUL) THEN Err ELSE d
      BY DEF DecodeUriBytes
    <2> QED BY <1>3, <2>1
  <1> HIDE DEF d
  <1>5. ASSUME d \in Seq(Bytes)
        PROVE  /\ w \in Seq(Scalars) /\ w # Err
               /\ \A v \in {Slash, Backslash} : Contains(w, v) <=> Contains(d, v)
    <2>1. w \in Seq(Scalars)
      BY <1>5, CanonicalTurns
    <2>2. \A v \in {Slash, Backslash} : Contains(w, v) <=> Contains(d, v)
      BY <1>5, Canonicalized DEF Canonical
    <2> HIDE DEF w
    <2> QED BY <2>1, <2>2, Table
  <1>6. CASE d \notin Seq(Bytes) \/ Contains(d, NUL)
    <2>1. DecodeComponent(c) = Err
      BY <1>4, <1>6 DEF DecodeComponent
    <2> QED BY <1>6, <2>1 DEF Allowed, d
  <1>7. CASE d \in Seq(Bytes) /\ ~Contains(d, NUL)
    <2>1. DecodeUriBytes(c) = d /\ d # Err
      BY <1>4, <1>7, Table
    <2>2. DecodeComponent(c) =
            IF Contains(w, Slash) \/ (windows /\ Contains(w, Backslash)) THEN Err ELSE w
      BY <2>1 DEF DecodeComponent
    <2> HIDE DEF w
    <2>3. DecodeComponent(c) # Err <=> Allowed(d)
      BY <1>5, <1>7, <2>2 DEF Allowed
    <2>4. Allowed(d) => DecodeComponent(c) = w
      BY <1>5, <1>7, <2>2 DEF Allowed
    <2> QED BY <2>1, <2>3, <2>4 DEF d, w
  <1> QED BY <1>6, <1>7

(***************************************************************************)
(* Path::parse.                                                            *)
(***************************************************************************)

\* The rest of a sequence put together from its head and that rest.
LEMMA TailCons ==
    ASSUME NEW S, NEW x \in S, NEW r \in Seq(S)
    PROVE  Tail(<<x>> \o r) = r
  <1> DEFINE s == <<x>> \o r
  <1>1. /\ s \in Seq(S) /\ s # <<>> /\ Len(s) = Len(r) + 1 /\ Len(r) \in Nat
        /\ \A i \in 1..Len(r) : s[i + 1] = r[i]
    BY ConsSeq, LenProperties
  <1> HIDE DEF s
  <1>2. /\ Tail(s) \in Seq(S) /\ Len(Tail(s)) = Len(s) - 1
        /\ \A i \in 1..Len(Tail(s)) : Tail(s)[i] = s[i + 1]
    BY <1>1, HeadTailProperties
  <1> DEFINE t == Tail(s)
  <1> HIDE DEF t
  <1>3. t \in Seq(S) /\ Len(t) = Len(r) /\ \A i \in 1..Len(t) : t[i] = r[i]
    BY <1>1, <1>2 DEF t
  <1>4. t = r
    BY <1>3, SeqEqual
  <1> QED BY <1>4 DEF t, s

\* A sequence that is not empty is its head and its rest.
LEMMA ConsTail ==
    ASSUME NEW S, NEW s \in Seq(S), s # <<>>
    PROVE  Tail(s) \in Seq(S) /\ Len(Tail(s)) = Len(s) - 1 /\ s[1] \in S /\ s = <<s[1]>> \o Tail(s)
  <1>1. PICK x \in S, r \in Seq(S) : s = <<x>> \o r
    BY HeadAndRest
  <1>2. s[1] = x /\ Len(s) = Len(r) + 1 /\ Len(r) \in Nat
    BY <1>1, ConsSeq, LenProperties
  <1>3. Tail(s) = r
    BY <1>1, TailCons
  <1> QED BY <1>1, <1>2, <1>3

\* The pieces that Resolved puts together.
Pieces(cs) == [i \in 1..Len(cs) |-> IF Survives(cs, i) THEN <<cs[i]>> ELSE <<>>]

Nameable(X) == {x \in X : IsName(x)}

\* Only names are left.
LEMMA ResolvedType ==
    ASSUME NEW X, NEW cs \in Seq(X)
    PROVE  Pieces(cs) \in Seq(Seq(X)) /\ Resolved(cs) \in Seq(X) /\ Resolved(cs) \in Seq(Nameable(X))
  <1> DEFINE N == Nameable(X)
             D == Seq(N)
  <1>1. Len(cs) \in Nat /\ \A i \in 1..Len(cs) : cs[i] \in X
    BY LenProperties, ElementOfSeq
  <1>2. ASSUME NEW i \in 1..Len(cs) PROVE (IF Survives(cs, i) THEN <<cs[i]>> ELSE <<>>) \in D
    <2>1. CASE Survives(cs, i)
      <3>1. cs[i] \in N
        BY <1>1, <2>1 DEF Survives, Nameable
      <3> HIDE DEF N
      <3> QED BY <2>1, <3>1
    <2>2. CASE ~Survives(cs, i)
      <3> HIDE DEF N
      <3> QED BY <2>2, EmptySeq
    <2> QED BY <2>1, <2>2
  <1> HIDE DEF D
  <1>3. Pieces(cs) \in [1..Len(cs) -> D]
    BY <1>2 DEF Pieces
  <1>4. Pieces(cs) \in Seq(D)
    BY <1>1, <1>3, FunctionIsSeq
  <1>5. N \subseteq X
    BY DEF Nameable
  <1> HIDE DEF N
  <1>6. D \subseteq Seq(X)
    BY <1>5, SeqMonotonic DEF D
  <1>7. Pieces(cs) \in Seq(Seq(X))
    BY <1>4, <1>6, SeqMonotonic
  <1>8. <<>> \in Seq(N)
    BY EmptySeq
  <1>9. FlattenSeq(Pieces(cs)) \in Seq(N)
    BY <1>4, <1>8, FlattenCons DEF D
  <1>10. Resolved(cs) = FlattenSeq(Pieces(cs))
    BY DEF Resolved, Pieces
  <1>11. Resolved(cs) \in Seq(N)
    BY <1>9, <1>10
  <1>12. Resolved(cs) \in Seq(X)
    BY <1>6, <1>11 DEF D
  <1> QED BY <1>7, <1>11, <1>12 DEF N

\* Names are left as they are.
LEMMA ResolvedNames ==
    ASSUME NEW X, NEW cs \in Seq(Nameable(X))
    PROVE  Resolved(cs) = cs
  <1> DEFINE N == Nameable(X)
             e == [x \in N |-> <<x>>]
             f == [t \in Seq(N) |-> FlattenSeq(Mapped(e, t))]
             G == {t \in Seq(N) : f[t] = t}
  <1>1. \A x \in N : IsName(x) /\ x # Parent
    BY DEF Nameable, IsName
  <1> HIDE DEF N
  <1>2. Len(cs) \in Nat /\ \A i \in 1..Len(cs) : cs[i] \in N
    BY LenProperties, ElementOfSeq DEF N
  <1>3. ASSUME NEW i \in 1..Len(cs) PROVE Survives(cs, i)
    <2>1. ASSUME NEW j \in i..Len(cs)
          PROVE  Cardinality({k \in i..j : cs[k] = Parent})
                   < Cardinality({k \in i..j : IsName(cs[k])})
      <3>1. \A k \in i..j : k \in 1..Len(cs)
        BY <1>2
      <3>2. {k \in i..j : cs[k] = Parent} = {} /\ {k \in i..j : IsName(cs[k])} = i..j
        BY <1>1, <1>2, <3>1
      <3>3. Cardinality(i..j) = j - i + 1
        <4>1. i \in Int /\ j \in Int /\ ~(i > j)
          BY <1>2
        <4> QED BY <4>1, FS_Interval
      <3>4. 0 < j - i + 1
        BY <1>2
      <3>5. Cardinality({}) = 0
        BY FS_EmptySet
      <3> QED BY <3>2, <3>3, <3>4, <3>5
    <2> QED BY <1>1, <1>2, <2>1 DEF Survives
  <1>4. Pieces(cs) = Mapped(e, cs)
    <2>1. \A i \in 1..Len(cs) : e[cs[i]] = <<cs[i]>>
      BY <1>2
    <2> HIDE DEF e
    <2> QED BY <1>3, <2>1 DEF Pieces, Mapped
  <1>5. Morphism(f, e, N, N)
    <2>1. e \in [N -> Seq(N)]
      OBVIOUS
    <2> HIDE DEF e
    <2> QED BY <2>1, FlattenMap
  <1>6. ASSUME NEW t \in Seq(N), \A r \in Seq(N) : Len(r) < Len(t) => r \in G PROVE t \in G
    <2>1. CASE t = <<>>
      <3> HIDE DEF f
      <3> QED BY <1>5, <2>1 DEF Morphism
    <2>2. CASE t # <<>>
      <3>1. PICK x \in N, r \in Seq(N) : t = <<x>> \o r /\ Len(r) < Len(t)
        BY <2>2, HeadAndRest
      <3>2. f[r] = r
        BY <1>6, <3>1
      <3>3. e[x] = <<x>>
        OBVIOUS
      <3> HIDE DEF f, e
      <3>4. f[<<x>> \o r] = e[x] \o f[r]
        BY <1>5, <3>1 DEF Morphism
      <3>5. f[t] = t
        BY <3>1, <3>2, <3>3, <3>4
      <3> QED BY <3>5 DEF f
    <2> QED BY <2>1, <2>2
  <1> HIDE DEF G
  <1>7. \A t \in Seq(N) : t \in G
    BY <1>6, ByLength
  <1>8. f[cs] = cs
    BY <1>7 DEF G, N
  <1>9. f[cs] = FlattenSeq(Mapped(e, cs))
    BY DEF N
  <1> QED BY <1>4, <1>8, <1>9 DEF Resolved, Pieces

Concatenates(g, X) ==
    \A a, b \in Seq(X) : Mapped(g, a \o b) = Mapped(g, a) \o Mapped(g, b)

\* Mapping a concatenation.
LEMMA MappedConcat ==
    ASSUME NEW X, NEW Y, NEW g \in [X -> Y]
    PROVE  Concatenates(g, X)
  <1> SUFFICES ASSUME NEW a \in Seq(X), NEW b \in Seq(X)
               PROVE  Mapped(g, a \o b) = Mapped(g, a) \o Mapped(g, b)
    BY DEF Concatenates
  <1>1. Maps(g, X, Y)
    BY MappedLaws
  <1> DEFINE ma == Mapped(g, a)
             mb == Mapped(g, b)
             s == a \o b
             l == Mapped(g, s)
             r == ma \o mb
  <1>2. /\ Len(a) \in Nat /\ Len(b) \in Nat /\ s \in Seq(X) /\ Len(s) = Len(a) + Len(b)
        /\ \A i \in 1..(Len(a) + Len(b)) : s[i] = IF i <= Len(a) THEN a[i] ELSE b[i - Len(a)]
    BY LenProperties, ConcatProperties
  <1>3. /\ ma \in Seq(Y) /\ Len(ma) = Len(a) /\ mb \in Seq(Y) /\ Len(mb) = Len(b)
    BY <1>1 DEF Maps
  <1>4. l \in Seq(Y) /\ Len(l) = Len(s)
    <2> HIDE DEF s
    <2> QED BY <1>1, <1>2 DEF Maps
  <1>5. /\ \A i \in 1..Len(a) : ma[i] = g[a[i]]
        /\ \A i \in 1..Len(b) : mb[i] = g[b[i]]
        /\ \A i \in 1..Len(s) : l[i] = g[s[i]]
    BY DEF Mapped
  <1> HIDE DEF ma, mb, s, l
  <1>6. /\ r \in Seq(Y) /\ Len(r) = Len(a) + Len(b)
        /\ \A i \in 1..(Len(a) + Len(b)) : r[i] = IF i <= Len(a) THEN ma[i] ELSE mb[i - Len(a)]
    <2>1. /\ r \in Seq(Y) /\ Len(r) = Len(ma) + Len(mb)
          /\ \A i \in 1..(Len(ma) + Len(mb)) : r[i] = IF i <= Len(ma) THEN ma[i] ELSE mb[i - Len(ma)]
      BY <1>3, ConcatProperties
    <2> HIDE DEF r
    <2> QED BY <1>3, <2>1
  <1> HIDE DEF r
  <1>7. ASSUME NEW i \in 1..Len(l) PROVE l[i] = r[i]
    <2>0. i \in 1..(Len(a) + Len(b)) /\ i \in 1..Len(s)
      BY <1>2, <1>4
    <2>1. CASE i <= Len(a)
      <3>1. i \in 1..Len(a)
        BY <1>2, <2>0, <2>1
      <3> QED BY <1>2, <1>5, <1>6, <2>0, <2>1, <3>1
    <2>2. CASE ~(i <= Len(a))
      <3>1. i - Len(a) \in 1..Len(b)
        BY <1>2, <2>0, <2>2
      <3> QED BY <1>2, <1>5, <1>6, <2>0, <2>2, <3>1
    <2> QED BY <2>1, <2>2
  <1>8. l = r
    BY <1>2, <1>4, <1>6, <1>7, SeqEqual
  <1> QED BY <1>8 DEF l, r, s, ma, mb

Lifts(g, X) ==
    \A ps \in Seq(Seq(X)) :
       FlattenSeq(Mapped([p \in Seq(X) |-> Mapped(g, p)], ps)) = Mapped(g, FlattenSeq(ps))

\* Flattening first and mapping first come to the same.
LEMMA FlattenLifted ==
    ASSUME NEW X, NEW Y, NEW g \in [X -> Y]
    PROVE  Lifts(g, X)
  <1> DEFINE P == Seq(X)
             Q == Seq(Y)
             e == [p \in P |-> Mapped(g, p)]
             f == [ps \in Seq(P) |-> FlattenSeq(Mapped(e, ps))]
             G == {ps \in Seq(P) : f[ps] = Mapped(g, FlattenSeq(ps))}
  <1>1. e \in [P -> Q]
    <2>1. Maps(g, X, Y)
      BY MappedLaws
    <2>2. \A p \in P : Mapped(g, p) \in Q
      BY <2>1 DEF Maps
    <2> HIDE DEF Q
    <2> QED BY <2>2
  <1>2. Morphism(f, e, Y, P)
    <2> HIDE DEF e, P
    <2> QED BY <1>1, FlattenMap DEF Q
  <1>3. ASSUME NEW ps \in Seq(P), \A r \in Seq(P) : Len(r) < Len(ps) => r \in G PROVE ps \in G
    <2>1. CASE ps = <<>>
      <3>1. FlattenSeq(ps) = <<>>
        BY <2>1 DEF FlattenSeq
      <3>2. Mapped(g, <<>>) = <<>>
        BY DEF Mapped
      <3>3. f[ps] = <<>>
        <4> HIDE DEF f, e
        <4> QED BY <1>2, <2>1 DEF Morphism
      <3> HIDE DEF f
      <3> QED BY <3>1, <3>2, <3>3
    <2>2. CASE ps # <<>>
      <3>1. PICK p \in P, r \in Seq(P) : ps = <<p>> \o r /\ Len(r) < Len(ps)
        <4> HIDE DEF P
        <4> QED BY <2>2, HeadAndRest
      <3>2. f[r] = Mapped(g, FlattenSeq(r))
        BY <1>3, <3>1
      <3>3. FlattenSeq(ps) = p \o FlattenSeq(r) /\ FlattenSeq(r) \in Seq(X)
        BY <3>1, FlattenCons
      <3>4. e[p] = Mapped(g, p)
        OBVIOUS
      <3>5. f[ps] = e[p] \o f[r]
        <4> HIDE DEF f, e, P
        <4> QED BY <1>2, <3>1 DEF Morphism
      <3> HIDE DEF f, e
      <3> DEFINE q == FlattenSeq(r)
      <3>8. q \in Seq(X) /\ p \in Seq(X)
        BY <3>3
      <3> HIDE DEF q
      <3>6. Mapped(g, p \o q) = Mapped(g, p) \o Mapped(g, q)
        <4>1. Concatenates(g, X)
          BY MappedConcat
        <4> QED BY <3>8, <4>1 DEF Concatenates
      <3>7. f[ps] = Mapped(g, FlattenSeq(ps))
        BY <3>2, <3>3, <3>4, <3>5, <3>6 DEF q
      <3> QED BY <3>7 DEF f, e
    <2> QED BY <2>1, <2>2
  <1> HIDE DEF G, P
  <1>4. \A ps \in Seq(P) : ps \in G
    BY <1>3, ByLength
  <1>5. \A ps \in Seq(P) : FlattenSeq(Mapped(e, ps)) = Mapped(g, FlattenSeq(ps))
    BY <1>4 DEF G, f
  <1> QED BY <1>5 DEF Lifts, P, e

\* Components that are spelled otherwise are resolved alike, where names stay
\* names and parents stay parents.
LEMMA ResolvedMapped ==
    ASSUME NEW X, NEW Y, NEW g \in [X -> Y],
           \A x \in X : (IsName(g[x]) <=> IsName(x)) /\ (g[x] = Parent <=> x = Parent),
           NEW cs \in Seq(X)
    PROVE  Resolved(Mapped(g, cs)) = Mapped(g, Resolved(cs))
  <1> DEFINE m == Mapped(g, cs)
             e == [p \in Seq(X) |-> Mapped(g, p)]
  <1>1. Len(cs) \in Nat /\ \A i \in 1..Len(cs) : cs[i] \in X
    BY LenProperties, ElementOfSeq
  <1>2. Len(m) = Len(cs) /\ \A i \in 1..Len(cs) : m[i] = g[cs[i]]
    <2>1. Maps(g, X, Y)
      BY MappedLaws
    <2>2. Len(m) = Len(cs)
      BY <2>1 DEF Maps
    <2> QED BY <2>2 DEF Mapped
  <1>3. ASSUME NEW i \in 1..Len(cs) PROVE Survives(m, i) <=> Survives(cs, i)
    <2>1. IsName(m[i]) <=> IsName(cs[i])
      BY <1>1, <1>2
    <2>2. ASSUME NEW j \in i..Len(cs)
          PROVE  /\ {k \in i..j : m[k] = Parent} = {k \in i..j : cs[k] = Parent}
                 /\ {k \in i..j : IsName(m[k])} = {k \in i..j : IsName(cs[k])}
      <3>1. \A k \in i..j : k \in 1..Len(cs)
        BY <1>1
      <3>2. \A k \in i..j : (IsName(m[k]) <=> IsName(cs[k])) /\ (m[k] = Parent <=> cs[k] = Parent)
        BY <1>1, <1>2, <3>1
      <3> HIDE DEF m
      <3> QED BY <3>2
    <2> HIDE DEF m
    <2> QED BY <1>2, <2>1, <2>2 DEF Survives
  <1>4. Pieces(m) = Mapped(e, Pieces(cs))
    <2> DEFINE p == Pieces(cs)
    <2>1. p \in Seq(Seq(X)) /\ Len(p) = Len(cs)
          /\ \A i \in 1..Len(cs) : p[i] = IF Survives(cs, i) THEN <<cs[i]>> ELSE <<>>
      <3>1. p \in Seq(Seq(X))
        BY ResolvedType
      <3>2. DOMAIN p = 1..Len(cs)
        BY DEF Pieces
      <3>3. Len(p) = Len(cs)
        BY <1>1, <3>1, <3>2
      <3> QED BY <3>1, <3>3 DEF Pieces
    <2> HIDE DEF p
    <2>2. ASSUME NEW i \in 1..Len(cs)
          PROVE  e[p[i]] = IF Survives(m, i) THEN <<m[i]>> ELSE <<>>
      <3>1. p[i] \in Seq(X)
        BY <2>1, ElementOfSeq
      <3>2. e[p[i]] = Mapped(g, p[i])
        BY <3>1
      <3>3. Mapped(g, <<>>) = <<>> /\ Mapped(g, <<cs[i]>>) = <<g[cs[i]]>>
        BY <1>1 DEF Mapped
      <3> HIDE DEF m, e
      <3> QED BY <1>2, <1>3, <2>1, <3>2, <3>3
    <2> HIDE DEF m, e
    <2> QED BY <1>2, <2>1, <2>2 DEF Pieces, Mapped, p
  <1>5. Pieces(cs) \in Seq(Seq(X))
    BY ResolvedType
  <1>6. FlattenSeq(Mapped(e, Pieces(cs))) = Mapped(g, FlattenSeq(Pieces(cs)))
    <2>1. \A ps \in Seq(Seq(X)) : FlattenSeq(Mapped(e, ps)) = Mapped(g, FlattenSeq(ps))
      <3>1. Lifts(g, X)
        BY FlattenLifted
      <3> QED BY <3>1 DEF Lifts
    <2> HIDE DEF e
    <2> QED BY <1>5, <2>1
  <1> HIDE DEF m, e
  <1>7. Resolved(m) = FlattenSeq(Pieces(m)) /\ Resolved(cs) = FlattenSeq(Pieces(cs))
    BY DEF Resolved, Pieces
  <1> QED BY <1>4, <1>6, <1>7 DEF m

(***************************************************************************)
(* Absolute texts.                                                         *)
(***************************************************************************)

\* A text is absolute exactly when a slash ends its first component and that
\* component is empty.
LEMMA AbsoluteSplit ==
    ASSUME NEW x \in Seq(Scalars)
    PROVE  /\ Absolute(x) <=> Split(x)[1] = <<>> /\ Len(Split(x)) > 1
           /\ Split(x) \in Seq(Seq(NoSlash)) /\ Len(Split(x)) \in Nat \ {0}
  <1> DEFINE D == Seq(NoSlash)
  <1>0. /\ \A t \in Seq(Scalars) : Split(t) \in Seq(D) /\ Len(Split(t)) \in Nat \ {0}
        /\ <<>> \in D /\ <<Slash>> \in Seq(Scalars) /\ Slash \notin NoSlash
    <2>1. ASSUME NEW t \in Seq(Scalars) PROVE Split(t) \in Seq(D) /\ Len(Split(t)) \in Nat \ {0}
      <3>1. Split(t) \in Seq(D) /\ Split(t) # <<>>
        BY SplitType
      <3> DEFINE s == Split(t)
      <3> HIDE DEF s, D
      <3> QED BY <3>1, EmptySeq, LenProperties DEF s
    <2> QED BY <2>1, EmptySeq, Table DEF NoSlash
  <1>1. ASSUME NEW c \in D, NEW r \in Seq(Scalars), x = (c \o <<Slash>>) \o r
        PROVE  /\ Split(x)[1] = c /\ Len(Split(x)) > 1
               /\ Absolute(x) <=> c = <<>>
    <2>1. Split(x) = <<c>> \o Split(r)
      BY <1>1, SplitUnfolds
    <2>2. Split(r) \in Seq(D) /\ Len(Split(r)) \in Nat \ {0}
      BY <1>0
    <2> DEFINE s == Split(r)
    <2> HIDE DEF s, D
    <2>3. (<<c>> \o s)[1] = c /\ Len(<<c>> \o s) = Len(s) + 1
      BY <2>2, ConsSeq DEF s
    <2>4. CASE c = <<>>
      <3>1. c \o <<Slash>> = <<Slash>>
        BY <1>0, <2>4, ConcatEmptySeq
      <3>2. x = <<Slash>> \o r
        BY <1>1, <3>1
      <3>3. x # <<>> /\ x[1] = Slash
        BY <1>0, <3>2, ConsSeq, Table
      <3> QED BY <2>1, <2>2, <2>3, <2>4, <3>3 DEF Absolute, s
    <2>5. CASE c # <<>>
      <3>1. PICK y \in NoSlash, z \in Seq(NoSlash) : c = <<y>> \o z
        BY <2>5, HeadAndRest DEF D
      <3>2. z \in Seq(Scalars) /\ y \in Scalars /\ <<y>> \in Seq(Scalars)
        BY SeqMonotonic DEF NoSlash
      <3>3. x = <<y>> \o ((z \o <<Slash>>) \o r) /\ (z \o <<Slash>>) \o r \in Seq(Scalars)
        <4>1. Associative(Scalars)
          BY Regroup
        <4>2. z \o <<Slash>> \in Seq(Scalars)
          BY <1>0, <3>2, ConcatProperties
        <4>3. (<<y>> \o z) \o <<Slash>> = <<y>> \o (z \o <<Slash>>)
          BY <1>0, <3>2, <4>1 DEF Associative
        <4> DEFINE w == z \o <<Slash>>
        <4> HIDE DEF w
        <4>4. (<<y>> \o w) \o r = <<y>> \o (w \o r)
          BY <3>2, <4>1, <4>2 DEF Associative, w
        <4>5. w \o r \in Seq(Scalars)
          BY <4>2, ConcatProperties DEF w
        <4> QED BY <1>1, <3>1, <4>3, <4>4, <4>5 DEF w
      <3> DEFINE v == (z \o <<Slash>>) \o r
      <3> HIDE DEF v
      <3>4. x[1] = y
        BY <3>2, <3>3, ConsSeq DEF v
      <3>5. y # Slash
        BY DEF NoSlash
      <3> QED BY <2>1, <2>2, <2>3, <2>5, <3>4, <3>5 DEF Absolute, s
    <2> QED BY <2>4, <2>5
  <1>2. CASE x \in D
    <2>1. Split(x) = <<x>>
      BY <1>2, SplitUnfolds
    <2>2. Len(Split(x)) = 1
      BY <2>1
    <2>3. ~Absolute(x)
      <3>1. ASSUME x # <<>> PROVE x[1] \in NoSlash
        <4>1. Len(x) \in Nat \ {0}
          BY <3>1, EmptySeq, LenProperties
        <4> QED BY <1>2, <4>1, ElementOfSeq
      <3> QED BY <3>1 DEF Absolute, NoSlash
    <2> QED BY <1>0, <2>2, <2>3
  <1>3. CASE x \notin D
    <2>1. PICK c \in D, r \in Seq(Scalars) : x = (c \o <<Slash>>) \o r
      BY <1>3, ComponentAtHead
    <2>2. Split(x)[1] = c /\ Len(Split(x)) > 1 /\ (Absolute(x) <=> c = <<>>)
      BY <1>1, <2>1
    <2> QED BY <1>0, <2>2
  <1> QED BY <1>2, <1>3

\* An absolute text is the root and the components behind it.
LEMMA AbsoluteParts ==
    ASSUME NEW x \in Seq(Scalars), Absolute(x)
    PROVE  /\ AskedParts(x) \in Seq(Seq(NoSlash)) \ {<<>>}
           /\ Len(AskedParts(x)) = Len(Split(x)) - 1
           /\ Split(x) = <<<<>>>> \o AskedParts(x)
  <1> DEFINE D == Seq(NoSlash)
             s == Split(x)
  <1>1. s[1] = <<>> /\ Len(s) > 1 /\ s \in Seq(D) /\ Len(s) \in Nat
    BY AbsoluteSplit
  <1> HIDE DEF D, s
  <1>2. s # <<>>
    BY <1>1, EmptySeq
  <1>3. Tail(s) \in Seq(D) /\ Len(Tail(s)) = Len(s) - 1 /\ s = <<s[1]>> \o Tail(s)
    BY <1>1, <1>2, ConsTail
  <1>4. Tail(s) # <<>>
    BY <1>1, <1>3, EmptySeq
  <1> QED BY <1>1, <1>3, <1>4 DEF AskedParts, D, s

(***************************************************************************)
(* The components that Path::parse tells apart.                            *)
(***************************************************************************)

Marks == {<<>>, <<Dot>>, Parent}

\* A dot stands for itself in the canonical form.
LEMMA DotTurn ==
    ASSUME NEW r \in Seq(Bytes)
    PROVE  CanonicalizeUriBytes[<<Dot>> \o r] = <<Dot>> \o CanonicalizeUriBytes[r]
  <1> DEFINE bs == <<Dot>> \o r
  <1>0. Dot \in Bytes /\ Dot \in Ascii /\ Dot \in Pchars /\ Dot \notin Rough
    BY UriAssumption DEF Rough
  <1>1. bs \in Seq(Bytes) \ {<<>>} /\ bs[1] = Dot /\ Len(bs) = Len(r) + 1 /\ Len(r) \in Nat
    BY <1>0, ConsSeq, LenProperties
  <1>2. PICK p \in Seq(Scalars), h \in Seq(Bytes), q \in Seq(Bytes) :
           /\ Kept(p, h) /\ bs = h \o q /\ Len(q) < Len(bs)
           /\ CanonicalizeUriBytes[bs] = p \o CanonicalizeUriBytes[q]
    <2> HIDE DEF bs
    <2> QED BY <1>1, CanonicalTurns
  <1>3. h # <<>>
    <2>1. ASSUME h = <<>> PROVE FALSE
      <3>1. h \o q = q
        BY <2>1, ConcatEmptySeq
      <3> HIDE DEF bs
      <3>2. Len(q) < Len(q) /\ Len(q) \in Nat
        BY <1>2, <3>1, LenProperties
      <3> QED BY <3>2
    <2> QED BY <2>1
  <1>4. h[1] = Dot /\ Len(h) \in Nat \ {0}
    <2>1. Len(h) \in Nat \ {0} /\ Len(q) \in Nat
      BY <1>3, EmptySeq, LenProperties
    <2>2. (h \o q)[1] = h[1]
      <3>1. 1 \in 1..(Len(h) + Len(q)) /\ 1 <= Len(h)
        BY <2>1
      <3>2. \A i \in 1..(Len(h) + Len(q)) : (h \o q)[i] = IF i <= Len(h) THEN h[i] ELSE q[i - Len(h)]
        BY ConcatProperties
      <3> QED BY <3>1, <3>2
    <2> HIDE DEF bs
    <2> QED BY <1>1, <1>2, <2>1, <2>2
  <1>5. h \notin Seq(Rough)
    BY <1>0, <1>4, ElementOfSeq
  <1>6. PICK c \in Scalars : p = <<c>> /\ h = Utf8(c)
    BY <1>2, <1>5 DEF Kept
  <1>7. c \notin Wide
    <2>1. c \in Wide => h \in Seq(Bytes \ Ascii)
      BY <1>6, Utf8Laws
    <2> QED BY <1>0, <1>4, <2>1, ElementOfSeq
  <1>8. h = <<c>>
    BY <1>6, <1>7, Utf8Laws
  <1>9. c = Dot /\ p = <<Dot>> /\ h = <<Dot>>
    BY <1>4, <1>6, <1>8
  <1>10. r = q
    <2>1. <<Dot>> \in Seq(Bytes)
      BY <1>0
    <2>2. <<Dot>> \o r = <<Dot>> \o q
      BY <1>2, <1>9
    <2>3. Tail(<<Dot>> \o r) = r /\ Tail(<<Dot>> \o q) = q
      BY <1>0, TailCons
    <2> QED BY <2>2, <2>3
  <1> QED BY <1>2, <1>9, <1>10

\* What Path::parse tells apart is the same in bytes and in text.
LEMMA MarksKept ==
    ASSUME NEW x \in Marks
    PROVE  x \in Contents /\ Canon[x] = x /\ AsBytes(x) = x /\ Unescape[x] = x
  <1> DEFINE d == <<Dot>>
  <1>0. /\ Dot \in Bytes /\ Dot \in Ascii /\ Dot \in Scalars /\ Dot # Percent /\ Dot # Slash
        /\ <<>> \in Seq(Bytes) /\ d \in Seq(Bytes)
    <2>1. Dot \in Bytes /\ Dot \in Ascii /\ Dot \in Scalars /\ Dot # Percent /\ Dot # Slash
      BY UriAssumption, Table
    <2> QED BY <2>1, EmptySeq
  <1>1. Parent = d \o d /\ d \o <<>> = d
    BY <1>0, ConcatEmptySeq DEF Parent
  <1>2. x \in Seq({Dot})
    <2>1. d \in Seq({Dot}) /\ <<>> \in Seq({Dot})
      BY EmptySeq
    <2>2. d \o d \in Seq({Dot})
      BY <2>1, ConcatProperties
    <2> QED BY <1>1, <2>1, <2>2 DEF Marks
  <1>3. x \in Seq(Bytes) /\ x \in Seq(Ascii) /\ x \in Seq(Bytes \ {Percent}) /\ ~Contains(x, Slash)
    <2>1. {Dot} \subseteq Bytes /\ {Dot} \subseteq Ascii /\ {Dot} \subseteq Bytes \ {Percent}
      BY <1>0
    <2>2. x \in Seq(Bytes) /\ x \in Seq(Ascii) /\ x \in Seq(Bytes \ {Percent})
      BY <1>2, <2>1, SeqMonotonic
    <2> QED BY <1>0, <1>2, <2>2, ContainsOnly
  <1>4. AsBytes(x) = x
    BY <1>3, AsciiText
  <1>5. Unescape[x] = x
    <2>1. Unescape[x \o <<>>] = x \o Unescape[<<>>] /\ Unescape[<<>>] = <<>>
      BY <1>0, <1>3, UnescapeImages, UnescapeTurns
    <2>2. x \o <<>> = x
      BY <1>3, ConcatEmptySeq
    <2> QED BY <2>1, <2>2
  <1>6. CanonicalizeUriBytes[x] = x
    <2>1. CanonicalizeUriBytes[<<>>] = <<>>
      BY CanonicalTurns
    <2>2. CanonicalizeUriBytes[d \o <<>>] = d \o CanonicalizeUriBytes[<<>>]
      BY <1>0, DotTurn
    <2>3. CanonicalizeUriBytes[d] = d
      BY <1>1, <2>1, <2>2
    <2>4. CanonicalizeUriBytes[d \o d] = d \o CanonicalizeUriBytes[d]
      BY <1>0, DotTurn
    <2> HIDE DEF d
    <2> QED BY <1>1, <2>1, <2>3, <2>4 DEF Marks, d
  <1> QED BY <1>3, <1>4, <1>5, <1>6 DEF Contents, Canon

\* The canonical form of bytes is a name, or a parent, exactly when the bytes are.
LEMMA CanonMarks ==
    ASSUME NEW b \in Contents
    PROVE  /\ IsName(Canon[b]) <=> IsName(b)
           /\ Canon[b] = Parent <=> b = Parent
           /\ Canon[b] = <<>> <=> b = <<>>
  <1>1. ASSUME NEW x \in Marks PROVE Canon[b] = x <=> b = x
    <2>1. Unescape[AsBytes(Canon[b])] = b
      BY Canonicalized DEF Canonical, Canon, Contents
    <2> QED BY <2>1, MarksKept
  <1>2. <<>> \in Marks /\ <<Dot>> \in Marks /\ Parent \in Marks
    BY DEF Marks
  <1> QED BY <1>1, <1>2, Zenon DEF IsName

(***************************************************************************)
(* What Uri::parse takes.                                                  *)
(***************************************************************************)

Legal == {raw \in Seq(Scalars) :
            WellFormed(raw) /\ \A i \in 1..Len(raw) : raw[i] \in Pchars \cup {Slash, Percent}}

\* Legal texts may be put together.
LEMMA LegalConcat ==
    ASSUME NEW a \in Legal, NEW b \in Legal
    PROVE  a \o b \in Legal
  <1> DEFINE s == a \o b
             C == Pchars \cup {Slash, Percent}
  <1>1. a \in Seq(Scalars) /\ b \in Seq(Scalars) /\ WellFormed(a) /\ WellFormed(b)
        /\ (\A i \in 1..Len(a) : a[i] \in C) /\ (\A i \in 1..Len(b) : b[i] \in C)
    BY DEF Legal
  <1>2. /\ Len(a) \in Nat /\ Len(b) \in Nat /\ s \in Seq(Scalars) /\ Len(s) = Len(a) + Len(b)
        /\ \A i \in 1..(Len(a) + Len(b)) : s[i] = IF i <= Len(a) THEN a[i] ELSE b[i - Len(a)]
    BY <1>1, LenProperties, ConcatProperties
  <1> HIDE DEF s, C
  <1>3. \A i \in 1..Len(a) : s[i] = a[i]
    BY <1>2
  <1>4. \A i \in (Len(a) + 1)..Len(s) : i - Len(a) \in 1..Len(b) /\ s[i] = b[i - Len(a)]
    BY <1>2
  <1>5. ASSUME NEW i \in 1..Len(s)
        PROVE  /\ s[i] \in C
               /\ s[i] = Percent =>
                     i + 2 <= Len(s) /\ s[i + 1] \in DigitChars /\ s[i + 2] \in DigitChars
    <2>1. CASE i <= Len(a)
      <3>1. i \in 1..Len(a)
        BY <1>2, <2>1
      <3>2. ASSUME s[i] = Percent
            PROVE  i + 2 <= Len(s) /\ s[i + 1] \in DigitChars /\ s[i + 2] \in DigitChars
        <4>1. i + 2 <= Len(a) /\ a[i + 1] \in DigitChars /\ a[i + 2] \in DigitChars
          BY <1>1, <1>3, <3>1, <3>2 DEF WellFormed
        <4>2. i + 1 \in 1..Len(a) /\ i + 2 \in 1..Len(a)
          BY <1>2, <3>1, <4>1
        <4> QED BY <1>2, <1>3, <4>1, <4>2
      <3> QED BY <1>1, <1>3, <3>1, <3>2
    <2>2. CASE ~(i <= Len(a))
      <3> DEFINE j == i - Len(a)
      <3>1. i \in (Len(a) + 1)..Len(s) /\ j \in 1..Len(b)
        BY <1>2, <2>2
      <3>2. ASSUME s[i] = Percent
            PROVE  i + 2 <= Len(s) /\ s[i + 1] \in DigitChars /\ s[i + 2] \in DigitChars
        <4>1. b[j] = Percent
          BY <1>4, <3>1, <3>2
        <4>2. j + 2 <= Len(b) /\ b[j + 1] \in DigitChars /\ b[j + 2] \in DigitChars
          <5> HIDE DEF j
          <5> QED BY <1>1, <3>1, <4>1 DEF WellFormed
        <4>3. /\ i + 1 \in (Len(a) + 1)..Len(s) /\ i + 2 \in (Len(a) + 1)..Len(s)
              /\ (i + 1) - Len(a) = j + 1 /\ (i + 2) - Len(a) = j + 2
          BY <1>2, <3>1, <4>2
        <4>4. s[i + 1] = b[j + 1] /\ s[i + 2] = b[j + 2]
          BY <1>4, <4>3
        <4> QED BY <1>2, <4>2, <4>3, <4>4
      <3> QED BY <1>1, <1>4, <3>1, <3>2
    <2> QED BY <2>1, <2>2
  <1> QED BY <1>2, <1>5 DEF Legal, WellFormed, s, C

\* So are texts that are put together from legal images.
LEMMA LegalImages ==
    ASSUME NEW f, NEW e, NEW S, NEW X, Morphism(f, e, S, X), \A x \in X : e[x] \in Legal
    PROVE  \A t \in Seq(X) : f[t] \in Legal
  <1> DEFINE G == {t \in Seq(X) : f[t] \in Legal}
  <1>1. ASSUME NEW t \in Seq(X), \A r \in Seq(X) : Len(r) < Len(t) => r \in G PROVE t \in G
    <2>1. CASE t = <<>>
      <3>1. <<>> \in Legal
        BY EmptySeq DEF Legal, WellFormed
      <3> QED BY <2>1, <3>1 DEF Morphism
    <2>2. CASE t # <<>>
      <3>1. PICK x \in X, r \in Seq(X) : t = <<x>> \o r /\ Len(r) < Len(t)
        BY <2>2, HeadAndRest
      <3>2. f[t] = e[x] \o f[r] /\ f[r] \in Legal
        BY <1>1, <3>1 DEF Morphism
      <3> QED BY <3>2, LegalConcat
    <2> QED BY <2>1, <2>2
  <1> HIDE DEF G
  <1>2. \A t \in Seq(X) : t \in G
    BY <1>1, ByLength
  <1> QED BY <1>2 DEF G

\* The canonical URI of any components is one that Uri::parse takes.
LEMMA LegalUris ==
    ASSUME NEW bss \in Seq(Contents), bss # <<>>
    PROVE  ParseUri(Joined(Mapped(Uris, bss))) = Joined(Mapped(Uris, bss))
  <1>1. ASSUME NEW b \in Bytes PROVE UriByte(b) \in Legal
    <2>1. CASE b \in Pchars
      <3>1. b \in Scalars /\ b # Percent
        BY <2>1, UriAssumption, Table
      <3>2. <<b>> \in Seq(Scalars) /\ Len(<<b>>) = 1 /\ <<b>>[1] = b
        BY <3>1
      <3> QED BY <2>1, <3>1, <3>2 DEF UriByte, Legal, WellFormed
    <2>2. CASE b \notin Pchars
      <3> DEFINE h == HexDigit[b[1]]
                 l == HexDigit[b[2]]
                 s == <<Percent, h, l>>
      <3>1. /\ h \in DigitChars /\ l \in DigitChars /\ h \in Pchars /\ l \in Pchars
            /\ h # Percent /\ l # Percent /\ h \in Scalars /\ l \in Scalars /\ Percent \in Scalars
        <4>1. h \in DigitChars /\ l \in DigitChars
          BY Table
        <4> QED BY <4>1, Table, UriAssumption
      <3> HIDE DEF h, l
      <3>2. /\ s \in Seq(Scalars) /\ Len(s) = 3 /\ s[1] = Percent /\ s[2] = h /\ s[3] = l
        BY <3>1
      <3> HIDE DEF s
      <3>4. \A i \in 1..Len(s) : i = 1 \/ s[i] = h \/ s[i] = l
        BY <3>2
      <3>5. WellFormed(s)
        <4>1. \A i \in 1..Len(s) : s[i] = Percent => i = 1
          BY <3>1, <3>4
        <4>2. 1 + 2 <= Len(s) /\ s[1 + 1] \in DigitChars /\ s[1 + 2] \in DigitChars
          BY <3>1, <3>2
        <4> QED BY <4>1, <4>2 DEF WellFormed
      <3>6. \A i \in 1..Len(s) : s[i] \in Pchars \cup {Slash, Percent}
        BY <3>1, <3>2, <3>4
      <3>3. s \in Legal
        BY <3>2, <3>5, <3>6 DEF Legal
      <3> QED BY <2>2, <3>3 DEF UriByte, Escaped, s, h, l
    <2> QED BY <2>1, <2>2
  <1>2. ASSUME NEW c \in Contents PROVE Uris[c] \in Legal
    <2> DEFINE e == [b \in Bytes |-> UriByte(b)]
    <2>1. Morphism(AllUris, e, UriChars, Bytes) /\ \A b \in Bytes : e[b] \in Legal
      BY <1>1, Images
    <2> HIDE DEF e
    <2>2. \A t \in Seq(Bytes) : AllUris[t] \in Legal
      BY <2>1, LegalImages
    <2> QED BY <2>2 DEF AllUris, Uris, Contents
  <1>3. ASSUME NEW t \in Seq(Contents) PROVE Trail(Uris, Contents)[t] \in Legal
    <2> DEFINE e == [x \in Contents |-> <<Slash>> \o Uris[x]]
    <2>1. <<Slash>> \in Legal
      <3>1. Slash \in Scalars /\ Slash # Percent
        BY Table
      <3>2. <<Slash>> \in Seq(Scalars) /\ Len(<<Slash>>) = 1 /\ <<Slash>>[1] = Slash
        BY <3>1
      <3> QED BY <3>1, <3>2 DEF Legal, WellFormed
    <2>2. \A x \in Contents : e[x] \in Legal
      BY <1>2, <2>1, LegalConcat
    <2>3. Morphism(Trail(Uris, Contents), e, Scalars, Contents)
      BY ContentsLaws, TrailLaws
    <2> HIDE DEF e
    <2> QED BY <2>2, <2>3, LegalImages
  <1>4. PICK b \in Contents, t \in Seq(Contents) : bss = <<b>> \o t /\ Len(t) < Len(bss)
    BY HeadAndRest
  <1>5. Joined(Mapped(Uris, bss)) = Uris[b] \o Trail(Uris, Contents)[t]
    BY <1>4, ContentsLaws, JoinedTrail
  <1>6. Uris[b] \o Trail(Uris, Contents)[t] \in Legal
    BY <1>2, <1>3, LegalConcat
  <1>7. Joined(Mapped(Uris, bss)) \in Legal
    BY <1>5, <1>6
  <1> QED BY <1>7 DEF Legal, ParseUri

(***************************************************************************)
(* Paths in normal form.                                                   *)
(***************************************************************************)

Behind(names) == IF names = <<>> THEN <<<<>>>> ELSE names

\* What comes behind the root of a normal path is plain, and what is plain
\* is left as it is.
LEMMA BehindRoot ==
    ASSUME NEW t \in Seq(Contents), t # <<>>
    PROVE  /\ Resolved(t) \in Seq(Contents)
           /\ Behind(Resolved(t)) \in Seq(Contents) \ {<<>>} /\ Plain(Behind(Resolved(t)))
           /\ Plain(t) => Behind(Resolved(t)) = t
  <1> DEFINE k == Resolved(t)
             N == Nameable(Contents)
  <1>1. k \in Seq(N) /\ k \in Seq(Contents)
    BY ResolvedType
  <1>2. <<>> \in Contents
    BY MarksKept DEF Marks
  <1>3. <<<<>>>> \in Seq(Contents) /\ <<<<>>>> # <<>> /\ <<<<>>>> \in Seq({<<>>})
    <2> DEFINE e == <<>>
    <2> HIDE DEF e
    <2>1. <<e>> \in Seq({e}) /\ <<e>> # <<>>
      OBVIOUS
    <2>2. {e} \subseteq Contents
      BY <1>2 DEF e
    <2>3. <<e>> \in Seq(Contents)
      BY <2>1, <2>2, SeqMonotonic
    <2> QED BY <2>1, <2>3 DEF e
  <1>4. Plain(Behind(k))
    <2>1. k # <<>> => \A i \in 1..Len(k) : IsName(k[i])
      BY <1>1, ElementOfSeq DEF Nameable
    <2> HIDE DEF k
    <2> QED BY <2>1 DEF Plain, Behind
  <1>5. ASSUME t = <<<<>>>> PROVE Behind(k) = t
    <2>1. k \in Seq(Nameable({<<>>}))
      BY <1>3, <1>5, ResolvedType
    <2>2. Nameable({<<>>}) = {}
      BY DEF Nameable, IsName
    <2>3. k = <<>>
      <3> HIDE DEF k
      <3>1. k # <<>> => \E x \in Nameable({<<>>}), r \in Seq(Nameable({<<>>})) : k = <<x>> \o r
        BY <2>1, HeadAndRest
      <3> QED BY <2>2, <3>1
    <2> QED BY <1>5, <2>3 DEF Behind
  <1>6. ASSUME \A i \in 1..Len(t) : IsName(t[i]) PROVE Behind(k) = t
    <2>1. \A i \in 1..Len(t) : t[i] \in N
      BY <1>6, ElementOfSeq DEF Nameable
    <2>2. t \in [1..Len(t) -> N] /\ Len(t) \in Nat
      BY <2>1, LenProperties
    <2>3. t \in Seq(N)
      BY <2>2, FunctionIsSeq
    <2>4. k = t
      BY <2>3, ResolvedNames
    <2> QED BY <2>4 DEF Behind
  <1> HIDE DEF k
  <1>7. Behind(k) \in Seq(Contents) \ {<<>>}
    BY <1>1, <1>3 DEF Behind
  <1> QED BY <1>1, <1>4, <1>5, <1>6, <1>7 DEF Plain, k

\* The components of a text that joins canonical forms, and its normal form.
LEMMA NormalText ==
    ASSUME NEW t \in Seq(Contents), t # <<>>,
           NEW p, p = Joined(Mapped(Canon, <<<<>>>> \o t))
    PROVE  /\ p \in Seq(Scalars) /\ Absolute(p)
           /\ AskedParts(p) = Mapped(Canon, t)
           /\ Normal(p) = Joined(Mapped(Canon, <<<<>>>> \o Behind(Resolved(t))))
  <1> DEFINE D == Seq(NoSlash)
             m == Mapped(Canon, t)
             k == Resolved(t)
             root == <<>>
  <1>1. root \in Contents /\ Canon[root] = root
    BY MarksKept DEF Marks
  <1>2. Maps(Canon, Contents, D) /\ Canon \in [Contents -> D]
    BY ContentsLaws, MappedLaws
  <1>3. m \in Seq(D) /\ Len(m) = Len(t) /\ Len(t) \in Nat \ {0}
    BY <1>2, EmptySeq, LenProperties DEF Maps
  <1>4. \A s \in Seq(Contents) : Mapped(Canon, <<root>> \o s) = <<root>> \o Mapped(Canon, s)
    <2> HIDE DEF root
    <2> QED BY <1>1, <1>2 DEF Maps
  <1>5. <<root>> \o t \in Seq(Contents) \ {<<>>}
    <2> HIDE DEF root
    <2> QED BY <1>1, ConsSeq
  <1>6. p \in Seq(Scalars) /\ Split(p) = <<root>> \o m
    <2>1. p \in Seq(Scalars) /\ Split(p) = Mapped(Canon, <<root>> \o t)
      BY <1>2, <1>5, SplitJoined
    <2> QED BY <1>4, <2>1
  <1> HIDE DEF m
  <1>7. root \in D
    BY <1>1, <1>2
  <1>8. AskedParts(p) = m /\ Split(p)[1] = root /\ Len(Split(p)) > 1
    <2> HIDE DEF root, D
    <2>1. Tail(<<root>> \o m) = m /\ (<<root>> \o m)[1] = root /\ Len(<<root>> \o m) = Len(m) + 1
      BY <1>3, <1>7, TailCons, ConsSeq
    <2> QED BY <1>3, <1>6, <2>1 DEF AskedParts
  <1>9. Absolute(p)
    BY <1>6, <1>8, AbsoluteSplit
  <1>10. k \in Seq(Contents) /\ Behind(k) \in Seq(Contents)
    BY BehindRoot
  <1>11. Resolved(m) = Mapped(Canon, k)
    <2>1. \A x \in Contents : (IsName(Canon[x]) <=> IsName(x)) /\ (Canon[x] = Parent <=> x = Parent)
      BY CanonMarks
    <2> QED BY <1>2, <2>1, ResolvedMapped DEF m
  <1> HIDE DEF k
  <1>12. Behind(Mapped(Canon, k)) = Mapped(Canon, Behind(k))
    <2>1. CASE k = <<>>
      <3>1. Mapped(Canon, <<>>) = <<>>
        BY DEF Mapped
      <3>2. Mapped(Canon, <<root>>) = <<root>>
        <4>1. Len(<<root>>) = 1 /\ <<root>>[1] = root
          OBVIOUS
        <4> HIDE DEF root
        <4> QED BY <1>1, <4>1 DEF Mapped
      <3> QED BY <2>1, <3>1, <3>2 DEF Behind
    <2>2. CASE k # <<>>
      <3> DEFINE q == Mapped(Canon, k)
      <3>1. q \in Seq(D) /\ Len(q) = Len(k)
        BY <1>2, <1>10 DEF Maps
      <3> HIDE DEF q
      <3>2. q # <<>>
        BY <1>10, <2>2, <3>1, EmptySeq, LenProperties
      <3> QED BY <2>2, <3>2 DEF Behind, q
    <2> QED BY <2>1, <2>2
  <1>13. Normal(p) = Joined(<<root>> \o Behind(Resolved(m)))
    BY <1>8 DEF Normal, Rooted, Behind, AskedParts
  <1>14. Normal(p) = Joined(Mapped(Canon, <<root>> \o Behind(k)))
    <2>1. <<root>> \o Behind(Resolved(m)) = <<root>> \o Mapped(Canon, Behind(k))
      BY <1>11, <1>12
    <2>2. Mapped(Canon, <<root>> \o Behind(k)) = <<root>> \o Mapped(Canon, Behind(k))
      BY <1>4, <1>10
    <2> QED BY <1>13, <2>1, <2>2
  <1> QED BY <1>6, <1>8, <1>9, <1>14 DEF m, k

\* A normal path is absolute, is taken as it is by Path::parse, and has the
\* canonical URI of its components, which is absolute and well formed.
LEMMA NormalPath ==
    ASSUME NEW t \in Seq(Contents), t # <<>>, Plain(t),
           NEW p, p = Joined(Mapped(Canon, <<<<>>>> \o t)),
           NEW u, u = Joined(Mapped(Uris, <<<<>>>> \o t))
    PROVE  /\ p \in Seq(Scalars) /\ Absolute(p) /\ AskedParts(p) = Mapped(Canon, t)
           /\ u \in Seq(Scalars) /\ Absolute(u) /\ AskedParts(u) = Mapped(Uris, t)
           /\ ParsePath(p) = {p} /\ Spelling(p) = u /\ u # Err
  <1> DEFINE D == Seq(NoSlash)
             m == Mapped(Uris, t)
             root == <<>>
  <1>1. root \in Contents /\ Uris[root] = root
    BY MarksKept, UriOfLaws DEF Marks, Uris
  <1>2. Maps(Uris, Contents, D) /\ Uris \in [Contents -> D]
    BY ContentsLaws, MappedLaws
  <1>3. m \in Seq(D) /\ Len(m) = Len(t) /\ Len(t) \in Nat \ {0}
    BY <1>2, EmptySeq, LenProperties DEF Maps
  <1>4. Mapped(Uris, <<root>> \o t) = <<root>> \o m
    <2> HIDE DEF root
    <2> QED BY <1>1, <1>2 DEF Maps
  <1>5. <<root>> \o t \in Seq(Contents) \ {<<>>}
    <2> HIDE DEF root
    <2> QED BY <1>1, ConsSeq
  <1>6. u \in Seq(Scalars) /\ Split(u) = <<root>> \o m
    <2>1. u \in Seq(Scalars) /\ Split(u) = Mapped(Uris, <<root>> \o t)
      BY <1>2, <1>5, SplitJoined
    <2> QED BY <1>4, <2>1
  <1> HIDE DEF m
  <1>7. root \in D
    BY <1>1, <1>2
  <1>8. AskedParts(u) = m /\ Split(u)[1] = root /\ Len(Split(u)) > 1
    <2> HIDE DEF root, D
    <2>1. Tail(<<root>> \o m) = m /\ (<<root>> \o m)[1] = root /\ Len(<<root>> \o m) = Len(m) + 1
      BY <1>3, <1>7, TailCons, ConsSeq
    <2> QED BY <1>3, <1>6, <2>1 DEF AskedParts
  <1>9. Absolute(u) /\ u # Err
    BY <1>6, <1>8, AbsoluteSplit, Table
  <1>10. p \in Seq(Scalars) /\ Absolute(p) /\ AskedParts(p) = Mapped(Canon, t) /\ p # Err
    BY NormalText, Table
  <1>11. Normal(p) = p
    <2>1. Behind(Resolved(t)) = t
      BY BehindRoot
    <2>2. Normal(p) = Joined(Mapped(Canon, <<<<>>>> \o Behind(Resolved(t))))
      BY NormalText
    <2> QED BY <2>1, <2>2
  <1>12. CanonicalUri[p] = u /\ ParseUri(u) = u
    BY <1>5, UriJoined, LegalUris
  <1> QED BY <1>6, <1>8, <1>9, <1>10, <1>11, <1>12 DEF ParsePath, Spelling, m

(***************************************************************************)
(* Resolving a URI.                                                        *)
(***************************************************************************)

\* The contents that decode_component lets through.
Lawful == {d \in Contents : Allowed(d)}

\* They come back from their canonical URI, and their canonical form spells them.
LEMMA LawfulSpelling ==
    ASSUME NEW d \in Lawful
    PROVE  /\ Spells(AsBytes(Canon[d]), d)
           /\ DecodeComponent(Uris[d]) = Canon[d] /\ DecodeUriBytes(Uris[d]) = d
           /\ Spells(AsBytes(Uris[d]), d)
  <1>1. d \in Contents /\ Allowed(d) /\ d \in Seq(Bytes) /\ ~Contains(d, Err)
    <2>1. d \in Contents /\ Allowed(d) /\ d \in Seq(Bytes)
      BY DEF Lawful, Contents
    <2> QED BY <2>1, Table, ContainsOnly
  <1>2. Canon[d] \in Seq(Scalars) /\ Uris[d] \in Seq(Scalars)
    BY <1>1, ContentsLaws
  <1>3. ASSUME NEW w \in Seq(Scalars), Unescape[AsBytes(w)] = d PROVE Spells(AsBytes(w), d)
    <2>1. AsBytes(w) \in Seq(Bytes)
      BY AsBytesLaws
    <2>2. Decoded(AsBytes(w))
      BY <2>1, Unescaped
    <2> QED BY <1>1, <1>3, <2>2 DEF Decoded
  <1>4. Unescape[AsBytes(Canon[d])] = d
    BY <1>1, Canonicalized DEF Canonical, Canon
  <1>5. Unescape[AsBytes(Uris[d])] = d
    BY <1>1, UriOfUnescapes DEF Uris
  <1>6. DecodeComponent(Uris[d]) = CanonicalizeUriBytes[d] /\ DecodeUriBytes(Uris[d]) = d
    <2> DEFINE u == Uris[d]
    <2> HIDE DEF u
    <2>1. u \in Seq(Scalars) /\ Unescape[AsBytes(u)] = d
      BY <1>2, <1>5 DEF u
    <2>2. DecodeComponent(u) = CanonicalizeUriBytes[d] /\ DecodeUriBytes(u) = d
      BY <1>1, <2>1, ByContents
    <2> QED BY <2>2 DEF u
  <1> QED BY <1>1, <1>2, <1>3, <1>4, <1>5, <1>6 DEF Canon

\* What the contents d of a component are to it.
ContentsOf(d, c) ==
    /\ d \in Lawful /\ DecodeUriBytes(c) = d /\ DecodeComponent(c) = Canon[d]
    /\ Spells(AsBytes(c), d)

\* decode_component refuses exactly what is not acceptable, and what it accepts
\* decodes to its contents.
LEMMA ComponentDecodes ==
    ASSUME NEW c \in Seq(Scalars)
    PROVE  /\ DecodeComponent(c) # Err <=> Acceptable(AsBytes(c))
           /\ DecodeComponent(c) # Err => ContentsOf(DecodeUriBytes(c), c)
  <1> DEFINE a == AsBytes(c)
             d == Unescape[a]
  <1>1. a \in Seq(Bytes)
    BY AsBytesLaws
  <1>2. Decoded(a)
    BY <1>1, Unescaped
  <1>3. /\ DecodeComponent(c) # Err <=> Allowed(d)
        /\ Allowed(d) => DecodeUriBytes(c) = d /\ DecodeComponent(c) = CanonicalizeUriBytes[d]
    BY ByContents
  <1>4. Allowed(d) => WellFormed(a)
    <2>1. Allowed(d) => ~Contains(d, Err)
      <3> HIDE DEF d
      <3> QED BY Table, ContainsOnly DEF Allowed
    <2> QED BY <1>2, <2>1 DEF Decoded
  <1>5. WellFormed(a) =>
          /\ d \in Seq(Bytes) /\ Spells(a, d)
          /\ \A v : v \notin DigitChars => (Holds(a, v) <=> Contains(d, v))
    BY <1>2 DEF Decoded
  <1> HIDE DEF a, d
  <1>6. Acceptable(a) <=> Allowed(d)
    <2>1. Acceptable(a) <=>
            /\ WellFormed(a) /\ ~Holds(a, NUL) /\ ~Holds(a, Slash)
            /\ windows => ~Holds(a, Backslash)
      BY DEF Acceptable, Separators, Holds
    <2>2. NUL \notin DigitChars /\ Slash \notin DigitChars /\ Backslash \notin DigitChars
      BY Table
    <2> QED BY <1>4, <1>5, <2>1, <2>2 DEF Allowed
  <1>7. ASSUME Allowed(d) PROVE ContentsOf(DecodeUriBytes(c), c)
    <2>1. d \in Contents /\ d \in Lawful
      BY <1>7 DEF Allowed, Contents, Lawful
    <2>2. DecodeUriBytes(c) = d /\ DecodeComponent(c) = Canon[d] /\ Spells(a, d)
      BY <1>3, <1>4, <1>5, <1>7, <2>1 DEF Canon
    <2> QED BY <2>1, <2>2 DEF ContentsOf, a
  <1> QED BY <1>3, <1>6, <1>7 DEF a

\* A component is empty exactly when its contents are.
LEMMA EmptyContents ==
    ASSUME NEW c \in Seq(Scalars), NEW d, ContentsOf(d, c)
    PROVE  c = <<>> <=> d = <<>>
  <1> DEFINE a == AsBytes(c)
  <1>1. Len(d) = Cardinality(Starts(a)) /\ a \in Seq(Bytes) /\ d \in Seq(Bytes)
    BY AsBytesLaws DEF ContentsOf, Spells, Lawful, Contents
  <1>2. ASSUME c = <<>> PROVE d = <<>>
    <2>1. a = <<>>
      BY <1>2, AsBytesLaws
    <2>2. Starts(a) = {}
      <3> HIDE DEF a
      <3> QED BY <2>1 DEF Starts
    <2> HIDE DEF a
    <2> QED BY <1>1, <2>2, FS_EmptySet, EmptySeq
  <1>3. ASSUME c # <<>> PROVE d # <<>>
    <2>1. PICK x \in Scalars, r \in Seq(Scalars) : c = <<x>> \o r
      BY <1>3, HeadAndRest
    <2>2. a = Utf8(x) \o AsBytes(r) /\ AsBytes(r) \in Seq(Bytes)
      BY <2>1, AsBytesLaws
    <2>3. Utf8(x) \in Seq(Bytes) /\ Utf8(x) # <<>>
      BY Utf8Laws
    <2>4. a # <<>>
      BY <2>2, <2>3, ConcatEqualIffEmpty
    <2> HIDE DEF a
    <2>5. Len(a) \in Nat \ {0}
      BY <1>1, <2>4, EmptySeq, LenProperties
    <2>6. 1 \in Starts(a)
      BY <2>5 DEF Starts
    <2>7. Starts(a) # {} /\ IsFiniteSet(Starts(a))
      <3>1. Starts(a) \subseteq 1..Len(a) /\ IsFiniteSet(1..Len(a))
        <4>1. 1 \in Int /\ Len(a) \in Int
          BY <2>5
        <4> QED BY <4>1, FS_Interval DEF Starts
      <3> QED BY <2>6, <3>1, FS_Subset
    <2>8. Cardinality(Starts(a)) # 0
      BY <2>7, FS_EmptySet
    <2> QED BY <1>1, <2>8, EmptySeq
  <1> QED BY <1>2, <1>3

\* A URI decodes to what Path::parse makes of the joined components of its
\* contents.
LEMMA DecodedParts ==
    ASSUME NEW raw \in Seq(Scalars), NEW bss \in Seq(Contents), Len(bss) = Len(Split(raw)),
           \A i \in 1..Len(bss) : DecodeComponent(Split(raw)[i]) = Canon[bss[i]]
    PROVE  Decode(raw) = ParsePath(Joined(Mapped(Canon, bss)))
  <1> DEFINE parts == Split(raw)
             decoded == [i \in 1..Len(parts) |-> DecodeComponent(parts[i])]
  <1>1. decoded = Mapped(Canon, bss)
    BY DEF Mapped
  <1>2. ASSUME NEW i \in 1..Len(parts) PROVE decoded[i] # Err
    <2>1. Canon[bss[i]] \in Seq(Scalars)
      BY ContentsLaws, ElementOfSeq
    <2> QED BY <1>2, <2>1, Table
  <1>3. Decode(raw) =
          IF \E i \in 1..Len(parts) : decoded[i] = Err THEN {Err} ELSE ParsePath(Joined(decoded))
    BY DEF Decode
  <1> HIDE DEF decoded, parts
  <1> QED BY <1>1, <1>2, <1>3

\* All components of a URI decode.
AllDecode(raw) == \A i \in 1..Len(Split(raw)) : DecodeComponent(Split(raw)[i]) # Err

\* Otherwise it is refused.
LEMMA SomeRefused ==
    ASSUME NEW raw, ~AllDecode(raw)
    PROVE  Decode(raw) = {Err}
  BY DEF AllDecode, Decode

\* A relative URI is refused.
LEMMA RelativeRefused ==
    ASSUME NEW raw \in Seq(Scalars), ~Absolute(raw), NEW parsed \in Decode(raw)
    PROVE  Spelling(parsed) = Err
  <1>1. CASE ~AllDecode(raw)
    BY <1>1, SomeRefused DEF Spelling
  <1>2. CASE AllDecode(raw)
    <2> DEFINE parts == Split(raw)
               n == Len(parts)
               bss == [i \in 1..n |-> DecodeUriBytes(parts[i])]
               D == Seq(NoSlash)
    <2>1. parts \in Seq(D) /\ n \in Nat \ {0} /\ ~(parts[1] = <<>> /\ n > 1)
      BY AbsoluteSplit
    <2> HIDE DEF parts
    <2>2. ASSUME NEW i \in 1..n PROVE parts[i] \in Seq(Scalars) /\ ContentsOf(bss[i], parts[i])
      <3>1. parts[i] \in D
        <4> HIDE DEF D
        <4> QED BY <2>1, ElementOfSeq
      <3>2. parts[i] \in Seq(Scalars)
        BY <3>1, SeqMonotonic DEF NoSlash
      <3>3. DecodeComponent(parts[i]) # Err
        BY <1>2 DEF AllDecode, parts
      <3> QED BY <3>2, <3>3, ComponentDecodes
    <2>3. bss \in [1..n -> Contents]
      BY <2>2 DEF ContentsOf, Lawful
    <2> HIDE DEF bss
    <2>4. bss \in Seq(Contents) /\ Len(bss) = n /\ bss # <<>>
      <3>1. bss \in Seq(Contents) /\ Len(bss) = n
        BY <2>1, <2>3, FunctionIsSeq
      <3> QED BY <2>1, <3>1, EmptySeq
    <2> DEFINE p == Joined(Mapped(Canon, bss))
    <2>5. Decode(raw) = ParsePath(p)
      <3>1. \A i \in 1..Len(bss) : DecodeComponent(Split(raw)[i]) = Canon[bss[i]]
        BY <2>2, <2>4 DEF ContentsOf, parts
      <3> QED BY <2>4, <3>1, DecodedParts DEF parts
    <2>6. p \in Seq(Scalars) /\ Split(p) = Mapped(Canon, bss)
      BY <2>4, ContentsLaws, SplitJoined
    <2> HIDE DEF p
    <2>7. Len(Split(p)) = n /\ Split(p)[1] = Canon[bss[1]]
      <3>1. Maps(Canon, Contents, Seq(NoSlash))
        BY ContentsLaws, MappedLaws
      <3>2. Len(Mapped(Canon, bss)) = n
        BY <2>4, <3>1 DEF Maps
      <3>3. 1 \in 1..Len(bss)
        BY <2>1, <2>4
      <3>4. Mapped(Canon, bss)[1] = Canon[bss[1]]
        BY <3>3 DEF Mapped
      <3> QED BY <2>6, <3>2, <3>4
    <2>8. Canon[bss[1]] = <<>> <=> parts[1] = <<>>
      <3>1. 1 \in 1..n
        BY <2>1
      <3>2. bss[1] \in Contents /\ parts[1] \in Seq(Scalars) /\ ContentsOf(bss[1], parts[1])
        BY <2>2, <3>1 DEF ContentsOf, Lawful
      <3> QED BY <3>2, CanonMarks, EmptyContents
    <2>9. ~Absolute(p)
      BY <2>1, <2>6, <2>7, <2>8, AbsoluteSplit
    <2> QED BY <2>5, <2>9 DEF ParsePath, Spelling
  <1> QED BY <1>1, <1>2

\* An absolute URI whose components decode, and what they hold.
LEMMA AbsoluteDecodes ==
    ASSUME NEW raw \in Seq(Scalars), Absolute(raw), AllDecode(raw)
    PROVE  /\ AskedBytes(raw) \in Seq(Lawful) /\ AskedBytes(raw) # <<>>
           /\ Len(AskedBytes(raw)) = Len(AskedParts(raw))
           /\ \A i \in 1..Len(AskedParts(raw)) : ContentsOf(AskedBytes(raw)[i], AskedParts(raw)[i])
           /\ Decode(raw) = ParsePath(Joined(Mapped(Canon, <<<<>>>> \o AskedBytes(raw))))
  <1> DEFINE parts == Split(raw)
             asked == AskedParts(raw)
             t == AskedBytes(raw)
             D == Seq(NoSlash)
             root == <<>>
             bss == <<root>> \o t
  <1>1. asked \in Seq(D) \ {<<>>} /\ parts = <<root>> \o asked
    BY AbsoluteParts
  <1>2. t = [i \in 1..Len(asked) |-> DecodeUriBytes(asked[i])]
    BY DEF AskedBytes
  <1>3. root \in Contents /\ Canon[root] = root /\ root \in D
    BY MarksKept, EmptySeq DEF Marks
  <1>4. /\ Len(asked) \in Nat \ {0} /\ Len(parts) = Len(asked) + 1 /\ parts[1] = root
        /\ \A i \in 1..Len(asked) : parts[i + 1] = asked[i] /\ asked[i] \in D
    <2> HIDE DEF asked, D, root, parts
    <2>1. Len(asked) \in Nat \ {0}
      BY <1>1, EmptySeq, LenProperties
    <2> QED BY <1>1, <1>3, <2>1, ConsSeq, ElementOfSeq
  <1> HIDE DEF asked, parts, t
  <1>5. ASSUME NEW i \in 1..Len(asked)
        PROVE  asked[i] \in Seq(Scalars) /\ ContentsOf(t[i], asked[i])
    <2>1. asked[i] \in Seq(Scalars)
      BY <1>4, SeqMonotonic DEF NoSlash
    <2>2. i + 1 \in 1..Len(parts)
      BY <1>4
    <2>3. DecodeComponent(asked[i]) # Err
      BY <1>4, <2>2 DEF AllDecode, parts
    <2> QED BY <1>2, <2>1, <2>3, ComponentDecodes
  <1>6. t \in [1..Len(asked) -> Lawful]
    BY <1>2, <1>5 DEF ContentsOf
  <1>7. t \in Seq(Lawful) /\ Len(t) = Len(asked) /\ t # <<>>
    <2>1. t \in Seq(Lawful) /\ Len(t) = Len(asked)
      BY <1>4, <1>6, FunctionIsSeq
    <2> QED BY <1>4, <2>1, EmptySeq
  <1>8. t \in Seq(Contents)
    BY <1>7, SeqMonotonic DEF Lawful
  <1>9. /\ bss \in Seq(Contents) /\ Len(bss) = Len(parts) /\ bss[1] = root
        /\ \A i \in 1..Len(asked) : bss[i + 1] = t[i]
    <2> HIDE DEF root
    <2> QED BY <1>3, <1>4, <1>7, <1>8, ConsSeq
  <1> HIDE DEF bss
  <1>10. ASSUME NEW i \in 1..Len(bss) PROVE DecodeComponent(parts[i]) = Canon[bss[i]]
    <2>1. CASE i = 1
      <3>1. root \in Seq(Scalars)
        BY EmptySeq
      <3>2. 1 \in 1..Len(parts)
        BY <1>4
      <3>3. DecodeComponent(root) # Err
        BY <1>4, <3>2 DEF AllDecode, parts
      <3> DEFINE d == DecodeUriBytes(root)
      <3>4. ContentsOf(d, root)
        BY <3>1, <3>3, ComponentDecodes
      <3> HIDE DEF d
      <3>5. d = <<>>
        <4> DEFINE e == root
        <4>1. e = <<>> /\ e \in Seq(Scalars) /\ ContentsOf(d, e)
          BY <3>1, <3>4
        <4> HIDE DEF e
        <4>2. e = <<>> <=> d = <<>>
          <5>1. \A c \in Seq(Scalars) : ContentsOf(d, c) => (c = <<>> <=> d = <<>>)
            BY EmptyContents
          <5> QED BY <4>1, <5>1, Zenon
        <4> QED BY <4>1, <4>2
      <3>6. DecodeComponent(root) = Canon[d]
        BY <3>4 DEF ContentsOf
      <3> QED BY <1>4, <1>9, <2>1, <3>5, <3>6
    <2>2. CASE i # 1
      <3>1. i - 1 \in 1..Len(asked) /\ (i - 1) + 1 = i
        BY <1>4, <1>9, <2>2
      <3>2. parts[i] = asked[i - 1] /\ bss[i] = t[i - 1]
        BY <1>4, <1>9, <3>1
      <3> QED BY <1>5, <3>1, <3>2 DEF ContentsOf
    <2> QED BY <2>1, <2>2
  <1>11. Decode(raw) = ParsePath(Joined(Mapped(Canon, bss)))
    BY <1>9, <1>10, DecodedParts DEF parts
  <1> QED BY <1>5, <1>7, <1>11 DEF asked, t, bss

\* What is behind the root of the path of a URI.
BehindOf(raw) == Behind(Resolved(AskedBytes(raw)))

\* A path that has come out of a URI, with its canonical URI, and the way back.
PathOf(p, u, raw) ==
    /\ Absolute(raw) /\ AllDecode(raw)
    /\ \A i \in 1..Len(AskedParts(raw)) : Spells(AsBytes(AskedParts(raw)[i]), AskedBytes(raw)[i])
    /\ BehindOf(raw) \in Seq(Lawful)
    /\ p \in Seq(Scalars) /\ Absolute(p) /\ AskedParts(p) = Mapped(Canon, BehindOf(raw))
    /\ u \in Seq(Scalars) /\ Absolute(u) /\ AskedParts(u) = Mapped(Uris, BehindOf(raw))
    /\ Decode(u) = {p} /\ Spelling(p) = u /\ u # Err

\* A URI is accepted only if it is absolute and all its components decode, and
\* then with a path that leads back.
LEMMA Accepted ==
    ASSUME NEW raw \in Seq(Scalars), NEW parsed \in Decode(raw), Spelling(parsed) # Err
    PROVE  PathOf(parsed, Spelling(parsed), raw)
  <1> DEFINE t == AskedBytes(raw)
             k == BehindOf(raw)
             text == Joined(Mapped(Canon, <<<<>>>> \o t))
             p == Joined(Mapped(Canon, <<<<>>>> \o k))
             u == Joined(Mapped(Uris, <<<<>>>> \o k))
  <1>1. Absolute(raw) /\ AllDecode(raw) /\ parsed # Err
    <2>1. Absolute(raw)
      BY RelativeRefused
    <2>2. AllDecode(raw) /\ parsed # Err
      BY SomeRefused DEF Spelling
    <2> QED BY <2>1, <2>2
  <1>2. /\ t \in Seq(Lawful) /\ t # <<>> /\ Decode(raw) = ParsePath(text)
        /\ \A i \in 1..Len(AskedParts(raw)) : ContentsOf(t[i], AskedParts(raw)[i])
    BY <1>1, AbsoluteDecodes
  <1> HIDE DEF t
  <1>3. t \in Seq(Contents)
    BY <1>2, SeqMonotonic DEF Lawful
  <1>4. k \in Seq(Contents) /\ k # <<>> /\ Plain(k)
    BY <1>2, <1>3, BehindRoot DEF BehindOf, t
  <1>5. k \in Seq(Lawful)
    <2>1. Resolved(t) \in Seq(Lawful)
      BY <1>2, ResolvedType
    <2>2. <<<<>>>> \in Seq(Lawful)
      <3>1. <<>> \in Lawful
        <4>1. <<>> \in Contents /\ <<>> \in Seq(Bytes)
          BY MarksKept, EmptySeq DEF Marks
        <4>2. ~Contains(<<>>, NUL) /\ ~Contains(<<>>, Slash) /\ ~Contains(<<>>, Backslash)
          BY EmptySeq DEF Contains
        <4> QED BY <4>1, <4>2 DEF Lawful, Allowed
      <3> DEFINE e == <<>>
      <3> HIDE DEF e
      <3>2. e \in Lawful
        BY <3>1 DEF e
      <3>3. <<e>> \in Seq(Lawful)
        BY <3>2
      <3> QED BY <3>3 DEF e
    <2> QED BY <2>1, <2>2 DEF Behind, BehindOf, t
  <1>6. Absolute(text) /\ Normal(text) = p
    BY <1>2, <1>3, NormalText DEF BehindOf, t
  <1>7. parsed = p
    BY <1>1, <1>2, <1>6 DEF ParsePath
  <1> HIDE DEF k, text
  <1>8. /\ p \in Seq(Scalars) /\ Absolute(p) /\ AskedParts(p) = Mapped(Canon, k)
        /\ u \in Seq(Scalars) /\ Absolute(u) /\ AskedParts(u) = Mapped(Uris, k)
        /\ ParsePath(p) = {p} /\ Spelling(p) = u /\ u # Err
    BY <1>4, NormalPath
  <1> HIDE DEF p, u
  <1>9. Len(k) \in Nat /\ Len(AskedParts(u)) = Len(k)
        /\ \A i \in 1..Len(k) : AskedParts(u)[i] = Uris[k[i]] /\ k[i] \in Lawful
    <2>1. Maps(Uris, Contents, Seq(NoSlash))
      BY ContentsLaws, MappedLaws
    <2>2. Len(Mapped(Uris, k)) = Len(k) /\ \A i \in 1..Len(k) : Mapped(Uris, k)[i] = Uris[k[i]]
      <3>1. Len(Mapped(Uris, k)) = Len(k)
        BY <1>4, <2>1 DEF Maps
      <3> QED BY <3>1 DEF Mapped
    <2> QED BY <1>5, <1>8, <2>2, ElementOfSeq, LenProperties
  <1>10. AllDecode(u)
    <2>1. Split(u) = <<<<>>>> \o AskedParts(u) /\ AskedParts(u) \in Seq(Seq(NoSlash))
      BY <1>8, AbsoluteParts
    <2> DEFINE e == <<>>
               s == AskedParts(u)
               D == Seq(NoSlash)
    <2>2. e \in D /\ DecodeComponent(e) # Err
      <3>1. Absolute(raw) /\ Split(raw) = <<e>> \o AskedParts(raw)
            /\ AskedParts(raw) \in Seq(D) /\ e \in D
        BY <1>1, AbsoluteParts, EmptySeq
      <3> DEFINE q == AskedParts(raw)
      <3> HIDE DEF e, D, q
      <3>2. (<<e>> \o q)[1] = e /\ Len(<<e>> \o q) = Len(q) + 1 /\ Len(q) \in Nat
        BY <3>1, ConsSeq, LenProperties DEF q
      <3>3. 1 \in 1..Len(Split(raw)) /\ Split(raw)[1] = e
        BY <3>1, <3>2 DEF q
      <3> QED BY <1>1, <3>1, <3>3 DEF AllDecode
    <2> HIDE DEF e, s, D
    <2>3. /\ Len(<<e>> \o s) = Len(s) + 1 /\ (<<e>> \o s)[1] = e
          /\ \A i \in 1..Len(s) : (<<e>> \o s)[i + 1] = s[i]
      BY <2>1, <2>2, ConsSeq DEF e, s, D
    <2>4. ASSUME NEW i \in 1..Len(s) PROVE DecodeComponent(s[i]) # Err
      <3>1. s[i] = Uris[k[i]] /\ k[i] \in Lawful
        BY <1>9 DEF s
      <3>2. DecodeComponent(s[i]) = Canon[k[i]] /\ Canon[k[i]] \in Seq(Scalars)
        BY <3>1, LawfulSpelling, ContentsLaws DEF Lawful
      <3> QED BY <3>2, Table
    <2>5. ASSUME NEW i \in 1..Len(Split(u)) PROVE DecodeComponent(Split(u)[i]) # Err
      <3>0. Split(u) = <<e>> \o s /\ Len(s) = Len(k)
        BY <1>9, <2>1 DEF e, s
      <3>1. CASE i = 1
        BY <2>2, <2>3, <3>0, <3>1
      <3>2. CASE i # 1
        <4>1. i - 1 \in 1..Len(s) /\ (i - 1) + 1 = i
          BY <1>9, <2>3, <3>0, <3>2
        <4>2. Split(u)[i] = s[i - 1]
          BY <2>3, <3>0, <4>1
        <4> QED BY <2>4, <4>1, <4>2
      <3> QED BY <3>1, <3>2
    <2> QED BY <2>5 DEF AllDecode
  <1>11. AskedBytes(u) = k
    <2>1. AskedBytes(u) = [i \in 1..Len(AskedParts(u)) |-> DecodeUriBytes(AskedParts(u)[i])]
      BY DEF AskedBytes
    <2>2. \A i \in 1..Len(k) : DecodeUriBytes(AskedParts(u)[i]) = k[i]
      BY <1>9, LawfulSpelling
    <2>3. k = [i \in 1..Len(k) |-> k[i]]
      BY <1>4
    <2>4. AskedBytes(u) = [i \in 1..Len(k) |-> k[i]]
      BY <1>9, <2>1, <2>2
    <2> QED BY <2>3, <2>4
  <1>12. Decode(u) = {p}
    <2>1. Decode(u) = ParsePath(Joined(Mapped(Canon, <<<<>>>> \o AskedBytes(u))))
      BY <1>8, <1>10, AbsoluteDecodes
    <2> QED BY <1>8, <1>11, <2>1 DEF p
  <1>13. \A i \in 1..Len(AskedParts(raw)) : Spells(AsBytes(AskedParts(raw)[i]), t[i])
    BY <1>2 DEF ContentsOf
  <1> QED BY <1>1, <1>5, <1>7, <1>8, <1>12, <1>13 DEF PathOf, t, k

\* A plain absolute URI whose components decode is not refused.
LEMMA PlainAccepted ==
    ASSUME NEW raw \in Seq(Scalars), Absolute(raw), AllDecode(raw), Plain(AskedBytes(raw)),
           NEW parsed \in Decode(raw)
    PROVE  Spelling(parsed) # Err
  <1> DEFINE t == AskedBytes(raw)
             p == Joined(Mapped(Canon, <<<<>>>> \o t))
  <1>1. t \in Seq(Lawful) /\ t # <<>> /\ Decode(raw) = ParsePath(p)
    BY AbsoluteDecodes
  <1> HIDE DEF t
  <1>2. t \in Seq(Contents)
    BY <1>1, SeqMonotonic DEF Lawful
  <1>3. ParsePath(p) = {p} /\ Spelling(p) # Err
    <2> DEFINE u == Joined(Mapped(Uris, <<<<>>>> \o t))
    <2>1. Plain(t)
      BY DEF t
    <2>2. ParsePath(p) = {p} /\ Spelling(p) = u /\ u # Err
      BY <1>1, <1>2, <2>1, NormalPath
    <2> QED BY <2>2
  <1> QED BY <1>1, <1>3

\* An absolute URI decodes exactly when everything behind the root is acceptable.
LEMMA DecodeExactly ==
    ASSUME NEW raw \in Seq(Scalars), Absolute(raw)
    PROVE  AllDecode(raw) <=> \A i \in 1..Len(AskedParts(raw)) : Acceptable(AsBytes(AskedParts(raw)[i]))
  <1> DEFINE s == AskedParts(raw)
             e == <<>>
             D == Seq(NoSlash)
  <1>1. Split(raw) = <<e>> \o s /\ s \in Seq(D) /\ e \in D /\ e \in Seq(Scalars)
    BY AbsoluteParts, EmptySeq
  <1>2. DecodeComponent(e) # Err
    <2>1. AsBytes(e) = <<>>
      BY AsBytesLaws
    <2>2. Acceptable(<<>>)
      BY EmptySeq DEF Acceptable, WellFormed
    <2> QED BY <1>1, <2>1, <2>2, ComponentDecodes
  <1>3. \A c \in D : DecodeComponent(c) # Err <=> Acceptable(AsBytes(c))
    <2>1. \A c \in D : c \in Seq(Scalars)
      BY SeqMonotonic DEF NoSlash
    <2> QED BY <2>1, ComponentDecodes
  <1> HIDE DEF s, e, D
  <1>4. /\ Len(<<e>> \o s) = Len(s) + 1 /\ (<<e>> \o s)[1] = e /\ Len(s) \in Nat
        /\ \A i \in 1..Len(s) : (<<e>> \o s)[i + 1] = s[i]
    BY <1>1, ConsSeq, LenProperties
  <1>5. ASSUME NEW i \in 1..(Len(s) + 1) PROVE i = 1 \/ (i - 1 \in 1..Len(s) /\ (i - 1) + 1 = i)
    BY <1>4
  <1>6. AllDecode(raw) <=> \A i \in 1..Len(s) : DecodeComponent(s[i]) # Err
    <2>1. ASSUME AllDecode(raw), NEW i \in 1..Len(s) PROVE DecodeComponent(s[i]) # Err
      <3>1. i + 1 \in 1..Len(Split(raw)) /\ Split(raw)[i + 1] = s[i]
        BY <1>1, <1>4
      <3> QED BY <2>1, <3>1 DEF AllDecode
    <2>2. ASSUME \A i \in 1..Len(s) : DecodeComponent(s[i]) # Err, NEW i \in 1..Len(Split(raw))
          PROVE  DecodeComponent(Split(raw)[i]) # Err
      <3>1. i \in 1..(Len(s) + 1)
        BY <1>1, <1>4
      <3>2. CASE i = 1
        BY <1>1, <1>2, <1>4, <3>2
      <3>3. CASE i - 1 \in 1..Len(s) /\ (i - 1) + 1 = i
        <4>1. Split(raw)[i] = s[i - 1]
          BY <1>1, <1>4, <3>3
        <4> QED BY <2>2, <3>3, <4>1
      <3> QED BY <1>5, <3>1, <3>2, <3>3
    <2> QED BY <2>1, <2>2 DEF AllDecode
  <1>7. \A i \in 1..Len(s) : DecodeComponent(s[i]) # Err <=> Acceptable(AsBytes(s[i]))
    BY <1>1, <1>3, ElementOfSeq
  <1> QED BY <1>6, <1>7 DEF s

\* A resolution gives what PathOf says, or nothing.
LEMMA Resolutions ==
    ASSUME NEW raw \in Seq(Scalars), NEW parsed \in Decode(raw),
           NEW p, p = Resolution(raw, parsed).path, NEW u, u = Resolution(raw, parsed).uri
    PROVE  /\ p = Err => u = raw /\ Spelling(parsed) = Err
           /\ p # Err => PathOf(p, u, raw)
  <1>1. CASE Spelling(parsed) = Err
    BY <1>1 DEF Resolution
  <1>2. CASE Spelling(parsed) # Err
    <2>1. PathOf(parsed, Spelling(parsed), raw)
      BY <1>2, Accepted
    <2>2. p = parsed /\ u = Spelling(parsed)
      BY <1>2 DEF Resolution
    <2>3. p # Err
      BY <2>1, <2>2, Table DEF PathOf
    <2> QED BY <2>1, <2>2, <2>3
  <1> QED BY <1>1, <1>2

\* Every state is well typed.
THEOREM UriTypeCorrect == UriSpec => []UriTypeOK
  <1>1. UriInit => UriTypeOK
    <2> SUFFICES ASSUME UriInit PROVE UriTypeOK
      OBVIOUS
    <2>1. <<Slash>> \in Seq(Scalars) /\ <<>> \in Seq(Scalars)
      BY Table
    <2>2. uri \in Seq(Scalars) /\ path \in Seq(Scalars) /\ before.uri \in Seq(Scalars)
      BY <2>1 DEF UriInit
    <2>3. tokens \in 0..MaxTokens
      BY UriAssumption DEF UriInit
    <2> QED BY <2>2, <2>3 DEF UriInit, UriTypeOK
  <1>2. UriTypeOK /\ [UriNext]_uriVars => UriTypeOK'
    <2> SUFFICES ASSUME UriTypeOK, [UriNext]_uriVars PROVE UriTypeOK'
      OBVIOUS
    <2>1. CASE Resolve
      <3>1. PICK parsed \in Decode(uri) :
               path' = Resolution(uri, parsed).path /\ uri' = Resolution(uri, parsed).uri
        BY <2>1 DEF Resolve
      <3>2. uri \in Seq(Scalars)
        BY DEF UriTypeOK
      <3>3. path' \in Seq(Scalars) \cup {Err} /\ uri' \in Seq(Scalars)
        BY <3>1, <3>2, Resolutions DEF PathOf
      <3>4. round' \in 0..2
        BY <2>1 DEF Resolve, UriTypeOK
      <3> QED BY <2>1, <3>3, <3>4 DEF Resolve, UriTypeOK
    <2>2. ASSUME NEW token \in Tokens, Write(token) PROVE UriTypeOK'
      <3>1. uri \o token \in Seq(Scalars)
        <4>1. token \in Seq(Scalars)
          BY UriAssumption
        <4> QED BY <4>1, ConcatProperties DEF UriTypeOK
      <3>2. tokens' \in 0..MaxTokens
        BY <2>2, UriAssumption DEF Write, UriTypeOK
      <3> QED BY <2>2, <3>1, <3>2 DEF Write, UriTypeOK
    <2>3. CASE UNCHANGED uriVars
      BY <2>3 DEF uriVars, UriTypeOK
    <2> QED BY <2>1, <2>2, <2>3 DEF UriNext
  <1> QED BY <1>1, <1>2, PTL DEF UriSpec

\* Once resolved, the client holds what a resolution of the URI before may give,
\* and what it resolves next is that path and that URI again.
THEOREM UriInvCorrect == UriSpec => []UriInv
  <1>1. UriInit => UriInv
    BY DEF UriInit, UriInv, RoundTrip
  <1>2. UriTypeOK /\ UriInv /\ [UriNext]_uriVars => UriInv'
    <2> SUFFICES ASSUME UriTypeOK, UriInv, [UriNext]_uriVars PROVE UriInv'
      OBVIOUS
    <2>1. CASE Resolve
      <3>1. PICK parsed \in Decode(uri) :
               path' = Resolution(uri, parsed).path /\ uri' = Resolution(uri, parsed).uri
        BY <2>1 DEF Resolve
      <3>2. windows' = windows /\ before'.uri = uri /\ before'.path = path
        BY <2>1 DEF Resolve
      <3>3. Decode(before.uri)' = Decode(uri)
        BY <3>2 DEF Decode, DecodeComponent
      <3>4. RoundTrip'
        <4> SUFFICES ASSUME round' = 2 PROVE path' = before'.path /\ uri' = before'.uri
          BY DEF RoundTrip
        <4>1. round = 1 /\ path # Err
          BY <2>1 DEF Resolve, UriTypeOK
        <4>2. PICK first \in Decode(before.uri) :
                 path = Resolution(before.uri, first).path /\ uri = Resolution(before.uri, first).uri
          BY <4>1 DEF UriInv
        <4>3. PathOf(path, uri, before.uri)
          BY <4>1, <4>2, Resolutions DEF UriTypeOK
        <4>4. parsed = path /\ Spelling(path) = uri /\ uri # Err
          BY <4>3 DEF PathOf
        <4>5. path' = path /\ uri' = uri
          BY <3>1, <4>4 DEF Resolution
        <4> QED BY <3>2, <4>5
      <3> QED BY <3>1, <3>2, <3>3, <3>4 DEF UriInv, Resolution
    <2>2. ASSUME NEW token \in Tokens, Write(token) PROVE UriInv'
      BY <2>2 DEF Write, UriInv, RoundTrip
    <2>3. CASE UNCHANGED uriVars
      <3>1. Decode(before.uri)' = Decode(before.uri)
        BY <2>3 DEF uriVars, Decode, DecodeComponent
      <3> QED BY <2>3, <3>1 DEF uriVars, UriInv, RoundTrip
    <2> QED BY <2>1, <2>2, <2>3 DEF UriNext
  <1> QED BY <1>1, <1>2, UriTypeCorrect, PTL DEF UriSpec

\* The canonical URI stands for the path it was made from: resolving it again
\* succeeds and changes neither the path nor the URI (canonical_uri, decode).
THEOREM RoundTripCorrect == UriSpec => []RoundTrip
  <1>1. UriInv => RoundTrip
    BY DEF UriInv
  <1> QED BY <1>1, UriInvCorrect, PTL

\* A URI that is relative is refused, and so is one where an escape is malformed
\* or a component would hold a NUL or a separator; unless Path::parse has to
\* resolve something, no other is (decode_component, decode_uri_bytes,
\* canonical_uri, decode_config).
THEOREM RefusedCorrect == UriSpec => []RefusedExactly
  <1>1. UriTypeOK /\ UriInv => RefusedExactly
    <2> SUFFICES ASSUME UriTypeOK, UriInv, round = 1 PROVE RefusedExactly
      BY DEF RefusedExactly
    <2> DEFINE raw == before.uri
               legal == Absolute(raw) /\ \A i \in 1..Len(AskedParts(raw)) :
                                            Acceptable(AsBytes(AskedParts(raw)[i]))
    <2>1. raw \in Seq(Scalars)
      BY DEF UriTypeOK
    <2>2. PICK parsed \in Decode(raw) :
             path = Resolution(raw, parsed).path /\ uri = Resolution(raw, parsed).uri
      BY DEF UriInv
    <2> HIDE DEF raw
    <2>3. ASSUME path # Err PROVE legal
      <3>1. Absolute(raw) /\ AllDecode(raw)
        BY <2>1, <2>2, <2>3, Resolutions DEF PathOf
      <3> QED BY <2>1, <3>1, DecodeExactly
    <2>4. ASSUME legal, Plain(AskedBytes(raw)) PROVE path # Err
      <3>1. AllDecode(raw)
        BY <2>1, <2>4, DecodeExactly
      <3>2. Spelling(parsed) # Err
        BY <2>1, <2>4, <3>1, PlainAccepted
      <3> QED BY <2>1, <2>2, <3>2, Resolutions
    <2> QED BY <2>3, <2>4 DEF RefusedExactly, raw
  <1> QED BY <1>1, UriTypeCorrect, UriInvCorrect, PTL

\* The path has the components that Path::parse leaves of the URI and spells
\* their very bytes, and the canonical URI depends on nothing else (decode,
\* canonicalize_uri_bytes, canonical_uri).
THEOREM BytesCorrect == UriSpec => []BytesKept
  <1>1. UriTypeOK /\ UriInv => BytesKept
    <2> SUFFICES ASSUME UriTypeOK, UriInv, round = 1, path # Err PROVE BytesKept
      BY DEF BytesKept
    <2> DEFINE raw == before.uri
               kept == BehindOf(raw)
               given == AskedParts(path)
               canonical == AskedParts(uri)
    <2>1. raw \in Seq(Scalars)
      BY DEF UriTypeOK
    <2>2. PICK parsed \in Decode(raw) :
             path = Resolution(raw, parsed).path /\ uri = Resolution(raw, parsed).uri
      BY DEF UriInv
    <2> HIDE DEF raw
    <2>3. PathOf(path, uri, raw)
      BY <2>1, <2>2, Resolutions
    <2> HIDE DEF kept
    <2>4. /\ kept \in Seq(Lawful) /\ given = Mapped(Canon, kept) /\ canonical = Mapped(Uris, kept)
          /\ Absolute(path) /\ Absolute(uri)
      BY <2>3 DEF PathOf, kept
    <2>5. kept \in Seq(Contents) /\ Len(kept) \in Nat
      BY <2>4, SeqMonotonic, LenProperties DEF Lawful
    <2> HIDE DEF given, canonical
    <2>6. /\ Len(given) = Len(kept) /\ Len(canonical) = Len(kept)
          /\ \A i \in 1..Len(kept) : given[i] = Canon[kept[i]] /\ canonical[i] = Uris[kept[i]]
      <3>1. Maps(Canon, Contents, Seq(NoSlash)) /\ Maps(Uris, Contents, Seq(NoSlash))
        BY ContentsLaws, MappedLaws
      <3> QED BY <2>4, <2>5, <3>1 DEF Maps, Mapped
    <2>7. ASSUME NEW i \in 1..Len(kept)
          PROVE  Spells(AsBytes(given[i]), kept[i]) /\ canonical[i] = UriOf(kept[i])
      <3>1. kept[i] \in Lawful
        BY <2>4, ElementOfSeq
      <3>2. Spells(AsBytes(Canon[kept[i]]), kept[i]) /\ Uris[kept[i]] = UriOf(kept[i])
        BY <3>1, LawfulSpelling DEF Lawful, Uris
      <3> QED BY <2>6, <3>2
    <2>8. Tail(Rooted(Resolved(AskedBytes(raw)))) = kept
      <3>1. Rooted(Resolved(AskedBytes(raw))) = <<<<>>>> \o kept
        BY DEF Rooted, Behind, BehindOf, kept
      <3>2. <<>> \in Contents
        BY MarksKept DEF Marks
      <3> DEFINE e == <<>>
      <3> HIDE DEF e
      <3>3. Tail(<<e>> \o kept) = kept
        BY <2>5, <3>2, TailCons DEF e
      <3> QED BY <3>1, <3>3 DEF e
    <2>9. \A i \in 1..Len(AskedParts(raw)) :
             Spells(AsBytes(AskedParts(raw)[i]), AskedBytes(raw)[i])
      BY <2>3 DEF PathOf
    <2> QED BY <2>4, <2>6, <2>7, <2>8, <2>9 DEF BytesKept, raw, given, canonical, AskedParts
  <1> QED BY <1>1, UriTypeCorrect, UriInvCorrect, PTL
=============================================================================
