---------------------------- MODULE SequenceFacts ----------------------------
(***************************************************************************)
(* What the proofs need to know of sequences and of recursive functions.   *)
(* Induction is stated with sets, for the provers cannot instantiate an    *)
(* operator: it follows from the order of the naturals being well-founded. *)
(***************************************************************************)
EXTENDS Subsequences, SequencesExt, SequenceTheorems, FiniteSetTheorems,
        WellFoundedInduction, TLAPS

-----------------------------------------------------------------------------
(* Induction. *)

LEMMA LeastNumber ==
  ASSUME NEW T \in SUBSET Nat, T # {}
  PROVE  \E n \in T : \A m \in T : n <= m
<1> DEFINE R == OpToRel(<, Nat)
<1>1. IsWellFoundedOn(R, Nat)
  BY NatLessThanWellFounded
<1>2. \A x, y \in Nat : <<x, y>> \in R <=> x < y
  BY DEF OpToRel
<1> HIDE DEF R
<1>3. PICK x \in T : \A y \in T : ~ (<<y, x>> \in R)
  BY <1>1, WFMin
<1>4. \A y \in T : x \in Nat /\ y \in Nat /\ ~ (y < x)
  BY <1>2, <1>3
<1>5. \A y \in T : x <= y
  BY <1>4
<1>. QED
  BY <1>5

LEMMA SetInduction ==
  ASSUME NEW T, 0 \in T, \A n \in Nat : n \in T => n + 1 \in T
  PROVE  Nat \subseteq T
<1> SUFFICES ASSUME Nat \ T # {} PROVE FALSE
  OBVIOUS
<1>1. PICK n \in Nat \ T : \A m \in Nat \ T : n <= m
  BY LeastNumber
<1>2. n - 1 \in Nat /\ n = (n - 1) + 1 /\ ~ (n <= n - 1)
  BY <1>1
<1>. QED
  BY <1>1, <1>2

-----------------------------------------------------------------------------
(* The items that are kept. *)

KeptRule(s, keep, n, f) ==
  f = [i \in 0 .. n |->
         IF i = 0 THEN <<>>
         ELSE IF s[i] \in keep THEN Append(f[i - 1], s[i]) ELSE f[i - 1]]

\* The recursion of KeptUpTo has a solution.
LEMMA KeptExists ==
  ASSUME NEW s, NEW keep
  PROVE  \A n \in Nat : \E f : KeptRule(s, keep, n, f)
<1> DEFINE Solves(f, n) == KeptRule(s, keep, n, f)
           T == {n \in Nat : \E f : Solves(f, n)}
<1> USE DEF KeptRule
<1>1. 0 \in T
  <2> DEFINE f == [i \in 0 .. 0 |-> <<>>]
  <2>1. Solves(f, 0)
    OBVIOUS
  <2>. QED
    BY <2>1
<1>2. ASSUME NEW n \in Nat, n \in T PROVE n + 1 \in T
  <2>1. PICK f : Solves(f, n)
    BY <1>2
  <2> DEFINE last == IF s[n + 1] \in keep THEN Append(f[n], s[n + 1]) ELSE f[n]
             g == [i \in 0 .. n + 1 |-> IF i = n + 1 THEN last ELSE f[i]]
             h == [i \in 0 .. n + 1 |->
                    IF i = 0 THEN <<>>
                    ELSE IF s[i] \in keep THEN Append(g[i - 1], s[i]) ELSE g[i - 1]]
  <2>2. \A i \in 0 .. n : f[i] = IF i = 0 THEN <<>>
                                 ELSE IF s[i] \in keep THEN Append(f[i - 1], s[i]) ELSE f[i - 1]
    BY <2>1
  <2>3. ASSUME NEW i \in 0 .. n + 1 PROVE g[i] = h[i]
    <3>1. CASE i = n + 1
      <4>1. i # 0 /\ i - 1 = n /\ g[i - 1] = f[n]
        BY <3>1
      <4>. QED
        BY <3>1, <4>1
    <3>2. CASE i # n + 1 /\ i # 0
      <4>1. i \in 0 .. n /\ i - 1 \in 0 .. n + 1 /\ i - 1 # n + 1
        BY <3>2
      <4>2. g[i - 1] = f[i - 1] /\ g[i] = f[i]
        BY <4>1, <3>2
      <4>. QED
        BY <3>2, <4>1, <4>2, <2>2
    <3>3. CASE i = 0
      <4>1. i \in 0 .. n /\ i # n + 1
        BY <3>3
      <4>. QED
        BY <4>1, <3>3, <2>2
    <3>. QED
      BY <3>1, <3>2, <3>3
  <2>4. g = h
    BY <2>3
  <2>5. Solves(g, n + 1)
    BY <2>4
  <2> HIDE DEF Solves, g
  <2>. QED
    BY <2>5
<1>3. Nat \subseteq T
  <2> HIDE DEF T
  <2>. QED BY <1>1, <1>2, SetInduction
<1>. QED
  BY <1>3

LEMMA KeptSteps ==
  ASSUME NEW S, NEW s \in Seq(S), NEW keep
  PROVE  /\ KeptUpTo(s, keep)[0] = <<>>
         /\ \A i \in 1 .. Len(s) : KeptUpTo(s, keep)[i] =
              IF s[i] \in keep THEN Append(KeptUpTo(s, keep)[i - 1], s[i])
              ELSE KeptUpTo(s, keep)[i - 1]
<1>1. Len(s) \in Nat
  OBVIOUS
<1> DEFINE f == KeptUpTo(s, keep)
<1>2. f = [i \in 0 .. Len(s) |->
             IF i = 0 THEN <<>>
             ELSE IF s[i] \in keep THEN Append(f[i - 1], s[i]) ELSE f[i - 1]]
  <2>1. \E k : KeptRule(s, keep, Len(s), k)
    BY <1>1, KeptExists
  <2>. QED
    BY <2>1, Zenon DEF KeptUpTo, KeptRule
<1> HIDE DEF f
<1>3. \A i \in 0 .. Len(s) :
        f[i] = IF i = 0 THEN <<>>
               ELSE IF s[i] \in keep THEN Append(f[i - 1], s[i]) ELSE f[i - 1]
  BY <1>2
<1>4. /\ f[0] = <<>>
      /\ \A i \in 1 .. Len(s) : f[i] = IF s[i] \in keep THEN Append(f[i - 1], s[i]) ELSE f[i - 1]
  BY <1>1, <1>3
<1>. QED
  BY <1>4 DEF f

LEMMA RangeOfAppend ==
  ASSUME NEW S, NEW s \in Seq(S), NEW e \in S
  PROVE  /\ Range(Append(s, e)) = Range(s) \cup {e}
         /\ IsInjective(s) /\ e \notin Range(s) => IsInjective(Append(s, e))
<1> DEFINE t == Append(s, e)
<1>1. /\ Len(t) = Len(s) + 1 /\ DOMAIN t = 1 .. Len(t) /\ DOMAIN s = 1 .. Len(s)
      /\ \A i \in 1 .. Len(s) : t[i] = s[i]
      /\ t[Len(s) + 1] = e /\ Len(s) \in Nat
  OBVIOUS
<1> HIDE DEF t
<1>2. Range(t) = Range(s) \cup {e}
  <2>1. ASSUME NEW x \in Range(t) PROVE x \in Range(s) \cup {e}
    <3>1. PICK i \in 1 .. Len(t) : x = t[i]
      BY <1>1 DEF Range
    <3>2. CASE i = Len(s) + 1
      BY <3>1, <3>2, <1>1
    <3>3. CASE i \in 1 .. Len(s)
      BY <3>1, <3>3, <1>1 DEF Range
    <3>. QED BY <1>1, <3>2, <3>3
  <2>2. ASSUME NEW x \in Range(s) \cup {e} PROVE x \in Range(t)
    <3>1. CASE x = e
      <4>1. Len(s) + 1 \in DOMAIN t
        BY <1>1
      <4>. QED BY <3>1, <4>1, <1>1 DEF Range
    <3>2. CASE x \in Range(s)
      <4>1. PICK i \in 1 .. Len(s) : x = s[i]
        BY <1>1, <3>2 DEF Range
      <4>2. i \in DOMAIN t /\ t[i] = x
        BY <4>1, <1>1
      <4>. QED BY <4>2 DEF Range
    <3>. QED BY <3>1, <3>2
  <2>. QED BY <2>1, <2>2
<1>3. ASSUME IsInjective(s), e \notin Range(s) PROVE IsInjective(t)
  <2>1. \A i \in 1 .. Len(s) : s[i] # e
    BY <1>1, <1>3 DEF Range
  <2>. QED BY <1>1, <1>3, <2>1 DEF IsInjective
<1>. QED BY <1>2, <1>3 DEF t

\* What is kept of the first n items: those in the set, each as often as it
\* is there, the first one first.
KeptFacts(S, s, keep, n, k) ==
  /\ k \in Seq(S)
  /\ Range(k) = {s[i] : i \in 1 .. n} \cap keep
  /\ IsInjective(s) => IsInjective(k)
  /\ n > 0 /\ s[1] \in keep => Len(k) > 0 /\ k[1] = s[1]

LEMMA KeptProperties ==
  ASSUME NEW S, NEW s \in Seq(S), NEW keep, NEW n \in 0 .. Len(s)
  PROVE  KeptFacts(S, s, keep, n, KeptUpTo(s, keep)[n])
<1> DEFINE k(m) == KeptUpTo(s, keep)[m]
           P(m) == KeptFacts(S, s, keep, m, k(m))
           T == {m \in Nat : m <= Len(s) => P(m)}
<1>1. /\ k(0) = <<>>
      /\ \A m \in 1 .. Len(s) : k(m) = IF s[m] \in keep THEN Append(k(m - 1), s[m]) ELSE k(m - 1)
  BY KeptSteps
<1> HIDE DEF k
<1> USE DEF KeptFacts
<1>2. 0 \in T
  <2>1. Range(<<>>) = {} /\ IsInjective(<<>>) /\ <<>> \in Seq(S)
    BY DEF Range, IsInjective
  <2>2. {s[i] : i \in 1 .. 0} = {}
    OBVIOUS
  <2>3. ~ (0 > 0)
    OBVIOUS
  <2>4. P(0)
    BY <1>1, <2>1, <2>2, <2>3, Zenon DEF KeptFacts
  <2>. QED BY <2>4
<1>3. ASSUME NEW m \in Nat, m \in T PROVE m + 1 \in T
  <2> SUFFICES ASSUME m + 1 <= Len(s) PROVE P(m + 1)
    OBVIOUS
  <2>1. P(m)
    BY <1>3
  <2>2. m + 1 \in 1 .. Len(s) /\ (m + 1) - 1 = m /\ s[m + 1] \in S
    OBVIOUS
  <2>3. k(m + 1) = IF s[m + 1] \in keep THEN Append(k(m), s[m + 1]) ELSE k(m)
    BY <1>1, <2>2
  <2>4. {s[i] : i \in 1 .. m + 1} = {s[i] : i \in 1 .. m} \cup {s[m + 1]}
    <3>1. 1 .. m + 1 = (1 .. m) \cup {m + 1}
      OBVIOUS
    <3>. QED BY <3>1
  <2>5. CASE s[m + 1] \notin keep
    <3>1. k(m + 1) = k(m)
      BY <2>3, <2>5
    <3>2. s[1] \in keep => m > 0
      BY <2>5
    <3>. QED BY <2>1, <3>1, <3>2, <2>4, <2>5
  <2>6. CASE s[m + 1] \in keep
    <3>1. k(m + 1) = Append(k(m), s[m + 1]) /\ k(m) \in Seq(S)
      BY <2>1, <2>3, <2>6
    <3> DEFINE q == k(m)
               e == s[m + 1]
    <3>6. q \in Seq(S) /\ e \in S /\ k(m + 1) = Append(q, e)
      BY <3>1, <2>2
    <3> HIDE DEF q, e
    <3>7. /\ Append(q, e) \in Seq(S)
          /\ Range(Append(q, e)) = Range(q) \cup {e}
          /\ IsInjective(q) /\ e \notin Range(q) => IsInjective(Append(q, e))
      BY <3>6, RangeOfAppend, AppendProperties
    <3>2. /\ k(m + 1) \in Seq(S)
          /\ Range(k(m + 1)) = Range(k(m)) \cup {s[m + 1]}
      BY <3>6, <3>7 DEF q, e
    <3>3. Range(k(m + 1)) = {s[i] : i \in 1 .. m + 1} \cap keep
      BY <3>2, <2>1, <2>4, <2>6
    <3>4. ASSUME IsInjective(s) PROVE IsInjective(k(m + 1))
      <4>1. s[m + 1] \notin {s[i] : i \in 1 .. m}
        <5>1. \A i \in 1 .. m : i \in DOMAIN s /\ m + 1 \in DOMAIN s /\ i # m + 1
          BY <2>2
        <5>. QED BY <3>4, <5>1 DEF IsInjective
      <4>2. s[m + 1] \notin Range(k(m)) /\ IsInjective(k(m))
        BY <4>1, <2>1, <3>4
      <4>. QED BY <4>2, <3>6, <3>7 DEF q, e
    <3>5. ASSUME s[1] \in keep PROVE Len(k(m + 1)) > 0 /\ k(m + 1)[1] = s[1]
      <4>1. CASE m = 0
        <5>1. k(m) = <<>> /\ s[m + 1] = s[1]
          BY <4>1, <1>1
        <5>. QED BY <5>1, <3>1
      <4>2. CASE m > 0
        <5>1. Len(k(m)) > 0 /\ k(m)[1] = s[1]
          BY <4>2, <2>1, <3>5
        <5>2. Len(k(m)) \in Nat /\ 1 \in 1 .. Len(k(m))
          BY <5>1, <3>1
        <5>. QED BY <5>1, <5>2, <3>1, <2>2, AppendProperties
      <4>. QED BY <4>1, <4>2
    <3>. QED BY <3>2, <3>1, <3>3, <3>4, <3>5
  <2>. QED BY <2>5, <2>6
<1>4. n \in T
  <2> HIDE DEF T
  <2>1. Nat \subseteq T
    BY <1>2, <1>3, SetInduction
  <2>. QED BY <2>1
<1>5. P(n)
  BY <1>4
<1>. QED BY <1>5 DEF k

LEMMA ThoseProperties ==
  ASSUME NEW S, NEW s \in Seq(S), NEW keep
  PROVE  /\ Those(s, keep) \in Seq(S)
         /\ Range(Those(s, keep)) = Range(s) \cap keep
         /\ IsInjective(s) => IsInjective(Those(s, keep))
         /\ s # <<>> /\ s[1] \in keep =>
              Len(Those(s, keep)) > 0 /\ Those(s, keep)[1] = s[1]
<1>1. Len(s) \in 0 .. Len(s) /\ Len(s) \in Nat
  OBVIOUS
<1>2. Range(s) = {s[i] : i \in 1 .. Len(s)}
  BY DEF Range
<1>3. s # <<>> => Len(s) > 0
  OBVIOUS
<1>4. KeptFacts(S, s, keep, Len(s), Those(s, keep))
  BY <1>1, KeptProperties DEF Those
<1>. QED BY <1>2, <1>3, <1>4 DEF KeptFacts

\* t has some of the first k items of s, and then the others as they are.
EndsAs(t, s, k) ==
  \E a \in Nat :
     /\ Len(t) = a + (Len(s) - k)
     /\ \A i \in 1 .. a : \E j \in 1 .. k : t[i] = s[j]
     /\ \A i \in 1 .. Len(s) - k : t[a + i] = s[k + i]

\* A filter that keeps all that comes after place k.
LEMMA ThoseTail ==
  ASSUME NEW S, NEW s \in Seq(S), NEW keep, NEW k \in 0 .. Len(s),
         {s[i] : i \in k + 1 .. Len(s)} \subseteq keep
  PROVE  EndsAs(Those(s, keep), s, k)
<1> DEFINE f == KeptUpTo(s, keep)
           a == Len(f[k])
           P(m) == /\ f[k + m] \in Seq(S) /\ Len(f[k + m]) = a + m
                   /\ \A i \in 1 .. a : f[k + m][i] = f[k][i]
                   /\ \A i \in 1 .. m : f[k + m][a + i] = s[k + i]
           T == {m \in Nat : m <= Len(s) - k => P(m)}
<1>1. Len(s) \in Nat /\ k \in Nat /\ k <= Len(s) /\ DOMAIN s = 1 .. Len(s)
  OBVIOUS
<1>2. \A i \in 1 .. Len(s) : f[i] = IF s[i] \in keep THEN Append(f[i - 1], s[i]) ELSE f[i - 1]
  BY KeptSteps
<1>3. f[k] \in Seq(S) /\ Range(f[k]) = {s[i] : i \in 1 .. k} \cap keep
  <2>1. KeptFacts(S, s, keep, k, f[k])
    BY KeptProperties
  <2> HIDE DEF f
  <2>. QED BY <2>1 DEF KeptFacts
<1>4. Those(s, keep) = f[Len(s)]
  BY DEF Those
<1> HIDE DEF f
<1>5. a \in Nat /\ Len(f[k]) = a
  BY <1>3
<1> HIDE DEF a
<1>6. 0 \in T
  <2>1. k + 0 = k
    BY <1>1
  <2>. QED BY <1>3, <1>5, <2>1
<1>7. ASSUME NEW m \in Nat, m \in T PROVE m + 1 \in T
  <2> SUFFICES ASSUME m + 1 <= Len(s) - k PROVE P(m + 1)
    OBVIOUS
  <2> DEFINE q == f[k + m]
             e == s[k + m + 1]
  <2>1. /\ k + m + 1 \in 1 .. Len(s) /\ k + m + 1 \in k + 1 .. Len(s)
        /\ k + (m + 1) = k + m + 1 /\ (k + m + 1) - 1 = k + m /\ m <= Len(s) - k
    BY <1>1
  <2>2. f[k + (m + 1)] = Append(q, e)
    BY <1>2, <2>1
  <2>3. e \in S
    BY <2>1
  <2>4. /\ q \in Seq(S) /\ Len(q) = a + m
        /\ \A i \in 1 .. a : q[i] = f[k][i]
        /\ \A i \in 1 .. m : q[a + i] = s[k + i]
    BY <1>7, <2>1
  <2> HIDE DEF q, e
  <2>5. /\ Append(q, e) \in Seq(S) /\ Len(Append(q, e)) = a + m + 1
        /\ \A i \in 1 .. a + m : Append(q, e)[i] = q[i]
        /\ Append(q, e)[a + m + 1] = e
    BY <2>3, <2>4, AppendProperties
  <2>6. \A i \in 1 .. a : Append(q, e)[i] = f[k][i]
    BY <1>5, <2>4, <2>5
  <2>7. ASSUME NEW i \in 1 .. m + 1 PROVE Append(q, e)[a + i] = s[k + i]
    <3>1. CASE i = m + 1
      <4> HIDE DEF P
      <4>1. a + i = a + m + 1 /\ k + i = k + m + 1
        <5>1. a \in Nat /\ k \in Nat /\ m \in Nat
          BY <1>1, <1>5
        <5>. QED BY <3>1, <5>1
      <4>. QED BY <2>5, <4>1 DEF e
    <3>2. CASE i # m + 1
      <4>1. i \in 1 .. m /\ a + i \in 1 .. a + m
        BY <1>5, <3>2
      <4>. QED BY <2>4, <2>5, <4>1
    <3>. QED BY <3>1, <3>2
  <2>8. a + (m + 1) = a + m + 1
    BY <1>5
  <2>. QED BY <2>2, <2>5, <2>6, <2>7, <2>8
<1>8. Len(s) - k \in T
  <2> HIDE DEF T
  <2>1. Nat \subseteq T /\ Len(s) - k \in Nat
    BY <1>1, <1>6, <1>7, SetInduction
  <2>. QED BY <2>1
<1>9. P(Len(s) - k) /\ k + (Len(s) - k) = Len(s)
  <2>1. Len(s) - k \in Nat /\ Len(s) - k <= Len(s) - k /\ k + (Len(s) - k) = Len(s)
    BY <1>1
  <2> HIDE DEF P
  <2>. QED BY <1>8, <2>1
<1>10. \A i \in 1 .. a : \E j \in 1 .. k : f[k][i] = s[j]
  <2> TAKE i \in 1 .. a
  <2>1. f[k][i] \in Range(f[k])
    <3>1. i \in DOMAIN f[k]
      BY <1>3, <1>5
    <3>. QED BY <3>1 DEF Range
  <2>. QED BY <1>3, <2>1
<1> DEFINE t == f[Len(s)]
<1>11. /\ Len(t) = a + (Len(s) - k)
       /\ \A i \in 1 .. a : t[i] = f[k][i]
       /\ \A i \in 1 .. Len(s) - k : t[a + i] = s[k + i]
  BY <1>9
<1> HIDE DEF P
<1>12. \A i \in 1 .. a : \E j \in 1 .. k : t[i] = s[j]
  BY <1>10, <1>11
<1>. QED BY <1>4, <1>5, <1>11, <1>12, ZenonT(30) DEF EndsAs

-----------------------------------------------------------------------------
(* Sequences without repetition. *)

LEMMA InjectiveLength ==
  ASSUME NEW S, NEW s \in Seq(S)
  PROVE  /\ IsFiniteSet(Range(s)) /\ Cardinality(Range(s)) \in Nat
         /\ IsInjective(s) <=> Cardinality(Range(s)) = Len(s)
<1>1. Len(s) \in Nat /\ DOMAIN s = 1 .. Len(s)
  OBVIOUS
<1>2. s \in Surjection(1 .. Len(s), Range(s))
  BY <1>1 DEF Surjection, Range
<1>3. IsFiniteSet(1 .. Len(s)) /\ Cardinality(1 .. Len(s)) = Len(s)
  <2>1. 1 \in Int /\ Len(s) \in Int
    BY <1>1
  <2>2. IsFiniteSet(1 .. Len(s)) /\ Cardinality(1 .. Len(s)) = IF 1 > Len(s) THEN 0 ELSE Len(s) - 1 + 1
    BY <2>1, FS_Interval
  <2>. QED BY <1>1, <2>2
<1>4. /\ IsFiniteSet(Range(s))
      /\ Cardinality(Range(s)) = Cardinality(1 .. Len(s)) <=> s \in Injection(1 .. Len(s), Range(s))
  BY <1>2, <1>3, FS_Surjection
<1>5. s \in Injection(1 .. Len(s), Range(s)) <=> IsInjective(s)
  BY <1>1, <1>2 DEF Injection, Surjection
<1>. QED BY <1>3, <1>4, <1>5, FS_CardinalityType

\* An item is put in front of a sequence, or moved there.
LEMMA MovedToFront ==
  ASSUME NEW S, NEW s \in Seq(S), NEW x \in S
  PROVE  LET t == <<x>> \o Those(s, S \ {x})
         IN  /\ t \in Seq(S) /\ Len(t) > 0 /\ t[1] = x
             /\ Range(t) = Range(s) \cup {x}
             /\ IsInjective(s) => IsInjective(t)
<1> DEFINE r == Those(s, S \ {x})
           t == <<x>> \o r
<1>1. /\ r \in Seq(S) /\ Range(r) = Range(s) \cap (S \ {x})
      /\ IsInjective(s) => IsInjective(r)
  BY ThoseProperties
<1> HIDE DEF r
<1>2. /\ t \in Seq(S) /\ Len(t) = Len(r) + 1 /\ t[1] = x
      /\ \A i \in 1 .. Len(r) : t[i + 1] = r[i]
      /\ Len(r) \in Nat /\ DOMAIN r = 1 .. Len(r) /\ DOMAIN t = 1 .. Len(r) + 1
  BY <1>1
<1>3. Range(s) \subseteq S
  BY RangeOfSeq
<1> HIDE DEF t
<1>4. \A i \in 1 .. Len(r) + 1 : i # 1 => i - 1 \in 1 .. Len(r) /\ t[i] = r[i - 1]
  <2> TAKE i \in 1 .. Len(r) + 1
  <2> HAVE i # 1
  <2>1. i - 1 \in 1 .. Len(r) /\ (i - 1) + 1 = i
    BY <1>2
  <2>. QED BY <2>1, <1>2
<1>5. Range(t) = Range(s) \cup {x}
  <2>1. Range(t) = Range(r) \cup {x}
    <3>1. \A i \in DOMAIN t : t[i] \in Range(r) \cup {x}
      BY <1>2, <1>4 DEF Range
    <3>2. x \in Range(t)
      <4>1. 1 \in DOMAIN t
        BY <1>2
      <4>. QED BY <4>1, <1>2 DEF Range
    <3>3. \A i \in DOMAIN r : r[i] \in Range(t)
      <4>1. \A i \in DOMAIN r : i + 1 \in DOMAIN t
        BY <1>2
      <4>. QED BY <4>1, <1>2 DEF Range
    <3>. QED BY <3>1, <3>2, <3>3 DEF Range
  <2>. QED BY <2>1, <1>1, <1>3
<1>6. ASSUME IsInjective(s) PROVE IsInjective(t)
  <2>1. IsInjective(r)
    BY <1>1, <1>6
  <2>2. \A i \in 1 .. Len(r) : r[i] # x
    BY <1>1, <1>2 DEF Range
  <2>3. \A i, j \in 1 .. Len(r) + 1 : t[i] = t[j] => i = j
    <3> TAKE i, j \in 1 .. Len(r) + 1
    <3>1. CASE i = 1 \/ j = 1
      BY <3>1, <1>2, <1>4, <2>2
    <3>2. CASE i # 1 /\ j # 1
      <4>1. /\ i - 1 \in 1 .. Len(r) /\ t[i] = r[i - 1]
            /\ j - 1 \in 1 .. Len(r) /\ t[j] = r[j - 1]
        BY <3>2, <1>4
      <4>2. t[i] = t[j] => i - 1 = j - 1
        BY <4>1, <2>1, <1>2 DEF IsInjective
      <4>. QED BY <4>2, <1>2
    <3>. QED BY <3>1, <3>2
  <2>. QED BY <2>3, <1>2 DEF IsInjective
<1>7. Len(t) > 0
  BY <1>2
<1>. QED BY <1>2, <1>5, <1>6, <1>7 DEF t, r

\* When one item is left out, the others move up by one place at most.
OnePlaceUp(s, r) ==
  \A j \in 1 .. Len(r) : \E i \in {j, j + 1} : i \in 1 .. Len(s) /\ s[i] = r[j]

LEMMA OneLeftOut ==
  ASSUME NEW S, NEW s \in Seq(S), IsInjective(s), NEW x
  PROVE  OnePlaceUp(s, Those(s, S \ {x}))
<1> DEFINE keep == S \ {x}
           f == KeptUpTo(s, keep)
           Before(m) == \E i \in 1 .. m : s[i] = x
           P(m) == /\ f[m] \in Seq(S)
                   /\ Len(f[m]) = IF Before(m) THEN m - 1 ELSE m
                   /\ \A j \in 1 .. Len(f[m]) : \E i \in {j, j + 1} : i \in 1 .. m /\ s[i] = f[m][j]
           T == {m \in Nat : m <= Len(s) => P(m)}
<1>1. /\ f[0] = <<>>
      /\ \A m \in 1 .. Len(s) : f[m] = IF s[m] \in keep THEN Append(f[m - 1], s[m]) ELSE f[m - 1]
  BY KeptSteps
<1>2. Len(s) \in Nat /\ DOMAIN s = 1 .. Len(s) /\ \A i \in 1 .. Len(s) : s[i] \in S
  OBVIOUS
<1> HIDE DEF f
<1>3. 0 \in T
  <2>1. f[0] \in Seq(S) /\ Len(f[0]) = 0
    BY <1>1
  <2>. QED BY <2>1
<1>4. ASSUME NEW m \in Nat, m \in T, m + 1 <= Len(s) PROVE P(m + 1)
  <2> DEFINE e == s[m + 1]
             g == f[m]
  <2>1. P(m) /\ m + 1 \in 1 .. Len(s) /\ e \in S /\ (m + 1) - 1 = m
    <3>1. m <= Len(s) /\ m + 1 \in 1 .. Len(s) /\ (m + 1) - 1 = m
      BY <1>2, <1>4
    <3>2. P(m)
      <4> HIDE DEF P
      <4>. QED BY <1>4, <3>1
    <3>3. e \in S
      BY <1>2, <3>1
    <3> HIDE DEF P, e
    <3>. QED BY <3>1, <3>2, <3>3
  <2>2. f[m + 1] = IF e \in keep THEN Append(g, e) ELSE g
    BY <1>1, <2>1
  <2>3. Before(m + 1) <=> (Before(m) \/ e = x)
    BY <1>4
  <2>4. CASE e = x
    <3>1. ~Before(m)
      <4>1. ASSUME NEW i \in 1 .. m, s[i] = x PROVE FALSE
        <5>1. i \in DOMAIN s /\ m + 1 \in DOMAIN s /\ i # m + 1
          BY <1>2, <1>4, <2>1
        <5>. QED BY <2>4, <4>1, <5>1 DEF IsInjective
      <4>. QED BY <4>1
    <3>2. f[m + 1] = g
      BY <2>2, <2>4
    <3>3. Len(f[m + 1]) = (m + 1) - 1
      BY <2>1, <3>1, <3>2
    <3>. QED BY <2>1, <2>3, <2>4, <3>2, <3>3
  <2>5. CASE e # x
    <3>1. f[m + 1] = Append(g, e) /\ g \in Seq(S) /\ (Before(m + 1) <=> Before(m))
      BY <2>1, <2>2, <2>3, <2>5
    <3> DEFINE h == f[m + 1]
               n == Len(g)
    <3>2. /\ h \in Seq(S) /\ Len(h) = n + 1 /\ h[n + 1] = e
          /\ \A j \in 1 .. n : h[j] = g[j]
      BY <2>1, <3>1
    <3>3. n = IF Before(m) THEN m - 1 ELSE m
      BY <2>1
    <3>4. \A j \in 1 .. n : \E i \in {j, j + 1} : i \in 1 .. m /\ s[i] = g[j]
      BY <2>1
    <3>9. Before(m) => m >= 1
      OBVIOUS
    <3> HIDE DEF P, Before, h, n, g
    <3>5. n \in Nat /\ (m + 1 = n + 1 \/ m + 1 = (n + 1) + 1)
      BY <3>3, <3>9
    <3>6. Len(h) = IF Before(m + 1) THEN (m + 1) - 1 ELSE m + 1
      BY <3>1, <3>2, <3>3, <3>9
    <3>7. ASSUME NEW j \in 1 .. n + 1
          PROVE  \E i \in {j, j + 1} : i \in 1 .. m + 1 /\ s[i] = h[j]
      <4>1. CASE j = n + 1
        <5>1. m + 1 \in {j, j + 1} /\ m + 1 \in 1 .. m + 1 /\ s[m + 1] = h[j]
          BY <3>2, <3>5, <4>1
        <5>. QED BY <5>1
      <4>2. CASE j # n + 1
        <5>1. j \in 1 .. n
          BY <3>5, <4>2
        <5>2. PICK i \in {j, j + 1} : i \in 1 .. m /\ s[i] = g[j]
          BY <3>4, <5>1
        <5>3. i \in 1 .. m + 1
          BY <5>2
        <5>. QED BY <3>2, <5>1, <5>2, <5>3
      <4>. QED BY <4>1, <4>2
    <3>. QED BY <3>2, <3>6, <3>7 DEF P, h
  <2>. QED BY <2>4, <2>5
<1>5. \A m \in Nat : m \in T => m + 1 \in T
  BY <1>4
<1> HIDE DEF P
<1>6. Nat \subseteq T
  <2> HIDE DEF T
  <2>. QED BY <1>3, <1>5, SetInduction
<1>7. P(Len(s))
  BY <1>2, <1>6
<1>. QED BY <1>7 DEF P, Those, f, OnePlaceUp

-----------------------------------------------------------------------------
(* Parts of a sequence. *)

LEMMA Halves ==
  ASSUME NEW S, NEW s \in Seq(S), NEW i \in 0 .. Len(s)
  PROVE  /\ SubSeq(s, 1, i) \in Seq(S) /\ Len(SubSeq(s, 1, i)) = i
         /\ SubSeq(s, i + 1, Len(s)) \in Seq(S) /\ Len(SubSeq(s, i + 1, Len(s))) = Len(s) - i
<1>1. Len(s) \in Nat /\ i \in Int /\ i + 1 \in Int /\ 1 \in Int /\ Len(s) \in Int
  OBVIOUS
<1>2. (\A j \in 1 .. i : s[j] \in S) /\ (\A j \in i + 1 .. Len(s) : s[j] \in S)
  OBVIOUS
<1>3. SubSeq(s, 1, i) \in Seq(S) /\ Len(SubSeq(s, 1, i)) = IF 1 <= i THEN i - 1 + 1 ELSE 0
  BY <1>1, <1>2, SubSeqProperties
<1>4. /\ SubSeq(s, i + 1, Len(s)) \in Seq(S)
      /\ Len(SubSeq(s, i + 1, Len(s))) = IF i + 1 <= Len(s) THEN Len(s) - (i + 1) + 1 ELSE 0
  BY <1>1, <1>2, SubSeqProperties
<1>5. (IF 1 <= i THEN i - 1 + 1 ELSE 0) = i
  BY <1>1
<1>6. (IF i + 1 <= Len(s) THEN Len(s) - (i + 1) + 1 ELSE 0) = Len(s) - i
  BY <1>1
<1>. QED BY <1>3, <1>4, <1>5, <1>6

\* What a prefix holds.
LEMMA PrefixRange ==
  ASSUME NEW S, NEW s \in Seq(S), NEW i \in 0 .. Len(s)
  PROVE  Range(SubSeq(s, 1, i)) = {s[j] : j \in 1 .. i}
<1> DEFINE p == SubSeq(s, 1, i)
<1>1. Len(s) \in Nat /\ 1 \in Int /\ i \in Int /\ \A j \in 1 .. i : s[j] \in S
  OBVIOUS
<1>2. \A j \in 1 .. i - 1 + 1 : p[j] = s[1 + j - 1]
  BY <1>1, SubSeqProperties
<1>3. p \in Seq(S) /\ Len(p) = i
  BY Halves
<1> HIDE DEF p
<1>4. DOMAIN p = 1 .. i /\ \A j \in 1 .. i : p[j] = s[j]
  <2>1. \A j \in 1 .. i : j \in 1 .. i - 1 + 1 /\ 1 + j - 1 = j
    BY <1>1
  <2>2. DOMAIN p = 1 .. i
    BY <1>3
  <2>. QED BY <1>2, <2>1, <2>2
<1>5. Range(p) = {s[j] : j \in 1 .. i}
  BY <1>4 DEF Range
<1>. QED BY <1>5 DEF p

LEMMA ItemRemoved ==
  ASSUME NEW S, NEW s \in Seq(S), NEW i \in 1 .. Len(s)
  PROVE  RemoveAt(s, i) \in Seq(S) /\ Len(RemoveAt(s, i)) = Len(s) - 1
<1> DEFINE a == SubSeq(s, 1, i - 1)
           b == SubSeq(s, i + 1, Len(s))
<1>1. Len(s) \in Nat /\ i - 1 \in 0 .. Len(s) /\ i \in 0 .. Len(s) /\ i \in Int
  OBVIOUS
<1>2. a \in Seq(S) /\ Len(a) = i - 1 /\ b \in Seq(S) /\ Len(b) = Len(s) - i
  BY <1>1, Halves
<1>3. RemoveAt(s, i) = a \o b
  BY DEF RemoveAt
<1> HIDE DEF a, b
<1>4. a \o b \in Seq(S) /\ Len(a \o b) = Len(a) + Len(b)
  BY <1>2, ConcatProperties
<1>5. (i - 1) + (Len(s) - i) = Len(s) - 1
  BY <1>1
<1>. QED BY <1>2, <1>3, <1>4, <1>5

LEMMA ItemInserted ==
  ASSUME NEW S, NEW s \in Seq(S), NEW r \in Seq(S), NEW i \in 0 .. Len(s)
  PROVE  LET t == SubSeq(s, 1, i) \o r \o SubSeq(s, i + 1, Len(s))
         IN  t \in Seq(S) /\ Len(t) = Len(s) + Len(r)
<1> DEFINE a == SubSeq(s, 1, i)
           b == SubSeq(s, i + 1, Len(s))
<1>1. a \in Seq(S) /\ Len(a) = i /\ b \in Seq(S) /\ Len(b) = Len(s) - i
  BY Halves
<1> HIDE DEF a, b
<1>2. a \o r \in Seq(S) /\ Len(a \o r) = i + Len(r)
  BY <1>1, ConcatProperties
<1>3. (a \o r) \o b \in Seq(S) /\ Len((a \o r) \o b) = Len(a \o r) + Len(b)
  BY <1>1, <1>2, ConcatProperties
<1>4. Len(s) \in Nat /\ Len(r) \in Nat /\ i \in Nat
  OBVIOUS
<1>5. (i + Len(r)) + (Len(s) - i) = Len(s) + Len(r)
  BY <1>4
<1>. QED BY <1>1, <1>2, <1>3, <1>5 DEF a, b

-----------------------------------------------------------------------------
(* A sequence of sequences, flattened. *)

FlatRule(ss, n, f) ==
  f = [i \in 1 .. n |-> IF i = 1 THEN ss[i] ELSE f[i - 1] \o ss[i]]

FlatUpTo(ss) ==
  LET flatten[i \in 1 .. Len(ss)] == IF i = 1 THEN ss[i] ELSE flatten[i - 1] \o ss[i]
  IN  flatten

\* The recursion of FlattenSeq has a solution.
LEMMA FlatExists ==
  ASSUME NEW ss
  PROVE  \A n \in Nat : \E f : FlatRule(ss, n, f)
<1> DEFINE Solves(f, n) == FlatRule(ss, n, f)
           T == {n \in Nat : \E f : Solves(f, n)}
<1> USE DEF FlatRule
<1>1. 0 \in T
  <2> DEFINE f == [i \in 1 .. 0 |-> <<>>]
  <2>1. f = [i \in 1 .. 0 |-> IF i = 1 THEN ss[i] ELSE f[i - 1] \o ss[i]]
    OBVIOUS
  <2>2. Solves(f, 0)
    BY <2>1
  <2>. QED BY <2>2
<1>2. ASSUME NEW n \in Nat, n \in T PROVE n + 1 \in T
  <2>1. PICK f : Solves(f, n)
    BY <1>2
  <2> DEFINE last == IF n + 1 = 1 THEN ss[n + 1] ELSE f[n] \o ss[n + 1]
             g == [i \in 1 .. n + 1 |-> IF i = n + 1 THEN last ELSE f[i]]
             h == [i \in 1 .. n + 1 |-> IF i = 1 THEN ss[i] ELSE g[i - 1] \o ss[i]]
  <2>2. \A i \in 1 .. n : f[i] = IF i = 1 THEN ss[i] ELSE f[i - 1] \o ss[i]
    BY <2>1
  <2>3. ASSUME NEW i \in 1 .. n + 1 PROVE g[i] = h[i]
    <3>1. CASE i = n + 1 /\ i # 1
      <4>1. i - 1 = n /\ i - 1 \in 1 .. n + 1 /\ i - 1 # n + 1 /\ g[i - 1] = f[n]
        BY <3>1
      <4>. QED BY <3>1, <4>1
    <3>2. CASE i # n + 1 /\ i # 1
      <4>1. i \in 1 .. n /\ i - 1 \in 1 .. n + 1 /\ i - 1 # n + 1
        BY <3>2
      <4>2. g[i - 1] = f[i - 1] /\ g[i] = f[i]
        BY <4>1, <3>2
      <4>. QED BY <3>2, <4>1, <4>2, <2>2
    <3>3. CASE i = 1
      <4>1. CASE n + 1 = 1
        BY <3>3, <4>1
      <4>2. CASE n + 1 # 1
        <5>1. i \in 1 .. n /\ i # n + 1
          BY <3>3, <4>2
        <5>. QED BY <5>1, <3>3, <2>2
      <4>. QED BY <4>1, <4>2
    <3>. QED BY <3>1, <3>2, <3>3
  <2>4. g = h
    BY <2>3
  <2>5. Solves(g, n + 1)
    BY <2>4
  <2> HIDE DEF Solves, g
  <2>. QED BY <2>5
<1>3. Nat \subseteq T
  <2> HIDE DEF T
  <2>. QED BY <1>1, <1>2, SetInduction
<1>. QED BY <1>3

LEMMA FlatSteps ==
  ASSUME NEW S, NEW ss \in Seq(S)
  PROVE  /\ \A i \in 1 .. Len(ss) : FlatUpTo(ss)[i] =
              IF i = 1 THEN ss[i] ELSE FlatUpTo(ss)[i - 1] \o ss[i]
         /\ FlattenSeq(ss) = IF Len(ss) = 0 THEN ss ELSE FlatUpTo(ss)[Len(ss)]
<1>1. Len(ss) \in Nat
  OBVIOUS
<1> DEFINE f == FlatUpTo(ss)
<1>2. f = [i \in 1 .. Len(ss) |-> IF i = 1 THEN ss[i] ELSE f[i - 1] \o ss[i]]
  <2>1. \E k : FlatRule(ss, Len(ss), k)
    BY <1>1, FlatExists
  <2>. QED BY <2>1, Zenon DEF FlatUpTo, FlatRule
<1>3. FlattenSeq(ss) = IF Len(ss) = 0 THEN ss ELSE f[Len(ss)]
  BY Zenon DEF FlattenSeq, FlatUpTo
<1> HIDE DEF f
<1>4. \A i \in 1 .. Len(ss) : f[i] = IF i = 1 THEN ss[i] ELSE f[i - 1] \o ss[i]
  BY <1>2
<1>. QED BY <1>3, <1>4 DEF f

LEMMA FlattenType ==
  ASSUME NEW S, NEW ss \in Seq(Seq(S))
  PROVE  FlattenSeq(ss) \in Seq(S)
<1> DEFINE f == FlatUpTo(ss)
           T == {n \in Nat : n \in 1 .. Len(ss) => f[n] \in Seq(S)}
<1>1. /\ \A i \in 1 .. Len(ss) : f[i] = IF i = 1 THEN ss[i] ELSE f[i - 1] \o ss[i]
      /\ FlattenSeq(ss) = IF Len(ss) = 0 THEN ss ELSE f[Len(ss)]
  BY FlatSteps
<1> HIDE DEF f
<1>2. 0 \in T
  OBVIOUS
<1>3. ASSUME NEW n \in Nat, n \in T PROVE n + 1 \in T
  <2> SUFFICES ASSUME n + 1 \in 1 .. Len(ss) PROVE f[n + 1] \in Seq(S)
    OBVIOUS
  <2>1. ss[n + 1] \in Seq(S)
    OBVIOUS
  <2>2. CASE n = 0
    <3>1. f[n + 1] = ss[n + 1]
      BY <1>1, <2>2
    <3>. QED BY <2>1, <3>1
  <2>3. CASE n # 0
    <3>1. n \in 1 .. Len(ss) /\ n + 1 # 1 /\ (n + 1) - 1 = n
      BY <2>3
    <3>2. f[n] \in Seq(S)
      BY <1>3, <3>1
    <3>3. f[n + 1] = f[n] \o ss[n + 1]
      BY <1>1, <3>1
    <3>. QED BY <2>1, <3>2, <3>3, ConcatProperties
  <2>. QED BY <2>2, <2>3
<1>4. Nat \subseteq T
  <2> HIDE DEF T
  <2>. QED BY <1>2, <1>3, SetInduction
<1>5. CASE Len(ss) = 0
  <2>1. ss = <<>>
    BY <1>5
  <2>2. FlattenSeq(ss) = <<>>
    BY <1>1, <1>5, <2>1
  <2>. QED BY <2>2
<1>6. CASE Len(ss) # 0
  <2>1. Len(ss) \in 1 .. Len(ss) /\ Len(ss) \in Nat
    BY <1>6
  <2>. QED BY <1>1, <1>4, <1>6, <2>1
<1>. QED BY <1>5, <1>6

\* Singles in front and nothing behind them flatten to the singles.
LEMMA FlattenSingles ==
  ASSUME NEW S, NEW ss \in Seq(Seq(S)), NEW c \in Seq(S), Len(c) <= Len(ss),
         \A i \in 1 .. Len(ss) : ss[i] = IF i <= Len(c) THEN <<c[i]>> ELSE <<>>
  PROVE  FlattenSeq(ss) = c
<1> DEFINE f == FlatUpTo(ss)
           n == Len(c)
           Up(m) == IF m <= n THEN m ELSE n
           P(m) == /\ f[m] \in Seq(S) /\ Len(f[m]) = Up(m)
                   /\ \A j \in 1 .. Up(m) : f[m][j] = c[j]
           T == {m \in Nat : m \in 1 .. Len(ss) => P(m)}
<1>1. /\ \A i \in 1 .. Len(ss) : f[i] = IF i = 1 THEN ss[i] ELSE f[i - 1] \o ss[i]
      /\ FlattenSeq(ss) = IF Len(ss) = 0 THEN ss ELSE f[Len(ss)]
  BY FlatSteps
<1> HIDE DEF f
<1>2. n \in Nat /\ Len(ss) \in Nat /\ DOMAIN c = 1 .. n
  OBVIOUS
<1>3. 0 \in T
  OBVIOUS
<1>4. ASSUME NEW m \in Nat, m \in T PROVE m + 1 \in T
  <2> SUFFICES ASSUME m + 1 \in 1 .. Len(ss) PROVE P(m + 1)
    OBVIOUS
  <2>1. ss[m + 1] = IF m + 1 <= n THEN <<c[m + 1]>> ELSE <<>>
    OBVIOUS
  <2>2. m + 1 <= n => c[m + 1] \in S
    BY <1>2
  <2> DEFINE e == c[m + 1]
  <2>3. CASE m = 0
    <3>1. f[m + 1] = ss[m + 1]
      BY <1>1, <2>3
    <3>2. CASE m + 1 <= n
      <4>1. ss[m + 1] = <<e>> /\ e \in S /\ Up(m + 1) = 1 /\ e = c[1]
        BY <2>1, <2>2, <2>3, <3>2
      <4> HIDE DEF e, Up
      <4>2. <<e>> \in Seq(S) /\ Len(<<e>>) = 1 /\ <<e>>[1] = e
        BY <4>1
      <4>3. \A j \in 1 .. Up(m + 1) : <<e>>[j] = c[j]
        BY <4>1, <4>2
      <4>. QED BY <3>1, <4>1, <4>2, <4>3
    <3>3. CASE ~ (m + 1 <= n)
      <4>1. ss[m + 1] = <<>> /\ n = 0 /\ Up(m + 1) = 0
        BY <1>2, <2>1, <2>3, <3>3
      <4>. QED BY <3>1, <4>1
    <3>. QED BY <3>2, <3>3
  <2>4. CASE m # 0
    <3> DEFINE q == f[m]
    <3>1. m \in 1 .. Len(ss) /\ m + 1 # 1 /\ (m + 1) - 1 = m
      BY <2>4
    <3>2. f[m + 1] = q \o ss[m + 1]
      BY <1>1, <3>1
    <3>3. q \in Seq(S) /\ Len(q) = Up(m) /\ \A j \in 1 .. Up(m) : q[j] = c[j]
      BY <1>4, <3>1
    <3> HIDE DEF q
    <3>4. CASE m + 1 <= n
      <4>1. ss[m + 1] = <<e>> /\ e \in S
        BY <2>1, <2>2, <3>4
      <4>2. Up(m + 1) = m + 1 /\ Up(m) = m
        <5>1. m <= n
          BY <1>2, <3>4
        <5>. QED BY <3>4, <5>1
      <4>3. e = c[m + 1]
        OBVIOUS
      <4> HIDE DEF e, Up
      <4>4. /\ <<e>> \in Seq(S) /\ q \o <<e>> = Append(q, e)
        BY <3>3, <4>1, AppendIsConcat
      <4>5. /\ Append(q, e) \in Seq(S) /\ Len(Append(q, e)) = m + 1
            /\ \A j \in 1 .. m : Append(q, e)[j] = q[j]
            /\ Append(q, e)[m + 1] = e
        BY <3>3, <4>1, <4>2, AppendProperties
      <4>6. \A j \in 1 .. m + 1 : Append(q, e)[j] = c[j]
        <5> TAKE j \in 1 .. m + 1
        <5>1. j \in 1 .. m \/ j = m + 1
          OBVIOUS
        <5>. QED BY <3>3, <4>2, <4>3, <4>5, <5>1
      <4>. QED BY <3>2, <4>1, <4>2, <4>4, <4>5, <4>6
    <3>5. CASE ~ (m + 1 <= n)
      <4>1. ss[m + 1] = <<>> /\ Up(m + 1) = n /\ Up(m) = n
        BY <1>2, <2>1, <3>5
      <4>2. q \o <<>> = q
        BY <3>3, ConcatEmptySeq
      <4>. QED BY <3>2, <3>3, <4>1, <4>2
    <3>. QED BY <3>4, <3>5
  <2>. QED BY <2>3, <2>4
<1>5. Nat \subseteq T
  <2> HIDE DEF T
  <2>. QED BY <1>3, <1>4, SetInduction
<1>6. CASE Len(ss) = 0
  <2>1. ss = <<>> /\ c = <<>>
    BY <1>2, <1>6
  <2>. QED BY <1>1, <1>6, <2>1
<1>7. CASE Len(ss) # 0
  <2> DEFINE t == f[Len(ss)]
  <2>1. Len(ss) \in 1 .. Len(ss) /\ Up(Len(ss)) = n
    BY <1>2, <1>7
  <2>2. P(Len(ss))
    BY <1>2, <1>5, <2>1
  <2>3. t \in Seq(S) /\ Len(t) = Len(c) /\ \A j \in 1 .. Len(t) : t[j] = c[j]
    BY <2>1, <2>2
  <2> HIDE DEF t
  <2>4. t = c
    BY <2>3, SeqEqual
  <2>. QED BY <1>1, <1>7, <2>4 DEF t
<1>. QED BY <1>6, <1>7

-----------------------------------------------------------------------------
(* Sums. *)

SumRule(w, n, f) == f = [i \in 0 .. n |-> IF i = 0 THEN 0 ELSE f[i - 1] + w[i]]

\* The recursion of a sum has a solution.
LEMMA SumExists ==
  ASSUME NEW w
  PROVE  \A n \in Nat : \E f : SumRule(w, n, f)
<1> DEFINE Solves(f, n) == SumRule(w, n, f)
           T == {n \in Nat : \E f : Solves(f, n)}
<1> USE DEF SumRule
<1>1. 0 \in T
  <2> DEFINE f == [i \in 0 .. 0 |-> 0]
  <2>1. f = [i \in 0 .. 0 |-> IF i = 0 THEN 0 ELSE f[i - 1] + w[i]]
    OBVIOUS
  <2>2. Solves(f, 0)
    BY <2>1
  <2>. QED BY <2>2
<1>2. ASSUME NEW n \in Nat, n \in T PROVE n + 1 \in T
  <2>1. PICK f : Solves(f, n)
    BY <1>2
  <2> DEFINE last == f[n] + w[n + 1]
             g == [i \in 0 .. n + 1 |-> IF i = n + 1 THEN last ELSE f[i]]
             h == [i \in 0 .. n + 1 |-> IF i = 0 THEN 0 ELSE g[i - 1] + w[i]]
  <2>2. \A i \in 0 .. n : f[i] = IF i = 0 THEN 0 ELSE f[i - 1] + w[i]
    BY <2>1
  <2>3. ASSUME NEW i \in 0 .. n + 1 PROVE g[i] = h[i]
    <3>1. CASE i = n + 1
      <4>1. i # 0 /\ i - 1 = n /\ g[i - 1] = f[n]
        BY <3>1
      <4>. QED BY <3>1, <4>1
    <3>2. CASE i # n + 1 /\ i # 0
      <4>1. i \in 0 .. n /\ i - 1 \in 0 .. n + 1 /\ i - 1 # n + 1
        BY <3>2
      <4>2. g[i - 1] = f[i - 1] /\ g[i] = f[i]
        BY <4>1, <3>2
      <4>. QED BY <3>2, <4>1, <4>2, <2>2
    <3>3. CASE i = 0
      <4>1. i \in 0 .. n /\ i # n + 1
        BY <3>3
      <4>. QED BY <4>1, <3>3, <2>2
    <3>. QED BY <3>1, <3>2, <3>3
  <2>4. g = h
    BY <2>3
  <2>5. Solves(g, n + 1)
    BY <2>4
  <2> HIDE DEF Solves, g
  <2>. QED BY <2>5
<1>3. Nat \subseteq T
  <2> HIDE DEF T
  <2>. QED BY <1>1, <1>2, SetInduction
<1>. QED BY <1>3

LEMMA SumType ==
  ASSUME NEW n \in Nat, NEW w, \A i \in 1 .. n : w[i] \in Nat, NEW f, SumRule(w, n, f)
  PROVE  f[n] \in Nat
<1> DEFINE T == {m \in Nat : m <= n => f[m] \in Nat}
<1>1. \A i \in 0 .. n : f[i] = IF i = 0 THEN 0 ELSE f[i - 1] + w[i]
  BY DEF SumRule
<1>2. 0 \in T
  BY <1>1
<1>3. ASSUME NEW m \in Nat, m \in T PROVE m + 1 \in T
  <2> SUFFICES ASSUME m + 1 <= n PROVE f[m + 1] \in Nat
    OBVIOUS
  <2>1. m + 1 \in 1 .. n /\ m + 1 \in 0 .. n /\ m + 1 # 0 /\ (m + 1) - 1 = m /\ f[m] \in Nat
    BY <1>3
  <2>. QED BY <1>1, <2>1
<1>4. Nat \subseteq T
  <2> HIDE DEF T
  <2>. QED BY <1>2, <1>3, SetInduction
<1>. QED BY <1>4
=============================================================================
