------------------------------ MODULE ListLemmas ------------------------------
(***************************************************************************)
(* Facts about sequences and positions that the proofs about documents,    *)
(* declarations and tables of events share.  A list is a sequence of       *)
(* whatever elements, so that nothing has to be said of their types.       *)
(***************************************************************************)
EXTENDS Integers, Sequences, Functions, SequenceTheorems, WellFoundedInduction, TLAPS

List(s) == s \in Seq(Range(s))

\* The empty sequence is a list.
LEMMA EmptyList == List(<<>>) /\ Len(<<>>) = 0 /\ DOMAIN <<>> = {}
BY DEF List, Range

\* The positions of a list are those up to its length.
LEMMA ListDomain == ASSUME NEW s, List(s) PROVE Len(s) \in Nat /\ DOMAIN s = 1 .. Len(s)
BY DEF List

\* A sequence over any set is a list.
LEMMA SeqIsList == ASSUME NEW S, NEW s \in Seq(S) PROVE List(s)
BY SeqOfRange DEF List

\* An element appended comes after the others, which keep their positions.
LEMMA ListAppend ==
  ASSUME NEW s, List(s), NEW e
  PROVE  /\ List(Append(s, e))
         /\ Len(Append(s, e)) = Len(s) + 1
         /\ DOMAIN Append(s, e) = 1 .. Len(s) + 1
         /\ \A i \in 1 .. Len(s) : Append(s, e)[i] = s[i]
         /\ Append(s, e)[Len(s) + 1] = e
<1> DEFINE T == Range(s) \cup {e}
<1>1. s \in Seq(T) /\ e \in T
  BY SeqMonotonic DEF List
<1>2. Append(s, e) \in Seq(T)
  BY <1>1, AppendProperties
<1> HIDE DEF T
<1>3. /\ Len(Append(s, e)) = Len(s) + 1
      /\ \A i \in 1 .. Len(s) : Append(s, e)[i] = s[i]
      /\ Append(s, e)[Len(s) + 1] = e
  BY <1>1, AppendProperties
<1>4. List(Append(s, e))
  BY <1>2, SeqIsList
<1>5. DOMAIN Append(s, e) = 1 .. Len(s) + 1
  BY <1>3, <1>4, ListDomain
<1> QED  BY <1>3, <1>4, <1>5

\* The first elements of a list are a list.
LEMMA ListPrefix ==
  ASSUME NEW s, List(s), NEW n \in 0 .. Len(s)
  PROVE  LET r == SubSeq(s, 1, n) IN List(r) /\ Len(r) = n /\ \A i \in 1 .. n : r[i] = s[i]
<1> DEFINE r == SubSeq(s, 1, n)
           T == Range(s)
<1>1. Len(s) \in Nat /\ DOMAIN s = 1 .. Len(s) /\ n \in Int
  BY ListDomain
<1>2. \A i \in 1 .. n : s[i] \in T
  BY <1>1 DEF Range
<1> HIDE DEF T
<1>3. /\ r \in Seq(T)
      /\ Len(r) = IF 1 <= n THEN n - 1 + 1 ELSE 0
      /\ \A i \in 1 .. n - 1 + 1 : r[i] = s[1 + i - 1]
  BY ONLY <1>1, <1>2, 1 \in Int, SubSeqProperties
<1> HIDE DEF r
<1>4. List(r)
  BY <1>3, SeqIsList
<1>5. n \in Nat /\ n - 1 + 1 = n
  BY <1>1
<1>6. Len(r) = n
  BY <1>3, <1>5
<1>7. ASSUME NEW i \in 1 .. n
      PROVE  r[i] = s[i]
  BY <1>3, <1>5
<1> QED  BY <1>4, <1>6, <1>7 DEF r

\* The elements of a list are replaced one by one.
LEMMA ListReplace ==
  ASSUME NEW s, List(s), NEW k, NEW e
  PROVE  /\ List([s EXCEPT ![k] = e])
         /\ Len([s EXCEPT ![k] = e]) = Len(s)
         /\ DOMAIN [s EXCEPT ![k] = e] = DOMAIN s
         /\ \A i \in DOMAIN s : [s EXCEPT ![k] = e][i] = IF i = k THEN e ELSE s[i]
<1> DEFINE T == Range(s) \cup {e}
           r == [s EXCEPT ![k] = e]
<1>1. s \in Seq(T) /\ e \in T
  BY SeqMonotonic DEF List
<1>2. Len(s) \in Nat /\ DOMAIN s = 1 .. Len(s) /\ s \in [1 .. Len(s) -> T]
  BY <1>1
<1>3. r \in [1 .. Len(s) -> T]
  BY <1>1, <1>2
<1>4. r \in Seq(T) /\ Len(r) = Len(s)
  BY <1>2, <1>3
<1> HIDE DEF T
<1>5. List(r)
  BY <1>4, SeqIsList
<1> QED  BY <1>2, <1>4, <1>5

\* Concatenation of lists.
LEMMA ListConcat ==
  ASSUME NEW s, List(s), NEW t, List(t)
  PROVE  /\ List(s \o t)
         /\ Len(s \o t) = Len(s) + Len(t)
         /\ \A i \in 1 .. Len(s) : (s \o t)[i] = s[i]
         /\ \A i \in 1 .. Len(t) : (s \o t)[Len(s) + i] = t[i]
<1> DEFINE T == Range(s) \cup Range(t)
<1>1. s \in Seq(T) /\ t \in Seq(T)
  BY SeqMonotonic DEF List
<1> HIDE DEF T
<1>2. s \o t \in Seq(T) /\ Len(s \o t) = Len(s) + Len(t)
  BY <1>1, ConcatProperties
<1>3. Len(s) \in Nat /\ Len(t) \in Nat
  BY ListDomain
<1>4. \A i \in 1 .. Len(s) + Len(t) : (s \o t)[i] = IF i <= Len(s) THEN s[i] ELSE t[i - Len(s)]
  BY <1>1, ConcatProperties
<1>5. List(s \o t)
  BY <1>2, SeqIsList
<1>6. \A i \in 1 .. Len(s) : (s \o t)[i] = s[i]
  BY <1>3, <1>4
<1>7. ASSUME NEW i \in 1 .. Len(t) PROVE (s \o t)[Len(s) + i] = t[i]
  <2>1. /\ Len(s) + i \in 1 .. Len(s) + Len(t) /\ ~ (Len(s) + i <= Len(s))
        /\ Len(s) + i - Len(s) = i
    BY <1>3
  <2> QED  BY <1>4, <2>1
<1> QED  BY <1>2, <1>5, <1>6, <1>7

\* u is s with x after it.
OneMore(u, s, x) ==
  Len(u) = Len(s) + 1 /\ (\A i \in 1 .. Len(s) : u[i] = s[i]) /\ u[Len(s) + 1] = x

\* A list followed by one element is one longer.
LEMMA OneMoreConcat ==
  ASSUME NEW s, List(s), NEW x
  PROVE  OneMore(s \o <<x>>, s, x)
<1> DEFINE a == <<x>>
<1>1. List(a) /\ Len(a) = 1 /\ a[1] = x
  BY SeqIsList, <<x>> \in Seq({x})
<1> HIDE DEF a
<1>2. /\ Len(s \o a) = Len(s) + Len(a)
      /\ \A i \in 1 .. Len(s) : (s \o a)[i] = s[i]
      /\ \A i \in 1 .. Len(a) : (s \o a)[Len(s) + i] = a[i]
  <2>1. List(s) /\ List(a)
    BY <1>1
  <2>2. List(s \o a) /\ Len(s \o a) = Len(s) + Len(a)
    BY <2>1, ListConcat
  <2>3. \A i \in 1 .. Len(s) : (s \o a)[i] = s[i]
    BY <2>1, ListConcat
  <2>4. \A i \in 1 .. Len(a) : (s \o a)[Len(s) + i] = a[i]
    BY <2>1, ListConcat
  <2> QED  BY <2>2, <2>3, <2>4, Zenon
<1>3. 1 \in 1 .. Len(a)
  BY <1>1
<1>4. /\ Len(s \o a) = Len(s) + 1
      /\ \A i \in 1 .. Len(s) : (s \o a)[i] = s[i]
      /\ (s \o a)[Len(s) + 1] = x
  BY <1>1, <1>2, <1>3, Zenon
<1>5. OneMore(s \o a, s, x)
  BY <1>4, Zenon DEF OneMore
<1> QED  BY <1>5, Zenon DEF a

\* A list with one more element tells what it was made of.
LEMMA OneMoreApart ==
  ASSUME NEW s, List(s), NEW t, List(t), NEW x, NEW y, NEW u, OneMore(u, s, x), OneMore(u, t, y)
  PROVE  s = t /\ x = y
<1>1. Len(s) \in Nat /\ DOMAIN s = 1 .. Len(s) /\ Len(t) \in Nat /\ DOMAIN t = 1 .. Len(t)
  BY ListDomain
<1>2. Len(s) = Len(t)
  <2>1. Len(s) + 1 = Len(t) + 1
    BY Zenon DEF OneMore
  <2>2. ASSUME NEW m \in Nat, NEW n \in Nat, m + 1 = n + 1 PROVE m = n
    BY <2>2
  <2> QED  BY <1>1, <2>1, <2>2
<1>3. x = y
  BY <1>2, Zenon DEF OneMore
<1>4. \A i \in 1 .. Len(s) : s[i] = t[i]
  BY <1>2 DEF OneMore
<1>5. s = [i \in 1 .. Len(s) |-> s[i]] /\ t = [i \in 1 .. Len(t) |-> t[i]]
  BY <1>1 DEF List
<1>6. [i \in 1 .. Len(s) |-> s[i]] = [i \in 1 .. Len(t) |-> t[i]]
  BY <1>2, <1>4
<1> QED  BY <1>3, <1>5, <1>6

-----------------------------------------------------------------------------
\* What occurs in a list, and what occurs in it more than once.
Occurs(s, x) == \E k \in DOMAIN s : s[k] = x
Repeats(s, x) == \E j, k \in DOMAIN s : j # k /\ s[j] = x /\ s[k] = x

\* An element that may be added at the end of a list is the only one that occurs
\* or repeats in it because of that.
LEMMA ListExtended ==
  ASSUME NEW s, List(s), NEW e, NEW b,
         NEW t, t = s \o (IF b THEN <<e>> ELSE <<>>)
  PROVE  /\ List(t)
         /\ \A x : Occurs(t, x) <=> Occurs(s, x) \/ (b /\ x = e)
         /\ \A x : Repeats(t, x) => Repeats(s, x) \/ (b /\ x = e /\ Occurs(s, x))
<1> DEFINE u == IF b THEN <<e>> ELSE <<>>
           n == Len(s)
<1>1. CASE ~b
  <2>1. t = s
    BY <1>1, ConcatEmptySeq DEF List
  <2> QED  BY <1>1, <2>1
<1>2. CASE b
  <2>1. t = s \o <<e>> /\ List(<<e>>) /\ Len(<<e>>) = 1
    BY <1>2, SeqIsList, <<e>> \in Seq({e})
  <2>2. n \in Nat /\ DOMAIN s = 1 .. n
    BY ListDomain
  <2>3. List(t) /\ Len(t) = n + 1 /\ (\A i \in 1 .. n : t[i] = s[i]) /\ t[n + 1] = e
    <3>1. \A i \in 1 .. 1 : t[n + i] = <<e>>[i]
      BY <2>1, ListConcat
    <3>2. t[n + 1] = e
      <4>1. 1 \in 1 .. 1 /\ <<e>>[1] = e
        OBVIOUS
      <4>2. t[n + 1] = <<e>>[1]
        BY <3>1, <4>1
      <4> QED  BY <4>1, <4>2
    <3> QED  BY <2>1, <3>2, ListConcat
  <2>4. DOMAIN t = 1 .. n + 1
    BY <2>3, ListDomain
  <2> HIDE DEF n
  <2>5. \A k \in 1 .. n + 1 : k \in 1 .. n \/ k = n + 1
    BY <2>2
  <2>6. 1 .. n \subseteq 1 .. n + 1 /\ n + 1 \in 1 .. n + 1 /\ n + 1 \notin 1 .. n
    BY <2>2
  <2>7. ASSUME NEW x PROVE Occurs(t, x) <=> Occurs(s, x) \/ x = e
    BY <2>2, <2>3, <2>4, <2>5, <2>6 DEF Occurs
  <2>8. ASSUME NEW x, Repeats(t, x) PROVE Repeats(s, x) \/ (x = e /\ Occurs(s, x))
    <3>1. PICK j, k \in 1 .. n + 1 : j # k /\ t[j] = x /\ t[k] = x
      BY <2>4, <2>8 DEF Repeats
    <3>2. CASE j \in 1 .. n /\ k \in 1 .. n
      BY <2>2, <2>3, <3>1, <3>2 DEF Repeats
    <3>3. CASE j = n + 1 /\ k \in 1 .. n
      BY <2>2, <2>3, <3>1, <3>3 DEF Occurs
    <3>4. CASE k = n + 1 /\ j \in 1 .. n
      BY <2>2, <2>3, <3>1, <3>4 DEF Occurs
    <3> QED  BY <2>5, <3>1, <3>2, <3>3, <3>4
  <2> QED  BY <1>2, <2>3, <2>7, <2>8
<1> QED  BY <1>1, <1>2

\* What is appended to a list occurs in it, as what occurred before does.
LEMMA OccursInAppend ==
  ASSUME NEW s, List(s), NEW e
  PROVE  /\ List(Append(s, e)) /\ Occurs(Append(s, e), e)
         /\ \A x : Occurs(s, x) => Occurs(Append(s, e), x)
<1>1. Len(s) \in Nat /\ DOMAIN s = 1 .. Len(s)
  BY ListDomain
<1>2. /\ List(Append(s, e)) /\ DOMAIN Append(s, e) = 1 .. Len(s) + 1
      /\ (\A i \in 1 .. Len(s) : Append(s, e)[i] = s[i]) /\ Append(s, e)[Len(s) + 1] = e
  BY ListAppend
<1>3. Len(s) + 1 \in 1 .. Len(s) + 1 /\ 1 .. Len(s) \subseteq 1 .. Len(s) + 1
  BY <1>1
<1> QED  BY <1>1, <1>2, <1>3 DEF Occurs

-----------------------------------------------------------------------------
\* There is a first among positions.
LEMMA FirstPosition ==
  ASSUME NEW I, I \subseteq Nat, I # {}
  PROVE  \E i \in I : \A j \in I : i <= j
<1>1. PICK i \in I : \A j \in I : <<j, i>> \notin OpToRel(<, Nat)
  BY WFMin, NatLessThanWellFounded
<1>2. \A j \in I : ~ (j < i)
  BY <1>1 DEF OpToRel
<1> QED  BY <1>2

\* There is a last among positions up to some length.
LEMMA LastPosition ==
  ASSUME NEW n \in Nat, NEW I, I \subseteq 1 .. n, I # {}
  PROVE  \E i \in I : \A j \in I : j <= i
<1> DEFINE J == {n - i : i \in I}
<1>1. J \subseteq Nat /\ J # {}
  <2>1. ASSUME NEW i \in I PROVE n - i \in Nat
    BY i \in 1 .. n
  <2> QED  BY <2>1
<1>2. PICK k \in J : \A j \in J : k <= j
  BY <1>1, FirstPosition
<1>3. PICK i \in I : k = n - i
  BY <1>2
<1>4. ASSUME NEW j \in I PROVE j <= i
  <2>1. n - i <= n - j
    BY <1>2, <1>3
  <2> QED  BY <2>1
<1> QED  BY <1>4
=============================================================================
