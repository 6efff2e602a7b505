--------------------------- MODULE SequenceLemmas ---------------------------
(* Facts about the operators on sequences that the specifications use:      *)
(* FlattenSeq, SelectSeq and Min, and how they go on when one element is    *)
(* appended.  Each holds for sequences of every length.                     *)
EXTENDS Integers, SequencesExt, SequenceTheorems, FiniteSetTheorems,
        WellFoundedInduction, TLAPS

-----------------------------------------------------------------------------
(* Least elements.                                                          *)

(* A set of numbers that is not empty has a least element.                  *)
LEMMA LeastExists ==
  ASSUME NEW T \in SUBSET Nat, T # {}
  PROVE  \E x \in T : \A y \in T : x <= y
<1> DEFINE less == {ss \in Nat \X Nat : ss[1] < ss[2]}
<1>1. IsWellFoundedOn(less, Nat)
  BY NatLessThanWellFounded DEF OpToRel
<1>2. PICK x \in T : \A y \in T : ~(<<y, x>> \in less)
  BY <1>1, WFMin
<1>3. ASSUME NEW y \in T PROVE x <= y
  <2>1. ~(y < x)
    <3>1. <<y, x>> \in Nat \X Nat /\ <<y, x>> \notin less
      BY <1>2
    <3> QED
      BY <3>1
  <2> QED
    BY <2>1
<1> QED
  BY <1>3

(* Min picks it.                                                            *)
LEMMA MinIsLeast ==
  ASSUME NEW T \in SUBSET Nat, T # {}
  PROVE  Min(T) \in T /\ \A y \in T : Min(T) <= y
  BY LeastExists DEF Min

-----------------------------------------------------------------------------
(* Functions defined along a sequence.                                      *)

(* f joins, at i, the first i sequences of s.                               *)
Joins(f, s) ==
    f = [i \in 1..Len(s) |-> IF i = 1 THEN s[i] ELSE f[i - 1] \o s[i]]

(* Such a function for the first n of them, with values in T.               *)
JoinsFirst(f, s, n, T) ==
    /\ f \in [1..n -> T]
    /\ \A i \in 1..n : f[i] = IF i = 1 THEN s[i] ELSE f[i - 1] \o s[i]

(* It goes on for one sequence more.                                        *)
LEMMA JoinsOneMore ==
  ASSUME NEW S, NEW s \in Seq(Seq(S)), NEW n \in 1..Len(s), NEW f,
         JoinsFirst(f, s, n - 1, Seq(S))
  PROVE  \E g : JoinsFirst(g, s, n, Seq(S))
<1> DEFINE x == IF n = 1 THEN s[n] ELSE f[n - 1] \o s[n]
           g == [i \in 1..n |-> IF i = n THEN x ELSE f[i]]
<1>1. x \in Seq(S)
  <2>1. s[n] \in Seq(S)
    BY ElementOfSeq
  <2>2. n # 1 => f[n - 1] \in Seq(S)
    BY DEF JoinsFirst
  <2> QED
    BY <2>1, <2>2, ConcatProperties
<1>2. g \in [1..n -> Seq(S)]
  BY <1>1 DEF JoinsFirst
<1>3. ASSUME NEW i \in 1..n
      PROVE  g[i] = IF i = 1 THEN s[i] ELSE g[i - 1] \o s[i]
  <2>1. i # 1 => i - 1 \in 1..n /\ g[i - 1] = f[i - 1]
    OBVIOUS
  <2>2. CASE i = n
    BY <2>1, <2>2
  <2>3. CASE i # n
    <3>1. i \in 1..(n - 1) /\ g[i] = f[i]
      BY <2>3
    <3> QED
      BY <2>1, <3>1 DEF JoinsFirst
  <2> QED
    BY <2>2, <2>3
<1> HIDE DEF g
<1> QED
  BY <1>2, <1>3 DEF JoinsFirst

(* So there is one for the whole sequence.                                  *)
LEMMA JoinsExists ==
  ASSUME NEW S, NEW s \in Seq(Seq(S))
  PROVE  \E f : Joins(f, s)
<1> DEFINE bad == {n \in 0..Len(s) : ~\E f : JoinsFirst(f, s, n, Seq(S))}
<1>0. Len(s) \in Nat
  BY LenProperties
<1>1. ASSUME NEW n \in bad, \A m \in bad : n <= m PROVE FALSE
  <2>1. n # 0
    <3>1. JoinsFirst([i \in 1..0 |-> <<>>], s, 0, Seq(S))
      BY DEF JoinsFirst
    <3> QED
      BY <3>1
  <2>2. n - 1 \in 0..Len(s) /\ n \in 1..Len(s) /\ ~(n <= n - 1)
    BY <1>0, <2>1
  <2>3. PICK f : JoinsFirst(f, s, n - 1, Seq(S))
    BY <1>1, <2>2
  <2> QED
    BY <2>2, <2>3, JoinsOneMore
<1>2. bad \in SUBSET Nat
  BY <1>0
<1>3. bad = {}
  <2> HIDE DEF bad
  <2> QED
    BY <1>1, <1>2, LeastExists
<1>4. PICK f : JoinsFirst(f, s, Len(s), Seq(S))
  BY <1>0, <1>3
<1>5. f = [i \in 1..Len(s) |-> IF i = 1 THEN s[i] ELSE f[i - 1] \o s[i]]
  BY <1>4 DEF JoinsFirst
<1> QED
  BY <1>5 DEF Joins

(* FlattenSeq is its last value.                                            *)
LEMMA FlattenJoins ==
  ASSUME NEW S, NEW s \in Seq(Seq(S)), s # <<>>
  PROVE  \E f : Joins(f, s) /\ FlattenSeq(s) = f[Len(s)]
<1> DEFINE g == CHOOSE f : f = [i \in 1..Len(s) |->
                                 IF i = 1 THEN s[i] ELSE f[i - 1] \o s[i]]
<1>1. Joins(g, s)
  <2>1. \E f : f = [i \in 1..Len(s) |-> IF i = 1 THEN s[i] ELSE f[i - 1] \o s[i]]
    BY JoinsExists DEF Joins
  <2>2. g = [i \in 1..Len(s) |-> IF i = 1 THEN s[i] ELSE g[i - 1] \o s[i]]
    BY <2>1
  <2> QED
    BY <2>2 DEF Joins
<1>2. Len(s) # 0
  BY EmptySeq
<1>3. FlattenSeq(s) = g[Len(s)]
  BY <1>2 DEF FlattenSeq
<1> QED
  BY <1>1, <1>3

(* Up to where two sequences agree, so do the functions that join them.     *)
LEMMA JoinsAgree ==
  ASSUME NEW S, NEW s \in Seq(Seq(S)), NEW t \in Seq(Seq(S)), NEW f, NEW g,
         Joins(f, s), Joins(g, t), Len(s) <= Len(t),
         \A i \in 1..Len(s) : s[i] = t[i]
  PROVE  \A i \in 1..Len(s) : f[i] = g[i] /\ f[i] \in Seq(S)
<1> DEFINE bad == {i \in 1..Len(s) : f[i] # g[i] \/ f[i] \notin Seq(S)}
<1>0. Len(s) \in Nat /\ Len(t) \in Nat /\ \A i \in 1..Len(s) : s[i] \in Seq(S)
  BY LenProperties, ElementOfSeq
<1>1. SUFFICES ASSUME bad # {} PROVE FALSE
  OBVIOUS
<1>2. PICK n \in bad : \A m \in bad : n <= m
  <2>1. bad \in SUBSET Nat
    BY <1>0
  <2> HIDE DEF bad
  <2> QED
    BY <1>1, <2>1, LeastExists
<1>3. n \in 1..Len(s) /\ n \in 1..Len(t)
  BY <1>0, <1>2
<1>4. /\ f[n] = IF n = 1 THEN s[n] ELSE f[n - 1] \o s[n]
      /\ g[n] = IF n = 1 THEN t[n] ELSE g[n - 1] \o t[n]
  BY <1>3 DEF Joins
<1>5. n # 1 => f[n - 1] = g[n - 1] /\ f[n - 1] \in Seq(S)
  BY <1>2, <1>3
<1>6. f[n] = g[n] /\ f[n] \in Seq(S)
  BY <1>0, <1>3, <1>4, <1>5, ConcatProperties
<1> QED
  BY <1>2, <1>6

(* What FlattenSeq returns is a sequence; an appended sequence comes last.  *)
LEMMA FlattenAppend ==
  ASSUME NEW S, NEW s \in Seq(Seq(S))
  PROVE  /\ FlattenSeq(s) \in Seq(S)
         /\ s = <<>> => FlattenSeq(s) = <<>>
         /\ \A x \in Seq(S) : FlattenSeq(Append(s, x)) = FlattenSeq(s) \o x
<1>0. Len(s) \in Nat /\ (s = <<>> <=> Len(s) = 0)
  BY LenProperties, EmptySeq
<1>1. s = <<>> => FlattenSeq(s) = <<>>
  BY <1>0 DEF FlattenSeq
<1>2. FlattenSeq(s) \in Seq(S)
  <2>1. CASE s = <<>>
    BY <1>1, <2>1, EmptySeq
  <2>2. CASE s # <<>>
    <3>1. PICK f : Joins(f, s) /\ FlattenSeq(s) = f[Len(s)]
      BY <2>2, FlattenJoins
    <3>2. \A i \in 1..Len(s) : f[i] = f[i] /\ f[i] \in Seq(S)
      <4>1. Len(s) <= Len(s)
        BY <1>0
      <4> QED
        BY <3>1, <4>1, JoinsAgree
    <3> QED
      BY <1>0, <2>2, <3>1, <3>2
  <2> QED
    BY <2>1, <2>2
<1>3. ASSUME NEW x \in Seq(S)
      PROVE  FlattenSeq(Append(s, x)) = FlattenSeq(s) \o x
  <2> DEFINE t == Append(s, x)
  <2>1. /\ t \in Seq(Seq(S)) /\ t # <<>> /\ Len(t) = Len(s) + 1
        /\ \A i \in 1..Len(s) : t[i] = s[i]
        /\ t[Len(s) + 1] = x
    BY AppendProperties
  <2>2. PICK g : Joins(g, t) /\ FlattenSeq(t) = g[Len(t)]
    BY <2>1, FlattenJoins
  <2>3. g[Len(t)] = IF Len(t) = 1 THEN t[Len(t)] ELSE g[Len(t) - 1] \o t[Len(t)]
    <3>1. Len(t) \in 1..Len(t)
      BY <1>0, <2>1
    <3> HIDE DEF t
    <3> QED
      BY <2>2, <3>1 DEF Joins
  <2>4. CASE s = <<>>
    <3>1. FlattenSeq(t) = x
      BY <1>0, <2>1, <2>2, <2>3, <2>4
    <3> QED
      BY <1>1, <2>4, <3>1, ConcatEmptySeq
  <2>5. CASE s # <<>>
    <3>1. PICK f : Joins(f, s) /\ FlattenSeq(s) = f[Len(s)]
      BY <2>5, FlattenJoins
    <3>2. f[Len(s)] = g[Len(s)]
      <4>1. Len(s) <= Len(t) /\ Len(s) \in 1..Len(s)
        BY <1>0, <2>1, <2>5
      <4> HIDE DEF t
      <4> QED
        BY <2>1, <2>2, <3>1, <4>1, JoinsAgree, SMTT(30)
    <3>3. Len(t) # 1 /\ Len(t) - 1 = Len(s)
      BY <1>0, <2>1, <2>5
    <3> QED
      BY <2>1, <2>2, <2>3, <3>1, <3>2, <3>3
  <2> QED
    BY <2>4, <2>5
<1> QED
  BY <1>1, <1>2, <1>3

(* Concatenation as an operator that the provers do not look into.          *)
Cat(r, s) == r \o s

(* Its type, its length and its elements.                                   *)
LEMMA CatType ==
  ASSUME NEW S, NEW r \in Seq(S), NEW s \in Seq(S)
  PROVE  /\ Cat(r, s) \in Seq(S) /\ Len(Cat(r, s)) = Len(r) + Len(s)
         /\ \A i \in 1..(Len(r) + Len(s)) :
              Cat(r, s)[i] = IF i <= Len(r) THEN r[i] ELSE s[i - Len(r)]
  BY ConcatProperties DEF Cat

(* Concatenation is associative.                                            *)
LEMMA CatRegroup ==
  ASSUME NEW S, NEW r \in Seq(S), NEW s \in Seq(S), NEW t \in Seq(S)
  PROVE  Cat(Cat(r, s), t) = Cat(r, Cat(s, t))
  BY ConcatAssociative DEF Cat

(* Regrouping four sequences.                                               *)
LEMMA CatFour ==
  ASSUME NEW S, NEW q \in Seq(S), NEW r \in Seq(S), NEW s \in Seq(S), NEW t \in Seq(S)
  PROVE  Cat(Cat(q, r), Cat(s, t)) = Cat(q, Cat(Cat(r, s), t))
<1>1. Cat(s, t) \in Seq(S)
  BY CatType
<1>2. Cat(Cat(q, r), Cat(s, t)) = Cat(q, Cat(r, Cat(s, t)))
  BY <1>1, CatRegroup
<1>3. Cat(Cat(r, s), t) = Cat(r, Cat(s, t))
  BY CatRegroup
<1> QED
  BY <1>2, <1>3

(* Flattening, in terms of Cat.                                             *)
LEMMA CatFlatten ==
  ASSUME NEW S, NEW s \in Seq(Seq(S)), NEW x \in Seq(S)
  PROVE  FlattenSeq(s) \in Seq(S) /\ FlattenSeq(Append(s, x)) = Cat(FlattenSeq(s), x)
<1>1. FlattenSeq(Append(s, x)) = FlattenSeq(s) \o x
  BY FlattenAppend
<1> QED
  BY <1>1, FlattenAppend DEF Cat

(* A sequence cut after its first k elements.                               *)
LEMMA Cut ==
  ASSUME NEW S, NEW s \in Seq(S), NEW k \in Nat, k <= Len(s)
  PROVE  /\ SubSeq(s, 1, k) \in Seq(S) /\ Len(SubSeq(s, 1, k)) = k
         /\ \A i \in 1..k : SubSeq(s, 1, k)[i] = s[i]
         /\ SubSeq(s, k + 1, Len(s)) \in Seq(S)
         /\ Len(SubSeq(s, k + 1, Len(s))) = Len(s) - k
         /\ Cat(SubSeq(s, 1, k), SubSeq(s, k + 1, Len(s))) = s
<1>1. Len(s) \in Nat
  BY LenProperties
<1>2. \A i \in 1..k : s[i] \in S
  <2> SUFFICES ASSUME NEW i \in 1..k PROVE s[i] \in S
    OBVIOUS
  <2>1. i \in 1..Len(s)
    BY <1>1
  <2> QED
    BY <2>1, ElementOfSeq
<1>3. \A i \in (k + 1)..Len(s) : s[i] \in S
  <2> SUFFICES ASSUME NEW i \in (k + 1)..Len(s) PROVE s[i] \in S
    OBVIOUS
  <2>1. i \in 1..Len(s)
    BY <1>1
  <2> QED
    BY <2>1, ElementOfSeq
<1>4. /\ SubSeq(s, 1, k) \in Seq(S)
      /\ Len(SubSeq(s, 1, k)) = IF 1 <= k THEN (k - 1) + 1 ELSE 0
      /\ \A i \in 1..((k - 1) + 1) : SubSeq(s, 1, k)[i] = s[(1 + i) - 1]
  BY <1>2, SubSeqProperties, 1 \in Int, k \in Int
<1>5. /\ SubSeq(s, k + 1, Len(s)) \in Seq(S)
      /\ Len(SubSeq(s, k + 1, Len(s)))
           = IF k + 1 <= Len(s) THEN (Len(s) - (k + 1)) + 1 ELSE 0
  <2>1. k + 1 \in Int /\ Len(s) \in Int
    BY <1>1
  <2> QED
    BY <1>3, <2>1, SubSeqProperties
<1>6. Cat(SubSeq(s, 1, k), SubSeq(s, k + 1, Len(s))) = s
  <2>1. 1 \in 1..(Len(s) + 1) /\ k \in (1 - 1)..Len(s) /\ Len(s) \in k..Len(s)
    BY <1>1
  <2>2. SubSeq(s, 1, k) \o SubSeq(s, k + 1, Len(s)) = SubSeq(s, 1, Len(s))
    BY <2>1, ConcatAdjacentSubSeq
  <2> QED
    BY <2>2, SubSeqFull DEF Cat
<1>7. /\ (k - 1) + 1 = k /\ \A i \in 1..k : (1 + i) - 1 = i
      /\ k = IF 1 <= k THEN (k - 1) + 1 ELSE 0
      /\ Len(s) - k = IF k + 1 <= Len(s) THEN (Len(s) - (k + 1)) + 1 ELSE 0
  BY <1>1
<1> QED
  BY <1>4, <1>5, <1>6, <1>7

(* Nothing joined to a sequence.                                            *)
LEMMA CatEmpty ==
  ASSUME NEW S, NEW s \in Seq(S)
  PROVE  Cat(s, <<>>) = s /\ Cat(<<>>, s) = s
  BY ConcatEmptySeq DEF Cat

(* Two sequences are empty when they are together.                          *)
LEMMA CatIsEmpty ==
  ASSUME NEW S, NEW r \in Seq(S), NEW s \in Seq(S)
  PROVE  Cat(r, s) = <<>> <=> r = <<>> /\ s = <<>>
  BY ConcatEqualIffEmpty DEF Cat

(* The sequence of one element.                                             *)
One(x) == <<x>>

(* Its type, and that appending is joining it.                              *)
LEMMA OneType ==
  ASSUME NEW S, NEW x \in S
  PROVE  /\ One(x) \in Seq(S) /\ Len(One(x)) = 1 /\ One(x)[1] = x
         /\ One(x) # <<>>
         /\ \A s \in Seq(S) : Append(s, x) = Cat(s, One(x))
<1>1. /\ One(x) \in Seq(S) /\ Len(One(x)) = 1 /\ One(x)[1] = x /\ One(x) # <<>>
  BY DEF One
<1>2. ASSUME NEW s \in Seq(S) PROVE Append(s, x) = Cat(s, One(x))
  BY AppendIsConcat DEF One, Cat
<1> QED
  BY <1>1, <1>2

(* Induction on sequences: a set of sequences with the empty one that can   *)
(* be extended by every element has them all.                               *)
LEMMA SequenceInduction ==
  ASSUME NEW S, NEW P \in SUBSET Seq(S), <<>> \in P,
         \A s \in P : \A x \in S : Cat(s, One(x)) \in P
  PROVE  P = Seq(S)
<1> DEFINE bad == {n \in Nat : \E s \in Seq(S) : Len(s) = n /\ s \notin P}
<1>1. ASSUME NEW n \in bad, \A m \in bad : n <= m PROVE FALSE
  <2>1. PICK s \in Seq(S) : Len(s) = n /\ s \notin P
    BY <1>1
  <2>2. n \in Nat
    BY <1>1
  <2>3. n # 0
    BY <2>1, EmptySeq
  <2> DEFINE k == n - 1
             r == SubSeq(s, 1, k)
             t == SubSeq(s, k + 1, Len(s))
  <2>4. k \in Nat /\ k <= Len(s) /\ k + 1 = n /\ n \in 1..Len(s)
    BY <2>1, <2>2, <2>3
  <2>5. r \in Seq(S) /\ Len(r) = k /\ Cat(r, t) = s
    <3> HIDE DEF k
    <3> QED
      BY <2>4, Cut DEF r, t
  <2>6. t = One(s[n])
    <3>1. t = SubSeq(s, n, n)
      BY <2>1, <2>4
    <3>2. s[n] \in S
      BY <2>4, ElementOfSeq
    <3>3. SubSeq(s, n, n) = <<s[n]>>
      <4>1. \A i \in n..n : s[i] \in S
        BY <2>2, <3>2
      <4>2. /\ SubSeq(s, n, n) \in Seq(S)
            /\ Len(SubSeq(s, n, n)) = 1
            /\ \A i \in 1..n - n + 1 : SubSeq(s, n, n)[i] = s[n + i - 1]
        BY <4>1, <2>2, SubSeqProperties, n \in Int
      <4>3. SubSeq(s, n, n)[1] = s[n]
        BY <2>2, <4>2
      <4>4. <<s[n]>> \in Seq(S) /\ Len(<<s[n]>>) = 1 /\ <<s[n]>>[1] = s[n]
        BY <3>2
      <4> DEFINE a == SubSeq(s, n, n)
                 b == <<s[n]>>
      <4>5. a \in Seq(S) /\ b \in Seq(S) /\ Len(a) = Len(b)
        BY <4>2, <4>4
      <4>6. \A i \in 1..Len(a) : a[i] = b[i]
        <5>1. \A i \in 1..1 : i = 1
          OBVIOUS
        <5> HIDE DEF a, b
        <5> QED
          BY <4>2, <4>3, <4>4, <5>1 DEF a, b
      <4> HIDE DEF a, b
      <4>7. a = b
        BY <4>5, <4>6, SeqEqual
      <4> QED
        BY <4>7 DEF a, b
    <3> QED
      BY <3>1, <3>3 DEF One
  <2> HIDE DEF r, t
  <2>7. r \in P
    <3>1. k \notin bad
      BY <1>1, <2>2, <2>4
    <3> QED
      BY <2>4, <2>5, <3>1
  <2>8. s[n] \in S
    BY <2>4, ElementOfSeq
  <2> QED
    BY <2>1, <2>5, <2>6, <2>7, <2>8
<1>2. bad \in SUBSET Nat
  OBVIOUS
<1>3. bad = {}
  <2> HIDE DEF bad
  <2> QED
    BY <1>1, <1>2, LeastExists
<1>4. ASSUME NEW s \in Seq(S) PROVE s \in P
  BY <1>3, LenProperties
<1> QED
  BY <1>4

(* Induction on the numbers, in the same form.                              *)
LEMMA NumberInduction ==
  ASSUME NEW P \in SUBSET Nat, 0 \in P, \A n \in P : n + 1 \in P
  PROVE  P = Nat
<1> DEFINE bad == Nat \ P
<1>1. ASSUME NEW n \in bad, \A m \in bad : n <= m PROVE FALSE
  <2>1. n \in Nat /\ n # 0 /\ n \notin P
    BY <1>1
  <2>2. n - 1 \in Nat /\ ~(n <= n - 1) /\ (n - 1) + 1 = n
    BY <2>1
  <2> QED
    BY <1>1, <2>1, <2>2
<1>2. bad \in SUBSET Nat
  OBVIOUS
<1>3. bad = {}
  <2> HIDE DEF bad
  <2> QED
    BY <1>1, <1>2, LeastExists
<1> QED
  BY <1>3

(* Flattening, one sequence more.                                           *)
LEMMA FlattenOne ==
  ASSUME NEW S, NEW s \in Seq(Seq(S)), NEW x \in Seq(S)
  PROVE  /\ FlattenSeq(s) \in Seq(S)
         /\ FlattenSeq(Cat(s, One(x))) = Cat(FlattenSeq(s), x)
<1>1. Append(s, x) = Cat(s, One(x))
  BY OneType
<1> QED
  BY <1>1, CatFlatten

(* Flattening nothing, and one sequence.                                    *)
LEMMA FlattenFew ==
  /\ FlattenSeq(<<>>) = <<>>
  /\ \A S : \A x \in Seq(S) : FlattenSeq(One(x)) = x
<1>1. FlattenSeq(<<>>) = <<>>
  BY EmptySeq, FlattenAppend
<1>2. ASSUME NEW S, NEW x \in Seq(S) PROVE FlattenSeq(One(x)) = x
  <2>1. <<>> \in Seq(Seq(S))
    BY EmptySeq
  <2>2. FlattenSeq(Cat(<<>>, One(x))) = Cat(<<>>, x)
    BY <1>1, <2>1, FlattenOne
  <2>3. Cat(<<>>, One(x)) = One(x)
    <3>1. One(x) \in Seq(Seq(S))
      BY OneType
    <3> QED
      BY <3>1, CatEmpty
  <2> QED
    BY <2>2, <2>3, CatEmpty
<1> QED
  BY <1>1, <1>2

(* Flattening two sequences that are joined.                                *)
LEMMA FlattenCat ==
  ASSUME NEW S, NEW s \in Seq(Seq(S)), NEW t \in Seq(Seq(S))
  PROVE  FlattenSeq(Cat(s, t)) = Cat(FlattenSeq(s), FlattenSeq(t))
<1> DEFINE P == {u \in Seq(Seq(S)) : FlattenSeq(Cat(s, u)) = Cat(FlattenSeq(s), FlattenSeq(u))}
<1>0. FlattenSeq(s) \in Seq(S)
  BY FlattenAppend
<1>1. <<>> \in P
  <2>1. <<>> \in Seq(Seq(S))
    BY EmptySeq
  <2>2. Cat(s, <<>>) = s /\ Cat(FlattenSeq(s), <<>>) = FlattenSeq(s)
    BY <1>0, CatEmpty
  <2> QED
    BY <2>1, <2>2, FlattenFew
<1>2. ASSUME NEW u \in P, NEW x \in Seq(S) PROVE Cat(u, One(x)) \in P
  <2>1. u \in Seq(Seq(S)) /\ FlattenSeq(u) \in Seq(S)
    BY FlattenAppend
  <2>2. One(x) \in Seq(Seq(S)) /\ Cat(u, One(x)) \in Seq(Seq(S)) /\ Cat(s, u) \in Seq(Seq(S))
    BY <2>1, OneType, CatType
  <2>3. Cat(s, Cat(u, One(x))) = Cat(Cat(s, u), One(x))
    BY <2>1, <2>2, CatRegroup
  <2>4. FlattenSeq(Cat(Cat(s, u), One(x))) = Cat(FlattenSeq(Cat(s, u)), x)
    BY <2>2, FlattenOne
  <2>5. FlattenSeq(Cat(u, One(x))) = Cat(FlattenSeq(u), x)
    BY <2>1, FlattenOne
  <2>6. Cat(Cat(FlattenSeq(s), FlattenSeq(u)), x) = Cat(FlattenSeq(s), Cat(FlattenSeq(u), x))
    BY <1>0, <2>1, CatRegroup
  <2> QED
    BY <2>2, <2>3, <2>4, <2>5, <2>6
<1>3. P = Seq(Seq(S))
  <2>1. P \in SUBSET Seq(Seq(S))
    OBVIOUS
  <2> HIDE DEF P
  <2> QED
    BY <1>1, <1>2, <2>1, SequenceInduction
<1> QED
  BY <1>3

-----------------------------------------------------------------------------
(* A sequence built from the parts that a function makes of the elements of *)
(* another: what it selects, or takes apart.                                *)

Into(f, S, T) == f \in [S -> T]
Mapped(f, s) == [k \in DOMAIN s |-> f[s[k]]]
FlatMap(f, s) == FlattenSeq(Mapped(f, s))

(* The images of the elements, in their order.                              *)
LEMMA MappedType ==
  ASSUME NEW S, NEW T, NEW f, Into(f, S, T), NEW s \in Seq(S)
  PROVE  /\ Mapped(f, s) \in Seq(T) /\ Len(Mapped(f, s)) = Len(s)
         /\ \A k \in 1..Len(s) : Mapped(f, s)[k] = f[s[k]]
<1>1. Len(s) \in Nat /\ DOMAIN s = 1..Len(s) /\ \A k \in 1..Len(s) : s[k] \in S
  BY LenProperties, ElementOfSeq
<1>2. Mapped(f, s) = [k \in 1..Len(s) |-> f[s[k]]]
  BY <1>1 DEF Mapped
<1>3. \A k \in 1..Len(s) : f[s[k]] \in T
  BY <1>1 DEF Into
<1> QED
  BY <1>1, <1>2, <1>3

(* The image of the empty sequence and of one element.                      *)
LEMMA MappedFew ==
  ASSUME NEW S, NEW T, NEW f, Into(f, S, T)
  PROVE  /\ Mapped(f, <<>>) = <<>>
         /\ \A x \in S : Mapped(f, One(x)) = One(f[x])
<1>1. Mapped(f, <<>>) = <<>>
  <2>1. <<>> \in Seq(S)
    BY EmptySeq
  <2>2. Mapped(f, <<>>) \in Seq(T) /\ Len(Mapped(f, <<>>)) = 0
    <3> DEFINE e == <<>>
    <3>1. Mapped(f, e) \in Seq(T) /\ Len(Mapped(f, e)) = Len(e)
      <4>1. e \in Seq(S)
        BY <2>1
      <4> HIDE DEF e
      <4> QED
        BY <4>1, MappedType
    <3> QED
      BY <3>1, EmptySeq
  <2> QED
    BY <2>2, EmptySeq
<1>2. ASSUME NEW x \in S PROVE Mapped(f, One(x)) = One(f[x])
  <2>1. One(x) \in Seq(S) /\ Len(One(x)) = 1 /\ One(x)[1] = x /\ f[x] \in T
    BY OneType DEF Into
  <2>2. One(f[x]) \in Seq(T) /\ Len(One(f[x])) = 1 /\ One(f[x])[1] = f[x]
    BY <2>1, OneType
  <2>3. /\ Mapped(f, One(x)) \in Seq(T) /\ Len(Mapped(f, One(x))) = 1
        /\ \A k \in 1..1 : Mapped(f, One(x))[k] = f[One(x)[k]]
    <3>1. /\ Mapped(f, One(x)) \in Seq(T) /\ Len(Mapped(f, One(x))) = Len(One(x))
          /\ \A k \in 1..Len(One(x)) : Mapped(f, One(x))[k] = f[One(x)[k]]
      BY <2>1, MappedType
    <3> QED
      BY <2>1, <3>1
  <2>4. \A k \in 1..1 : Mapped(f, One(x))[k] = One(f[x])[k]
    <3>1. \A k \in 1..1 : k = 1
      OBVIOUS
    <3> QED
      BY <2>1, <2>2, <2>3, <3>1
  <2> QED
    BY <2>2, <2>3, <2>4, SeqEqual
<1> QED
  BY <1>1, <1>2

(* The image of two sequences that are joined.                              *)
LEMMA MappedCat ==
  ASSUME NEW S, NEW T, NEW f, Into(f, S, T), NEW s \in Seq(S), NEW t \in Seq(S)
  PROVE  Mapped(f, Cat(s, t)) = Cat(Mapped(f, s), Mapped(f, t))
<1> DEFINE a == Mapped(f, Cat(s, t))
           b == Cat(Mapped(f, s), Mapped(f, t))
<1>0. Len(s) \in Nat /\ Len(t) \in Nat
  BY LenProperties
<1>1. /\ Cat(s, t) \in Seq(S) /\ Len(Cat(s, t)) = Len(s) + Len(t)
      /\ \A k \in 1..Len(s) + Len(t) :
            Cat(s, t)[k] = IF k <= Len(s) THEN s[k] ELSE t[k - Len(s)]
  BY CatType
<1>2. /\ a \in Seq(T) /\ Len(a) = Len(s) + Len(t)
      /\ \A k \in 1..Len(s) + Len(t) : a[k] = f[Cat(s, t)[k]]
  <2>1. /\ a \in Seq(T) /\ Len(a) = Len(Cat(s, t))
        /\ \A k \in 1..Len(Cat(s, t)) : a[k] = f[Cat(s, t)[k]]
    <3>1. Cat(s, t) \in Seq(S)
      BY <1>1
    <3> QED
      BY <3>1, MappedType
  <2> HIDE DEF a
  <2> QED
    BY <1>1, <2>1
<1>3. /\ Mapped(f, s) \in Seq(T) /\ Len(Mapped(f, s)) = Len(s)
      /\ \A k \in 1..Len(s) : Mapped(f, s)[k] = f[s[k]]
  BY MappedType
<1>4. /\ Mapped(f, t) \in Seq(T) /\ Len(Mapped(f, t)) = Len(t)
      /\ \A k \in 1..Len(t) : Mapped(f, t)[k] = f[t[k]]
  BY MappedType
<1>5. /\ b \in Seq(T) /\ Len(b) = Len(s) + Len(t)
      /\ \A k \in 1..Len(s) + Len(t) :
            b[k] = IF k <= Len(s) THEN Mapped(f, s)[k] ELSE Mapped(f, t)[k - Len(s)]
  <2>1. /\ b \in Seq(T) /\ Len(b) = Len(Mapped(f, s)) + Len(Mapped(f, t))
        /\ \A k \in 1..(Len(Mapped(f, s)) + Len(Mapped(f, t))) :
              b[k] = IF k <= Len(Mapped(f, s)) THEN Mapped(f, s)[k]
                     ELSE Mapped(f, t)[k - Len(Mapped(f, s))]
    BY <1>3, <1>4, CatType, ZenonT(60)
  <2> HIDE DEF b
  <2> QED
    BY <1>3, <1>4, <2>1
<1> HIDE DEF a, b
<1>6. ASSUME NEW k \in 1..Len(s) + Len(t) PROVE a[k] = b[k]
  <2>1. CASE k <= Len(s)
    <3>1. k \in 1..Len(s)
      BY <1>0, <2>1
    <3> QED
      BY <1>1, <1>2, <1>3, <1>5, <2>1, <3>1, SMTT(30)
  <2>2. CASE ~(k <= Len(s))
    <3>1. k - Len(s) \in 1..Len(t)
      BY <1>0, <2>2
    <3> QED
      BY <1>1, <1>2, <1>4, <1>5, <2>2, <3>1
  <2> QED
    BY <2>1, <2>2
<1>7. a = b
  BY <1>2, <1>5, <1>6, SeqEqual
<1> QED
  BY <1>7 DEF a, b

(* The parts of joined sequences are joined.                                *)
LEMMA FlatMapCat ==
  ASSUME NEW S, NEW T, NEW f, Into(f, S, Seq(T)), NEW s \in Seq(S), NEW t \in Seq(S)
  PROVE  /\ FlatMap(f, s) \in Seq(T)
         /\ FlatMap(f, Cat(s, t)) = Cat(FlatMap(f, s), FlatMap(f, t))
<1>1. Mapped(f, s) \in Seq(Seq(T)) /\ Mapped(f, t) \in Seq(Seq(T))
  BY MappedType
<1>2. Mapped(f, Cat(s, t)) = Cat(Mapped(f, s), Mapped(f, t))
  BY MappedCat
<1> QED
  BY <1>1, <1>2, FlattenCat, FlattenAppend DEF FlatMap

(* The parts of nothing and of one element.                                 *)
LEMMA FlatMapFew ==
  ASSUME NEW S, NEW T, NEW f, Into(f, S, Seq(T))
  PROVE  /\ FlatMap(f, <<>>) = <<>>
         /\ \A x \in S : FlatMap(f, One(x)) = f[x]
<1>1. FlatMap(f, <<>>) = <<>>
  BY MappedFew, FlattenFew DEF FlatMap
<1>2. ASSUME NEW x \in S PROVE FlatMap(f, One(x)) = f[x]
  <2>1. f[x] \in Seq(T)
    BY DEF Into
  <2>3. Mapped(f, One(x)) = One(f[x])
    BY MappedFew
  <2> QED
    BY <2>1, <2>3, FlattenFew DEF FlatMap
<1> QED
  BY <1>1, <1>2

(* Taking parts of a flattened sequence is taking them row by row.          *)
LEMMA FlatMapFlatten ==
  ASSUME NEW S, NEW T, NEW f, Into(f, S, Seq(T)),
         NEW g, Into(g, Seq(S), Seq(T)), \A r \in Seq(S) : g[r] = FlatMap(f, r),
         NEW rows \in Seq(Seq(S))
  PROVE  FlatMap(f, FlattenSeq(rows)) = FlatMap(g, rows)
<1> DEFINE P == {u \in Seq(Seq(S)) : FlatMap(f, FlattenSeq(u)) = FlatMap(g, u)}
<1>1. <<>> \in P
  <2>1. <<>> \in Seq(Seq(S))
    BY EmptySeq
  <2> QED
    BY <2>1, FlattenFew, FlatMapFew
<1>2. ASSUME NEW u \in P, NEW x \in Seq(S) PROVE Cat(u, One(x)) \in P
  <2>1. u \in Seq(Seq(S)) /\ One(x) \in Seq(Seq(S)) /\ Cat(u, One(x)) \in Seq(Seq(S))
    BY OneType, CatType
  <2>2. FlattenSeq(u) \in Seq(S) /\ FlattenSeq(Cat(u, One(x))) = Cat(FlattenSeq(u), x)
    BY <2>1, FlattenOne
  <2>3. FlatMap(f, Cat(FlattenSeq(u), x)) = Cat(FlatMap(f, FlattenSeq(u)), FlatMap(f, x))
    BY <2>2, FlatMapCat
  <2>4. FlatMap(g, Cat(u, One(x))) = Cat(FlatMap(g, u), FlatMap(g, One(x)))
    BY <2>1, FlatMapCat
  <2>5. FlatMap(g, One(x)) = FlatMap(f, x)
    <3>1. FlatMap(g, One(x)) = g[x]
      <4> HIDE DEF P
      <4> QED
        BY FlatMapFew
    <3> QED
      BY <3>1
  <2> QED
    BY <2>1, <2>2, <2>3, <2>4, <2>5
<1>3. P = Seq(Seq(S))
  <2>1. P \in SUBSET Seq(Seq(S))
    OBVIOUS
  <2> HIDE DEF P
  <2> QED
    BY <1>1, <1>2, <2>1, SequenceInduction
<1> QED
  BY <1>3

(* Where no element has a part, there is none.                              *)
LEMMA FlatMapNone ==
  ASSUME NEW S, NEW T, NEW f, Into(f, S, Seq(T)),
         NEW s \in Seq(S), \A k \in 1..Len(s) : f[s[k]] = <<>>
  PROVE  FlatMap(f, s) = <<>>
<1> DEFINE R == {x \in S : f[x] = <<>>}
           P == {u \in Seq(R) : FlatMap(f, u) = <<>>}
<1>1. <<>> \in P
  BY EmptySeq, FlatMapFew
<1>2. ASSUME NEW u \in P, NEW x \in R PROVE Cat(u, One(x)) \in P
  <2>1. u \in Seq(R) /\ FlatMap(f, u) = <<>> /\ x \in S /\ f[x] = <<>>
    OBVIOUS
  <2>2. One(x) \in Seq(R) /\ Cat(u, One(x)) \in Seq(R)
    BY <2>1, OneType, CatType
  <2>3. u \in Seq(S) /\ One(x) \in Seq(S)
    <3>1. R \subseteq S
      OBVIOUS
    <3> HIDE DEF R
    <3> QED
      BY <2>1, <2>2, <3>1, SeqMonotonic
  <2>4. FlatMap(f, Cat(u, One(x))) = Cat(FlatMap(f, u), FlatMap(f, One(x)))
    BY <2>3, FlatMapCat
  <2>5. FlatMap(f, One(x)) = <<>>
    BY <2>1, FlatMapFew
  <2>6. Cat(<<>>, <<>>) = <<>>
    BY EmptySeq, CatEmpty
  <2> QED
    BY <2>1, <2>2, <2>4, <2>5, <2>6
<1>3. P = Seq(R)
  <2>1. P \in SUBSET Seq(R)
    OBVIOUS
  <2> HIDE DEF P, R
  <2> QED
    BY <1>1, <1>2, <2>1, SequenceInduction
<1>4. s \in Seq(R)
  <2>1. Len(s) \in Nat /\ s \in [1..Len(s) -> S] /\ \A k \in 1..Len(s) : s[k] \in S
    BY LenProperties, ElementOfSeq
  <2>2. \A k \in 1..Len(s) : s[k] \in R
    BY <2>1
  <2>3. s \in [1..Len(s) -> R]
    <3> HIDE DEF R
    <3> QED
      BY <2>1, <2>2
  <2> HIDE DEF R
  <2> QED
    BY <2>1, <2>3
<1> QED
  BY <1>3, <1>4

(* Where one element alone has a part, that is all.                         *)
LEMMA FlatMapOnce ==
  ASSUME NEW S, NEW T, NEW f, Into(f, S, Seq(T)),
         NEW s \in Seq(S), NEW i \in 1..Len(s),
         \A k \in 1..Len(s) : k # i => f[s[k]] = <<>>
  PROVE  FlatMap(f, s) = f[s[i]]
<1> DEFINE j == i - 1
           r == SubSeq(s, 1, j)
           q == SubSeq(s, j + 1, Len(s))
           t == SubSeq(q, 1, 1)
           u == SubSeq(q, 1 + 1, Len(q))
<1>1. Len(s) \in Nat /\ j \in Nat /\ j <= Len(s) /\ i \in Nat /\ j + 1 = i /\ j < i /\ i <= Len(s)
  BY LenProperties
<1>2. /\ r \in Seq(S) /\ Len(r) = j /\ \A k \in 1..j : r[k] = s[k]
      /\ q \in Seq(S) /\ Len(q) = Len(s) - j /\ Cat(r, q) = s
  <2> HIDE DEF j
  <2> QED
    BY <1>1, Cut DEF r, q
<1> HIDE DEF j, r, q
<1>3. Len(q) \in Nat /\ 1 <= Len(q)
  BY <1>1, <1>2
<1>4. /\ t \in Seq(S) /\ Len(t) = 1 /\ \A k \in 1..1 : t[k] = q[k]
      /\ u \in Seq(S) /\ Len(u) = Len(q) - 1 /\ Cat(t, u) = q
  BY <1>2, <1>3, Cut
<1> HIDE DEF t, u
<1>5. \A k \in 1..Len(q) : q[k] = s[j + k]
  <2>1. \A k \in 1..(Len(r) + Len(q)) : Cat(r, q)[k] = IF k <= Len(r) THEN r[k] ELSE q[k - Len(r)]
    BY <1>2, CatType
  <2>2. ASSUME NEW k \in 1..Len(q) PROVE q[k] = s[j + k]
    <3>1. j + k \in 1..(Len(r) + Len(q)) /\ ~(j + k <= Len(r)) /\ (j + k) - Len(r) = k
      BY <1>1, <1>2, <1>3
    <3> QED
      BY <1>2, <2>1, <3>1
  <2> QED
    BY <2>2
<1>6. \A k \in 1..Len(u) : u[k] = q[k + 1]
  <2>1. \A k \in 1..(Len(t) + Len(u)) : Cat(t, u)[k] = IF k <= Len(t) THEN t[k] ELSE u[k - Len(t)]
    BY <1>4, CatType
  <2>2. ASSUME NEW k \in 1..Len(u) PROVE u[k] = q[k + 1]
    <3>1. k + 1 \in 1..(Len(t) + Len(u)) /\ ~(k + 1 <= Len(t)) /\ (k + 1) - Len(t) = k
      BY <1>3, <1>4
    <3> QED
      BY <1>4, <2>1, <3>1
  <2> QED
    BY <2>2
<1>7. FlatMap(f, r) = <<>>
  <2>1. \A k \in 1..Len(r) : f[r[k]] = <<>>
    <3>1. ASSUME NEW k \in 1..Len(r) PROVE k \in 1..Len(s) /\ k # i /\ r[k] = s[k]
      BY <1>1, <1>2
    <3> QED
      BY <3>1
  <2> QED
    BY <1>2, <2>1, FlatMapNone
<1>8. FlatMap(f, u) = <<>>
  <2>1. \A k \in 1..Len(u) : f[u[k]] = <<>>
    <3>1. ASSUME NEW k \in 1..Len(u)
          PROVE  j + (k + 1) \in 1..Len(s) /\ j + (k + 1) # i /\ u[k] = s[j + (k + 1)]
      <4>1. k + 1 \in 1..Len(q) /\ j + (k + 1) \in 1..Len(s) /\ j + (k + 1) # i
        BY <1>1, <1>2, <1>3, <1>4
      <4> QED
        BY <1>5, <1>6, <4>1
    <3> QED
      BY <3>1
  <2> QED
    BY <1>4, <2>1, FlatMapNone
<1>9. s[i] \in S /\ t = One(s[i])
  <2>1. s[i] \in S
    BY ElementOfSeq
  <2>2. t[1] = s[i]
    BY <1>1, <1>3, <1>4, <1>5
  <2>3. One(s[i]) \in Seq(S) /\ Len(One(s[i])) = 1 /\ One(s[i])[1] = s[i]
    BY <2>1, OneType
  <2>4. \A k \in 1..1 : t[k] = One(s[i])[k]
    <3>1. \A k \in 1..1 : k = 1
      OBVIOUS
    <3> QED
      BY <2>2, <2>3, <3>1
  <2>5. t = One(s[i])
    BY <1>4, <2>3, <2>4, SeqEqual
  <2> QED
    BY <2>1, <2>5
<1>10. FlatMap(f, q) = Cat(FlatMap(f, t), FlatMap(f, u))
  BY <1>4, FlatMapCat
<1>11. FlatMap(f, s) = Cat(FlatMap(f, r), FlatMap(f, q))
  BY <1>2, FlatMapCat
<1>12. FlatMap(f, t) = f[s[i]] /\ f[s[i]] \in Seq(T)
  BY <1>9, FlatMapFew, SMTT(30) DEF Into
<1> QED
  BY <1>7, <1>8, <1>10, <1>11, <1>12, CatEmpty

(* Parts of one element each are the images.                                *)
LEMMA FlatMapSingles ==
  ASSUME NEW S, NEW T, NEW f, Into(f, S, Seq(T)), NEW h, Into(h, S, T),
         \A x \in S : f[x] = One(h[x]),
         NEW s \in Seq(S)
  PROVE  FlatMap(f, s) = Mapped(h, s)
<1> DEFINE P == {u \in Seq(S) : FlatMap(f, u) = Mapped(h, u)}
<1>1. <<>> \in P
  <2>1. <<>> \in Seq(S)
    BY EmptySeq
  <2> QED
    BY <2>1, FlatMapFew, MappedFew
<1>2. ASSUME NEW u \in P, NEW x \in S PROVE Cat(u, One(x)) \in P
  <2>1. u \in Seq(S) /\ One(x) \in Seq(S) /\ Cat(u, One(x)) \in Seq(S)
    BY OneType, CatType
  <2>2. FlatMap(f, Cat(u, One(x))) = Cat(FlatMap(f, u), FlatMap(f, One(x)))
    BY <2>1, FlatMapCat
  <2>3. Mapped(h, Cat(u, One(x))) = Cat(Mapped(h, u), Mapped(h, One(x)))
    BY <2>1, MappedCat
  <2>4. FlatMap(f, One(x)) = f[x] /\ Mapped(h, One(x)) = One(h[x])
    <3> HIDE DEF P
    <3> QED
      BY FlatMapFew, MappedFew
  <2>5. f[x] = One(h[x]) /\ FlatMap(f, u) = Mapped(h, u)
    OBVIOUS
  <2> QED
    BY <2>1, <2>2, <2>3, <2>4, <2>5
<1>3. P = Seq(S)
  <2>1. P \in SUBSET Seq(S)
    OBVIOUS
  <2> HIDE DEF P
  <2> QED
    BY <1>1, <1>2, <2>1, SequenceInduction
<1> QED
  BY <1>3

(* The image under the identity.                                            *)
LEMMA MappedSelf ==
  ASSUME NEW S, NEW h, Into(h, S, S), \A x \in S : h[x] = x, NEW s \in Seq(S)
  PROVE  Mapped(h, s) = s
<1>1. /\ Mapped(h, s) \in Seq(S) /\ Len(Mapped(h, s)) = Len(s)
      /\ \A k \in 1..Len(s) : Mapped(h, s)[k] = h[s[k]]
  BY MappedType
<1>2. \A k \in 1..Len(s) : s[k] \in S
  BY ElementOfSeq
<1>3. \A k \in 1..Len(s) : Mapped(h, s)[k] = s[k]
  BY <1>1, <1>2
<1> QED
  BY <1>1, <1>3, SeqEqual

(* The image of an image.                                                   *)
LEMMA MappedTwice ==
  ASSUME NEW S, NEW T, NEW U, NEW f, Into(f, T, U), NEW h, Into(h, S, T),
         NEW g, Into(g, S, U), \A x \in S : g[x] = f[h[x]],
         NEW s \in Seq(S)
  PROVE  Mapped(f, Mapped(h, s)) = Mapped(g, s)
<1> DEFINE t == Mapped(h, s)
<1>1. /\ t \in Seq(T) /\ Len(t) = Len(s)
      /\ \A k \in 1..Len(s) : t[k] = h[s[k]]
  BY MappedType
<1> HIDE DEF t
<1>2. /\ Mapped(f, t) \in Seq(U) /\ Len(Mapped(f, t)) = Len(t)
      /\ \A k \in 1..Len(t) : Mapped(f, t)[k] = f[t[k]]
  BY <1>1, MappedType
<1>3. /\ Mapped(g, s) \in Seq(U) /\ Len(Mapped(g, s)) = Len(s)
      /\ \A k \in 1..Len(s) : Mapped(g, s)[k] = g[s[k]]
  BY MappedType
<1>4. \A k \in 1..Len(s) : Mapped(f, t)[k] = Mapped(g, s)[k]
  <2>1. \A k \in 1..Len(s) : s[k] \in S
    BY ElementOfSeq
  <2> QED
    BY <1>1, <1>2, <1>3, <2>1
<1>5. Mapped(f, t) = Mapped(g, s)
  BY <1>1, <1>2, <1>3, <1>4, SeqEqual
<1> QED
  BY <1>5 DEF t

-----------------------------------------------------------------------------
(* Lists.                                                                   *)

(* Taking one place out of a list keeps the others, in their order.         *)
LEMMA RemoveAtProperties ==
  ASSUME NEW S, NEW s \in Seq(S), NEW i \in 1..Len(s)
  PROVE  /\ RemoveAt(s, i) \in Seq(S)
         /\ Len(RemoveAt(s, i)) = Len(s) - 1
         /\ \A k \in 1..Len(s) - 1 :
               RemoveAt(s, i)[k] = IF k < i THEN s[k] ELSE s[k + 1]
<1> DEFINE a == SubSeq(s, 1, i - 1)
           b == SubSeq(s, i + 1, Len(s))
<1>1. Len(s) \in Nat /\ \A k \in 1..Len(s) : s[k] \in S
  BY LenProperties, ElementOfSeq
<1>2. a \in Seq(S) /\ Len(a) = i - 1 /\ \A k \in 1..i - 1 : a[k] = s[k]
  <2>1. \A k \in 1..i - 1 : s[k] \in S
    BY <1>1
  <2> QED
    BY <1>1, <2>1, SubSeqProperties, 1 \in Int, i - 1 \in Int
<1>3. b \in Seq(S) /\ Len(b) = Len(s) - i /\ \A k \in 1..Len(s) - i : b[k] = s[i + k]
  <2>1. \A k \in i + 1..Len(s) : s[k] \in S
    BY <1>1
  <2> QED
    BY <1>1, <2>1, SubSeqProperties, i + 1 \in Int, Len(s) \in Int
<1>4. /\ a \o b \in Seq(S) /\ Len(a \o b) = Len(a) + Len(b)
      /\ \A k \in 1..Len(a) + Len(b) :
            (a \o b)[k] = IF k <= Len(a) THEN a[k] ELSE b[k - Len(a)]
  BY <1>2, <1>3, ConcatProperties
<1> HIDE DEF a, b
<1>5. RemoveAt(s, i) = a \o b
  BY DEF RemoveAt, a, b
<1>6. Len(a) + Len(b) = Len(s) - 1
  BY <1>1, <1>2, <1>3
<1>7. ASSUME NEW k \in 1..Len(s) - 1
      PROVE  (a \o b)[k] = IF k < i THEN s[k] ELSE s[k + 1]
  <2>1. CASE k < i
    BY <2>1, <1>1, <1>2, <1>4, <1>6
  <2>2. CASE ~(k < i)
    <3>1. k - Len(a) \in 1..Len(s) - i /\ i + (k - Len(a)) = k + 1
      BY <2>2, <1>1, <1>2
    <3>2. b[k - Len(a)] = s[k + 1]
      BY <3>1, <1>3
    <3>3. k \in 1..Len(a) + Len(b) /\ ~(k <= Len(a))
      BY <2>2, <1>1, <1>2, <1>6
    <3>4. (a \o b)[k] = b[k - Len(a)]
      BY <3>3, <1>4
    <3> QED
      BY <2>2, <3>2, <3>4
  <2> QED
    BY <2>1, <2>2
<1> QED
  BY <1>4, <1>5, <1>6, <1>7

(* A list without one of its elements, where none occurs twice: the others  *)
(* are in it, once each.                                                    *)
LEMMA RemovedOnce ==
  ASSUME NEW S, NEW s \in Seq(S), \A i, j \in DOMAIN s : s[i] = s[j] => i = j,
         NEW p \in 1..Len(s)
  PROVE  /\ RemoveAt(s, p) \in Seq(S)
         /\ \A i, j \in DOMAIN RemoveAt(s, p) :
              RemoveAt(s, p)[i] = RemoveAt(s, p)[j] => i = j
         /\ ToSet(RemoveAt(s, p)) = ToSet(s) \ {s[p]}
<1> DEFINE list == RemoveAt(s, p)
<1>2. Len(s) \in Nat /\ DOMAIN s = 1..Len(s)
  BY LenProperties
<1>3. /\ list \in Seq(S) /\ Len(list) = Len(s) - 1
      /\ \A k \in 1..Len(s) - 1 : list[k] = IF k < p THEN s[k] ELSE s[k + 1]
  BY RemoveAtProperties
<1> HIDE DEF list
<1>4. DOMAIN list = 1..Len(s) - 1
  BY <1>3, LenProperties
<1> DEFINE from(k) == IF k < p THEN k ELSE k + 1
<1>5. ASSUME NEW k \in DOMAIN list
      PROVE  from(k) \in DOMAIN s /\ from(k) # p /\ list[k] = s[from(k)]
  BY <1>2, <1>3, <1>4
<1>6. ASSUME NEW k \in DOMAIN list, NEW j \in DOMAIN list, from(k) = from(j)
      PROVE  k = j
  BY <1>2, <1>4, <1>6
<1>7. p \in DOMAIN s
  BY <1>2
<1> HIDE DEF from
<1>8. \A i, j \in DOMAIN list : list[i] = list[j] => i = j
  BY <1>5, <1>6
<1>9. ASSUME NEW i \in DOMAIN list
      PROVE  list[i] # s[p] /\ \E k \in DOMAIN s : s[k] = list[i]
  BY <1>5, <1>7
<1>10. ASSUME NEW k \in DOMAIN s, s[k] # s[p]
       PROVE  \E i \in DOMAIN list : list[i] = s[k]
  <2>1. CASE k < p
    <3>1. k \in DOMAIN list /\ list[k] = s[k]
      BY <2>1, <1>2, <1>3, <1>4
    <3> QED
      BY <3>1
  <2>2. CASE k > p
    <3>1. k - 1 \in DOMAIN list /\ ~(k - 1 < p) /\ k - 1 + 1 = k
      BY <2>2, <1>2, <1>4
    <3>2. list[k - 1] = s[k]
      BY <3>1, <1>3, <1>4
    <3> QED
      BY <3>1, <3>2
  <2> QED
    BY <2>1, <2>2, <1>2, <1>10
<1>11. ToSet(list) = ToSet(s) \ {s[p]}
  <2>1. ASSUME NEW x PROVE x \in ToSet(list) <=> x \in ToSet(s) /\ x # s[p]
    <3>1. x \in ToSet(list) <=> \E i \in DOMAIN list : x = list[i]
      BY DEF ToSet
    <3>2. x \in ToSet(s) <=> \E k \in DOMAIN s : x = s[k]
      BY DEF ToSet
    <3> QED
      BY <1>9, <1>10, <3>1, <3>2
  <2> QED
    BY <2>1
<1> QED
  BY <1>3, <1>8, <1>11 DEF list

(* The list of the members of a finite set has each of them, and none twice. *)
LEMMA ListOfSet ==
  ASSUME NEW T, IsFiniteSet(T)
  PROVE  /\ SetToSeq(T) \in Seq(T)
         /\ \A i, j \in DOMAIN SetToSeq(T) : SetToSeq(T)[i] = SetToSeq(T)[j] => i = j
<1> DEFINE n == Cardinality(T)
<1>1. n \in Nat /\ ExistsBijection(1..n, T)
  BY FS_CardinalityType
<1>2. PICK f \in Bijection(1..n, T) : TRUE
  BY <1>1 DEF ExistsBijection
<1>3. f \in [1..n -> T] /\ IsInjective(f)
  BY <1>2 DEF Bijection, Injection
<1>4. SetToSeq(T) \in [1..n -> T] /\ IsInjective(SetToSeq(T))
  BY <1>3 DEF SetToSeq
<1> HIDE DEF n
<1>5. SetToSeq(T) \in Seq(T)
  BY <1>1, <1>4
<1> QED
  BY <1>4, <1>5 DEF IsInjective

(* A set of numbers with a bound has a greatest element, which Max picks.   *)
LEMMA MaxIsGreatest ==
  ASSUME NEW T \in SUBSET Nat, T # {}, NEW n \in Nat, \A x \in T : x <= n
  PROVE  Max(T) \in T /\ \A y \in T : y <= Max(T)
<1> DEFINE D == {n - x : x \in T}
<1>1. D \in SUBSET Nat /\ D # {}
  <2>1. \A x \in T : n - x \in Nat
    <3> SUFFICES ASSUME NEW x \in T PROVE n - x \in Nat
      OBVIOUS
    <3>1. x \in Nat /\ x <= n
      OBVIOUS
    <3> QED
      BY <3>1
  <2> QED
    BY <2>1
<1>2. PICK d \in D : \A e \in D : d <= e
  <2> HIDE DEF D
  <2> QED
    BY <1>1, LeastExists
<1>3. PICK x \in T : d = n - x
  BY <1>2
<1>4. ASSUME NEW y \in T PROVE x >= y
  <2>1. d <= n - y
    BY <1>2
  <2>2. x \in Nat /\ y \in Nat
    OBVIOUS
  <2> QED
    BY <1>3, <2>1, <2>2
<1>5. Max(T) \in T /\ \A y \in T : Max(T) >= y
  BY <1>3, <1>4 DEF Max
<1>6. ASSUME NEW y \in T PROVE y <= Max(T)
  <2>1. Max(T) >= y /\ Max(T) \in Nat /\ y \in Nat
    BY <1>5
  <2> HIDE DEF D
  <2> QED
    BY <2>1
<1> QED
  BY <1>5, <1>6

(* A piece of a sequence, and the same with the next element.               *)
LEMMA PieceGrows ==
  ASSUME NEW S, NEW s \in Seq(S), NEW m \in Nat, NEW n \in Nat, m <= n, n + 1 <= Len(s)
  PROVE  /\ SubSeq(s, m + 1, n) \in Seq(S) /\ Len(SubSeq(s, m + 1, n)) = n - m
         /\ s[n + 1] \in S
         /\ SubSeq(s, m + 1, n + 1) = Cat(SubSeq(s, m + 1, n), One(s[n + 1]))
<1>0. Len(s) \in Nat /\ n + 1 \in 1..Len(s)
  BY LenProperties
<1>1. s[n + 1] \in S
  BY <1>0, ElementOfSeq
<1>2. /\ SubSeq(s, m + 1, n) \in Seq(S)
      /\ Len(SubSeq(s, m + 1, n)) = IF m + 1 <= n THEN n - (m + 1) + 1 ELSE 0
  <2>1. \A i \in (m + 1)..n : s[i] \in S
    <3> SUFFICES ASSUME NEW i \in (m + 1)..n PROVE s[i] \in S
      OBVIOUS
    <3>1. i \in 1..Len(s)
      BY <1>0
    <3> QED
      BY <3>1, ElementOfSeq
  <2>2. m + 1 \in Int /\ n \in Int
    OBVIOUS
  <2> QED
    BY <2>1, <2>2, SubSeqProperties
<1>3. SubSeq(s, m + 1, n + 1) = SubSeq(s, m + 1, n) \o <<s[n + 1]>>
  <2>1. m + 1 \in 1..Len(s) /\ n + 1 \in (m + 1)..Len(s) /\ (n + 1) - 1 = n
    BY <1>0
  <2>2. SubSeq(s, m + 1, n + 1) = SubSeq(s, m + 1, (n + 1) - 1) \o <<s[n + 1]>>
    BY <2>1, SubSeqRecursiveSecond
  <2> QED
    BY <2>1, <2>2
<1>4. n - m = IF m + 1 <= n THEN n - (m + 1) + 1 ELSE 0
  OBVIOUS
<1> QED
  BY <1>1, <1>2, <1>3, <1>4 DEF Cat, One

(* A sequence that is not empty is its head and its tail.                   *)
LEMMA HeadAndTail ==
  ASSUME NEW S, NEW s \in Seq(S), s # <<>>
  PROVE  /\ Head(s) \in S /\ Head(s) = s[1] /\ Tail(s) \in Seq(S)
         /\ Len(Tail(s)) = Len(s) - 1 /\ Len(s) \in Nat \ {0}
         /\ s = Cat(One(Head(s)), Tail(s))
<1>1. Len(s) \in Nat \ {0}
  BY EmptySeq
<1>2. Head(s) \in S /\ Head(s) = s[1]
  BY <1>1, ElementOfSeq, HeadTailProperties
<1>3. Tail(s) \in Seq(S) /\ Tail(s) = SubSeq(s, 2, Len(s)) /\ Len(Tail(s)) = Len(s) - 1
  BY HeadTailProperties, TailIsSubSeq
<1>4. SubSeq(s, 1, Len(s)) = <<s[1]>> \o SubSeq(s, 1 + 1, Len(s))
  <2>1. 1 \in 1..Len(s) /\ Len(s) \in 1..Len(s)
    BY <1>1
  <2> QED
    BY <2>1, SubSeqRecursiveFirst
<1>5. SubSeq(s, 1, Len(s)) = s
  BY SubSeqFull
<1> QED
  BY <1>1, <1>2, <1>3, <1>4, <1>5 DEF Cat, One

(* Regrouping four sequences that are joined one after the other.           *)
LEMMA CatChain ==
  ASSUME NEW S, NEW q \in Seq(S), NEW r \in Seq(S), NEW s \in Seq(S), NEW t \in Seq(S)
  PROVE  Cat(Cat(Cat(q, r), s), t) = Cat(q, Cat(Cat(r, s), t))
<1>1. Cat(Cat(q, r), s) = Cat(q, Cat(r, s)) /\ Cat(r, s) \in Seq(S)
  BY CatRegroup, CatType
<1> DEFINE m == Cat(r, s)
<1>2. m \in Seq(S)
  BY <1>1
<1> HIDE DEF m
<1>3. Cat(Cat(q, m), t) = Cat(q, Cat(m, t))
  BY <1>2, CatRegroup
<1> QED
  BY <1>1, <1>3 DEF m

(* A list to which something is appended that it does not have: nothing is  *)
(* listed twice.                                                            *)
LEMMA AppendedOnce ==
  ASSUME NEW S, NEW s \in Seq(S), \A i, j \in DOMAIN s : s[i] = s[j] => i = j,
         NEW x \in S, x \notin ToSet(s), NEW list, list = Cat(s, One(x))
  PROVE  /\ list \in Seq(S) /\ list # <<>>
         /\ \A i, j \in DOMAIN list : list[i] = list[j] => i = j
         /\ ToSet(list) = ToSet(s) \cup {x}
<1>1. Len(s) \in Nat /\ DOMAIN s = 1..Len(s)
  BY LenProperties
<1>2. /\ list \in Seq(S) /\ Len(list) = Len(s) + 1 /\ DOMAIN list = 1..(Len(s) + 1)
      /\ \A i \in 1..Len(s) : list[i] = s[i]
      /\ list[Len(s) + 1] = x
  <2>1. list = Append(s, x)
    BY OneType
  <2> QED
    BY <1>1, <2>1, AppendProperties, LenProperties
<1>3. \A i \in 1..Len(s) : s[i] # x
  BY <1>1 DEF ToSet
<1>4. \A i, j \in DOMAIN list : list[i] = list[j] => i = j
  <2> SUFFICES ASSUME NEW i \in DOMAIN list, NEW j \in DOMAIN list, list[i] = list[j]
               PROVE  i = j
    OBVIOUS
  <2>1. i \in 1..Len(s) \/ i = Len(s) + 1
    BY <1>1, <1>2
  <2>2. j \in 1..Len(s) \/ j = Len(s) + 1
    BY <1>1, <1>2
  <2> QED
    BY <1>1, <1>2, <1>3, <2>1, <2>2
<1>5. ToSet(list) = ToSet(s) \cup {x}
  <2>1. ASSUME NEW y PROVE y \in ToSet(list) <=> y \in ToSet(s) \/ y = x
    <3>1. y \in ToSet(list) <=> \E i \in 1..(Len(s) + 1) : y = list[i]
      BY <1>2 DEF ToSet
    <3>2. y \in ToSet(s) <=> \E i \in 1..Len(s) : y = s[i]
      BY <1>1 DEF ToSet
    <3>3. 1..(Len(s) + 1) = (1..Len(s)) \cup {Len(s) + 1}
      BY <1>1
    <3> QED
      BY <1>2, <3>1, <3>2, <3>3
  <2> QED
    BY <2>1
<1>6. list # <<>>
  BY <1>1, <1>2, EmptySeq
<1> QED
  BY <1>2, <1>4, <1>5, <1>6

(* A sequence with one element more in front.                               *)
LEMMA InFront ==
  ASSUME NEW S, NEW h \in S, NEW t \in Seq(S)
  PROVE  /\ Cat(One(h), t) \in Seq(S) /\ Len(Cat(One(h), t)) = Len(t) + 1
         /\ \A i \in 1..(Len(t) + 1) : Cat(One(h), t)[i] = IF i <= 1 THEN h ELSE t[i - 1]
<1> DEFINE o == One(h)
<1>1. o \in Seq(S) /\ Len(o) = 1 /\ o[1] = h
  BY OneType
<1> HIDE DEF o
<1> DEFINE c == Cat(o, t)
<1>2. /\ c \in Seq(S) /\ Len(c) = Len(o) + Len(t)
      /\ \A i \in 1..(Len(o) + Len(t)) : c[i] = IF i <= Len(o) THEN o[i] ELSE t[i - Len(o)]
  BY <1>1, CatType
<1> HIDE DEF c
<1>3. Len(t) \in Nat
  BY LenProperties
<1>4. ASSUME NEW i \in 1..(Len(t) + 1) PROVE c[i] = IF i <= 1 THEN h ELSE t[i - 1]
  <2>1. c[i] = IF i <= 1 THEN o[i] ELSE t[i - 1]
    BY <1>1, <1>2, <1>3
  <2>2. i <= 1 => i = 1
    BY <1>3
  <2> QED
    BY <1>1, <2>1, <2>2
<1> QED
  BY <1>1, <1>2, <1>3, <1>4 DEF c, o

(* A list without its first entry.                                          *)
LEMMA TailOnce ==
  ASSUME NEW S, NEW h \in S, NEW list \in Seq(S),
         \A i, j \in DOMAIN Cat(One(h), list) :
             Cat(One(h), list)[i] = Cat(One(h), list)[j] => i = j
  PROVE  /\ \A i, j \in DOMAIN list : list[i] = list[j] => i = j
         /\ ToSet(list) = ToSet(Cat(One(h), list)) \ {h} /\ h \in ToSet(Cat(One(h), list))
<1> DEFINE s == Cat(One(h), list)
<1>0. /\ s \in Seq(S) /\ Len(s) = Len(list) + 1
      /\ \A i \in 1..(Len(list) + 1) : s[i] = IF i <= 1 THEN h ELSE list[i - 1]
      /\ \A i, j \in DOMAIN s : s[i] = s[j] => i = j
  <2>1. /\ s \in Seq(S) /\ Len(s) = Len(list) + 1
        /\ \A i \in 1..(Len(list) + 1) : s[i] = IF i <= 1 THEN h ELSE list[i - 1]
    BY InFront
  <2> QED
    BY <2>1
<1> HIDE DEF s
<1>1. /\ Len(list) \in Nat /\ DOMAIN list = 1..Len(list) /\ Len(s) = Len(list) + 1
      /\ DOMAIN s = 1..Len(s)
      /\ \A i \in 1..Len(s) : s[i] = IF i <= 1 THEN h ELSE list[i - 1]
  BY <1>0, LenProperties
<1>2. /\ DOMAIN list = 1..(Len(s) - 1) /\ Len(s) \in Nat \ {0} /\ s[1] = h
      /\ \A i \in 1..(Len(s) - 1) : list[i] = s[i + 1]
  BY <1>1
<1>3. \A i, j \in DOMAIN list : list[i] = list[j] => i = j
  <2> SUFFICES ASSUME NEW i \in DOMAIN list, NEW j \in DOMAIN list, list[i] = list[j]
               PROVE  i = j
    OBVIOUS
  <2>1. i + 1 \in DOMAIN s /\ j + 1 \in DOMAIN s /\ s[i + 1] = s[j + 1]
    BY <1>1, <1>2
  <2>2. i + 1 = j + 1
    BY <1>0, <2>1
  <2> QED
    BY <1>1, <1>2, <2>2
<1>4. ToSet(list) = ToSet(s) \ {h} /\ h \in ToSet(s)
  <2>1. ASSUME NEW y PROVE y \in ToSet(list) <=> y \in ToSet(s) /\ y # h
    <3>1. y \in ToSet(list) <=> \E i \in 1..(Len(s) - 1) : y = list[i]
      BY <1>2 DEF ToSet
    <3>2. y \in ToSet(s) <=> \E i \in 1..Len(s) : y = s[i]
      BY <1>1 DEF ToSet
    <3>3. ASSUME y \in ToSet(list) PROVE y \in ToSet(s) /\ y # h
      <4>1. PICK i \in 1..(Len(s) - 1) : y = list[i]
        BY <3>1, <3>3
      <4>2. i + 1 \in 1..Len(s) /\ y = s[i + 1] /\ 1 \in 1..Len(s) /\ i + 1 # 1
        BY <1>1, <1>2, <4>1
      <4> QED
        BY <1>0, <1>1, <1>2, <3>2, <4>2
    <3>4. ASSUME y \in ToSet(s), y # h PROVE y \in ToSet(list)
      <4>1. PICK i \in 1..Len(s) : y = s[i]
        BY <3>2, <3>4
      <4>2. i # 1
        BY <1>2, <3>4, <4>1
      <4>3. i - 1 \in 1..(Len(s) - 1) /\ (i - 1) + 1 = i
        BY <1>1, <4>2
      <4>4. list[i - 1] = s[i]
        BY <1>2, <4>3
      <4> QED
        BY <3>1, <4>1, <4>3, <4>4
    <3> QED
      BY <3>3, <3>4
  <2>2. h \in ToSet(s)
    BY <1>1, <1>2 DEF ToSet
  <2> QED
    BY <2>1, <2>2
<1> QED
  BY <1>3, <1>4 DEF s

(* A sequence whose elements are all in a set is one of that set.           *)
LEMMA TextWithin ==
  ASSUME NEW S, NEW T, NEW s \in Seq(S), \A i \in 1..Len(s) : s[i] \in T
  PROVE  s \in Seq(T)
<1>1. Len(s) \in Nat /\ s = [i \in 1..Len(s) |-> s[i]]
  BY LenProperties
<1> DEFINE n == Len(s)
<1>2. \A i \in 1..n : s[i] \in T
  OBVIOUS
<1>3. n \in Nat /\ s = [i \in 1..n |-> s[i]]
  BY <1>1
<1> HIDE DEF n
<1>4. s \in [1..n -> T]
  BY <1>2, <1>3
<1> QED
  BY <1>3, <1>4

(* A piece of a sequence, element by element.                               *)
LEMMA PieceElements ==
  ASSUME NEW S, NEW s \in Seq(S), NEW i \in Nat \ {0}, NEW j \in Nat, j <= Len(s)
  PROVE  /\ SubSeq(s, i, j) \in Seq(S)
         /\ Len(SubSeq(s, i, j)) = IF i <= j THEN (j - i) + 1 ELSE 0
         /\ DOMAIN SubSeq(s, i, j) = 1..Len(SubSeq(s, i, j))
         /\ \A k \in 1..((j - i) + 1) : SubSeq(s, i, j)[k] = s[(i + k) - 1]
         /\ ToSet(SubSeq(s, i, j)) = {s[k] : k \in i..j}
<1> DEFINE t == SubSeq(s, i, j)
           n == (j - i) + 1
<1>1. /\ t \in Seq(S) /\ Len(t) = IF i <= j THEN n ELSE 0
      /\ \A k \in 1..n : t[k] = s[(i + k) - 1]
  <2>1. \A k \in i..j : s[k] \in S
    <3> SUFFICES ASSUME NEW k \in i..j PROVE s[k] \in S
      OBVIOUS
    <3>1. k \in 1..Len(s)
      BY LenProperties
    <3> QED
      BY <3>1, ElementOfSeq
  <2>2. i \in Int /\ j \in Int
    OBVIOUS
  <2>3. \A k \in 1..((j - i) + 1) : (i + k) - 1 = i + k - 1 /\ (j - i) + 1 = j - i + 1
    OBVIOUS
  <2> QED
    BY <2>1, <2>2, <2>3, SubSeqProperties
<1>2. DOMAIN t = 1..Len(t)
  <2> HIDE DEF t
  <2> QED
    BY <1>1, LenProperties
<1>3. ToSet(t) = {s[k] : k \in i..j}
  <2> HIDE DEF t
  <2>1. DOMAIN t = 1..n
    BY <1>1, <1>2
  <2>2. ASSUME NEW k \in 1..n PROVE (i + k) - 1 \in i..j
    OBVIOUS
  <2>3. ASSUME NEW k \in i..j PROVE \E m \in 1..n : (i + m) - 1 = k
    <3>1. (k - i) + 1 \in 1..n /\ (i + ((k - i) + 1)) - 1 = k
      OBVIOUS
    <3> QED
      BY <3>1
  <2> HIDE DEF n
  <2>4. ToSet(t) = {t[m] : m \in 1..n}
    BY <2>1 DEF ToSet
  <2>5. \A m \in 1..n : t[m] \in {s[k] : k \in i..j}
    BY <1>1, <2>2
  <2>6. \A k \in i..j : s[k] \in {t[m] : m \in 1..n}
    BY <1>1, <2>3
  <2> QED
    BY <2>4, <2>5, <2>6
<1> QED
  BY <1>1, <1>2, <1>3

(* The first k rows of a list, flattened, and what is behind them.          *)
FlatTo(rows, k) == FlattenSeq(SubSeq(rows, 1, k))
FlatFrom(rows, k) == FlattenSeq(SubSeq(rows, k + 1, Len(rows)))

(* How both change from one row to the next.                                *)
LEMMA FlatEnds ==
  ASSUME NEW S, NEW rows \in Seq(Seq(S))
  PROVE  /\ FlatTo(rows, 0) = <<>> /\ FlatTo(rows, Len(rows)) = FlattenSeq(rows)
         /\ FlatFrom(rows, 0) = FlattenSeq(rows) /\ FlatFrom(rows, Len(rows)) = <<>>
<1>0. Len(rows) \in Nat
  BY LenProperties
<1>1. SubSeq(rows, 1, 0) = <<>> /\ SubSeq(rows, Len(rows) + 1, Len(rows)) = <<>>
  BY <1>0, SubSeqEmpty
<1>2. SubSeq(rows, 1, Len(rows)) = rows
  BY SubSeqFull
<1>3. FlattenSeq(<<>>) = <<>>
  BY FlattenFew
<1>4. SubSeq(rows, 0 + 1, Len(rows)) = rows
  BY <1>2, 0 + 1 = 1
<1> QED
  BY <1>1, <1>2, <1>3, <1>4 DEF FlatTo, FlatFrom

(* One row more in front, and one less behind.                              *)
LEMMA FlatStep ==
  ASSUME NEW S, NEW rows \in Seq(Seq(S)), NEW k \in 1..Len(rows)
  PROVE  /\ rows[k] \in Seq(S)
         /\ FlatTo(rows, k - 1) \in Seq(S) /\ FlatTo(rows, k) \in Seq(S)
         /\ FlatTo(rows, k) = Cat(FlatTo(rows, k - 1), rows[k])
         /\ FlatFrom(rows, k - 1) \in Seq(S) /\ FlatFrom(rows, k) \in Seq(S)
         /\ FlatFrom(rows, k - 1) = Cat(rows[k], FlatFrom(rows, k))
<1>0. Len(rows) \in Nat /\ k \in Nat /\ k - 1 \in Nat /\ (k - 1) + 1 = k /\ k - 1 <= Len(rows) /\ k <= Len(rows)
  BY LenProperties
<1>1. rows[k] \in Seq(S)
  BY ElementOfSeq
<1> DEFINE a == SubSeq(rows, 1, k - 1)
           b == SubSeq(rows, k + 1, Len(rows))
           r == Len(rows)
<1>2. a \in Seq(Seq(S)) /\ b \in Seq(Seq(S)) /\ SubSeq(rows, 1, k) \in Seq(Seq(S))
      /\ SubSeq(rows, k, r) \in Seq(Seq(S))
  <2>1. 1 \in Nat \ {0} /\ k + 1 \in Nat \ {0} /\ k \in Nat \ {0} /\ r \in Nat /\ r <= Len(rows)
    BY <1>0
  <2> QED
    BY <1>0, <2>1, PieceElements
<1>3. SubSeq(rows, 1, k) = Cat(a, One(rows[k]))
  <2>1. 1 \in 1..Len(rows) /\ k \in 1..Len(rows)
    BY <1>0
  <2> QED
    BY <2>1, SubSeqRecursiveSecond DEF Cat, One
<1>4. SubSeq(rows, k, r) = Cat(One(rows[k]), b)
  <2>1. r \in k..Len(rows)
    BY <1>0
  <2> QED
    BY <2>1, SubSeqRecursiveFirst DEF Cat, One
<1>5. One(rows[k]) \in Seq(Seq(S)) /\ FlattenSeq(One(rows[k])) = rows[k]
  BY <1>1, OneType, FlattenFew
<1>6. FlattenSeq(Cat(a, One(rows[k]))) = Cat(FlattenSeq(a), rows[k]) /\ FlattenSeq(a) \in Seq(S)
  <2> HIDE DEF a
  <2> QED
    BY <1>1, <1>2, FlattenOne
<1>7. FlattenSeq(Cat(One(rows[k]), b)) = Cat(rows[k], FlattenSeq(b)) /\ FlattenSeq(b) \in Seq(S)
  <2> HIDE DEF b
  <2>1. FlattenSeq(Cat(One(rows[k]), b)) = Cat(FlattenSeq(One(rows[k])), FlattenSeq(b))
    BY <1>2, <1>5, FlattenCat
  <2> QED
    BY <1>2, <1>5, <2>1, FlattenAppend
<1>8. FlattenSeq(SubSeq(rows, 1, k)) \in Seq(S) /\ FlattenSeq(SubSeq(rows, k, r)) \in Seq(S)
  BY <1>2, FlattenAppend
<1> QED
  BY <1>0, <1>1, <1>3, <1>4, <1>6, <1>7, <1>8 DEF FlatTo, FlatFrom

(* The rows before and behind the k-th are together all of them.            *)
LEMMA FlatSplits ==
  ASSUME NEW S, NEW rows \in Seq(Seq(S)), NEW k \in 0..Len(rows)
  PROVE  /\ FlatTo(rows, k) \in Seq(S) /\ FlatFrom(rows, k) \in Seq(S)
         /\ FlattenSeq(rows) = Cat(FlatTo(rows, k), FlatFrom(rows, k))
<1>0. Len(rows) \in Nat /\ k \in Nat /\ k <= Len(rows)
  BY LenProperties
<1> DEFINE a == SubSeq(rows, 1, k)
           b == SubSeq(rows, k + 1, Len(rows))
<1>1. a \in Seq(Seq(S)) /\ b \in Seq(Seq(S)) /\ Cat(a, b) = rows
  BY <1>0, Cut
<1> HIDE DEF a, b
<1>2. FlattenSeq(Cat(a, b)) = Cat(FlattenSeq(a), FlattenSeq(b))
  BY <1>1, FlattenCat
<1>3. FlattenSeq(a) \in Seq(S) /\ FlattenSeq(b) \in Seq(S)
  BY <1>1, FlattenAppend
<1> QED
  BY <1>1, <1>2, <1>3 DEF FlatTo, FlatFrom, a, b

(* How often c is in a text.                                                *)
Places(s, c) == {i \in 1..Len(s) : s[i] = c}

(* There are finitely many of them, and none where c does not occur.        *)
LEMMA PlacesFinite ==
  ASSUME NEW S, NEW s \in Seq(S), NEW c
  PROVE  /\ IsFiniteSet(Places(s, c)) /\ Cardinality(Places(s, c)) \in Nat
         /\ Cardinality(Places(s, c)) = 0 <=> \A i \in 1..Len(s) : s[i] # c
<1>1. Len(s) \in Nat
  BY LenProperties
<1>2. IsFiniteSet(1..Len(s))
  BY <1>1, FS_Interval
<1>3. Places(s, c) \subseteq 1..Len(s)
  BY DEF Places
<1>4. IsFiniteSet(Places(s, c))
  BY <1>2, <1>3, FS_Subset
<1>5. Cardinality(Places(s, c)) \in Nat
  BY <1>4, FS_CardinalityType
<1>6. Cardinality(Places(s, c)) = 0 <=> Places(s, c) = {}
  BY <1>4, FS_EmptySet
<1> QED
  BY <1>4, <1>5, <1>6 DEF Places

(* A character at the end is a place more if it is c.                       *)
LEMMA PlacesOneMore ==
  ASSUME NEW S, NEW s \in Seq(S), NEW x \in S, NEW c
  PROVE  Cardinality(Places(Cat(s, One(x)), c))
            = Cardinality(Places(s, c)) + (IF x = c THEN 1 ELSE 0)
<1> DEFINE e == One(x)
           t == Cat(s, e)
           n == Len(s)
<1>1. n \in Nat /\ e \in Seq(S) /\ Len(e) = 1 /\ e[1] = x
  BY OneType, LenProperties
<1>2. /\ Len(t) = n + 1
      /\ \A i \in 1..(n + 1) : t[i] = IF i <= n THEN s[i] ELSE e[i - n]
  <2> HIDE DEF e
  <2>1. /\ Len(t) = n + Len(e)
        /\ \A i \in 1..(n + Len(e)) : t[i] = IF i <= n THEN s[i] ELSE e[i - n]
    BY <1>1, CatType
  <2> HIDE DEF t
  <2> QED
    BY <1>1, <2>1
<1> HIDE DEF e
<1> HIDE DEF t
<1>3. t[n + 1] = x /\ \A i \in 1..n : t[i] = s[i]
  <2>1. n + 1 \in 1..(n + 1) /\ ~(n + 1 <= n) /\ (n + 1) - n = 1
    BY <1>1
  <2>2. \A i \in 1..n : i \in 1..(n + 1) /\ i <= n
    BY <1>1
  <2> HIDE DEF n
  <2> QED
    BY <1>1, <1>2, <2>1, <2>2
<1>4. Places(t, c) = Places(s, c) \cup (IF x = c THEN {n + 1} ELSE {})
  <2>1. \A i : i \in 1..(n + 1) <=> i \in 1..n \/ i = n + 1
    BY <1>1
  <2> HIDE DEF n
  <2> QED
    BY <1>2, <1>3, <2>1 DEF Places, n
<1>5. n + 1 \notin Places(s, c) /\ IsFiniteSet(Places(s, c))
  <2>1. n + 1 \notin 1..n
    BY <1>1
  <2> QED
    BY <2>1, PlacesFinite DEF Places
<1>6. Cardinality(Places(s, c)) \in Nat
  BY PlacesFinite
<1>7. CASE x = c
  <2>1. Places(t, c) = Places(s, c) \cup {n + 1}
    BY <1>4, <1>7
  <2>2. Cardinality(Places(s, c) \cup {n + 1}) = Cardinality(Places(s, c)) + 1
    BY <1>5, FS_AddElement
  <2> QED
    BY <1>7, <2>1, <2>2 DEF t, e
<1>8. CASE x # c
  <2>1. Places(t, c) = Places(s, c)
    BY <1>4, <1>8
  <2> QED
    BY <1>6, <1>8, <2>1 DEF t, e
<1> QED
  BY <1>7, <1>8

(* The beginning of a joined sequence.                                      *)
LEMMA CatCut ==
  ASSUME NEW S, NEW r \in Seq(S), NEW s \in Seq(S), NEW k \in 0..Len(s)
  PROVE  /\ Len(Cat(r, s)) = Len(r) + Len(s) /\ Len(r) \in Nat /\ Len(s) \in Nat
         /\ Cat(r, SubSeq(s, 1, k)) = SubSeq(Cat(r, s), 1, Len(r) + k)
         /\ r = SubSeq(Cat(r, s), 1, Len(r))
<1> DEFINE a == Cat(r, s)
<1>0. /\ Len(r) \in Nat /\ Len(s) \in Nat /\ k \in Nat /\ k <= Len(s)
      /\ Len(r) + k \in Nat /\ Len(r) + k <= Len(r) + Len(s) /\ Len(r) <= Len(r) + Len(s)
  BY LenProperties
<1>1. /\ a \in Seq(S) /\ Len(a) = Len(r) + Len(s)
      /\ \A i \in 1..(Len(r) + Len(s)) : a[i] = IF i <= Len(r) THEN r[i] ELSE s[i - Len(r)]
  BY CatType
<1> HIDE DEF a
<1>2. /\ SubSeq(s, 1, k) \in Seq(S) /\ Len(SubSeq(s, 1, k)) = k
      /\ \A i \in 1..k : SubSeq(s, 1, k)[i] = s[i]
  BY <1>0, Cut
<1>3. /\ SubSeq(a, 1, Len(r)) \in Seq(S) /\ Len(SubSeq(a, 1, Len(r))) = Len(r)
      /\ \A i \in 1..Len(r) : SubSeq(a, 1, Len(r))[i] = a[i]
  BY <1>0, <1>1, Cut
<1>4. /\ SubSeq(a, 1, Len(r) + k) \in Seq(S) /\ Len(SubSeq(a, 1, Len(r) + k)) = Len(r) + k
      /\ \A i \in 1..(Len(r) + k) : SubSeq(a, 1, Len(r) + k)[i] = a[i]
  BY <1>0, <1>1, Cut
<1>5. r = SubSeq(a, 1, Len(r))
  <2>1. \A i \in 1..Len(r) : i \in 1..(Len(r) + Len(s)) /\ i <= Len(r)
    BY <1>0
  <2>2. \A i \in 1..Len(r) : r[i] = SubSeq(a, 1, Len(r))[i]
    BY <1>1, <1>3, <2>1
  <2> QED
    BY <1>3, <2>2, SeqEqual
<1>6. Cat(r, SubSeq(s, 1, k)) = SubSeq(a, 1, Len(r) + k)
  <2> DEFINE b == Cat(r, SubSeq(s, 1, k))
             c == SubSeq(s, 1, k)
             d == SubSeq(a, 1, Len(r) + k)
  <2>1. /\ b \in Seq(S) /\ Len(b) = Len(r) + k
        /\ \A i \in 1..(Len(r) + k) : b[i] = IF i <= Len(r) THEN r[i] ELSE c[i - Len(r)]
    <3>1. c \in Seq(S) /\ Len(c) = k
      BY <1>2
    <3> HIDE DEF c
    <3>2. /\ Cat(r, c) \in Seq(S) /\ Len(Cat(r, c)) = Len(r) + Len(c)
          /\ \A i \in 1..(Len(r) + Len(c)) :
                Cat(r, c)[i] = IF i <= Len(r) THEN r[i] ELSE c[i - Len(r)]
      BY <3>1, CatType
    <3>3. b = Cat(r, c)
      BY DEF c
    <3> HIDE DEF b
    <3> QED
      BY <3>1, <3>2, <3>3
  <2>2. /\ d \in Seq(S) /\ Len(d) = Len(r) + k
        /\ \A i \in 1..(Len(r) + k) : d[i] = a[i]
    BY <1>4
  <2>3. \A i \in 1..k : c[i] = s[i]
    BY <1>2
  <2> HIDE DEF b, c, d
  <2>4. ASSUME NEW i \in 1..(Len(r) + k) PROVE b[i] = d[i]
    <3>1. i \in 1..(Len(r) + Len(s)) /\ (~(i <= Len(r)) => i - Len(r) \in 1..k)
      BY <1>0
    <3>2. a[i] = IF i <= Len(r) THEN r[i] ELSE s[i - Len(r)]
      BY <1>1, <3>1
    <3>3. b[i] = IF i <= Len(r) THEN r[i] ELSE c[i - Len(r)]
      BY <2>1
    <3>4. ~(i <= Len(r)) => c[i - Len(r)] = s[i - Len(r)]
      BY <2>3, <3>1
    <3>5. d[i] = a[i]
      BY <2>2
    <3> QED
      BY <3>2, <3>3, <3>4, <3>5
  <2>5. b = d
    BY <2>1, <2>2, <2>4, SeqEqual
  <2> QED
    BY <2>5 DEF b, d
<1> QED
  BY <1>0, <1>1, <1>5, <1>6 DEF a

(* The beginning of a joined sequence that is no longer than its first part.*)
LEMMA CutOfCat ==
  ASSUME NEW S, NEW r \in Seq(S), NEW s \in Seq(S), NEW k \in 0..Len(r)
  PROVE  SubSeq(Cat(r, s), 1, k) = SubSeq(r, 1, k)
<1> DEFINE a == Cat(r, s)
<1>0. /\ Len(r) \in Nat /\ Len(s) \in Nat /\ k \in Nat /\ k <= Len(r) /\ k <= Len(r) + Len(s)
  BY LenProperties
<1>1. /\ a \in Seq(S) /\ Len(a) = Len(r) + Len(s)
      /\ \A i \in 1..(Len(r) + Len(s)) : a[i] = IF i <= Len(r) THEN r[i] ELSE s[i - Len(r)]
  BY CatType
<1> HIDE DEF a
<1>2. /\ SubSeq(r, 1, k) \in Seq(S) /\ Len(SubSeq(r, 1, k)) = k
      /\ \A i \in 1..k : SubSeq(r, 1, k)[i] = r[i]
  BY <1>0, Cut
<1>3. /\ SubSeq(a, 1, k) \in Seq(S) /\ Len(SubSeq(a, 1, k)) = k
      /\ \A i \in 1..k : SubSeq(a, 1, k)[i] = a[i]
  BY <1>0, <1>1, Cut
<1>4. \A i \in 1..k : i \in 1..(Len(r) + Len(s)) /\ i <= Len(r)
  BY <1>0
<1>5. \A i \in 1..k : SubSeq(a, 1, k)[i] = SubSeq(r, 1, k)[i]
  BY <1>1, <1>2, <1>3, <1>4
<1>6. SubSeq(a, 1, k) = SubSeq(r, 1, k)
  BY <1>2, <1>3, <1>5, SeqEqual
<1> QED
  BY <1>6 DEF a

(* What is in front of a sequence, and the rest.                            *)
LEMMA FrontAndRest ==
  ASSUME NEW S, NEW h \in S, NEW t \in Seq(S)
  PROVE  /\ Cat(One(h), t) # <<>> /\ Cat(One(h), t)[1] = h
         /\ Head(Cat(One(h), t)) = h /\ Tail(Cat(One(h), t)) = t
<1> DEFINE a == Cat(One(h), t)
<1>0. Len(t) \in Nat
  BY LenProperties
<1>1. /\ a \in Seq(S) /\ Len(a) = Len(t) + 1
      /\ \A i \in 1..(Len(t) + 1) : a[i] = IF i <= 1 THEN h ELSE t[i - 1]
  BY InFront
<1> HIDE DEF a
<1>2. a # <<>>
  BY <1>0, <1>1, EmptySeq
<1>3. 1 \in 1..(Len(t) + 1) /\ 1 <= 1
  BY <1>0
<1>4. a[1] = h
  BY <1>1, <1>3
<1>5. Head(a) = a[1] /\ Tail(a) \in Seq(S) /\ Len(Tail(a)) = Len(t)
  BY <1>0, <1>1, <1>2, HeadAndTail
<1>6. \A i \in 1..Len(Tail(a)) : Tail(a)[i] = a[i + 1]
  BY <1>1, <1>2, HeadTailProperties
<1>7. ASSUME NEW i \in 1..Len(t) PROVE Tail(a)[i] = t[i]
  <2>1. i + 1 \in 1..(Len(t) + 1) /\ ~(i + 1 <= 1) /\ (i + 1) - 1 = i
    BY <1>0
  <2>2. a[i + 1] = t[i]
    BY <1>1, <2>1
  <2> QED
    BY <1>5, <1>6, <2>2
<1>8. Tail(a) = t
  BY <1>5, <1>7, SeqEqual
<1> QED
  BY <1>2, <1>4, <1>5, <1>8 DEF a

(* The elements of joined and of flattened sequences.                       *)
LEMMA CatElements ==
  ASSUME NEW S, NEW r \in Seq(S), NEW s \in Seq(S)
  PROVE  ToSet(Cat(r, s)) = ToSet(r) \cup ToSet(s)
<1> DEFINE a == Cat(r, s)
<1>0. Len(r) \in Nat /\ Len(s) \in Nat
  BY LenProperties
<1>1. /\ a \in Seq(S) /\ Len(a) = Len(r) + Len(s)
      /\ \A i \in 1..(Len(r) + Len(s)) : a[i] = IF i <= Len(r) THEN r[i] ELSE s[i - Len(r)]
  BY CatType
<1> HIDE DEF a
<1>2. /\ ToSet(a) = {a[i] : i \in 1..(Len(r) + Len(s))}
      /\ ToSet(r) = {r[i] : i \in 1..Len(r)} /\ ToSet(s) = {s[i] : i \in 1..Len(s)}
  BY <1>1, LenProperties DEF ToSet
<1>3. ASSUME NEW i \in 1..(Len(r) + Len(s)) PROVE a[i] \in ToSet(r) \cup ToSet(s)
  <2>1. CASE i <= Len(r)
    BY <1>0, <1>1, <1>2, <2>1
  <2>2. CASE ~(i <= Len(r))
    <3>1. i - Len(r) \in 1..Len(s)
      BY <1>0, <2>2
    <3> QED
      BY <1>1, <1>2, <2>2, <3>1
  <2> QED
    BY <2>1, <2>2
<1>4. ASSUME NEW i \in 1..Len(r) PROVE r[i] \in ToSet(a)
  <2>1. i \in 1..(Len(r) + Len(s)) /\ i <= Len(r)
    BY <1>0
  <2> QED
    BY <1>1, <1>2, <2>1
<1>5. ASSUME NEW i \in 1..Len(s) PROVE s[i] \in ToSet(a)
  <2>1. i + Len(r) \in 1..(Len(r) + Len(s)) /\ ~(i + Len(r) <= Len(r)) /\ (i + Len(r)) - Len(r) = i
    BY <1>0
  <2>2. a[i + Len(r)] = s[i]
    BY <1>1, <2>1
  <2> QED
    BY <1>2, <2>1, <2>2
<1>6. ToSet(a) = ToSet(r) \cup ToSet(s)
  BY <1>2, <1>3, <1>4, <1>5
<1> QED
  BY <1>6 DEF a

(* What a row holds is in the flattened list, which is no shorter.          *)
LEMMA FlattenElements ==
  ASSUME NEW S, NEW rows \in Seq(Seq(S)), NEW k \in 1..Len(rows)
  PROVE  /\ ToSet(rows[k]) \subseteq ToSet(FlattenSeq(rows))
         /\ Len(rows[k]) <= Len(FlattenSeq(rows)) /\ Len(FlattenSeq(rows)) \in Nat
<1> DEFINE r == rows[k]
           before == FlatTo(rows, k - 1)
           upto == FlatTo(rows, k)
           from == FlatFrom(rows, k)
           all == FlattenSeq(rows)
<1>1. r \in Seq(S) /\ before \in Seq(S) /\ upto \in Seq(S) /\ upto = Cat(before, r)
  BY FlatStep
<1>2. from \in Seq(S) /\ all = Cat(upto, from)
  <2>1. k \in 0..Len(rows)
    BY LenProperties
  <2> QED
    BY <2>1, FlatSplits
<1> HIDE DEF r, before, upto, from, all
<1>3. ToSet(upto) = ToSet(before) \cup ToSet(r) /\ Len(upto) = Len(before) + Len(r)
  <2>1. ToSet(Cat(before, r)) = ToSet(before) \cup ToSet(r)
    BY <1>1, CatElements
  <2>2. Len(Cat(before, r)) = Len(before) + Len(r)
    BY <1>1, CatType
  <2> QED
    BY <1>1, <2>1, <2>2
<1>4. ToSet(all) = ToSet(upto) \cup ToSet(from) /\ Len(all) = Len(upto) + Len(from)
  <2>1. ToSet(Cat(upto, from)) = ToSet(upto) \cup ToSet(from)
    BY <1>1, <1>2, CatElements
  <2>2. Len(Cat(upto, from)) = Len(upto) + Len(from)
    BY <1>1, <1>2, CatType
  <2> QED
    BY <1>2, <2>1, <2>2
<1>5. Len(r) \in Nat /\ Len(before) \in Nat /\ Len(from) \in Nat
  BY <1>1, <1>2, LenProperties
<1>6. ToSet(r) \subseteq ToSet(all) /\ Len(r) <= Len(all) /\ Len(all) \in Nat
  BY <1>3, <1>4, <1>5
<1> QED
  BY <1>6 DEF r, all

(* Without x in any row there is none in all of them.                       *)
LEMMA FlattenWithout ==
  ASSUME NEW S, NEW rows \in Seq(Seq(S)), NEW x, \A k \in 1..Len(rows) : x \notin ToSet(rows[k])
  PROVE  x \notin ToSet(FlattenSeq(rows))
<1> DEFINE T == S \ {x}
<1>0. Len(rows) \in Nat
  BY LenProperties
<1>1. ASSUME NEW k \in 1..Len(rows) PROVE rows[k] \in Seq(T)
  <2>1. rows[k] \in Seq(S)
    BY ElementOfSeq
  <2>2. \A i \in 1..Len(rows[k]) : rows[k][i] \in S /\ rows[k][i] # x
    <3>1. DOMAIN rows[k] = 1..Len(rows[k]) /\ \A i \in 1..Len(rows[k]) : rows[k][i] \in S
      BY <2>1, LenProperties, ElementOfSeq
    <3> QED
      BY <3>1 DEF ToSet
  <2>3. \A i \in 1..Len(rows[k]) : rows[k][i] \in T
    BY <2>2
  <2> HIDE DEF T
  <2> QED
    BY <2>1, <2>3, TextWithin
<1> HIDE DEF T
<1>2. rows \in Seq(Seq(T))
  BY <1>1, TextWithin
<1>3. FlattenSeq(rows) \in Seq(T)
  BY <1>2, FlattenAppend
<1>4. DOMAIN FlattenSeq(rows) = 1..Len(FlattenSeq(rows))
      /\ \A i \in 1..Len(FlattenSeq(rows)) : FlattenSeq(rows)[i] \in T
  BY <1>3, LenProperties, ElementOfSeq
<1> QED
  BY <1>4 DEF ToSet, T

(* What is left of two joined sequences without the first.                  *)
LEMMA CatRest ==
  ASSUME NEW S, NEW r \in Seq(S), NEW s \in Seq(S)
  PROVE  SubSeq(Cat(r, s), Len(r) + 1, Len(r) + Len(s)) = s
<1> DEFINE a == Cat(r, s)
           k == Len(r)
           t == SubSeq(a, k + 1, Len(a))
<1>0. Len(r) \in Nat /\ Len(s) \in Nat
  BY LenProperties
<1>1. /\ a \in Seq(S) /\ Len(a) = Len(r) + Len(s)
      /\ \A i \in 1..(Len(r) + Len(s)) : a[i] = IF i <= Len(r) THEN r[i] ELSE s[i - Len(r)]
  BY CatType
<1> HIDE DEF a
<1>2. /\ t \in Seq(S) /\ Len(t) = Len(a) - k
      /\ \A i \in 1..((Len(a) - (k + 1)) + 1) : t[i] = a[((k + 1) + i) - 1]
  <2>1. k + 1 \in Nat \ {0} /\ Len(a) \in Nat /\ Len(a) <= Len(a)
    BY <1>0, <1>1
  <2>2. k + 1 <= Len(a) => (Len(a) - (k + 1)) + 1 = Len(a) - k
    BY <1>0, <1>1
  <2>3. ~(k + 1 <= Len(a)) => Len(a) - k = 0
    BY <1>0, <1>1
  <2>4. /\ t \in Seq(S) /\ Len(t) = IF k + 1 <= Len(a) THEN (Len(a) - (k + 1)) + 1 ELSE 0
        /\ \A i \in 1..((Len(a) - (k + 1)) + 1) : t[i] = a[((k + 1) + i) - 1]
    BY <1>1, <2>1, PieceElements
  <2> HIDE DEF t, k
  <2> QED
    BY <2>2, <2>3, <2>4
<1>3. Len(t) = Len(s)
  BY <1>0, <1>1, <1>2
<1>4. ASSUME NEW i \in 1..Len(s) PROVE t[i] = s[i]
  <2>1. /\ i \in 1..((Len(a) - (k + 1)) + 1) /\ ((k + 1) + i) - 1 = i + Len(r)
        /\ i + Len(r) \in 1..(Len(r) + Len(s)) /\ ~(i + Len(r) <= Len(r)) /\ (i + Len(r)) - Len(r) = i
    BY <1>0, <1>1
  <2>2. t[i] = a[i + Len(r)]
    <3> HIDE DEF t
    <3> QED
      BY <1>2, <2>1
  <2>3. a[i + Len(r)] = s[i]
    BY <1>1, <2>1
  <2> QED
    BY <2>2, <2>3
<1> HIDE DEF t
<1>5. t = s
  BY <1>2, <1>3, <1>4, SeqEqual
<1> QED
  BY <1>1, <1>5 DEF t, a

(* The elements of <<x>>, and of none.                                      *)
LEMMA OneElement ==
  /\ \A x : ToSet(One(x)) = {x}
  /\ ToSet(<<>>) = {}
<1>1. ASSUME NEW x PROVE ToSet(One(x)) = {x}
  <2>1. x \in {x}
    OBVIOUS
  <2>2. One(x) \in Seq({x}) /\ Len(One(x)) = 1 /\ One(x)[1] = x
    BY <2>1, OneType
  <2>3. DOMAIN One(x) = 1..1
    BY <2>2, LenProperties
  <2>4. \A i : i \in 1..1 <=> i = 1
    OBVIOUS
  <2> QED
    BY <2>2, <2>3, <2>4 DEF ToSet
<1>2. ToSet(<<>>) = {}
  <2>1. <<>> \in Seq({}) /\ Len(<<>>) = 0
    BY EmptySeq
  <2>2. DOMAIN <<>> = 1..0 /\ 1..0 = {}
    BY <2>1, LenProperties
  <2> QED
    BY <2>2 DEF ToSet
<1> QED
  BY <1>1, <1>2

(* How often c is in two joined texts.                                      *)
LEMMA PlacesOfCat ==
  ASSUME NEW S, NEW r \in Seq(S), NEW s \in Seq(S), NEW c
  PROVE  Cardinality(Places(Cat(r, s), c)) = Cardinality(Places(r, c)) + Cardinality(Places(s, c))
<1> DEFINE P == {u \in Seq(S) : Cardinality(Places(Cat(r, u), c))
                                   = Cardinality(Places(r, c)) + Cardinality(Places(u, c))}
<1>1. <<>> \in P
  <2>1. <<>> \in Seq(S) /\ Cat(r, <<>>) = r /\ Len(<<>>) = 0
    BY CatEmpty, EmptySeq
  <2>2. Cardinality(Places(<<>>, c)) = 0 /\ Cardinality(Places(r, c)) \in Nat
    <3> DEFINE none == <<>>
    <3>1. none \in Seq(S) /\ \A i \in 1..Len(none) : none[i] # c
      BY <2>1
    <3> HIDE DEF none
    <3>2. Cardinality(Places(none, c)) = 0 <=> \A i \in 1..Len(none) : none[i] # c
      BY <3>1, PlacesFinite
    <3>3. Cardinality(Places(none, c)) = 0
      BY <3>1, <3>2
    <3> QED
      BY <3>3, PlacesFinite DEF none
  <2> QED
    BY <2>1, <2>2
<1>2. ASSUME NEW u \in P, NEW x \in S PROVE Cat(u, One(x)) \in P
  <2>1. u \in Seq(S) /\ One(x) \in Seq(S)
    BY OneType
  <2>2. Cat(Cat(r, u), One(x)) = Cat(r, Cat(u, One(x))) /\ Cat(r, u) \in Seq(S) /\ Cat(u, One(x)) \in Seq(S)
    BY <2>1, CatRegroup, CatType
  <2>3. Cardinality(Places(Cat(Cat(r, u), One(x)), c))
           = Cardinality(Places(Cat(r, u), c)) + (IF x = c THEN 1 ELSE 0)
    BY <2>2, PlacesOneMore
  <2>4. Cardinality(Places(Cat(u, One(x)), c)) = Cardinality(Places(u, c)) + (IF x = c THEN 1 ELSE 0)
    BY <2>1, PlacesOneMore
  <2>5. Cardinality(Places(r, c)) \in Nat /\ Cardinality(Places(u, c)) \in Nat
    BY <2>1, PlacesFinite
  <2>6. Cardinality(Places(Cat(r, u), c)) = Cardinality(Places(r, c)) + Cardinality(Places(u, c))
    OBVIOUS
  <2>7. \A a, b, d \in Nat : (a + b) + d = a + (b + d)
    OBVIOUS
  <2> DEFINE one == IF x = c THEN 1 ELSE 0
  <2>8. one \in Nat
    OBVIOUS
  <2> HIDE DEF one
  <2> QED
    BY <2>2, <2>3, <2>4, <2>5, <2>6, <2>7, <2>8 DEF one
<1>3. P = Seq(S)
  <2>1. P \in SUBSET Seq(S)
    OBVIOUS
  <2> HIDE DEF P
  <2> QED
    BY <1>1, <1>2, <2>1, SequenceInduction
<1> QED
  BY <1>3

(* A list with an element behind it.                                        *)
LEMMA Appended ==
  ASSUME NEW S, NEW s \in Seq(S), NEW x \in S
  PROVE  /\ Append(s, x) \in Seq(S) /\ Len(Append(s, x)) = Len(s) + 1 /\ Append(s, x) # <<>>
         /\ \A k \in 1..Len(s) : Append(s, x)[k] = s[k]
         /\ Append(s, x)[Len(s) + 1] = x
  BY AppendProperties

(* A list with another element in place of the last.                        *)
WithLast(p, y) == Append(Front(p), y)

(* The others stay as they are.                                             *)
LEMMA LastReplaced ==
  ASSUME NEW S, NEW p \in Seq(S), p # <<>>, NEW y \in S
  PROVE  /\ WithLast(p, y) \in Seq(S) /\ Len(WithLast(p, y)) = Len(p) /\ Len(p) \in Nat \ {0}
         /\ \A k \in 1..(Len(p) - 1) : WithLast(p, y)[k] = p[k]
         /\ WithLast(p, y)[Len(p)] = y
<1> DEFINE f == SubSeq(p, 1, Len(p) - 1)
<1>1. Len(p) \in Nat \ {0}
  BY LenProperties, EmptySeq
<1>2. f \in Seq(S) /\ Len(f) = Len(p) - 1 /\ \A k \in 1..(Len(p) - 1) : f[k] = p[k]
  <2> DEFINE d == Len(p) - 1
             g == SubSeq(p, 1, d)
  <2>1. d \in Nat /\ d <= Len(p)
    BY <1>1
  <2> HIDE DEF d
  <2>2. g \in Seq(S) /\ Len(g) = d /\ \A k \in 1..d : g[k] = p[k]
    BY <2>1, Cut
  <2> QED
    BY <2>2 DEF d
<1> HIDE DEF f
<1>3. /\ Append(f, y) \in Seq(S) /\ Len(Append(f, y)) = Len(f) + 1
      /\ \A k \in 1..Len(f) : Append(f, y)[k] = f[k]
      /\ Append(f, y)[Len(f) + 1] = y
  <2>1. f \in Seq(S)
    BY <1>2
  <2> QED
    BY <2>1, Appended
<1>4. Len(f) + 1 = Len(p)
  BY <1>1, <1>2
<1>5. Front(p) = f
  BY DEF Front, f
<1> QED
  BY <1>1, <1>2, <1>3, <1>4, <1>5 DEF WithLast

(* A text with a character behind it.                                       *)
LEMMA OneMore ==
  ASSUME NEW S, NEW u \in Seq(S), NEW x \in S
  PROVE  /\ Cat(u, One(x)) \in Seq(S) /\ Cat(u, One(x)) # <<>>
         /\ Len(Cat(u, One(x))) = Len(u) + 1 /\ Len(u) \in Nat
         /\ \A k \in 1..Len(u) : Cat(u, One(x))[k] = u[k]
         /\ Cat(u, One(x))[Len(u) + 1] = x
<1>1. Append(u, x) = Cat(u, One(x))
  BY OneType
<1> QED
  BY <1>1, AppendProperties, LenProperties

(* The tail of a joined text.                                               *)
LEMMA TailOfCat ==
  ASSUME NEW S, NEW r \in Seq(S), r # <<>>, NEW s \in Seq(S)
  PROVE  Tail(Cat(r, s)) = Cat(Tail(r), s)
<1>1. /\ Head(r) \in S /\ Tail(r) \in Seq(S) /\ r = Cat(One(Head(r)), Tail(r))
  BY HeadAndTail
<1> DEFINE h == Head(r)
           t == Tail(r)
<1>2. h \in S /\ t \in Seq(S) /\ r = Cat(One(h), t)
  BY <1>1
<1> HIDE DEF h, t
<1>3. One(h) \in Seq(S) /\ Cat(t, s) \in Seq(S)
  BY <1>2, OneType, CatType
<1>4. Cat(Cat(One(h), t), s) = Cat(One(h), Cat(t, s))
  BY <1>2, <1>3, CatRegroup
<1>5. Tail(Cat(One(h), Cat(t, s))) = Cat(t, s)
  BY <1>2, <1>3, FrontAndRest
<1> QED
  BY <1>2, <1>4, <1>5 DEF t

(* The beginning of a text, with one character more.                        *)
LEMMA BeginGrows ==
  ASSUME NEW S, NEW s \in Seq(S), NEW m \in Nat, m + 1 <= Len(s)
  PROVE  /\ SubSeq(s, 1, m) \in Seq(S) /\ s[m + 1] \in S
         /\ SubSeq(s, 1, m + 1) = Cat(SubSeq(s, 1, m), One(s[m + 1]))
<1>1. 0 + 1 = 1 /\ 0 \in Nat /\ 0 <= m
  OBVIOUS
<1>2. /\ SubSeq(s, 0 + 1, m) \in Seq(S) /\ s[m + 1] \in S
      /\ SubSeq(s, 0 + 1, m + 1) = Cat(SubSeq(s, 0 + 1, m), One(s[m + 1]))
  BY <1>1, PieceGrows
<1> QED
  BY <1>1, <1>2
=============================================================================
