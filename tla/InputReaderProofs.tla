-------------------------- MODULE InputReaderProofs --------------------------
(* The lines the shell executes are the lines that were typed, whatever the *)
(* limit of get_input is, on a terminal and through a pipe.                 *)
EXTENDS InputReader, SequenceLemmas

(* What was typed, as a function of the shapes t of its lines.              *)

\* The characters of the lines; the one that ends a line; the one after u.
Chars(t) == {u \in Nat \X Nat : u[1] \in 1..Len(t) /\ u[2] \in 1..t[u[1]].len + 1}
EndsLine(t, u) == u[2] = t[u[1]].len + 1
After(t, u) == IF EndsLine(t, u) THEN <<u[1] + 1, 1>> ELSE <<u[1], u[2] + 1>>
Before(u, v) == u[1] < v[1] \/ (u[1] = v[1] /\ u[2] < v[2])

\* A row of characters without gaps, and one that begins with a line.
NoGaps(t, s) == \A i \in 1..Len(s) - 1 : s[i + 1] = After(t, s[i])
Begins(t, s) == s # <<>> /\ s[1][2] = 1 /\ NoGaps(t, s)

Dollar(t, s) == \E i \in 1..Len(s) : s[i][2] = 1 /\ t[s[i][1]].kind = "dollar"

\* A line as the shell knows it, lines in a row, and the words in characters.
LineOf(t, n) == [p \in 1..t[n].len |-> <<n, p>>]
TextOf(t, n, m) == FlattenSeq([i \in 1..m - n + 1 |-> LineOf(t, n + i - 1)])
Word(t) == [u \in Chars(t) |-> IF EndsLine(t, u) THEN <<>> ELSE One(u)]

\* Input: the characters in the order in which they were typed, up to the last
\* line, with ends between lines.
Connected(t, s) ==
    \A i \in 1..Len(s) - 1 :
        /\ s[i] # End /\ s[i + 1] # End => s[i + 1] = After(t, s[i])
        /\ s[i] # End /\ s[i + 1] = End => EndsLine(t, s[i])
        /\ s[i] = End => s[i + 1] # End /\ s[i + 1][2] = 1
Rising(s) ==
    \A i, j \in 1..Len(s) : i < j /\ s[i] # End /\ s[j] # End => Before(s[i], s[j])
Complete(t, s) ==
    s # <<>> /\ s[Len(s)] # End => s[Len(s)][1] = Len(t) /\ EndsLine(t, s[Len(s)])
Items(t) == Chars(t) \cup {End}
Input(t, s) ==
    s \in Seq(Items(t)) /\ Connected(t, s) /\ Rising(s) /\ Complete(t, s)

\* Nothing, an end, or the beginning of a line comes next.
AtLine(s) == s # <<>> => s[1] = End \/ s[1][2] = 1

\* r comes before s.
Precedes(r, s) ==
    \A i \in 1..Len(r), j \in 1..Len(s) : s[j] # End => Before(r[i], s[j])

\* What get_input returns: whole lines, or one that is cut after a dollar.
Line(t, term, s) ==
    s # <<>> =>
        /\ Begins(t, s)
        /\ EndsLine(t, s[Len(s)]) \/ Dollar(t, s)
        /\ term => \A i \in 1..Len(s) : s[i][1] = s[1][1]

\* A command, as in CommandsAreLines.
Command(t, term, s) ==
    LET first == s[1][1]
        last == s[Len(s)][1]
    IN /\ term => first = last
       /\ \/ s = TextOf(t, first, last)
          \/ /\ IsPrefix(s, TextOf(t, first, last))
             /\ Len(s) <= Limit
             /\ \E i \in 1..Len(s) : t[s[i][1]].kind = "dollar"

-----------------------------------------------------------------------------
(* The inductive invariant.                                                 *)

\* Everything is read in the order in which it was typed.
InOrder ==
    /\ Input(typed, source) /\ stdio \in Seq(Chars(typed)) /\ input_buf \in Seq(Chars(typed))
    /\ ran \in Seq(Seq(Chars(typed)) \ {<<>>})
    /\ Precedes(input_buf, source)
    /\ \A c \in 1..Len(ran) : Precedes(ran[c], source) /\ Precedes(ran[c], input_buf)

\* Without a dirty skip only the skip of a long line leaves a part of one, and
\* what was executed are commands in the order of their lines.
Clean ==
    ~dirty =>
        /\ AtLine(source) \/ (pc = "skip" /\ stdio = <<>> /\ ~eof)
        /\ Line(typed, terminal, input_buf)
        /\ \A c \in 1..Len(ran) : Command(typed, terminal, ran[c])
        /\ \A c \in 2..Len(ran) : ran[c - 1][Len(ran[c - 1])][1] < ran[c][1][1]

InputInv == TypeOK /\ InOrder /\ Clean

-----------------------------------------------------------------------------
(* The text of lines.                                                       *)

(* A line that was typed has a shape, and the length of one.                *)
LEMMA ShapeOf ==
  ASSUME NEW t \in Seq(Shapes), NEW n \in 1..Len(t)
  PROVE  t[n] \in Shapes /\ t[n].len \in Nat
<1>1. t[n] \in Shapes
  BY ElementOfSeq
<1> QED
  BY <1>1, ShapesAssumption

(* A line is made of its characters.                                        *)
LEMMA LineType ==
  ASSUME NEW t \in Seq(Shapes), NEW n \in 1..Len(t)
  PROVE  /\ LineOf(t, n) \in Seq(Chars(t)) /\ Len(LineOf(t, n)) = t[n].len
         /\ \A p \in 1..t[n].len : LineOf(t, n)[p] = <<n, p>>
<1> DEFINE l == t[n].len
           u(p) == <<n, p>>
<1>1. l \in Nat /\ Len(t) \in Nat
  BY ShapeOf, LenProperties
<1>2. \A p \in 1..l : u(p) \in Chars(t)
  BY <1>1 DEF Chars
<1>3. LineOf(t, n) = [p \in 1..l |-> u(p)]
  BY DEF LineOf
<1> HIDE DEF l, u
<1>4. LineOf(t, n) \in [1..l -> Chars(t)]
  BY <1>2, <1>3
<1>5. LineOf(t, n) \in Seq(Chars(t)) /\ Len(LineOf(t, n)) = l
  <2> DEFINE f == LineOf(t, n)
  <2>1. f \in [1..l -> Chars(t)]
    BY <1>4
  <2> HIDE DEF f
  <2>2. f \in Seq(Chars(t)) /\ Len(f) = l
    BY <1>1, <2>1, IsASeq, LenProperties
  <2> QED
    BY <2>2 DEF f
<1>6. \A p \in 1..l : LineOf(t, n)[p] = u(p)
  BY <1>3
<1> QED
  BY <1>5, <1>6 DEF l, u

(* A text grows by its next line.                                           *)
LEMMA TextGrows ==
  ASSUME NEW t \in Seq(Shapes), NEW n \in 1..Len(t), NEW m \in n - 1..Len(t)
  PROVE  /\ TextOf(t, n, m) \in Seq(Chars(t))
         /\ m = n - 1 => TextOf(t, n, m) = <<>>
         /\ m < Len(t) => TextOf(t, n, m + 1) = Cat(TextOf(t, n, m), LineOf(t, m + 1))
<1> DEFINE row(i) == LineOf(t, n + i - 1)
           rows(k) == [i \in 1..k |-> row(i)]
           S == Seq(Chars(t))
<1>1. n \in Nat \ {0} /\ m \in Nat /\ Len(t) \in Nat /\ m - n + 1 \in Nat
  BY LenProperties
<1>2. \A k \in Nat : n + k - 1 <= Len(t) => \A i \in 1..k : row(i) \in S
  <2> SUFFICES ASSUME NEW k \in Nat, n + k - 1 <= Len(t), NEW i \in 1..k
               PROVE  row(i) \in S
    OBVIOUS
  <2>1. n + i - 1 \in 1..Len(t)
    BY <1>1
  <2> QED
    BY <2>1, LineType
<1>3. /\ TextOf(t, n, m) = FlattenSeq(rows(m - n + 1))
      /\ TextOf(t, n, m + 1) = FlattenSeq(rows(m + 1 - n + 1))
  BY DEF TextOf
<1> DEFINE k == m - n + 1
<1>5. /\ k \in Nat /\ n + k - 1 = m /\ n + (k + 1) - 1 = m + 1 /\ n + k - 1 <= Len(t)
      /\ m - n + 1 = k /\ m + 1 - n + 1 = k + 1
  BY <1>1
<1> HIDE DEF row, S, k
<1>6. ASSUME NEW j \in Nat, \A i \in 1..j : row(i) \in S
      PROVE  rows(j) \in Seq(S) /\ Len(rows(j)) = j /\ \A i \in 1..j : rows(j)[i] = row(i)
  <2>1. rows(j) \in [1..j -> S]
    BY <1>6
  <2>2. \A i \in 1..j : rows(j)[i] = row(i)
    OBVIOUS
  <2> HIDE DEF rows
  <2> QED
    BY <2>1, <2>2, IsASeq, LenProperties
<1>7. rows(k) \in Seq(S) /\ Len(rows(k)) = k /\ \A i \in 1..k : rows(k)[i] = row(i)
  <2>1. \A i \in 1..k : row(i) \in S
    BY <1>2, <1>5
  <2> HIDE DEF rows
  <2> QED
    BY <1>5, <1>6, <2>1
<1>8. ASSUME m < Len(t) PROVE row(k + 1) \in S /\ rows(k + 1) = Append(rows(k), row(k + 1))
  <2>1. k + 1 \in Nat /\ n + (k + 1) - 1 <= Len(t)
    BY <1>1, <1>5, <1>8
  <2>2. \A i \in 1..k + 1 : row(i) \in S
    BY <1>2, <2>1
  <2>3. rows(k + 1) \in Seq(S) /\ Len(rows(k + 1)) = k + 1
        /\ \A i \in 1..k + 1 : rows(k + 1)[i] = row(i)
    BY <1>6, <2>1, <2>2
  <2>4. row(k + 1) \in S
    BY <1>5, <2>2
  <2> HIDE DEF rows
  <2>5. /\ Append(rows(k), row(k + 1)) \in Seq(S)
        /\ Len(Append(rows(k), row(k + 1))) = k + 1
        /\ \A i \in 1..k + 1 : Append(rows(k), row(k + 1))[i] = row(i)
    BY <1>5, <1>7, <2>4, AppendProperties
  <2> QED
    BY <2>3, <2>4, <2>5, SeqEqual, <1>5
<1> HIDE DEF rows
<1>9. FlattenSeq(rows(k)) \in Seq(Chars(t))
  BY <1>7, FlattenAppend DEF S
<1>10. ASSUME m = n - 1 PROVE FlattenSeq(rows(k)) = <<>>
  <2>1. Len(rows(k)) = 0
    BY <1>1, <1>7, <1>10 DEF k
  <2>2. rows(k) = <<>>
    BY <1>7, <2>1, EmptySeq
  <2> QED
    BY <2>2, FlattenFew
<1>11. ASSUME m < Len(t)
       PROVE  FlattenSeq(rows(k + 1)) = Cat(FlattenSeq(rows(k)), row(k + 1))
  BY <1>7, <1>8, <1>11, CatFlatten DEF S
<1>12. row(k + 1) = LineOf(t, m + 1)
  BY <1>5 DEF row
<1>13. TextOf(t, n, m) = FlattenSeq(rows(k)) /\ TextOf(t, n, m + 1) = FlattenSeq(rows(k + 1))
  BY <1>3, <1>5
<1> QED
  BY <1>9, <1>10, <1>11, <1>12, <1>13

(* Every character of a text is one of its lines.                           *)
LEMMA TextLines ==
  ASSUME NEW t \in Seq(Shapes), NEW n \in 1..Len(t), NEW m \in n - 1..Len(t)
  PROVE  \A i \in 1..Len(TextOf(t, n, m)) : TextOf(t, n, m)[i][1] \in n..m
<1> DEFINE text(k) == TextOf(t, n, n - 1 + k)
           P == {k \in Nat : n - 1 + k <= Len(t) =>
                                \A i \in 1..Len(text(k)) : text(k)[i][1] \in n..n - 1 + k}
<1>1. n \in Nat \ {0} /\ Len(t) \in Nat /\ m \in Nat
  BY LenProperties
<1>2. 0 \in P
  <2>1. n - 1 + 0 \in n - 1..Len(t) /\ n - 1 + 0 = n - 1
    BY <1>1
  <2>2. text(0) = <<>>
    BY <2>1, TextGrows
  <2>3. Len(text(0)) = 0
    BY <2>2, EmptySeq
  <2> HIDE DEF text
  <2> QED
    BY <2>3
<1>3. ASSUME NEW k \in P PROVE k + 1 \in P
  <2> SUFFICES ASSUME n - 1 + (k + 1) <= Len(t)
               PROVE  \A i \in 1..Len(text(k + 1)) : text(k + 1)[i][1] \in n..n - 1 + (k + 1)
    BY <1>3
  <2> DEFINE j == n - 1 + k
             line == LineOf(t, j + 1)
             C == Chars(t)
  <2>1. /\ k \in Nat /\ j \in n - 1..Len(t) /\ j < Len(t) /\ j + 1 = n - 1 + (k + 1)
        /\ j + 1 \in 1..Len(t)
    BY <1>1, <1>3
  <2>2. \A i \in 1..Len(text(k)) : text(k)[i][1] \in n..j
    BY <1>3, <2>1
  <2>3. text(k) \in Seq(C) /\ TextOf(t, n, j + 1) = Cat(text(k), line)
    BY <2>1, TextGrows
  <2>4. text(k + 1) = Cat(text(k), line)
    BY <2>1, <2>3
  <2>5. line \in Seq(C) /\ Len(line) = t[j + 1].len
        /\ \A p \in 1..t[j + 1].len : line[p] = <<j + 1, p>>
    BY <2>1, LineType
  <2> DEFINE l == t[j + 1].len
  <2>6. l \in Nat
    BY <2>1, ShapeOf
  <2> HIDE DEF C, line, l, P
  <2>7. \A p \in 1..Len(line) : line[p][1] = j + 1
    BY <2>5 DEF l
  <2>8. Len(line) \in Nat /\ Len(text(k)) \in Nat
    BY <2>3, <2>5, LenProperties
  <2> HIDE DEF text
  <2>9. /\ Len(text(k + 1)) = Len(text(k)) + Len(line)
        /\ \A i \in 1..Len(text(k)) + Len(line) :
              text(k + 1)[i] = IF i <= Len(text(k)) THEN text(k)[i] ELSE line[i - Len(text(k))]
    <3> DEFINE r == text(k)
               both == Cat(r, line)
    <3>1. r \in Seq(C) /\ line \in Seq(C) /\ text(k + 1) = both
      BY <2>3, <2>4, <2>5
    <3> HIDE DEF r
    <3>2. Len(both) = Len(r) + Len(line)
          /\ \A i \in 1..Len(r) + Len(line) :
                both[i] = IF i <= Len(r) THEN r[i] ELSE line[i - Len(r)]
      BY <3>1, CatType
    <3> HIDE DEF both
    <3> QED
      BY <3>1, <3>2 DEF r
  <2> SUFFICES ASSUME NEW i \in 1..Len(text(k + 1))
               PROVE  text(k + 1)[i][1] \in n..j + 1
    BY <2>1
  <2>10. CASE i <= Len(text(k))
    <3>1. i \in 1..Len(text(k))
      BY <2>8, <2>10
    <3>2. text(k + 1)[i] = text(k)[i]
      BY <2>9, <2>10
    <3> QED
      BY <1>1, <2>1, <2>2, <3>1, <3>2, SMTT(30)
  <2>11. CASE ~(i <= Len(text(k)))
    <3>1. i - Len(text(k)) \in 1..Len(line)
      BY <2>8, <2>9, <2>11
    <3>2. text(k + 1)[i] = line[i - Len(text(k))]
      BY <2>9, <2>11
    <3> QED
      BY <1>1, <2>1, <2>7, <3>1, <3>2, SMTT(30)
  <2> QED
    BY <2>10, <2>11
<1>4. P = Nat
  <2> HIDE DEF P
  <2>1. P \in SUBSET Nat
    BY DEF P
  <2> QED
    BY <1>2, <1>3, <2>1, NumberInduction
<1>5. m - n + 1 \in P /\ n - 1 + (m - n + 1) = m
  BY <1>1, <1>4
<1> QED
  BY <1>1, <1>5

(* A text is its lines up to one, and those from it on.                     *)
LEMMA TextSplits ==
  ASSUME NEW t \in Seq(Shapes), NEW n \in 1..Len(t), NEW k \in n..Len(t), NEW m \in k - 1..Len(t)
  PROVE  TextOf(t, n, m) = Cat(TextOf(t, n, k - 1), TextOf(t, k, m))
<1> DEFINE front == TextOf(t, n, k - 1)
           P == {j \in Nat : k - 1 + j <= Len(t) =>
                                TextOf(t, n, k - 1 + j) = Cat(front, TextOf(t, k, k - 1 + j))}
<1>1. n \in Nat \ {0} /\ k \in 1..Len(t) /\ Len(t) \in Nat /\ m \in Nat /\ k - 1 \in n - 1..Len(t)
  BY LenProperties
<1>2. front \in Seq(Chars(t))
  BY <1>1, TextGrows
<1>3. 0 \in P
  <2>1. k - 1 + 0 = k - 1 /\ k - 1 \in k - 1..Len(t)
    BY <1>1
  <2>2. TextOf(t, k, k - 1) = <<>>
    BY <1>1, <2>1, TextGrows
  <2> HIDE DEF front
  <2>3. Cat(front, <<>>) = front
    BY <1>2, CatEmpty
  <2> QED
    BY <2>1, <2>2, <2>3 DEF front
<1>4. ASSUME NEW j \in P PROVE j + 1 \in P
  <2> SUFFICES ASSUME k - 1 + (j + 1) <= Len(t)
               PROVE  TextOf(t, n, k - 1 + (j + 1)) = Cat(front, TextOf(t, k, k - 1 + (j + 1)))
    BY <1>4
  <2> DEFINE e == k - 1 + j
             line == LineOf(t, e + 1)
             back == TextOf(t, k, e)
  <2>1. /\ j \in Nat /\ e \in k - 1..Len(t) /\ e \in n - 1..Len(t) /\ e < Len(t)
        /\ e + 1 = k - 1 + (j + 1) /\ e + 1 \in 1..Len(t)
    BY <1>1, <1>4
  <2>2. TextOf(t, n, e) = Cat(front, back)
    BY <1>4, <2>1
  <2>3. back \in Seq(Chars(t)) /\ TextOf(t, k, e + 1) = Cat(back, line)
    BY <1>1, <2>1, TextGrows
  <2>4. TextOf(t, n, e + 1) = Cat(TextOf(t, n, e), line)
    BY <2>1, TextGrows
  <2>5. line \in Seq(Chars(t))
    BY <2>1, LineType
  <2> HIDE DEF P, front, e, line, back
  <2>6. Cat(Cat(front, back), line) = Cat(front, Cat(back, line))
    BY <1>2, <2>3, <2>5, CatRegroup
  <2> QED
    BY <2>1, <2>2, <2>3, <2>4, <2>6
<1>5. P = Nat
  <2> HIDE DEF P
  <2>1. P \in SUBSET Nat
    BY DEF P
  <2> QED
    BY <1>3, <1>4, <2>1, NumberInduction
<1>6. m - k + 1 \in P /\ k - 1 + (m - k + 1) = m
  <2>1. m - k + 1 \in Nat /\ k - 1 + (m - k + 1) = m
    BY <1>1
  <2> HIDE DEF P
  <2> QED
    BY <1>5, <2>1
<1> QED
  BY <1>6

-----------------------------------------------------------------------------
(* The words of characters in a row.                                        *)

\* The first q characters of line m, and the words up to u, from line a on.
Start(t, m, q) == SubSeq(LineOf(t, m), 1, q)
UpTo(t, a, u) ==
    Cat(TextOf(t, a, u[1] - 1), Start(t, u[1], IF EndsLine(t, u) THEN t[u[1]].len ELSE u[2]))

(* A character has a line and a place in it.                                *)
LEMMA CharType ==
  ASSUME NEW t \in Seq(Shapes), NEW u \in Chars(t)
  PROVE  /\ u = <<u[1], u[2]>> /\ u[1] \in 1..Len(t) /\ u[1] \in Nat \ {0} /\ u[2] \in Nat \ {0}
         /\ t[u[1]].len \in Nat /\ u[2] <= t[u[1]].len + 1
         /\ u # End
<1>1. u \in Nat \X Nat /\ u[1] \in 1..Len(t) /\ u[2] \in 1..t[u[1]].len + 1
  BY DEF Chars
<1>2. t[u[1]].len \in Nat /\ Len(t) \in Nat
  BY <1>1, ShapeOf, LenProperties
<1>3. u = <<u[1], u[2]>> /\ u[1] # 0 /\ u[2] \in Nat \ {0}
  BY <1>1, <1>2
<1>4. u # End
  BY <1>3 DEF End
<1> QED
  BY <1>1, <1>2, <1>3, <1>4

(* The beginnings of a line.                                                *)
LEMMA StartGrows ==
  ASSUME NEW t \in Seq(Shapes), NEW m \in 1..Len(t), NEW q \in 0..t[m].len
  PROVE  /\ Start(t, m, q) \in Seq(Chars(t)) /\ Len(Start(t, m, q)) = q
         /\ q = 0 => Start(t, m, q) = <<>>
         /\ q = t[m].len => Start(t, m, q) = LineOf(t, m)
         /\ q < t[m].len => Start(t, m, q + 1) = Cat(Start(t, m, q), One(<<m, q + 1>>))
         /\ LineOf(t, m) = Cat(Start(t, m, q), SubSeq(LineOf(t, m), q + 1, t[m].len))
         /\ SubSeq(LineOf(t, m), q + 1, t[m].len) \in Seq(Chars(t))
<1> DEFINE line == LineOf(t, m)
           l == t[m].len
           C == Chars(t)
           rest == SubSeq(line, q + 1, Len(line))
<1>0. line \in Seq(C)
  BY LineType
<1>1. line \in Seq(C) /\ Len(line) = l /\ \A p \in 1..l : line[p] = <<m, p>>
  BY LineType
<1>2. l \in Nat /\ q \in Nat /\ q <= l
  BY ShapeOf
<1> HIDE DEF line, C, l
<1>3. /\ SubSeq(line, 1, q) \in Seq(C) /\ Len(SubSeq(line, 1, q)) = q
      /\ rest \in Seq(C) /\ Len(rest) = l - q /\ Cat(SubSeq(line, 1, q), rest) = line
  BY <1>1, <1>2, Cut
<1> DEFINE s == SubSeq(line, 1, q)
<1>4. s \in Seq(C) /\ Len(s) = q /\ rest \in Seq(C) /\ Len(rest) = l - q /\ Cat(s, rest) = line
  BY <1>3
<1>5. ASSUME q < l PROVE SubSeq(line, 1, q + 1) = Cat(s, One(<<m, q + 1>>))
  <2> DEFINE z == 0
  <2>1. z \in Nat /\ z <= q /\ q + 1 <= Len(line) /\ z + 1 = 1
    BY <1>1, <1>2, <1>5
  <2> HIDE DEF z
  <2>2. SubSeq(line, z + 1, q + 1) = Cat(SubSeq(line, z + 1, q), One(line[q + 1]))
    <3> HIDE DEF s, rest
    <3> QED
      BY <1>0, <1>2, <2>1, PieceGrows, ZenonT(60)
  <2>3. line[q + 1] = <<m, q + 1>>
    BY <1>1, <1>2, <1>5
  <2> QED
    BY <2>1, <2>2, <2>3
<1>6. rest = SubSeq(line, q + 1, l)
  BY <1>1
<1> HIDE DEF s, rest
<1>7. q = 0 => s = <<>>
  BY <1>4, EmptySeq
<1>8. ASSUME q = l PROVE s = line
  <2>1. Len(rest) = 0
    BY <1>2, <1>4, <1>8
  <2>2. rest = <<>>
    BY <1>4, <2>1, EmptySeq
  <2> QED
    BY <1>4, <2>2, CatEmpty
<1>9. Start(t, m, q) = s /\ Start(t, m, q + 1) = SubSeq(line, 1, q + 1)
  BY DEF Start, s, line
<1> QED
  BY <1>4, <1>5, <1>6, <1>7, <1>8, <1>9 DEF line, l, C

(* The word function, on one character.                                     *)
LEMMA WordType ==
  ASSUME NEW t \in Seq(Shapes)
  PROVE  /\ Into(Word(t), Chars(t), Seq(Chars(t)))
         /\ \A u \in Chars(t) : Word(t)[u] = IF EndsLine(t, u) THEN <<>> ELSE One(u)
<1> DEFINE C == Chars(t)
           none == <<>>
           f == [u \in C |-> IF EndsLine(t, u) THEN none ELSE One(u)]
<1>1. none \in Seq(C)
  BY EmptySeq
<1>2. Word(t) = f
  BY DEF Word
<1>3. \A u \in C : One(u) \in Seq(C)
  BY OneType
<1> HIDE DEF none, C
<1>4. f \in [C -> Seq(C)]
  BY <1>1, <1>3
<1>5. \A u \in C : f[u] = IF EndsLine(t, u) THEN none ELSE One(u)
  OBVIOUS
<1> HIDE DEF f
<1> QED
  BY <1>2, <1>4, <1>5 DEF Into, C, none

(* The words up to the first character of a line, from that line on.        *)
LEMMA UpToFirst ==
  ASSUME NEW t \in Seq(Shapes), NEW u \in Chars(t), u[2] = 1
  PROVE  UpTo(t, u[1], u) = Word(t)[u] /\ UpTo(t, u[1], u) \in Seq(Chars(t))
<1> DEFINE n == u[1]
           q == IF EndsLine(t, u) THEN t[n].len ELSE u[2]
           C == Chars(t)
           none == <<>>
<1>1. /\ u = <<n, 1>> /\ n \in 1..Len(t) /\ n \in Nat \ {0} /\ t[n].len \in Nat
      /\ 1 <= t[n].len + 1
  BY CharType
<1>2. n - 1 \in n - 1..Len(t) /\ Len(t) \in Nat
  BY <1>1, LenProperties
<1>3. TextOf(t, n, n - 1) = none
  BY <1>1, <1>2, TextGrows
<1>4. Word(t)[u] = IF EndsLine(t, u) THEN none ELSE One(u)
  BY WordType
<1>5. Word(t)[u] \in Seq(C)
  BY WordType DEF Into
<1>6. Start(t, n, q) = Word(t)[u]
  <2>1. CASE EndsLine(t, u)
    <3>1. t[n].len = 0 /\ q = 0 /\ 0 \in 0..t[n].len
      BY <1>1, <2>1 DEF EndsLine
    <3>2. Start(t, n, 0) = none
      BY <1>1, <3>1, StartGrows
    <3> HIDE DEF q
    <3> QED
      BY <1>4, <2>1, <3>1, <3>2
  <2>2. CASE ~EndsLine(t, u)
    <3>1. t[n].len > 0 /\ q = 1 /\ 0 \in 0..t[n].len
      BY <1>1, <2>2 DEF EndsLine
    <3>2. Start(t, n, 0) = none /\ Start(t, n, 0 + 1) = Cat(Start(t, n, 0), One(<<n, 0 + 1>>))
      BY <1>1, <3>1, StartGrows
    <3>3. Cat(none, One(u)) = One(u)
      BY <1>4, <1>5, <2>2, CatEmpty
    <3>4. 0 + 1 = 1
      OBVIOUS
    <3> HIDE DEF q, n, none
    <3> QED
      BY <1>1, <1>4, <2>2, <3>1, <3>2, <3>3, <3>4
  <2> QED
    BY <2>1, <2>2
<1>7. UpTo(t, n, u) = Cat(none, Start(t, n, q))
  BY <1>3 DEF UpTo
<1> HIDE DEF q
<1>8. Cat(none, Word(t)[u]) = Word(t)[u]
  BY <1>5, CatEmpty
<1> QED
  BY <1>5, <1>6, <1>7, <1>8

(* The next character adds its word.                                        *)
LEMMA UpToGrows ==
  ASSUME NEW t \in Seq(Shapes), NEW u \in Chars(t), NEW a \in 1..Len(t), a <= u[1],
         NEW v \in Chars(t), v = After(t, u)
  PROVE  /\ UpTo(t, a, u) \in Seq(Chars(t)) /\ a <= v[1]
         /\ UpTo(t, a, v) = Cat(UpTo(t, a, u), Word(t)[v])
<1> DEFINE m == u[1]
           p == u[2]
           l == t[m].len
           C == Chars(t)
           none == <<>>
           above == TextOf(t, a, m - 1)
           start(k) == Start(t, m, k)
<1>1. /\ u = <<m, p>> /\ m \in 1..Len(t) /\ m \in Nat \ {0} /\ p \in Nat \ {0} /\ l \in Nat
      /\ p <= l + 1 /\ a \in Nat /\ a <= m
  BY CharType
<1>2. m - 1 \in a - 1..Len(t) /\ m - 1 < Len(t) /\ m \in a - 1..Len(t) /\ m - 1 + 1 = m
      /\ Len(t) \in Nat
  <2>1. Len(t) \in Nat
    BY LenProperties
  <2> QED
    BY <1>1, <2>1
<1>3. above \in Seq(C) /\ TextOf(t, a, m) = Cat(above, LineOf(t, m))
  BY <1>2, TextGrows
<1>4. \A k \in 0..l : start(k) \in Seq(C)
  BY <1>1, StartGrows
<1>5. EndsLine(t, u) <=> p = l + 1
  BY DEF EndsLine
<1>6. Word(t)[v] = IF EndsLine(t, v) THEN none ELSE One(v)
  BY WordType
<1>7. Word(t)[v] \in Seq(C)
  BY WordType DEF Into
<1>8. UpTo(t, a, u) = Cat(above, start(IF EndsLine(t, u) THEN l ELSE p))
  BY DEF UpTo
<1>9. CASE EndsLine(t, u)
  <2> DEFINE w == TextOf(t, a, m)
             n == m + 1
             q == IF EndsLine(t, v) THEN t[n].len ELSE 1
  <2>1. v = <<n, 1>> /\ v[1] = n /\ v[2] = 1
    BY <1>9 DEF After
  <2>2. /\ n \in 1..Len(t) /\ n \in Nat /\ n - 1 = m /\ t[n].len \in Nat /\ a <= n
        /\ 1 <= t[n].len + 1
    <3>1. v[1] \in 1..Len(t) /\ t[v[1]].len \in Nat
      BY CharType
    <3> QED
      BY <1>1, <2>1, <3>1
  <2>3. w \in Seq(C)
    BY <1>2, TextGrows
  <2>4. UpTo(t, a, u) = w
    <3>1. start(l) = LineOf(t, m)
      <4>1. l \in 0..l
        BY <1>1
      <4> QED
        BY <1>1, <4>1, StartGrows
    <3> HIDE DEF start, above, w
    <3>2. UpTo(t, a, u) = Cat(above, start(l))
      BY <1>8, <1>9
    <3> QED
      BY <1>3, <3>1, <3>2 DEF w
  <2>5. UpTo(t, a, v) = Cat(w, Start(t, n, q))
    <3>1. UpTo(t, a, v) = Cat(TextOf(t, a, v[1] - 1),
                              Start(t, v[1], IF EndsLine(t, v) THEN t[v[1]].len ELSE v[2]))
      BY DEF UpTo
    <3> QED
      BY <2>1, <2>2, <3>1
  <2>6. Start(t, n, q) = Word(t)[v]
    <3>1. UpTo(t, v[1], v) = Word(t)[v]
      BY <2>1, UpToFirst
    <3>2. UpTo(t, v[1], v) = Cat(TextOf(t, v[1], v[1] - 1),
                              Start(t, v[1], IF EndsLine(t, v) THEN t[v[1]].len ELSE v[2]))
      BY DEF UpTo
    <3>3. UpTo(t, v[1], v) = Cat(TextOf(t, n, n - 1), Start(t, n, q))
      BY <2>1, <3>2
    <3>4. TextOf(t, n, n - 1) = none
      <4>1. n - 1 \in n - 1..Len(t)
        BY <1>1, <2>2
      <4> QED
        BY <2>2, <4>1, TextGrows
    <3>5. q \in 0..t[n].len
      BY <2>1, <2>2 DEF EndsLine
    <3> HIDE DEF q
    <3>6. Start(t, n, q) \in Seq(C)
      BY <2>2, <3>5, StartGrows
    <3> DEFINE x == Start(t, n, q)
    <3> HIDE DEF x
    <3>7. Cat(none, x) = x
      BY <3>6, CatEmpty DEF x
    <3> QED
      BY <3>1, <3>3, <3>4, <3>7 DEF x
  <2> HIDE DEF w, q, n, above, start, m
  <2> QED
    BY <2>1, <2>2, <2>3, <2>4, <2>5, <2>6
<1>10. CASE ~EndsLine(t, u)
  <2>1. v = <<m, p + 1>> /\ v[1] = m /\ v[2] = p + 1
    BY <1>10 DEF After
  <2>2. p \in 0..l /\ p <= l
    BY <1>1, <1>5, <1>10
  <2>3. UpTo(t, a, u) = Cat(above, start(p)) /\ start(p) \in Seq(C)
    BY <1>4, <1>8, <1>10, <2>2
  <2> DEFINE w == Cat(above, start(p))
  <2>4. w \in Seq(C)
    <3> DEFINE x == start(p)
    <3>1. x \in Seq(C) /\ above \in Seq(C)
      BY <1>3, <2>3
    <3> HIDE DEF x, above
    <3>2. Cat(above, x) \in Seq(C)
      BY <3>1, CatType
    <3> QED
      BY <3>2 DEF x
  <2>5. EndsLine(t, v) <=> p = l
    BY <1>1, <2>1 DEF EndsLine
  <2>6. UpTo(t, a, v) = Cat(above, start(IF EndsLine(t, v) THEN l ELSE p + 1))
    <3>1. UpTo(t, a, v) = Cat(TextOf(t, a, v[1] - 1),
                              Start(t, v[1], IF EndsLine(t, v) THEN t[v[1]].len ELSE v[2]))
      BY DEF UpTo
    <3> QED
      BY <2>1, <3>1
  <2>7. CASE p = l
    <3>1. UpTo(t, a, v) = w /\ Word(t)[v] = none
      BY <1>6, <2>5, <2>6, <2>7
    <3> HIDE DEF w
    <3>2. Cat(w, none) = w
      BY <2>4, CatEmpty
    <3> QED
      BY <1>1, <2>1, <2>3, <2>4, <3>1, <3>2 DEF w
  <2>8. CASE p # l
    <3>1. p < l
      BY <1>1, <2>2, <2>8
    <3>2. start(p + 1) = Cat(start(p), One(<<m, p + 1>>))
      BY <1>1, <2>2, <3>1, StartGrows
    <3>3. Word(t)[v] = One(v)
      BY <1>6, <2>5, <2>8
    <3>4. UpTo(t, a, v) = Cat(above, Cat(start(p), One(v)))
      BY <2>1, <2>5, <2>6, <2>8, <3>2
    <3> DEFINE x == start(p)
               y == One(v)
    <3>5. above \in Seq(C) /\ x \in Seq(C) /\ y \in Seq(C)
      BY <1>3, <1>7, <2>3, <3>3
    <3> HIDE DEF above, x, y
    <3>6. Cat(Cat(above, x), y) = Cat(above, Cat(x, y))
      BY <3>5, CatRegroup
    <3> QED
      BY <1>1, <2>1, <2>3, <2>4, <3>3, <3>4, <3>6 DEF x, y
  <2> QED
    BY <2>7, <2>8
<1> QED
  BY <1>9, <1>10

(* The words of characters in a row from the beginning of a line.           *)
LEMMA RowWords ==
  ASSUME NEW t \in Seq(Shapes), NEW s \in Seq(Chars(t)), Begins(t, s)
  PROVE  /\ \A j \in 1..Len(s) : s[1][1] <= s[j][1]
         /\ FlatMap(Word(t), s) = UpTo(t, s[1][1], s[Len(s)])
<1> DEFINE C == Chars(t)
           a == s[1][1]
           f == Word(t)
           first(j) == SubSeq(s, 1, j)
           P == {k \in Nat : k + 1 <= Len(s) =>
                    /\ a <= s[k + 1][1]
                    /\ FlatMap(f, first(k + 1)) = UpTo(t, a, s[k + 1])}
<1>1. /\ Len(s) \in Nat /\ Len(s) # 0 /\ s[1][2] = 1
      /\ \A i \in 1..Len(s) - 1 : s[i + 1] = After(t, s[i])
  BY EmptySeq, LenProperties DEF Begins, NoGaps
<1>2. \A i \in 1..Len(s) : s[i] \in C
  BY ElementOfSeq
<1>3. Into(f, C, Seq(C))
  BY WordType
<1>4. s[1] \in C /\ a \in 1..Len(t) /\ a \in Nat
  <2>1. s[1] \in C
    BY <1>1, <1>2
  <2> QED
    BY <2>1, CharType
<1>5. \A n \in Nat : n + 1 <= Len(s) =>
          first(n) \in Seq(C) /\ first(n + 1) = Cat(first(n), One(s[n + 1]))
  <2> SUFFICES ASSUME NEW n \in Nat, n + 1 <= Len(s)
               PROVE  first(n) \in Seq(C) /\ first(n + 1) = Cat(first(n), One(s[n + 1]))
    OBVIOUS
  <2> DEFINE z == 0
  <2>1. z \in Nat /\ z <= n /\ z + 1 = 1 /\ s \in Seq(C)
    OBVIOUS
  <2> HIDE DEF z, C
  <2>2. /\ SubSeq(s, z + 1, n) \in Seq(C)
        /\ SubSeq(s, z + 1, n + 1) = Cat(SubSeq(s, z + 1, n), One(s[n + 1]))
    BY <2>1, PieceGrows, ZenonT(60)
  <2> QED
    BY <2>1, <2>2
<1>6. 0 \in P
  <2>1. first(0) = <<>>
    <3> DEFINE e == first(0)
    <3>1. 0 \in Nat /\ 0 <= Len(s)
      BY <1>1
    <3>2. e \in Seq(C) /\ Len(e) = 0
      BY <3>1, Cut
    <3> HIDE DEF e
    <3>3. e = <<>>
      BY <3>2, EmptySeq
    <3> QED
      BY <3>3 DEF e
  <2> DEFINE none == <<>>
             x == One(s[1])
  <2>2. x \in Seq(C)
    BY <1>4, OneType
  <2>3. first(0 + 1) = Cat(first(0), One(s[0 + 1]))
    <3> DEFINE z == 0
    <3>1. z \in Nat /\ z + 1 <= Len(s)
      BY <1>1
    <3> HIDE DEF z, first
    <3>2. first(z + 1) = Cat(first(z), One(s[z + 1]))
      BY <1>5, <3>1
    <3> QED
      BY <3>2 DEF z
  <2>4. first(0) = none /\ 0 + 1 = 1
    BY <2>1
  <2>5. first(0 + 1) = Cat(none, x)
    BY <2>3, <2>4
  <2> HIDE DEF x
  <2>6. Cat(none, x) = x
    BY <2>2, CatEmpty
  <2>7. FlatMap(f, One(s[1])) = f[s[1]]
    <3> HIDE DEF f, C
    <3> QED
      BY <1>3, <1>4, FlatMapFew
  <2>8. UpTo(t, a, s[1]) = f[s[1]]
    BY <1>1, <1>4, UpToFirst
  <2> HIDE DEF first, f, none
  <2> QED
    BY <1>4, <2>4, <2>5, <2>6, <2>7, <2>8 DEF x
<1>7. ASSUME NEW k \in P PROVE k + 1 \in P
  <2> DEFINE j == k + 1
             u == s[j]
             v == s[j + 1]
  <2> SUFFICES ASSUME j + 1 <= Len(s)
               PROVE  a <= v[1] /\ FlatMap(f, first(j + 1)) = UpTo(t, a, v)
    BY <1>7
  <2>1. k \in Nat /\ j \in Nat /\ j <= Len(s) /\ j \in 1..Len(s) - 1
    BY <1>1, <1>7
  <2>2. a <= u[1] /\ FlatMap(f, first(j)) = UpTo(t, a, u)
    BY <1>7, <2>1
  <2>3. u \in C /\ v \in C /\ v = After(t, u)
    BY <1>1, <1>2, <2>1
  <2>4. a <= v[1] /\ UpTo(t, a, v) = Cat(UpTo(t, a, u), f[v])
    BY <1>4, <2>2, <2>3, UpToGrows
  <2>5. first(j) \in Seq(C) /\ first(j + 1) = Cat(first(j), One(v))
    BY <1>5, <2>1
  <2> DEFINE r == first(j)
             x == One(v)
  <2>6. r \in Seq(C) /\ x \in Seq(C)
    BY <2>3, <2>5, OneType
  <2> HIDE DEF r, x, f, C, u, v
  <2>7. FlatMap(f, Cat(r, x)) = Cat(FlatMap(f, r), FlatMap(f, x))
    BY <1>3, <2>6, FlatMapCat
  <2>8. FlatMap(f, One(v)) = f[v]
    BY <1>3, <2>3, FlatMapFew
  <2> HIDE DEF first
  <2> QED
    BY <2>2, <2>4, <2>5, <2>7, <2>8 DEF r, x
<1>8. P = Nat
  <2> HIDE DEF P
  <2>1. P \in SUBSET Nat
    BY DEF P
  <2> QED
    BY <1>6, <1>7, <2>1, NumberInduction
<1>9. ASSUME NEW j \in 1..Len(s)
      PROVE  a <= s[j][1] /\ FlatMap(f, first(j)) = UpTo(t, a, s[j])
  <2>1. j - 1 \in Nat /\ j - 1 + 1 = j
    BY <1>1
  <2>2. j - 1 \in P
    <3> HIDE DEF P
    <3> QED
      BY <1>8, <2>1
  <2> HIDE DEF f, first
  <2> QED
    BY <1>1, <2>1, <2>2
<1>10. first(Len(s)) = s
  <2> DEFINE l == Len(s)
             r == first(l)
  <2>1. /\ r \in Seq(C) /\ Len(r) = l /\ \A i \in 1..l : r[i] = s[i]
    BY <1>1, Cut
  <2> HIDE DEF r
  <2>2. r = s
    BY <2>1, SeqEqual
  <2> QED
    BY <2>2 DEF r
<1> HIDE DEF f, first
<1> QED
  BY <1>1, <1>9, <1>10 DEF f

(* Words are characters that end no line, all of them.                      *)
LEMMA WordsWithin ==
  ASSUME NEW t \in Seq(Shapes), NEW s \in Seq(Chars(t))
  PROVE  LET w == FlatMap(Word(t), s)
         IN /\ w \in Seq(Chars(t)) /\ Len(w) <= Len(s)
            /\ \A i \in 1..Len(w) : \E k \in 1..Len(s) : w[i] = s[k]
            /\ \A k \in 1..Len(s) : ~EndsLine(t, s[k]) => \E i \in 1..Len(w) : w[i] = s[k]
<1> DEFINE C == Chars(t)
           f == Word(t)
           Good(r, w) == /\ Len(w) <= Len(r)
                         /\ \A i \in 1..Len(w) : \E k \in 1..Len(r) : w[i] = r[k]
                         /\ \A k \in 1..Len(r) : ~EndsLine(t, r[k]) =>
                                \E i \in 1..Len(w) : w[i] = r[k]
           P == {r \in Seq(C) : Good(r, FlatMap(f, r))}
           none == <<>>
<1>1. Into(f, C, Seq(C)) /\ \A u \in C : f[u] = IF EndsLine(t, u) THEN none ELSE One(u)
  BY WordType
<1>2. none \in Seq(C) /\ Len(none) = 0
  BY EmptySeq
<1>3. none \in P
  <2>1. FlatMap(f, none) = none
    <3> HIDE DEF f, C
    <3> QED
      BY <1>1, FlatMapFew
  <2> HIDE DEF none, f, C
  <2> QED
    BY <1>2, <2>1
<1>4. ASSUME NEW r \in P, NEW u \in C PROVE Cat(r, One(u)) \in P
  <2> DEFINE w == FlatMap(f, r)
             x == One(u)
             r2 == Cat(r, x)
             w2 == FlatMap(f, r2)
  <2>1. r \in Seq(C) /\ Good(r, w)
    BY <1>4
  <2>2. x \in Seq(C) /\ Len(x) = 1 /\ x[1] = u
    BY OneType
  <2> HIDE DEF P, Good, f, C, x
  <2>3. w \in Seq(C) /\ w2 = Cat(w, FlatMap(f, x))
    BY <1>1, <2>1, <2>2, FlatMapCat
  <2>4. FlatMap(f, x) = f[u]
    BY <1>1, FlatMapFew DEF x
  <2>5. /\ r2 \in Seq(C) /\ Len(r2) = Len(r) + 1
        /\ \A i \in 1..Len(r) + 1 : r2[i] = IF i <= Len(r) THEN r[i] ELSE x[i - Len(r)]
    <3>1. r \in Seq(C) /\ x \in Seq(C)
      BY <2>1, <2>2
    <3>2. /\ r2 \in Seq(C) /\ Len(r2) = Len(r) + Len(x)
          /\ \A i \in 1..Len(r) + Len(x) : r2[i] = IF i <= Len(r) THEN r[i] ELSE x[i - Len(r)]
      BY <3>1, CatType
    <3> HIDE DEF r2
    <3> QED
      BY <2>2, <3>2
  <2>6. Len(r) \in Nat /\ Len(w) \in Nat
    BY <2>1, <2>3, LenProperties
  <2>7. /\ \A i \in 1..Len(r) : r2[i] = r[i]
        /\ r2[Len(r) + 1] = u
    <3>1. \A i \in 1..Len(r) : i \in 1..Len(r) + 1 /\ i <= Len(r)
      BY <2>6
    <3>2. Len(r) + 1 \in 1..Len(r) + 1 /\ ~(Len(r) + 1 <= Len(r)) /\ Len(r) + 1 - Len(r) = 1
      BY <2>6
    <3> HIDE DEF r2
    <3> QED
      BY <2>2, <2>5, <3>1, <3>2
  <2> HIDE DEF w2, w, r2
  <2>8. Good(r2, w2)
    <3>1. CASE EndsLine(t, u)
      <4>1. FlatMap(f, x) = none
        BY <1>1, <2>4, <3>1
      <4>2. w2 = w
        BY <2>3, <4>1, CatEmpty
      <4>3. Len(w) <= Len(r2)
        BY <2>1, <2>5, <2>6 DEF Good
      <4>4. \A k \in 1..Len(r) : k \in 1..Len(r2) /\ r2[k] = r[k]
        BY <2>5, <2>6, <2>7
      <4>5. \A k \in 1..Len(r2) : k \in 1..Len(r) \/ k = Len(r) + 1
        BY <2>5, <2>6
      <4> QED
        BY <2>1, <2>7, <3>1, <4>2, <4>3, <4>4, <4>5 DEF Good
    <3>2. CASE ~EndsLine(t, u)
      <4>1. w2 = Cat(w, x)
        BY <1>1, <2>3, <2>4, <3>2 DEF x
      <4>2. /\ Len(w2) = Len(w) + 1
            /\ \A i \in 1..Len(w) + 1 : w2[i] = IF i <= Len(w) THEN w[i] ELSE x[i - Len(w)]
        <5>1. w \in Seq(C) /\ x \in Seq(C)
          BY <2>2, <2>3
        <5>2. /\ Len(w2) = Len(w) + Len(x)
              /\ \A i \in 1..Len(w) + Len(x) :
                    w2[i] = IF i <= Len(w) THEN w[i] ELSE x[i - Len(w)]
          BY <4>1, <5>1, CatType
        <5> QED
          BY <2>2, <5>2
      <4>3. /\ \A i \in 1..Len(w) : w2[i] = w[i] /\ i \in 1..Len(w2)
            /\ w2[Len(w) + 1] = u /\ Len(w) + 1 \in 1..Len(w2)
            /\ \A i \in 1..Len(w2) : i \in 1..Len(w) \/ i = Len(w) + 1
        <5>1. \A i \in 1..Len(w) : i \in 1..Len(w) + 1 /\ i <= Len(w)
          BY <2>6
        <5>2. Len(w) + 1 \in 1..Len(w) + 1 /\ ~(Len(w) + 1 <= Len(w)) /\ Len(w) + 1 - Len(w) = 1
          BY <2>6
        <5>3. \A i \in 1..Len(w) + 1 : i \in 1..Len(w) \/ i = Len(w) + 1
          BY <2>6
        <5> QED
          BY <2>2, <4>2, <5>1, <5>2, <5>3
      <4>4. /\ \A k \in 1..Len(r) : k \in 1..Len(r2) /\ r2[k] = r[k]
            /\ Len(r) + 1 \in 1..Len(r2)
            /\ \A k \in 1..Len(r2) : k \in 1..Len(r) \/ k = Len(r) + 1
        BY <2>5, <2>6, <2>7
      <4>5. Len(w2) <= Len(r2)
        BY <2>1, <2>5, <2>6, <4>2 DEF Good
      <4>6. ASSUME NEW i \in 1..Len(w2) PROVE \E k \in 1..Len(r2) : w2[i] = r2[k]
        <5>1. CASE i \in 1..Len(w)
          <6>1. PICK k \in 1..Len(r) : w[i] = r[k]
            BY <2>1, <5>1 DEF Good
          <6> QED
            BY <4>3, <4>4, <5>1, <6>1
        <5>2. CASE i = Len(w) + 1
          BY <2>7, <4>3, <4>4, <5>2
        <5> QED
          BY <4>3, <5>1, <5>2
      <4>7. ASSUME NEW k \in 1..Len(r2), ~EndsLine(t, r2[k])
            PROVE  \E i \in 1..Len(w2) : w2[i] = r2[k]
        <5>1. CASE k \in 1..Len(r)
          <6>1. PICK i \in 1..Len(w) : w[i] = r[k]
            BY <2>1, <4>4, <4>7, <5>1 DEF Good
          <6> QED
            BY <4>3, <4>4, <5>1, <6>1
        <5>2. CASE k = Len(r) + 1
          BY <2>7, <4>3, <4>4, <5>2
        <5> QED
          BY <4>4, <5>1, <5>2
      <4> QED
        BY <4>5, <4>6, <4>7 DEF Good
    <3> QED
      BY <3>1, <3>2
  <2> QED
    BY <2>5, <2>8 DEF P, r2, w2, x
<1>5. P = Seq(C)
  <2> HIDE DEF P, C
  <2>1. P \in SUBSET Seq(C)
    BY DEF P
  <2> QED
    BY <1>3, <1>4, <2>1, SequenceInduction
<1>6. Good(s, FlatMap(f, s))
  BY <1>5
<1>7. FlatMap(f, s) \in Seq(C)
  <2>1. s \in Seq(C)
    OBVIOUS
  <2> HIDE DEF f, C
  <2> QED
    BY <1>1, <2>1, FlatMapCat
<1> QED
  BY <1>6, <1>7

(* Lines without characters in front of a text add nothing to it.           *)
LEMMA FrontTrimmed ==
  ASSUME NEW t \in Seq(Shapes), NEW a \in 1..Len(t), NEW n \in a - 1..Len(t),
         NEW r \in Seq(Chars(t)), NEW w, w = Cat(TextOf(t, a, n), r), w # <<>>,
         NEW f \in a..Len(t), f = w[1][1], f <= n + 1
  PROVE  w = Cat(TextOf(t, f, n), r)
<1> DEFINE front == TextOf(t, a, f - 1)
           back == TextOf(t, f, n)
           C == Chars(t)
<1>1. /\ a \in Nat \ {0} /\ n \in Nat /\ f \in Nat /\ Len(t) \in Nat /\ f \in 1..Len(t)
      /\ f - 1 \in a - 1..Len(t) /\ n \in f - 1..Len(t)
  BY LenProperties
<1>2. TextOf(t, a, n) = Cat(front, back)
  BY <1>1, TextSplits
<1>3. front \in Seq(C) /\ back \in Seq(C)
  BY <1>1, TextGrows
<1>4. \A i \in 1..Len(front) : front[i][1] \in a..f - 1
  BY <1>1, TextLines
<1> HIDE DEF front, back, C
<1>5. w = Cat(Cat(front, back), r) /\ r \in Seq(C)
  BY <1>2 DEF C
<1>6. w = Cat(front, Cat(back, r)) /\ Cat(back, r) \in Seq(C)
  BY <1>3, <1>5, CatRegroup, CatType
<1>7. Len(front) = 0
  <2> SUFFICES ASSUME Len(front) # 0 PROVE FALSE
    OBVIOUS
  <2> DEFINE y == Cat(back, r)
  <2>1. 1 \in 1..Len(front) /\ Len(front) \in Nat /\ Len(y) \in Nat /\ 1 <= Len(front)
    BY <1>3, <1>6, LenProperties
  <2>2. y \in Seq(C) /\ w = Cat(front, y)
    BY <1>6
  <2> HIDE DEF y
  <2>3. \A i \in 1..Len(front) + Len(y) : w[i] = IF i <= Len(front) THEN front[i] ELSE y[i - Len(front)]
    BY <1>3, <2>2, CatType, ZenonT(60)
  <2>4. w[1] = front[1]
    BY <2>1, <2>3
  <2>5. f \in a..f - 1
    BY <1>4, <2>1, <2>4
  <2> QED
    BY <1>1, <2>5
<1>8. front = <<>>
  BY <1>3, <1>7, EmptySeq
<1>9. w = Cat(back, r)
  BY <1>6, <1>8, CatEmpty
<1> QED
  BY <1>9 DEF back

(* Nor do those behind it.                                                  *)
LEMMA BackTrimmed ==
  ASSUME NEW t \in Seq(Shapes), NEW a \in 1..Len(t), NEW n \in a - 1..Len(t),
         NEW w, w = TextOf(t, a, n), w # <<>>,
         NEW l \in a..n, l = w[Len(w)][1]
  PROVE  w = TextOf(t, a, l)
<1>1. /\ a \in Nat \ {0} /\ n \in Nat /\ l \in Nat /\ Len(t) \in Nat /\ n <= Len(t)
  BY LenProperties
<1>2. CASE l = n
  BY <1>2
<1>3. CASE l # n
  <2> DEFINE k == l + 1
             front == TextOf(t, a, k - 1)
             back == TextOf(t, k, n)
             C == Chars(t)
  <2>1. /\ k \in a..Len(t) /\ k \in 1..Len(t) /\ k - 1 = l /\ n \in k - 1..Len(t)
        /\ k - 1 \in a - 1..Len(t) /\ k \in Nat
    BY <1>1, <1>3
  <2>2. w = Cat(front, back)
    BY <2>1, TextSplits
  <2>3. front \in Seq(C) /\ back \in Seq(C)
    BY <2>1, TextGrows
  <2>4. \A i \in 1..Len(back) : back[i][1] \in k..n
    BY <2>1, TextLines
  <2> HIDE DEF front, back, C
  <2>5. Len(front) \in Nat /\ Len(back) \in Nat
    BY <2>3, LenProperties
  <2>6. /\ Len(w) = Len(front) + Len(back)
        /\ \A i \in 1..Len(front) + Len(back) :
              w[i] = IF i <= Len(front) THEN front[i] ELSE back[i - Len(front)]
    BY <2>2, <2>3, CatType, ZenonT(60)
  <2>7. Len(back) = 0
    <3> SUFFICES ASSUME Len(back) # 0 PROVE FALSE
      OBVIOUS
    <3>1. /\ Len(w) \in 1..Len(front) + Len(back) /\ ~(Len(w) <= Len(front))
          /\ Len(w) - Len(front) = Len(back) /\ Len(back) \in 1..Len(back)
      BY <2>5, <2>6
    <3>2. w[Len(w)] = back[Len(back)]
      BY <2>6, <3>1
    <3>3. l \in k..n
      BY <2>4, <3>1, <3>2
    <3> QED
      BY <1>1, <2>1, <3>3
  <2>8. back = <<>>
    BY <2>3, <2>7, EmptySeq
  <2>9. w = front
    BY <2>2, <2>3, <2>8, CatEmpty
  <2> QED
    BY <2>1, <2>9 DEF front
<1> QED
  BY <1>2, <1>3

(* A sequence is a prefix of what it begins.                                *)
LEMMA CatPrefix ==
  ASSUME NEW S, NEW r \in Seq(S), NEW s \in Seq(S), NEW w, w = Cat(r, s)
  PROVE  IsPrefix(r, w)
<1>1. /\ w \in Seq(S) /\ Len(w) = Len(r) + Len(s)
      /\ \A i \in 1..Len(r) + Len(s) : w[i] = IF i <= Len(r) THEN r[i] ELSE s[i - Len(r)]
  BY CatType
<1>2. Len(r) \in Nat /\ Len(s) \in Nat
  BY LenProperties
<1> DEFINE l == Len(r)
           p == SubSeq(r, 1, l)
           q == SubSeq(w, 1, l)
<1>3. l \in Nat /\ l <= Len(r) /\ l <= Len(w)
  BY <1>1, <1>2
<1>4. p \in Seq(S) /\ Len(p) = l /\ \A i \in 1..l : p[i] = r[i]
  <2> HIDE DEF l
  <2> QED
    BY <1>3, Cut
<1>5. q \in Seq(S) /\ Len(q) = l /\ \A i \in 1..l : q[i] = w[i]
  <2> HIDE DEF l
  <2> QED
    BY <1>1, <1>3, Cut
<1>6. \A i \in 1..l : r[i] = w[i]
  <2>1. \A i \in 1..l : i \in 1..Len(r) + Len(s) /\ i <= Len(r)
    BY <1>2
  <2> HIDE DEF l
  <2> QED
    BY <1>1, <2>1
<1> HIDE DEF l, p, q
<1>7. p = q
  BY <1>4, <1>5, <1>6, SeqEqual
<1> QED
  BY <1>3, <1>7 DEF IsPrefix, l, p, q

(* The characters of the beginning of a line.                               *)
LEMMA StartLines ==
  ASSUME NEW t \in Seq(Shapes), NEW m \in 1..Len(t), NEW q \in 0..t[m].len
  PROVE  \A i \in 1..q : Start(t, m, q)[i] = <<m, i>>
<1> DEFINE line == LineOf(t, m)
           C == Chars(t)
<1>1. line \in Seq(C) /\ Len(line) = t[m].len /\ \A p \in 1..t[m].len : line[p] = <<m, p>>
  BY LineType
<1>2. t[m].len \in Nat /\ q \in Nat /\ q <= t[m].len
  BY ShapeOf
<1> HIDE DEF line, C
<1>3. \A i \in 1..q : SubSeq(line, 1, q)[i] = line[i]
  BY <1>1, <1>2, Cut
<1>4. \A i \in 1..q : i \in 1..t[m].len
  BY <1>2
<1> QED
  BY <1>1, <1>3, <1>4 DEF Start, line

(* What get_input returns, as words, is a command.                          *)
LEMMA LineIsCommand ==
  ASSUME NEW t \in Seq(Shapes), NEW term, NEW s \in Seq(Chars(t)), s # <<>>,
         Line(t, term, s), Len(s) <= Limit,
         NEW w, w = FlatMap(Word(t), s), w # <<>>
  PROVE  Command(t, term, w)
<1> DEFINE C == Chars(t)
           a == s[1][1]
           u == s[Len(s)]
           m == u[1]
           l == t[m].len
           q == IF EndsLine(t, u) THEN l ELSE u[2]
           above == TextOf(t, a, m - 1)
           start == Start(t, m, q)
           first == w[1][1]
           last == w[Len(w)][1]
           none == <<>>
<1>1. /\ Begins(t, s)
      /\ EndsLine(t, u) \/ Dollar(t, s)
      /\ term => \A i \in 1..Len(s) : s[i][1] = a
  BY DEF Line
<1>2. /\ w \in Seq(C) /\ Len(w) <= Len(s)
      /\ \A i \in 1..Len(w) : \E k \in 1..Len(s) : w[i] = s[k]
      /\ \A k \in 1..Len(s) : ~EndsLine(t, s[k]) => \E i \in 1..Len(w) : w[i] = s[k]
  BY WordsWithin
<1>3. Len(s) \in Nat /\ Len(s) # 0 /\ Len(w) \in Nat /\ Len(w) # 0 /\ Limit \in Nat
  BY <1>2, EmptySeq, LenProperties, LimitAssumption
<1>4. a <= m /\ w = UpTo(t, a, u)
  <2>1. Len(s) \in 1..Len(s)
    BY <1>3
  <2>2. \A j \in 1..Len(s) : a <= s[j][1]
    BY <1>1, RowWords
  <2>3. w = UpTo(t, a, u)
    BY <1>1, RowWords
  <2> QED
    BY <2>1, <2>2, <2>3
<1>5. s[1] \in C /\ u \in C
  BY <1>3, ElementOfSeq
<1>6. /\ a \in 1..Len(t) /\ a \in Nat \ {0} /\ m \in 1..Len(t) /\ m \in Nat \ {0} /\ l \in Nat
      /\ u[2] \in Nat \ {0} /\ u[2] <= l + 1 /\ Len(t) \in Nat
  BY <1>5, CharType, LenProperties
<1>7. q \in 0..l /\ (~EndsLine(t, u) => q = u[2])
  BY <1>6, SMTT(30) DEF EndsLine
<1>8. w = Cat(above, start)
  BY <1>4 DEF UpTo
<1>9. /\ m - 1 \in a - 1..Len(t) /\ m \in a - 1..Len(t) /\ m - 1 < Len(t) /\ m - 1 + 1 = m
      /\ m \in a..Len(t)
  BY <1>4, <1>6, SMTT(30)
<1>10. above \in Seq(C) /\ start \in Seq(C) /\ Len(start) = q
  <2>1. above \in Seq(C)
    BY <1>6, <1>9, TextGrows
  <2> HIDE DEF q
  <2>2. start \in Seq(C) /\ Len(start) = q
    BY <1>6, <1>7, StartGrows
  <2> QED
    BY <2>1, <2>2
<1>11. term => first = a /\ last = a
  <2>1. 1 \in 1..Len(w) /\ Len(w) \in 1..Len(w)
    BY <1>3
  <2>2. \A i \in 1..Len(w) : term => w[i][1] = a
    BY <1>1, <1>2
  <2> QED
    BY <2>1, <2>2
<1>12. CASE EndsLine(t, u)
  <2>1. w = TextOf(t, a, m)
    <3>1. q = l
      BY <1>12
    <3>2. start = LineOf(t, m)
      BY <1>6, <1>7, <3>1, StartGrows
    <3>3. TextOf(t, a, m - 1 + 1) = Cat(above, LineOf(t, m - 1 + 1))
      BY <1>6, <1>9, TextGrows
    <3> QED
      BY <1>8, <1>9, <3>2, <3>3
  <2> HIDE DEF m, a, none
  <2>2. first \in a..m
    <3>1. \A i \in 1..Len(w) : w[i][1] \in a..m
      BY <1>6, <1>9, <2>1, TextLines
    <3>2. 1 \in 1..Len(w)
      BY <1>3
    <3> QED
      BY <3>1, <3>2
  <2>3. none \in Seq(C)
    BY EmptySeq DEF none
  <2> DEFINE f == first
  <2>4. f \in a..Len(t) /\ f <= m + 1 /\ f \in 1..Len(t) /\ m \in f - 1..Len(t) /\ f \in Nat
    <3>1. f \in a..m
      BY <2>2
    <3> HIDE DEF f
    <3> QED
      BY <1>6, <1>9, <3>1
  <2>5. f = w[1][1]
    OBVIOUS
  <2> HIDE DEF f
  <2>6. TextOf(t, a, m) \in Seq(C) /\ TextOf(t, f, m) \in Seq(C)
    BY <1>6, <1>9, <2>4, TextGrows
  <2>7. w = Cat(TextOf(t, a, m), none)
    BY <2>1, <2>6, CatEmpty DEF none
  <2> HIDE DEF C, above, start
  <2>8. w = Cat(TextOf(t, f, m), none)
    <3> USE DEF C
    <3> QED
      BY <1>6, <1>9, <2>3, <2>4, <2>5, <2>7, FrontTrimmed
  <2>9. w = TextOf(t, f, m)
    BY <2>6, <2>8, CatEmpty DEF none
  <2>10. last \in f..m
    <3>1. \A i \in 1..Len(w) : w[i][1] \in f..m
      BY <2>4, <2>9, TextLines
    <3>2. Len(w) \in 1..Len(w)
      BY <1>3
    <3> QED
      BY <3>1, <3>2
  <2>11. w = TextOf(t, f, last)
    BY <2>4, <2>9, <2>10, BackTrimmed
  <2> QED
    BY <1>11, <2>5, <2>11 DEF Command
<1>13. CASE ~EndsLine(t, u)
  <2>1. q = u[2] /\ q \in 1..l /\ q \in Nat \ {0}
    BY <1>6, <1>7, <1>13
  <2> HIDE DEF q
  <2>2. start[q] = <<m, q>> /\ \A i \in 1..q : start[i][1] = m
    <3>1. \A i \in 1..q : start[i] = <<m, i>>
      BY <1>6, <1>7, StartLines
    <3>2. q \in 1..q
      BY <2>1
    <3> QED
      BY <3>1, <3>2
  <2>3. \A i \in 1..Len(above) : above[i][1] \in a..m - 1
    BY <1>6, <1>9, TextLines
  <2>4. Len(above) \in Nat
    BY <1>10, LenProperties
  <2>5. /\ Len(w) = Len(above) + q
        /\ \A i \in 1..Len(above) + q :
              w[i] = IF i <= Len(above) THEN above[i] ELSE start[i - Len(above)]
    <3> HIDE DEF above, start, C
    <3>1. /\ Len(w) = Len(above) + Len(start)
          /\ \A i \in 1..Len(above) + Len(start) :
                w[i] = IF i <= Len(above) THEN above[i] ELSE start[i - Len(above)]
      <4>1. above \in Seq(C) /\ start \in Seq(C)
        BY <1>10
      <4> QED
        BY <1>8, <4>1, CatType, ZenonT(60)
    <3> QED
      BY <1>10, <3>1
  <2>6. last = m
    <3>1. Len(w) \in 1..Len(above) + q /\ ~(Len(w) <= Len(above)) /\ Len(w) - Len(above) = q
      BY <2>1, <2>4, <2>5
    <3> HIDE DEF above, start
    <3>2. w[Len(w)] = start[q]
      BY <2>5, <3>1
    <3>3. q \in 1..q
      BY <2>1
    <3> QED
      BY <2>2, <3>2, <3>3
  <2>7. first \in a..m
    <3>1. 1 \in 1..Len(above) + q
      BY <2>1, <2>4
    <3>2. CASE 1 <= Len(above)
      <4>1. 1 \in 1..Len(above) /\ w[1] = above[1]
        BY <2>4, <2>5, <3>1, <3>2
      <4>2. first \in a..m - 1
        BY <2>3, <4>1
      <4> HIDE DEF first
      <4> QED
        BY <1>6, <4>2
    <3>3. CASE ~(1 <= Len(above))
      <4>1. Len(above) = 0 /\ 1 - Len(above) = 1 /\ 1 \in 1..q
        BY <2>1, <2>4, <3>3
      <4>2. w[1] = start[1]
        BY <2>5, <3>1, <3>3, <4>1
      <4>3. first = m
        BY <2>2, <4>1, <4>2
      <4> QED
        BY <1>4, <1>6, <4>3
    <3> QED
      BY <3>2, <3>3
  <2> DEFINE f == first
             rest == SubSeq(LineOf(t, m), q + 1, l)
             front == TextOf(t, f, m - 1)
             whole == TextOf(t, f, m)
  <2>8. /\ f \in a..Len(t) /\ f <= m - 1 + 1 /\ f \in 1..Len(t) /\ f \in Nat
        /\ m - 1 \in f - 1..Len(t)
    <3>1. f \in a..m
      BY <2>7
    <3> HIDE DEF f, a, m
    <3> QED
      BY <1>4, <1>6, <1>9, <3>1
  <2>9. f = w[1][1]
    OBVIOUS
  <2> HIDE DEF f
  <2>10. w = Cat(front, start)
    <3> HIDE DEF start, m, a
    <3> DEFINE n == m - 1
    <3>1. w = Cat(TextOf(t, a, n), start) /\ start \in Seq(Chars(t))
      BY <1>8, <1>10
    <3>2. n \in a - 1..Len(t) /\ f <= n + 1 /\ a \in 1..Len(t) /\ f \in a..Len(t)
      BY <1>6, <1>9, <2>8
    <3> HIDE DEF n
    <3>3. w = Cat(TextOf(t, f, n), start)
      BY <2>9, <3>1, <3>2, FrontTrimmed
    <3> QED
      BY <3>3 DEF n
  <2>11. front \in Seq(C) /\ whole = Cat(front, LineOf(t, m))
    <3>1. front \in Seq(C) /\ TextOf(t, f, m - 1 + 1) = Cat(front, LineOf(t, m - 1 + 1))
      BY <1>9, <2>8, TextGrows
    <3> QED
      BY <1>9, <3>1
  <2>12. LineOf(t, m) = Cat(start, rest) /\ rest \in Seq(C)
    BY <1>6, <1>7, StartGrows
  <2> HIDE DEF front, rest, start, C, whole
  <2>13. Cat(Cat(front, start), rest) = Cat(front, Cat(start, rest))
    BY <1>10, <2>11, <2>12, CatRegroup
  <2>14. whole = Cat(w, rest)
    BY <2>10, <2>11, <2>12, <2>13
  <2>15. IsPrefix(w, whole)
    BY <1>2, <2>12, <2>14, CatPrefix
  <2>16. Len(w) <= Limit
    BY <1>2, <1>3
  <2>17. \E i \in 1..Len(w) : t[w[i][1]].kind = "dollar"
    <3>1. PICK k \in 1..Len(s) : s[k][2] = 1 /\ t[s[k][1]].kind = "dollar"
      BY <1>1, <1>13 DEF Dollar
    <3>2. s[k] \in C
      BY ElementOfSeq DEF C
    <3>3. s[k][1] \in 1..Len(t)
      BY <3>2, CharType DEF C
    <3>4. t[s[k][1]].len \in Nat /\ t[s[k][1]].len > 0
      BY <3>1, <3>3, ShapeOf, ShapesAssumption
    <3>5. ~EndsLine(t, s[k])
      BY <3>1, <3>4 DEF EndsLine
    <3>6. PICK i \in 1..Len(w) : w[i] = s[k]
      BY <1>2, <3>5
    <3> QED
      BY <3>1, <3>6
  <2> QED
    BY <1>11, <2>6, <2>9, <2>15, <2>16, <2>17 DEF Command, whole
<1> QED
  BY <1>12, <1>13

-----------------------------------------------------------------------------
(* The input: what is read of it, and what is left.                         *)

(* What is left of the input when some of it was read is input.             *)
LEMMA RestIsInput ==
  ASSUME NEW t \in Seq(Shapes), NEW s, Input(t, s), NEW k \in 0..Len(s),
         NEW r \in Seq(Items(t)), Len(r) = Len(s) - k,
         \A i \in 1..Len(r) : r[i] = s[k + i]
  PROVE  Input(t, r) /\ \A w : Precedes(w, s) => Precedes(w, r)
<1>1. /\ Len(s) \in Nat /\ k \in Nat /\ k <= Len(s) /\ Len(r) \in Nat
      /\ Connected(t, s) /\ Rising(s) /\ Complete(t, s)
  BY LenProperties DEF Input
<1> DEFINE l == Len(s)
           m == Len(r)
<1>2. /\ l \in Nat /\ m \in Nat /\ m = l - k /\ \A i \in 1..m : r[i] = s[k + i]
      /\ \A i \in 1..m : k + i \in 1..l
      /\ \A i \in 1..m - 1 : k + i \in 1..l - 1 /\ k + i + 1 = k + (i + 1) /\ i + 1 \in 1..m
      /\ \A i, j \in 1..m : i < j => k + i < k + j
  BY <1>1
<1>3. Connected(t, r)
  <2> SUFFICES ASSUME NEW i \in 1..m - 1
               PROVE  /\ r[i] # End /\ r[i + 1] # End => r[i + 1] = After(t, r[i])
                      /\ r[i] # End /\ r[i + 1] = End => EndsLine(t, r[i])
                      /\ r[i] = End => r[i + 1] # End /\ r[i + 1][2] = 1
    BY DEF Connected
  <2>1. i \in 1..m
    BY <1>2
  <2> HIDE DEF l, m
  <2>2. r[i] = s[k + i] /\ r[i + 1] = s[k + i + 1] /\ k + i \in 1..l - 1
    BY <1>2, <2>1
  <2> QED
    BY <1>1, <2>2 DEF Connected, l
<1>4. Rising(r)
  <2> SUFFICES ASSUME NEW i \in 1..m, NEW j \in 1..m, i < j, r[i] # End, r[j] # End
               PROVE  Before(r[i], r[j])
    BY DEF Rising
  <2> HIDE DEF l, m
  <2>1. r[i] = s[k + i] /\ r[j] = s[k + j] /\ k + i < k + j /\ k + i \in 1..l /\ k + j \in 1..l
    BY <1>2
  <2> QED
    BY <1>1, <2>1 DEF Rising, l
<1>5. Complete(t, r)
  <2> SUFFICES ASSUME r # <<>>, r[m] # End
               PROVE  r[m][1] = Len(t) /\ EndsLine(t, r[m])
    BY DEF Complete
  <2>1. m # 0
    BY EmptySeq
  <2>2. m \in 1..m /\ k + m = l /\ l # 0
    BY <1>2, <2>1
  <2>3. r[m] = s[l]
    <3> HIDE DEF l, m
    <3> QED
      BY <1>2, <2>2
  <2>4. s # <<>>
    BY <2>2, EmptySeq
  <2> QED
    BY <1>1, <2>3, <2>4 DEF Complete
<1>6. ASSUME NEW w, Precedes(w, s) PROVE Precedes(w, r)
  <2> SUFFICES ASSUME NEW i \in 1..Len(w), NEW j \in 1..m, r[j] # End
               PROVE  Before(w[i], r[j])
    BY DEF Precedes
  <2> HIDE DEF l, m
  <2>1. r[j] = s[k + j] /\ k + j \in 1..l
    BY <1>2
  <2> QED
    BY <1>6, <2>1 DEF Precedes, l
<1> QED
  BY <1>3, <1>4, <1>5, <1>6 DEF Input

(* What is read has no gaps, and comes before what is left.                 *)
LEMMA FirstOfInput ==
  ASSUME NEW t \in Seq(Shapes), NEW s, Input(t, s), NEW k \in 0..Len(s),
         \A i \in 1..k : s[i] # End, NEW j \in 0..k, NEW b, b = SubSeq(s, 1, j)
  PROVE  /\ b \in Seq(Chars(t)) /\ Len(b) = j /\ \A i \in 1..j : b[i] = s[i]
         /\ NoGaps(t, b)
         /\ \A w : Precedes(w, s) => Precedes(w, b)
<1> DEFINE U == Items(t)
<1>1. s \in Seq(U) /\ Len(s) \in Nat /\ j \in Nat /\ j <= Len(s) /\ k \in Nat /\ j <= k
      /\ Connected(t, s)
  BY LenProperties DEF Input
<1>2. \A i \in 1..j : s[i] # End /\ s[i] \in U /\ i \in 1..Len(s)
  <2>1. \A i \in 1..j : i \in 1..k /\ i \in 1..Len(s)
    BY <1>1
  <2> HIDE DEF U
  <2> QED
    BY <1>1, <2>1, ElementOfSeq
<1>3. b \in Seq(U) /\ Len(b) = j /\ \A i \in 1..j : b[i] = s[i]
  <2> HIDE DEF U
  <2> QED
    BY <1>1, Cut
<1>4. b \in Seq(Chars(t))
  <2>1. \A i \in 1..Len(b) : b[i] \in Chars(t)
    BY <1>2, <1>3 DEF Items
  <2> QED
    BY <1>3, <2>1, TextWithin
<1>5. NoGaps(t, b)
  <2> SUFFICES ASSUME NEW i \in 1..j - 1 PROVE b[i + 1] = After(t, b[i])
    BY <1>3 DEF NoGaps
  <2>1. i \in 1..j /\ i + 1 \in 1..j /\ i \in 1..Len(s) - 1
    BY <1>1
  <2>2. s[i + 1] = After(t, s[i])
    BY <1>1, <1>2, <2>1 DEF Connected
  <2> QED
    BY <1>3, <2>1, <2>2
<1>6. ASSUME NEW w, Precedes(w, s) PROVE Precedes(w, b)
  <2> SUFFICES ASSUME NEW i \in 1..Len(w), NEW h \in 1..j PROVE Before(w[i], b[h])
    BY <1>3 DEF Precedes
  <2> QED
    BY <1>2, <1>3, <1>6 DEF Precedes
<1> QED
  BY <1>3, <1>4, <1>5, <1>6

(* A read gets no end, and on a terminal no more than one line; what it     *)
(* could read as a whole ends with a line.                                  *)
LEMMA ReadFacts ==
  ASSUME typed \in Seq(Shapes), Input(typed, source), Ready, NEW n \in Nat, NEW k, k = Reads(n)
  PROVE  /\ k \in 0..Len(source) /\ k <= n
         /\ \A i \in 1..k : source[i] # End
         /\ terminal => \A i \in 1..k - 1 : ~EndsLine(typed, source[i])
         /\ k < n \/ Len(source) <= n =>
              /\ k > 0 => EndsLine(typed, source[k])
              /\ k > 0 => k = Len(source) \/ source[k + 1] = End \/ source[k + 1][2] = 1
              /\ k = 0 => source[1] = End
<1> DEFINE Stops(u) == u = End \/ (terminal /\ u[1] > 0 /\ IsNewline(u))
           I == {i \in 1..Len(source) : Stops(source[i])}
           stop == IF I # {} THEN Min(I) ELSE 0
           l == Len(source)
           units == IF stop = 0 THEN l ELSE IF source[stop] = End THEN stop - 1 ELSE stop
<1>1. /\ source \in Seq(Items(typed)) /\ l \in Nat /\ l # 0
      /\ Connected(typed, source) /\ Complete(typed, source) /\ source # <<>>
  BY EmptySeq, LenProperties DEF Input, Ready
<1>2. k = IF units < n THEN units ELSE n
  BY DEF Reads, SelectInSeq
<1>3. \A i \in 1..l : source[i] # End => source[i] \in Chars(typed) /\ source[i][1] > 0
  <2>1. \A i \in 1..l : source[i] \in Items(typed)
    BY <1>1, ElementOfSeq
  <2>2. \A u \in Chars(typed) : u[1] > 0
    BY DEF Chars
  <2> QED
    BY <2>1, <2>2 DEF Items
<1>4. \/ stop = 0 /\ \A i \in 1..l : ~Stops(source[i])
      \/ stop \in 1..l /\ Stops(source[stop]) /\ \A i \in 1..l : i < stop => ~Stops(source[i])
  <2>1. CASE I = {}
    BY <2>1
  <2>2. CASE I # {}
    <3>1. I \in SUBSET Nat
      OBVIOUS
    <3> HIDE DEF I
    <3>2. Min(I) \in I /\ \A y \in I : Min(I) <= y
      BY <2>2, <3>1, MinIsLeast
    <3>3. stop = Min(I)
      BY <2>2
    <3> HIDE DEF stop
    <3>4. stop \in 1..l /\ Stops(source[stop]) /\ stop \in Nat
      BY <3>2, <3>3 DEF I
    <3>5. \A i \in 1..l : Stops(source[i]) => stop <= i
      BY <3>2, <3>3 DEF I
    <3> HIDE DEF Stops
    <3>6. \A i \in 1..l : i < stop => ~(stop <= i)
      BY <3>4
    <3> QED
      BY <3>4, <3>5, <3>6
  <2> QED
    BY <2>1, <2>2
<1> HIDE DEF stop, I
<1>5. units \in 0..l /\ (stop # 0 => units <= stop) /\ stop \in 0..l
  BY <1>1, <1>4
<1>6. \A i \in 1..units : source[i] # End
  <2> SUFFICES ASSUME NEW i \in 1..units PROVE source[i] # End
    OBVIOUS
  <2>1. i \in 1..l
    BY <1>1, <1>5
  <2>2. CASE stop = 0
    BY <1>4, <1>5, <2>1, <2>2
  <2>3. CASE stop # 0 /\ i < stop
    BY <1>4, <2>1, <2>3
  <2>4. CASE stop # 0 /\ i = stop
    BY <1>4, <2>4
  <2>5. stop # 0 => i < stop \/ i = stop
    BY <1>5
  <2> QED
    BY <2>2, <2>3, <2>4, <2>5
<1>7. ASSUME terminal, NEW i \in 1..units - 1 PROVE ~EndsLine(typed, source[i])
  <2>1. i \in 1..l /\ i \in 1..units /\ (stop # 0 => i < stop)
    BY <1>1, <1>5
  <2>2. ~Stops(source[i])
    BY <1>4, <2>1
  <2>3. source[i] # End /\ source[i][1] > 0
    BY <1>3, <1>6, <2>1
  <2> QED
    BY <1>7, <2>2, <2>3 DEF IsNewline, EndsLine
<1>8. ASSUME units > 0
      PROVE  /\ EndsLine(typed, source[units])
             /\ units = l \/ source[units + 1] = End \/ source[units + 1][2] = 1
  <2>1. units \in 1..units /\ units \in 1..l /\ source[units] # End
    BY <1>5, <1>6, <1>8
  <2>2. CASE stop = 0
    BY <1>1, <2>1, <2>2 DEF Complete
  <2>3. CASE stop # 0 /\ source[stop] = End
    <3>1. units = stop - 1 /\ units + 1 = stop /\ units \in 1..l - 1
      BY <1>1, <1>5, <1>8, <2>3
    <3> QED
      BY <1>1, <2>1, <2>3, <3>1 DEF Connected
  <2>4. CASE stop # 0 /\ source[stop] # End
    <3>1. units = stop
      BY <2>4
    <3>2. Stops(source[stop])
      BY <1>4, <2>4
    <3>3. EndsLine(typed, source[stop])
      BY <2>4, <3>2 DEF IsNewline, EndsLine
    <3>4. ASSUME units # l, source[units + 1] # End PROVE source[units + 1][2] = 1
      <4>1. units \in 1..l - 1
        BY <1>1, <2>1, <3>4
      <4>2. source[units + 1] = After(typed, source[units])
        BY <1>1, <2>1, <3>4, <4>1 DEF Connected
      <4> QED
        BY <3>1, <3>3, <4>2 DEF After
    <3> QED
      BY <3>1, <3>3, <3>4
  <2> QED
    BY <2>2, <2>3, <2>4
<1>9. ASSUME units = 0 PROVE source[1] = End
  BY <1>1, <1>4, <1>9
<1> HIDE DEF units
<1>10. k \in 0..l /\ k <= n /\ k <= units /\ (k < n \/ l <= n => k = units)
  BY <1>1, <1>2, <1>5
<1>11. (\A i \in 1..k : i \in 1..units) /\ (\A i \in 1..k - 1 : i \in 1..units - 1)
  BY <1>1, <1>5, <1>10
<1>12. ASSUME k < n \/ l <= n
       PROVE  /\ k > 0 => EndsLine(typed, source[k])
              /\ k > 0 => k = l \/ source[k + 1] = End \/ source[k + 1][2] = 1
              /\ k = 0 => source[1] = End
  BY <1>8, <1>9, <1>10, <1>12
<1> QED
  BY <1>6, <1>7, <1>10, <1>11, <1>12 DEF l

(* What is left after a read is input, behind what was read; at a line, if  *)
(* the read ended at one.                                                   *)
LEMMA AfterReadIsInput ==
  ASSUME typed \in Seq(Shapes), Input(typed, source), Ready,
         NEW k \in 0..Len(source), k = 0 => source[1] = End, \A i \in 1..k : source[i] # End,
         NEW r, r = AfterRead(k)
  PROVE  /\ Input(typed, r)
         /\ \A w : Precedes(w, source) => Precedes(w, r)
         /\ \A j \in 0..k : Precedes(SubSeq(source, 1, j), r)
         /\ (k > 0 => k = Len(source) \/ source[k + 1] = End \/ source[k + 1][2] = 1) => AtLine(r)
<1> DEFINE U == Items(typed)
           l == Len(source)
           d == IF k > 0 THEN k ELSE IF terminal THEN 1 ELSE 0
           back == SubSeq(source, d + 1, l)
<1>1. /\ source \in Seq(U) /\ source # <<>> /\ l \in Nat /\ l # 0 /\ k \in Nat /\ k <= l
      /\ Connected(typed, source) /\ Rising(source)
  BY EmptySeq, LenProperties DEF Input, Ready
<1>2. d \in 0..l /\ k <= d /\ d \in Nat
  BY <1>1
<1>3. r \in Seq(U) /\ Len(r) = l - d /\ \A i \in 1..Len(r) : r[i] = source[d + i]
  <2>1. \A e \in 0..l : LET b == SubSeq(source, e + 1, l)
                        IN b \in Seq(U) /\ Len(b) = l - e /\ \A i \in 1..l - e : b[i] = source[e + i]
    <3> SUFFICES ASSUME NEW e \in 0..l
                 PROVE  LET b == SubSeq(source, e + 1, l)
                        IN b \in Seq(U) /\ Len(b) = l - e /\ \A i \in 1..l - e : b[i] = source[e + i]
      OBVIOUS
    <3> DEFINE b == SubSeq(source, e + 1, l)
    <3>1. e \in Nat /\ e <= Len(source) /\ e + 1 \in Int /\ l \in Int
      BY <1>1
    <3>2. b \in Seq(U) /\ Len(b) = l - e
      <4> HIDE DEF U
      <4> QED
        BY <1>1, <3>1, Cut
    <3>3. ASSUME NEW i \in 1..l - e PROVE b[i] = source[e + i]
      <4>1. i \in Nat \ {0} /\ i <= l - e /\ e + 1 <= l /\ e + 1 + i - 1 = e + i
            /\ i \in 1..l - (e + 1) + 1
        BY <1>1, <3>1
      <4>2. \A h \in e + 1..l : source[h] \in U
        <5>1. \A h \in e + 1..l : h \in 1..Len(source)
          BY <1>1, <3>1
        <5> HIDE DEF U
        <5> QED
          BY <1>1, <5>1, ElementOfSeq
      <4>3. b[i] = source[e + 1 + i - 1]
        <5> HIDE DEF U
        <5> QED
          BY <3>1, <4>1, <4>2, SubSeqProperties
      <4> QED
        BY <4>1, <4>3
    <3> QED
      BY <3>2, <3>3
  <2>2. CASE k > 0
    <3>1. r = SubSeq(source, k + 1, l) /\ d = k
      BY <2>2 DEF AfterRead
    <3> HIDE DEF U, d
    <3> QED
      BY <1>2, <2>1, <3>1
  <2>3. CASE k = 0 /\ terminal
    <3>1. r = Tail(source) /\ d = 1
      BY <1>1, <2>3 DEF AfterRead
    <3>2. r \in Seq(U) /\ Len(r) = l - 1
      <4> HIDE DEF U
      <4> QED
        BY <1>1, <3>1, HeadAndTail
    <3>3. \A i \in 1..Len(r) : r[i] = source[i + 1]
      BY <1>1, <3>1, <3>2
    <3>4. \A i \in 1..Len(r) : i + 1 = 1 + i
      BY <3>2
    <3> HIDE DEF U, d
    <3> QED
      BY <3>1, <3>2, <3>3, <3>4
  <2>4. CASE k = 0 /\ ~terminal
    <3>1. r = source /\ d = 0
      BY <1>1, <2>4 DEF AfterRead
    <3>2. l - 0 = l /\ \A i \in 1..l : 0 + i = i
      BY <1>1
    <3> HIDE DEF U
    <3> QED
      BY <1>1, <3>1, <3>2
  <2> QED
    BY <1>1, <2>2, <2>3, <2>4
<1>4. Input(typed, r) /\ \A w : Precedes(w, source) => Precedes(w, r)
  <2>1. /\ d \in 0..Len(source) /\ r \in Seq(Items(typed))
        /\ Len(r) = Len(source) - d /\ \A i \in 1..Len(r) : r[i] = source[d + i]
    BY <1>2, <1>3
  <2>2. \A e \in 0..Len(source) : \A q \in Seq(Items(typed)) :
          Len(q) = Len(source) - e /\ (\A i \in 1..Len(q) : q[i] = source[e + i]) =>
              Input(typed, q) /\ \A w : Precedes(w, source) => Precedes(w, q)
    BY RestIsInput
  <2> HIDE DEF d, U, l
  <2> QED
    BY <2>1, <2>2
<1>5. ASSUME NEW j \in 0..k PROVE Precedes(SubSeq(source, 1, j), r)
  <2> DEFINE b == SubSeq(source, 1, j)
  <2>1. Len(b) = j /\ \A i \in 1..j : b[i] = source[i]
    BY FirstOfInput
  <2> HIDE DEF b
  <2> SUFFICES ASSUME NEW i \in 1..j, NEW h \in 1..Len(r), r[h] # End
               PROVE  Before(b[i], r[h])
    BY <2>1 DEF Precedes, b
  <2>2. i \in 1..k /\ i \in 1..l /\ d + h \in 1..l /\ i < d + h
    <3> HIDE DEF d
    <3> QED
      BY <1>1, <1>2, <1>3
  <2>3. b[i] = source[i] /\ r[h] = source[d + h]
    <3> HIDE DEF d
    <3> QED
      BY <1>3, <2>1
  <2>4. source[i] # End
    BY <2>2
  <2> HIDE DEF d
  <2> QED
    BY <1>1, <2>2, <2>3, <2>4 DEF Rising
<1>6. ASSUME k > 0 => k = l \/ source[k + 1] = End \/ source[k + 1][2] = 1
      PROVE  AtLine(r)
  <2> SUFFICES ASSUME r # <<>> PROVE r[1] = End \/ r[1][2] = 1
    BY DEF AtLine
  <2>1. Len(r) \in Nat /\ Len(r) # 0
    BY <1>3, EmptySeq
  <2>2. 1 \in 1..Len(r) /\ d + 1 \in 1..l
    <3> HIDE DEF d
    <3> QED
      BY <1>1, <1>2, <1>3, <2>1
  <2>3. r[1] = source[d + 1]
    <3> HIDE DEF d
    <3> QED
      BY <1>3, <2>2
  <2>4. CASE k > 0
    BY <1>1, <1>6, <2>2, <2>3, <2>4
  <2>5. CASE k = 0 /\ terminal
    <3>1. d = 1 /\ source[1] = End /\ 1 \in 1..l - 1
      BY <1>1, <2>2, <2>5
    <3>2. source[1 + 1][2] = 1
      BY <1>1, <3>1 DEF Connected
    <3> QED
      BY <2>3, <3>1, <3>2
  <2>6. CASE k = 0 /\ ~terminal
    <3>1. d = 0 /\ source[1] = End /\ d + 1 = 1
      BY <1>1, <2>6
    <3> QED
      BY <2>3, <3>1
  <2> QED
    BY <1>1, <2>4, <2>5, <2>6
<1> QED
  BY <1>4, <1>5, <1>6

-----------------------------------------------------------------------------
(* Another line is typed, or an end.                                        *)

\* The lines after a further one.
Longer(t, shape) == Append(t, shape)

(* What was typed keeps its meaning when a further line is typed.           *)
LEMMA OldLines ==
  ASSUME NEW t \in Seq(Shapes), NEW shape \in Shapes, NEW t2, t2 = Longer(t, shape)
  PROVE  /\ t2 \in Seq(Shapes) /\ Len(t2) = Len(t) + 1 /\ t2[Len(t) + 1] = shape
         /\ \A n \in 1..Len(t) : t2[n] = t[n]
         /\ \A u \in Chars(t) : /\ u \in Chars(t2) /\ t2[u[1]] = t[u[1]]
                                /\ EndsLine(t2, u) <=> EndsLine(t, u)
                                /\ After(t2, u) = After(t, u)
         /\ \A n, m \in 1..Len(t) : TextOf(t2, n, m) = TextOf(t, n, m)
<1>1. /\ t2 \in Seq(Shapes) /\ Len(t2) = Len(t) + 1 /\ t2[Len(t) + 1] = shape
      /\ \A n \in 1..Len(t) : t2[n] = t[n]
  BY AppendProperties DEF Longer
<1>2. Len(t) \in Nat
  BY LenProperties
<1>3. ASSUME NEW u \in Chars(t)
      PROVE  /\ u \in Chars(t2) /\ t2[u[1]] = t[u[1]]
             /\ EndsLine(t2, u) <=> EndsLine(t, u)
             /\ After(t2, u) = After(t, u)
  <2>1. u[1] \in 1..Len(t) /\ u[2] \in 1..t[u[1]].len + 1 /\ u \in Nat \X Nat
    BY DEF Chars
  <2>2. u[1] \in 1..Len(t2) /\ t2[u[1]] = t[u[1]]
    BY <1>1, <1>2, <2>1
  <2>3. u \in Chars(t2)
    BY <2>1, <2>2 DEF Chars
  <2>4. EndsLine(t2, u) <=> EndsLine(t, u)
    BY <2>2 DEF EndsLine
  <2> QED
    BY <2>2, <2>3, <2>4 DEF After
<1>4. ASSUME NEW n \in 1..Len(t), NEW m \in 1..Len(t)
      PROVE  TextOf(t2, n, m) = TextOf(t, n, m)
  <2> DEFINE k == m - n + 1
             old(i) == LineOf(t, n + i - 1)
             new(i) == LineOf(t2, n + i - 1)
  <2>1. \A i \in 1..k : n + i - 1 \in 1..Len(t)
    BY <1>2
  <2>2. \A j \in 1..Len(t) : LineOf(t2, j) = LineOf(t, j)
    BY <1>1 DEF LineOf
  <2>3. \A i \in 1..k : new(i) = old(i)
    BY <2>1, <2>2
  <2>4. TextOf(t2, n, m) = FlattenSeq([i \in 1..k |-> new(i)])
        /\ TextOf(t, n, m) = FlattenSeq([i \in 1..k |-> old(i)])
    BY DEF TextOf
  <2> HIDE DEF k, old, new
  <2>5. [i \in 1..k |-> new(i)] = [i \in 1..k |-> old(i)]
    BY <2>3
  <2> QED
    BY <2>4, <2>5
<1> QED
  BY <1>1, <1>3, <1>4

(* Rows of characters, lines and commands stay what they are.               *)
LEMMA OldStays ==
  ASSUME NEW t \in Seq(Shapes), NEW shape \in Shapes, NEW t2, t2 = Longer(t, shape),
         NEW s \in Seq(Chars(t))
  PROVE  /\ s \in Seq(Chars(t2))
         /\ \A i \in 1..Len(s) : EndsLine(t, s[i]) <=> EndsLine(t2, s[i])
         /\ \A term : Line(t, term, s) => Line(t2, term, s)
         /\ \A term : s # <<>> /\ Command(t, term, s) => Command(t2, term, s)
<1> DEFINE l == Len(s)
<1>1. \A i \in 1..l : s[i] \in Chars(t)
  BY ElementOfSeq
<1>2. \A i \in 1..l : /\ s[i] \in Chars(t2) /\ t2[s[i][1]] = t[s[i][1]]
                      /\ EndsLine(t2, s[i]) <=> EndsLine(t, s[i])
                      /\ After(t2, s[i]) = After(t, s[i])
  BY <1>1, OldLines, ZenonT(60)
<1>3. s \in Seq(Chars(t2))
  BY <1>2, TextWithin
<1>4. l \in Nat /\ (s # <<>> => 1 \in 1..l /\ l \in 1..l) /\ \A i \in 1..l - 1 : i \in 1..l
  <2>1. l \in Nat /\ (s # <<>> => l # 0)
    BY EmptySeq, LenProperties
  <2> HIDE DEF l
  <2> QED
    BY <2>1
<1>5. ASSUME NEW term, Line(t, term, s) PROVE Line(t2, term, s)
  <2> SUFFICES ASSUME s # <<>>
               PROVE  /\ Begins(t2, s)
                      /\ EndsLine(t2, s[l]) \/ Dollar(t2, s)
                      /\ term => \A i \in 1..l : s[i][1] = s[1][1]
    BY DEF Line
  <2>1. /\ Begins(t, s)
        /\ EndsLine(t, s[l]) \/ Dollar(t, s)
        /\ term => \A i \in 1..l : s[i][1] = s[1][1]
    BY <1>5 DEF Line
  <2>2. Begins(t2, s)
    BY <1>2, <1>4, <2>1 DEF Begins, NoGaps
  <2>3. EndsLine(t2, s[l]) \/ Dollar(t2, s)
    BY <1>2, <1>4, <2>1 DEF Dollar
  <2> QED
    BY <2>1, <2>2, <2>3
<1>6. ASSUME NEW term, s # <<>>, Command(t, term, s) PROVE Command(t2, term, s)
  <2> DEFINE first == s[1][1]
             last == s[l][1]
  <2>1. first \in 1..Len(t) /\ last \in 1..Len(t)
    BY <1>1, <1>4, <1>6 DEF Chars
  <2>2. TextOf(t2, first, last) = TextOf(t, first, last)
    <3>1. \A n, m \in 1..Len(t) : TextOf(t2, n, m) = TextOf(t, n, m)
      BY OldLines
    <3> HIDE DEF first, last
    <3> QED
      BY <2>1, <3>1
  <2>3. \A i \in 1..l : t2[s[i][1]] = t[s[i][1]]
    BY <1>2
  <2> QED
    BY <1>6, <2>2, <2>3 DEF Command
<1> QED
  BY <1>2, <1>3, <1>5, <1>6

(* The characters of a further line.                                        *)
LEMMA NewUnits ==
  ASSUME NEW t \in Seq(Shapes), NEW shape \in Shapes, NEW t2, t2 = Longer(t, shape)
  PROVE  /\ Len(t) + 1 \in Nat \ {0} /\ shape.len + 1 \in Nat \ {0}
         /\ Units(Len(t) + 1, shape.len) \in Seq(Chars(t2))
         /\ Len(Units(Len(t) + 1, shape.len)) = shape.len + 1
         /\ \A p \in 1..shape.len + 1 : Units(Len(t) + 1, shape.len)[p] = <<Len(t) + 1, p>>
<1> DEFINE n == Len(t) + 1
           m == shape.len + 1
           C == Chars(t2)
           e(p) == <<n, p>>
           new == Units(n, shape.len)
<1>1. Len(t2) = n /\ t2[n] = shape
  BY OldLines, ZenonT(60)
<1>2. n \in Nat \ {0} /\ m \in Nat \ {0} /\ n \in 1..n
  BY LenProperties, ShapesAssumption
<1>3. m = shape.len + 1
  OBVIOUS
<1>4. new = [p \in 1..m |-> e(p)]
  BY DEF Units
<1> HIDE DEF n, m, new
<1>5. \A p \in 1..m : e(p) \in C
  BY <1>1, <1>2, <1>3 DEF Chars
<1> HIDE DEF e, C
<1>6. new \in [1..m -> C] /\ \A p \in 1..m : new[p] = e(p)
  BY <1>4, <1>5
<1>7. new \in Seq(C) /\ Len(new) = m
  BY <1>2, <1>6
<1> QED
  BY <1>2, <1>6, <1>7 DEF e, new, C, n, m

\* The lines t2 are those of t and the n-th, the characters of which are new.
Grows(t, t2, n, m, new) ==
    /\ n \in Nat \ {0} /\ m \in Nat \ {0} /\ n = Len(t) + 1 /\ Len(t2) = n
    /\ \A u \in Chars(t) : /\ u \in Chars(t2)
                           /\ EndsLine(t2, u) <=> EndsLine(t, u)
                           /\ After(t2, u) = After(t, u)
    /\ \A p : EndsLine(t2, <<n, p>>) <=> p = m
    /\ new \in Seq(Items(t2)) /\ Len(new) = m /\ \A p \in 1..m : new[p] = <<n, p>>

(* A line that is typed is such a line.                                     *)
LEMMA LineGrows ==
  ASSUME NEW t \in Seq(Shapes), NEW shape \in Shapes, NEW t2, t2 = Longer(t, shape)
  PROVE  Grows(t, t2, Len(t) + 1, shape.len + 1, Units(Len(t) + 1, shape.len))
<1> DEFINE n == Len(t) + 1
           m == shape.len + 1
           new == Units(n, shape.len)
<1>1. /\ t2 \in Seq(Shapes) /\ Len(t2) = n /\ t2[n] = shape
      /\ \A u \in Chars(t) : /\ u \in Chars(t2)
                             /\ EndsLine(t2, u) <=> EndsLine(t, u)
                             /\ After(t2, u) = After(t, u)
  BY OldLines, ZenonT(60)
<1>2. /\ n \in Nat \ {0} /\ m \in Nat \ {0}
      /\ new \in Seq(Chars(t2)) /\ Len(new) = m /\ \A p \in 1..m : new[p] = <<n, p>>
  BY NewUnits
<1>3. \A p : EndsLine(t2, <<n, p>>) <=> p = m
  BY <1>1 DEF EndsLine
<1> HIDE DEF n, m, new
<1>4. new \in Seq(Items(t2))
  <2>1. \A p \in 1..Len(new) : new[p] \in Chars(t2)
    BY <1>2, ElementOfSeq
  <2>2. \A p \in 1..Len(new) : new[p] \in Items(t2)
    BY <2>1 DEF Items
  <2> QED
    BY <1>2, <2>2, TextWithin
<1>5. n = Len(t) + 1
  BY DEF n
<1>6. Grows(t, t2, n, m, new)
  BY <1>1, <1>2, <1>3, <1>4, <1>5 DEF Grows
<1> QED
  BY <1>6 DEF n, m, new

(* A further line continues the input.                                      *)
LEMMA LineContinues ==
  ASSUME NEW t \in Seq(Shapes), NEW t2, NEW n, NEW m, NEW new, Grows(t, t2, n, m, new),
         NEW s, Input(t, s), NEW s2, s2 = Cat(s, new)
  PROVE  /\ Input(t2, s2)
         /\ \A w \in Seq(Chars(t)) : Precedes(w, s) => Precedes(w, s2)
         /\ AtLine(s) => AtLine(s2)
<1> DEFINE l == Len(s)
           I == Items(t2)
<1>1. \A u \in Chars(t) : /\ u \in Chars(t2)
                          /\ EndsLine(t2, u) <=> EndsLine(t, u)
                          /\ After(t2, u) = After(t, u)
  BY DEF Grows
<1>2. /\ s \in Seq(Items(t)) /\ l \in Nat /\ Connected(t, s) /\ Rising(s) /\ Complete(t, s)
      /\ (s = <<>> <=> l = 0)
  BY EmptySeq, LenProperties DEF Input
<1>3. n \in Nat \ {0} /\ m \in Nat \ {0} /\ n = Len(t) + 1 /\ Len(t2) = n
  BY DEF Grows
<1>4. \A p : EndsLine(t2, <<n, p>>) <=> p = m
  BY DEF Grows
<1>5. \A p : <<n, p>> # End
  BY <1>3 DEF End
<1>6. \A i \in 1..l : s[i] \in I /\ (s[i] # End => s[i] \in Chars(t) /\ s[i][1] < n)
  <2> SUFFICES ASSUME NEW i \in 1..l
               PROVE  s[i] \in I /\ (s[i] # End => s[i] \in Chars(t) /\ s[i][1] < n)
    OBVIOUS
  <2>1. s[i] \in Items(t)
    BY <1>2, ElementOfSeq
  <2>2. \A u \in Chars(t) : u[1] < n
    BY <1>3 DEF Chars
  <2>3. s[i] = End \/ s[i] \in Chars(t)
    BY <2>1 DEF Items
  <2>4. s[i] = End \/ s[i] \in Chars(t2)
    <3>1. \A u \in Chars(t) : u \in Chars(t2)
      BY <1>1
    <3> HIDE DEF l, I
    <3> QED
      BY <2>3, <3>1
  <2>5. s[i] \in I
    BY <2>4 DEF Items
  <2> QED
    BY <2>2, <2>3, <2>5
<1>7. s \in Seq(I)
  <2> HIDE DEF I
  <2> QED
    BY <1>2, <1>6, TextWithin
<1>8. new \in Seq(I) /\ Len(new) = m /\ \A p \in 1..m : new[p] = <<n, p>>
  BY DEF Grows
<1> HIDE DEF I
<1>9. s2 = Cat(s, new)
  OBVIOUS
<1> DEFINE k == Len(s2)
<1>10. /\ s2 \in Seq(I) /\ k = l + m
       /\ \A i \in 1..l + m : s2[i] = IF i <= l THEN s[i] ELSE new[i - l]
  <2>1. s \in Seq(I) /\ new \in Seq(I)
    BY <1>7, <1>8
  <2>2. /\ s2 \in Seq(I) /\ Len(s2) = l + Len(new)
        /\ \A i \in 1..l + Len(new) : s2[i] = IF i <= l THEN s[i] ELSE new[i - l]
    BY <1>9, <2>1, CatType, ZenonT(60)
  <2> HIDE DEF l
  <2> QED
    BY <1>8, <2>2
<1> HIDE DEF l, k
<1>11. /\ k \in Nat /\ l < k /\ l + 1 \in 1..k
       /\ \A i \in 1..l : i \in 1..k /\ s2[i] = s[i]
       /\ \A i \in 1..k : i > l => \E p \in 1..m : p = i - l /\ s2[i] = <<n, p>>
  <2>1. k = l + m /\ k \in Nat /\ l < k /\ l + 1 \in 1..k
    BY <1>2, <1>3, <1>10
  <2>2. \A i \in 1..l : i \in 1..k /\ s2[i] = s[i]
    BY <1>2, <1>10, <2>1
  <2>3. ASSUME NEW i \in 1..k, i > l PROVE \E p \in 1..m : p = i - l /\ s2[i] = <<n, p>>
    <3> DEFINE p == i - l
    <3>1. p \in 1..m /\ ~(i <= l) /\ i \in 1..l + m
      BY <1>2, <1>3, <2>1, <2>3
    <3>2. s2[i] = new[p]
      BY <1>10, <3>1
    <3>3. p = i - l
      OBVIOUS
    <3> HIDE DEF p
    <3>4. s2[i] = <<n, p>>
      BY <1>8, <3>1, <3>2
    <3> QED
      BY <3>1, <3>3, <3>4
  <2> QED
    BY <2>1, <2>2, <2>3
<1>12. Connected(t2, s2)
  <2> SUFFICES ASSUME NEW i \in 1..k - 1
               PROVE  /\ s2[i] # End /\ s2[i + 1] # End => s2[i + 1] = After(t2, s2[i])
                      /\ s2[i] # End /\ s2[i + 1] = End => EndsLine(t2, s2[i])
                      /\ s2[i] = End => s2[i + 1] # End /\ s2[i + 1][2] = 1
    BY DEF Connected, k
  <2> DEFINE j == i + 1
  <2>1. i \in 1..k /\ j \in 1..k /\ i \in Nat /\ j = i + 1
    BY <1>11
  <2> HIDE DEF j
  <2>2. CASE j <= l
    <3>1. i \in 1..l - 1 /\ i \in 1..l /\ j \in 1..l
      BY <1>2, <2>1, <2>2
    <3>2. s2[i] = s[i] /\ s2[j] = s[j]
      BY <1>11, <3>1
    <3>3. /\ s[i] # End /\ s[j] # End => s[j] = After(t, s[i])
          /\ s[i] # End /\ s[j] = End => EndsLine(t, s[i])
          /\ s[i] = End => s[j] # End /\ s[j][2] = 1
      BY <1>2, <2>1, <3>1 DEF Connected, l
    <3>4. s[i] # End => s[i] \in Chars(t)
      BY <1>6, <3>1
    <3> QED
      BY <1>1, <2>1, <3>2, <3>3, <3>4
  <2>3. CASE i = l
    <3>1. i \in 1..l /\ j > l /\ j - l = 1 /\ l \in 1..l /\ l # 0
      BY <1>2, <2>1, <2>3
    <3>2. s2[i] = s[l]
      BY <1>11, <2>3, <3>1
    <3>3. s2[j] = <<n, 1>>
      BY <1>11, <2>1, <3>1
    <3>4. s2[j] # End /\ s2[j][2] = 1
      BY <1>5, <3>3
    <3>5. ASSUME s[l] # End PROVE s2[j] = After(t2, s[l])
      <4>1. s[l][1] = Len(t) /\ EndsLine(t, s[l]) /\ s[l] \in Chars(t)
        BY <1>2, <1>6, <3>1, <3>5 DEF Complete, l
      <4>2. After(t, s[l]) = <<n, 1>>
        BY <1>3, <4>1 DEF After
      <4> QED
        BY <1>1, <3>3, <4>1, <4>2
    <3> QED
      BY <2>1, <3>2, <3>4, <3>5
  <2>4. CASE i > l
    <3>1. j > l
      BY <1>2, <2>1, <2>4
    <3>2. PICK p \in 1..m : p = i - l /\ s2[i] = <<n, p>>
      BY <1>11, <2>1, <2>4
    <3>3. PICK q \in 1..m : q = j - l /\ s2[j] = <<n, q>>
      BY <1>11, <2>1, <3>1
    <3>4. q = p + 1 /\ p # m
      BY <1>2, <1>3, <2>1, <3>2, <3>3
    <3>5. s2[i] # End /\ s2[j] # End
      BY <1>5, <3>2, <3>3
    <3>6. ~EndsLine(t2, s2[i])
      BY <1>4, <3>2, <3>4
    <3>7. s2[j] = After(t2, s2[i])
      BY <3>2, <3>3, <3>4, <3>6 DEF After
    <3> QED
      BY <2>1, <3>5, <3>7
  <2> QED
    BY <1>2, <2>1, <2>2, <2>3, <2>4
<1>13. Rising(s2)
  <2> SUFFICES ASSUME NEW i \in 1..k, NEW j \in 1..k, i < j, s2[i] # End, s2[j] # End
               PROVE  Before(s2[i], s2[j])
    BY DEF Rising, k
  <2>1. CASE j <= l
    <3>1. i \in 1..l /\ j \in 1..l
      BY <1>2, <1>11, <2>1
    <3>2. s2[i] = s[i] /\ s2[j] = s[j]
      BY <1>11, <3>1
    <3> QED
      BY <1>2, <3>1, <3>2 DEF Rising, l
  <2>2. CASE i <= l /\ j > l
    <3>1. i \in 1..l
      BY <1>2, <1>11, <2>2
    <3>2. s2[i] = s[i]
      BY <1>11, <3>1
    <3>3. PICK q \in 1..m : q = j - l /\ s2[j] = <<n, q>>
      BY <1>11, <2>2
    <3>4. s[i][1] < n
      BY <1>6, <3>1, <3>2
    <3> QED
      BY <3>2, <3>3, <3>4 DEF Before
  <2>3. CASE i > l
    <3>1. j > l
      BY <1>2, <1>11, <2>3
    <3>2. PICK p \in 1..m : p = i - l /\ s2[i] = <<n, p>>
      BY <1>11, <2>3
    <3>3. PICK q \in 1..m : q = j - l /\ s2[j] = <<n, q>>
      BY <1>11, <3>1
    <3>4. p < q
      BY <1>2, <1>11, <3>2, <3>3
    <3> QED
      BY <3>2, <3>3, <3>4 DEF Before
  <2> QED
    BY <1>2, <1>11, <2>1, <2>2, <2>3
<1>14. Complete(t2, s2)
  <2>1. k \in 1..k /\ k > l /\ k - l = m
    BY <1>2, <1>3, <1>10, <1>11
  <2>2. s2[k] = <<n, m>>
    BY <1>11, <2>1
  <2>3. EndsLine(t2, s2[k])
    BY <1>4, <2>2
  <2>4. s2[k][1] = n
    BY <2>2
  <2> QED
    BY <1>3, <2>3, <2>4 DEF Complete, k
<1>15. ASSUME NEW w \in Seq(Chars(t)), Precedes(w, s) PROVE Precedes(w, s2)
  <2> SUFFICES ASSUME NEW i \in 1..Len(w), NEW j \in 1..k, s2[j] # End
               PROVE  Before(w[i], s2[j])
    BY DEF Precedes, k
  <2>1. CASE j <= l
    <3>1. j \in 1..l
      BY <1>2, <1>11, <2>1
    <3>2. s2[j] = s[j]
      BY <1>11, <3>1
    <3> QED
      BY <1>15, <3>1, <3>2 DEF Precedes, l
  <2>2. CASE j > l
    <3>1. PICK q \in 1..m : q = j - l /\ s2[j] = <<n, q>>
      BY <1>11, <2>2
    <3>2. w[i] \in Chars(t)
      BY ElementOfSeq
    <3>3. w[i][1] \in 1..Len(t) /\ Len(t) \in Nat
      BY <3>2, LenProperties DEF Chars
    <3>4. w[i][1] < n
      BY <1>3, <3>3
    <3> QED
      BY <3>1, <3>4 DEF Before
  <2> QED
    BY <1>2, <1>11, <2>1, <2>2
<1>16. ASSUME AtLine(s) PROVE AtLine(s2)
  <2>1. CASE l # 0
    <3>1. 1 \in 1..l
      BY <1>2, <2>1
    <3>2. s2[1] = s[1] /\ s # <<>>
      BY <1>2, <1>11, <2>1, <3>1
    <3> QED
      BY <1>16, <3>2 DEF AtLine
  <2>2. CASE l = 0
    <3>1. 1 \in 1..k /\ 1 > l /\ 1 - l = 1
      BY <1>11, <2>2
    <3>2. s2[1] = <<n, 1>>
      BY <1>11, <3>1
    <3>3. s2[1][2] = 1
      BY <3>2
    <3> QED
      BY <3>3 DEF AtLine
  <2> QED
    BY <2>1, <2>2
<1> QED
  BY <1>10, <1>12, <1>13, <1>14, <1>15, <1>16 DEF Input, I
(* An end, where there is none yet, continues the input.                    *)
LEMMA EndContinues ==
  ASSUME NEW t \in Seq(Shapes), NEW s, Input(t, s), s # <<>> => s[Len(s)] # End,
         NEW s2, s2 = Cat(s, One(End))
  PROVE  /\ Input(t, s2)
         /\ \A w : Precedes(w, s) => Precedes(w, s2)
         /\ AtLine(s) => AtLine(s2)
<1> DEFINE l == Len(s)
           k == Len(s2)
           I == Items(t)
           x == End
           new == One(x)
<1>1. /\ s \in Seq(I) /\ l \in Nat /\ Connected(t, s) /\ Rising(s) /\ Complete(t, s)
      /\ (s = <<>> <=> l = 0)
  BY EmptySeq, LenProperties DEF Input
<1>2. x \in I
  BY DEF Items
<1>3. s2 = Cat(s, new)
  OBVIOUS
<1> HIDE DEF I, x
<1>4. new \in Seq(I) /\ Len(new) = 1 /\ new[1] = x
  BY <1>2, OneType
<1> HIDE DEF new
<1>5. /\ s2 \in Seq(I) /\ k = l + 1
      /\ \A i \in 1..l + 1 : s2[i] = IF i <= l THEN s[i] ELSE new[i - l]
  <2>1. s \in Seq(I) /\ new \in Seq(I)
    BY <1>1, <1>4
  <2>2. /\ Cat(s, new) \in Seq(I) /\ Len(Cat(s, new)) = Len(s) + Len(new)
        /\ \A i \in 1..(Len(s) + Len(new)) :
              Cat(s, new)[i] = IF i <= Len(s) THEN s[i] ELSE new[i - Len(s)]
    BY <2>1, CatType
  <2>3. /\ s2 \in Seq(I) /\ Len(s2) = Len(s) + Len(new)
        /\ \A i \in 1..(Len(s) + Len(new)) :
              s2[i] = IF i <= Len(s) THEN s[i] ELSE new[i - Len(s)]
    BY <1>3, <2>2, Zenon
  <2> QED
    BY <1>4, <2>3
<1> HIDE DEF l, k
<1>6. k \in Nat /\ k \in 1..k /\ s2[k] = x /\ \A i \in 1..l : i \in 1..k /\ s2[i] = s[i]
  <2>1. k \in Nat /\ k \in 1..k /\ k \in 1..l + 1 /\ ~(k <= l) /\ k - l = 1
    BY <1>1, <1>5
  <2>2. \A i \in 1..l : i \in 1..k /\ i \in 1..l + 1 /\ i <= l
    BY <1>1, <1>5
  <2> QED
    BY <1>4, <1>5, <2>1, <2>2
<1>7. s2[k] = End
  BY <1>6 DEF x
<1>8. Connected(t, s2)
  <2> SUFFICES ASSUME NEW i \in 1..k - 1
               PROVE  /\ s2[i] # End /\ s2[i + 1] # End => s2[i + 1] = After(t, s2[i])
                      /\ s2[i] # End /\ s2[i + 1] = End => EndsLine(t, s2[i])
                      /\ s2[i] = End => s2[i + 1] # End /\ s2[i + 1][2] = 1
    BY DEF Connected, k
  <2> DEFINE j == i + 1
  <2>1. i \in 1..l /\ j = i + 1
    BY <1>1, <1>5
  <2> HIDE DEF j
  <2>2. s2[i] = s[i]
    BY <1>6, <2>1
  <2>3. CASE j <= l
    <3>1. i \in 1..l - 1 /\ j \in 1..l
      BY <1>1, <2>1, <2>3
    <3>2. s2[j] = s[j]
      BY <1>6, <3>1
    <3> QED
      BY <1>1, <2>1, <2>2, <3>1, <3>2 DEF Connected, l
  <2>4. CASE ~(j <= l)
    <3>1. j = k /\ i = l /\ s # <<>>
      BY <1>1, <1>5, <2>1, <2>4
    <3>2. s2[j] = End /\ s2[i] = s[l] /\ s[l] # End
      BY <1>7, <2>2, <3>1 DEF l
    <3>3. EndsLine(t, s[l])
      BY <1>1, <3>1, <3>2 DEF Complete, l
    <3> QED
      BY <2>1, <3>2, <3>3
  <2> QED
    BY <2>3, <2>4
<1>9. Rising(s2)
  <2> SUFFICES ASSUME NEW i \in 1..k, NEW j \in 1..k, i < j, s2[i] # End, s2[j] # End
               PROVE  Before(s2[i], s2[j])
    BY DEF Rising, k
  <2>1. i # k /\ j # k
    BY <1>7
  <2>2. i \in 1..l /\ j \in 1..l
    BY <1>1, <1>5, <2>1
  <2>3. s2[i] = s[i] /\ s2[j] = s[j]
    BY <1>6, <2>2
  <2> QED
    BY <1>1, <2>2, <2>3 DEF Rising, l
<1>10. Complete(t, s2)
  BY <1>7 DEF Complete, k
<1>11. ASSUME NEW w, Precedes(w, s) PROVE Precedes(w, s2)
  <2> SUFFICES ASSUME NEW i \in 1..Len(w), NEW j \in 1..k, s2[j] # End
               PROVE  Before(w[i], s2[j])
    BY DEF Precedes, k
  <2>1. j # k
    BY <1>7
  <2>2. j \in 1..l
    BY <1>1, <1>5, <2>1
  <2>3. s2[j] = s[j]
    BY <1>6, <2>2
  <2> QED
    BY <1>11, <2>2, <2>3 DEF Precedes, l
<1>12. ASSUME AtLine(s) PROVE AtLine(s2)
  <2>1. CASE l = 0
    <3>1. k = 1
      BY <1>5, <2>1
    <3> QED
      BY <1>7, <3>1 DEF AtLine
  <2>2. CASE l # 0
    <3>1. 1 \in 1..l /\ s # <<>>
      BY <1>1, <2>2
    <3>2. s2[1] = s[1]
      BY <1>6, <3>1
    <3> QED
      BY <1>12, <3>1, <3>2 DEF AtLine
  <2> QED
    BY <2>1, <2>2
<1> QED
  BY <1>5, <1>8, <1>9, <1>10, <1>11, <1>12 DEF Input, I

-----------------------------------------------------------------------------
(* What the steps of the shell do to rows of characters.                    *)

(* The words of a line are those of its characters, one after the other.    *)
LEMMA WordsOfLine ==
  ASSUME typed \in Seq(Shapes), NEW s \in Seq(Chars(typed))
  PROVE  Words(s) = FlatMap(Word(typed), s)
<1> DEFINE l == Len(s)
           word(i) == IF IsNewline(s[i]) THEN <<>> ELSE <<s[i]>>
<1>1. \A i \in 1..l : s[i] \in Chars(typed)
  BY ElementOfSeq
<1>2. \A i \in 1..l : word(i) = Word(typed)[s[i]]
  <2>1. \A u \in Chars(typed) : Word(typed)[u] = IF EndsLine(typed, u) THEN <<>> ELSE One(u)
    BY WordType
  <2> SUFFICES ASSUME NEW i \in 1..l PROVE word(i) = Word(typed)[s[i]]
    OBVIOUS
  <2>2. Word(typed)[s[i]] = IF EndsLine(typed, s[i]) THEN <<>> ELSE One(s[i])
    BY <1>1, <2>1
  <2>3. IsNewline(s[i]) <=> EndsLine(typed, s[i])
    BY DEF IsNewline, EndsLine
  <2>4. One(s[i]) = <<s[i]>>
    BY DEF One
  <2> QED
    BY <2>2, <2>3, <2>4
<1>3. DOMAIN s = 1..l
  BY LenProperties
<1>4. Words(s) = FlattenSeq([i \in 1..l |-> word(i)])
  BY DEF Words
<1> HIDE DEF word, l
<1>5. [i \in 1..l |-> word(i)] = [i \in DOMAIN s |-> Word(typed)[s[i]]]
  BY <1>2, <1>3
<1> QED
  BY <1>4, <1>5 DEF FlatMap, Mapped

(* Characters in a row without a newline are of one line.                   *)
LEMMA SameLine ==
  ASSUME NEW t, NEW s, NoGaps(t, s), Len(s) \in Nat,
         \A i \in 1..Len(s) - 1 : ~EndsLine(t, s[i])
  PROVE  \A i \in 1..Len(s) : s[i][1] = s[1][1]
<1> DEFINE l == Len(s)
           P == {d \in Nat : d + 1 \in 1..l => s[d + 1][1] = s[1][1]}
<1>1. 0 \in P
  OBVIOUS
<1>2. ASSUME NEW d \in P PROVE d + 1 \in P
  <2> DEFINE i == d + 1
  <2>1. i \in Nat /\ i # 0
    OBVIOUS
  <2>2. i \in 1..l => s[i][1] = s[1][1]
    OBVIOUS
  <2> HIDE DEF i, P
  <2>3. i + 1 \in 1..l => s[i + 1][1] = s[1][1]
    <3> SUFFICES ASSUME i + 1 \in 1..l PROVE s[i + 1][1] = s[1][1]
      OBVIOUS
    <3>1. i \in 1..l - 1 /\ i \in 1..l
      BY <2>1
    <3>2. s[i + 1] = After(t, s[i])
      BY <3>1 DEF NoGaps
    <3>3. s[i + 1][1] = s[i][1]
      BY <3>1, <3>2 DEF After
    <3> QED
      BY <2>2, <3>1, <3>3
  <2>4. i \in P
    BY <2>1, <2>3 DEF P
  <2> QED
    BY <2>4 DEF i
<1>3. P = Nat
  <2> HIDE DEF P
  <2>1. P \in SUBSET Nat
    BY DEF P
  <2> QED
    BY <1>1, <1>2, <2>1, NumberInduction
<1> SUFFICES ASSUME NEW i \in 1..l PROVE s[i][1] = s[1][1]
  OBVIOUS
<1>4. i - 1 \in P /\ (i - 1) + 1 = i
  <2> HIDE DEF P
  <2> QED
    BY <1>3
<1> QED
  BY <1>4

(* Where the first newline of characters is.                                *)
LEMMA FirstNewline ==
  ASSUME NEW s, Len(s) \in Nat, NEW k, k = SelectInSeq(s, IsNewline)
  PROVE  k \in 0..Len(s)
<1> DEFINE I == {i \in 1..Len(s) : IsNewline(s[i])}
<1>1. k = IF I # {} THEN Min(I) ELSE 0
  BY DEF SelectInSeq
<1>2. CASE I = {}
  BY <1>1, <1>2
<1>3. CASE I # {}
  <2>1. I \in SUBSET Nat
    OBVIOUS
  <2>2. Min(I) \in 1..Len(s)
    <3> HIDE DEF I
    <3>1. Min(I) \in I
      BY <1>3, <2>1, MinIsLeast
    <3> QED
      BY <3>1 DEF I
  <2> QED
    BY <1>1, <1>3, <2>2
<1> QED
  BY <1>2, <1>3
-----------------------------------------------------------------------------
(* The steps keep the invariant.                                            *)

(* A further line.                                                          *)
LEMMA TypeLineKeeps ==
  ASSUME InputInv, TypeLine
  PROVE  InputInv'
<1> PICK shape \in Shapes : /\ typed' = Append(typed, shape)
                            /\ source' = source \o Units(Len(typed) + 1, shape.len)
  BY DEF TypeLine
<1>1. /\ Len(typed) < MaxTyped
      /\ UNCHANGED <<terminal, restarts, ended, stdio, eof, closed, pc, input_buf,
                     ran, given, dirty>>
  BY DEF TypeLine
<1>2. TypeOK /\ InOrder /\ Clean
  BY DEF InputInv
<1>3. typed \in Seq(Shapes) /\ Len(typed) \in Nat
  BY <1>2, LenProperties DEF TypeOK
<1>4. /\ Input(typed, source) /\ stdio \in Seq(Chars(typed)) /\ input_buf \in Seq(Chars(typed))
      /\ ran \in Seq(Seq(Chars(typed)) \ {<<>>}) /\ Precedes(input_buf, source)
      /\ \A c \in 1..Len(ran) : Precedes(ran[c], source) /\ Precedes(ran[c], input_buf)
  BY <1>2 DEF InOrder
<1> DEFINE t == typed
           t2 == typed'
           s == source
           s2 == source'
           new == Units(Len(t) + 1, shape.len)
<1>5. t2 = Longer(t, shape) /\ s2 = Cat(s, new)
  BY DEF Longer, Cat
<1>6. t \in Seq(Shapes) /\ Input(t, s)
  BY <1>3, <1>4
<1>7. Grows(t, t2, Len(t) + 1, shape.len + 1, new)
  <2> HIDE DEF t2
  <2> QED
    BY <1>5, <1>6, LineGrows
<1>8. /\ t2 \in Seq(Shapes) /\ Len(t2) = Len(t) + 1
  <2> HIDE DEF t2, t
  <2> QED
    BY <1>5, <1>6, OldLines
<1>9. /\ Input(t2, s2)
      /\ \A w \in Seq(Chars(t)) : Precedes(w, s) => Precedes(w, s2)
      /\ AtLine(s) => AtLine(s2)
  <2> HIDE DEF t, t2, s, s2, new
  <2> QED
    BY <1>5, <1>6, <1>7, LineContinues
<1>10. ASSUME NEW r \in Seq(Chars(t))
       PROVE  /\ r \in Seq(Chars(t2))
              /\ \A term : Line(t, term, r) => Line(t2, term, r)
              /\ \A term : r # <<>> /\ Command(t, term, r) => Command(t2, term, r)
  <2> HIDE DEF t, t2
  <2> QED
    BY <1>5, <1>6, OldStays
<1>11. TypeOK'
  <2>1. Len(typed') <= MaxTyped
    BY <1>1, <1>3, <1>8, LimitAssumption
  <2>2. given' \subseteq 1..Len(typed')
    BY <1>1, <1>2, <1>3, <1>8 DEF TypeOK
  <2>3. typed' \in Seq(Shapes)
    BY <1>8
  <2> QED
    BY <1>1, <1>2, <2>1, <2>2, <2>3 DEF TypeOK
<1>12. \A c \in 1..Len(ran) : ran[c] \in Seq(Chars(t)) /\ ran[c] # <<>>
  BY <1>4, ElementOfSeq
<1>13. InOrder'
  <2>1. stdio \in Seq(Chars(t2)) /\ input_buf \in Seq(Chars(t2))
    BY <1>4, <1>10
  <2>2. ran \in Seq(Seq(Chars(t2)) \ {<<>>})
    <3> DEFINE none == <<>>
               A == Seq(Chars(t)) \ {none}
               B == Seq(Chars(t2)) \ {none}
    <3>1. \A c \in 1..Len(ran) : ran[c] \in B
      BY <1>10, <1>12
    <3>2. ran \in Seq(A)
      BY <1>4
    <3> HIDE DEF A, B
    <3>3. ran \in Seq(B)
      BY <3>1, <3>2, TextWithin
    <3> QED
      BY <3>3 DEF B
  <2>3. Precedes(input_buf, s2)
    BY <1>4, <1>9
  <2>4. \A c \in 1..Len(ran) : Precedes(ran[c], s2) /\ Precedes(ran[c], input_buf)
    BY <1>4, <1>9, <1>12
  <2> HIDE DEF t
  <2> QED
    BY <1>1, <1>9, <2>1, <2>2, <2>3, <2>4 DEF InOrder
<1>14. Clean'
  <2> SUFFICES ASSUME ~dirty
               PROVE  /\ AtLine(s2) \/ (pc = "skip" /\ stdio = <<>> /\ ~eof)
                      /\ Line(t2, terminal, input_buf)
                      /\ \A c \in 1..Len(ran) : Command(t2, terminal, ran[c])
                      /\ \A c \in 2..Len(ran) :
                            ran[c - 1][Len(ran[c - 1])][1] < ran[c][1][1]
    BY <1>1 DEF Clean
  <2>1. /\ AtLine(s) \/ (pc = "skip" /\ stdio = <<>> /\ ~eof)
        /\ Line(t, terminal, input_buf)
        /\ \A c \in 1..Len(ran) : Command(t, terminal, ran[c])
        /\ \A c \in 2..Len(ran) : ran[c - 1][Len(ran[c - 1])][1] < ran[c][1][1]
    BY <1>2 DEF Clean
  <2>2. Line(t2, terminal, input_buf)
    BY <1>4, <1>10, <2>1
  <2>3. \A c \in 1..Len(ran) : Command(t2, terminal, ran[c])
    BY <1>10, <1>12, <2>1
  <2> HIDE DEF t, t2, s, s2
  <2> QED
    BY <1>9, <2>1, <2>2, <2>3
<1> QED
  BY <1>11, <1>13, <1>14 DEF InputInv

(* An end of the input.                                                     *)
LEMMA TypeEndKeeps ==
  ASSUME InputInv, TypeEnd
  PROVE  InputInv'
<1>1. /\ ~(source # <<>> /\ Last(source) = End)
      /\ source' = Append(source, End) /\ ended' = ~terminal
      /\ UNCHANGED <<terminal, restarts, typed, stdio, eof, closed, pc, input_buf,
                     ran, given, dirty>>
  BY DEF TypeEnd
<1>2. TypeOK /\ InOrder /\ Clean
  BY DEF InputInv
<1>3. typed \in Seq(Shapes) /\ Input(typed, source)
  BY <1>2 DEF TypeOK, InOrder
<1>4. source # <<>> => source[Len(source)] # End
  BY <1>1 DEF Last
<1>5. source' = Cat(source, One(End))
  BY <1>1, <1>3, AppendIsConcat DEF Cat, One, Input
<1>6. /\ Input(typed, source')
      /\ \A w : Precedes(w, source) => Precedes(w, source')
      /\ AtLine(source) => AtLine(source')
  BY <1>3, <1>4, <1>5, EndContinues
<1>7. TypeOK'
  BY <1>1, <1>2 DEF TypeOK
<1>8. InOrder'
  BY <1>1, <1>2, <1>6 DEF InOrder
<1>9. Clean'
  BY <1>1, <1>2, <1>6 DEF Clean
<1> QED
  BY <1>7, <1>8, <1>9 DEF InputInv
(* A line is read: what get_input returns, and what is left.                *)
LEMMA GetInputKeeps ==
  ASSUME InputInv, GetInput
  PROVE  InputInv'
<1> DEFINE n == Limit + 1
<1>0. PICK k : /\ k = Reads(n) /\ source' = AfterRead(k)
               /\ dirty' = (dirty \/ (TooLong(k) /\ (stdio # <<>> \/ eof)))
               /\ \/ k = 0 /\ pc' = "exited" /\ input_buf' = <<>>
                  \/ /\ k > 0 /\ ~TooLong(k) /\ pc' = "execute"
                     /\ input_buf' = SubSeq(source, 1, k)
                  \/ /\ TooLong(k) /\ pc' = "skip"
                     /\ \E capped \in {SubSeq(source, 1, Limit)} :
                          input_buf' = IF HasDollar(capped) THEN capped ELSE <<>>
  BY DEF GetInput
<1>1. /\ pc = "prompt" /\ ~closed /\ Ready
      /\ UNCHANGED <<terminal, restarts, typed, ended, stdio, eof, closed, ran, given>>
  BY DEF GetInput
<1>2. TypeOK /\ InOrder /\ Clean
  BY DEF InputInv
<1>3. typed \in Seq(Shapes) /\ Input(typed, source) /\ Limit \in Nat \ {0} /\ n \in Nat
  BY <1>2, LimitAssumption DEF TypeOK, InOrder
<1>4. n = Limit + 1
  OBVIOUS
<1> HIDE DEF n
<1>5. /\ k \in 0..Len(source) /\ k <= n
      /\ \A i \in 1..k : source[i] # End
      /\ terminal => \A i \in 1..k - 1 : ~EndsLine(typed, source[i])
      /\ k < n =>
           /\ k > 0 => EndsLine(typed, source[k])
           /\ k > 0 => k = Len(source) \/ source[k + 1] = End \/ source[k + 1][2] = 1
           /\ k = 0 => source[1] = End
  BY <1>0, <1>1, <1>3, ReadFacts
<1>6. k \in Nat /\ Len(source) \in Nat /\ (k = 0 => source[1] = End)
  BY <1>3, <1>4, <1>5, LenProperties DEF Input
<1>7. /\ Input(typed, source')
      /\ \A w : Precedes(w, source) => Precedes(w, source')
      /\ \A j \in 0..k : Precedes(SubSeq(source, 1, j), source')
      /\ (k > 0 => k = Len(source) \/ source[k + 1] = End \/ source[k + 1][2] = 1)
           => AtLine(source')
  BY <1>0, <1>1, <1>3, <1>5, <1>6, AfterReadIsInput
\* What is in the buffer: nothing, or the first j characters.
<1>8. ASSUME NEW j \in 0..k, NEW b, b = SubSeq(source, 1, j)
      PROVE  /\ b \in Seq(Chars(typed)) /\ Len(b) = j /\ \A i \in 1..j : b[i] = source[i]
             /\ NoGaps(typed, b)
             /\ \A w : Precedes(w, source) => Precedes(w, b)
             /\ Precedes(b, source')
  <2>1. /\ b \in Seq(Chars(typed)) /\ Len(b) = j /\ \A i \in 1..j : b[i] = source[i]
        /\ NoGaps(typed, b)
        /\ \A w : Precedes(w, source) => Precedes(w, b)
    <3>1. typed \in Seq(Shapes) /\ Input(typed, source)
      BY <1>3
    <3>2. k \in 0..Len(source)
      BY <1>5
    <3>3. \A i \in 1..k : source[i] # End
      BY <1>5
    <3>4. b = SubSeq(source, 1, j)
      BY <1>8
    <3>5. \A e : e = SubSeq(source, 1, j) =>
             /\ e \in Seq(Chars(typed)) /\ Len(e) = j /\ \A i \in 1..j : e[i] = source[i]
             /\ NoGaps(typed, e)
             /\ \A w : Precedes(w, source) => Precedes(w, e)
      BY <3>1, <3>2, <3>3, FirstOfInput, Zenon
    <3> QED
      BY <3>4, <3>5, Zenon
  <2>2. Precedes(b, source')
    BY <1>7, <1>8
  <2> QED
    BY <2>1, <2>2
<1>9. \A q : q = <<>> => q \in Seq(Chars(typed)) /\ Len(q) = 0
                         /\ (\A w : Precedes(w, q) /\ Precedes(q, w)) /\ Line(typed, terminal, q)
  <2> SUFFICES ASSUME NEW q, q = <<>>
               PROVE  /\ q \in Seq(Chars(typed)) /\ Len(q) = 0
                      /\ \A w : Precedes(w, q) /\ Precedes(q, w)
                      /\ Line(typed, terminal, q)
    OBVIOUS
  <2>1. q \in Seq(Chars(typed)) /\ Len(q) = 0
    BY EmptySeq
  <2> QED
    BY <2>1 DEF Precedes, Line
<1>10. \/ k = 0 /\ pc' = "exited" /\ input_buf' = <<>>
       \/ k > 0 /\ k <= Limit /\ pc' = "execute" /\ input_buf' = SubSeq(source, 1, k)
       \/ k = n /\ pc' = "skip" /\ input_buf' = <<>>
       \/ /\ k = n /\ pc' = "skip" /\ input_buf' = SubSeq(source, 1, Limit)
          /\ HasDollar(SubSeq(source, 1, Limit))
  BY <1>0, <1>3, <1>4, <1>5, <1>6 DEF TooLong
<1>11. \/ input_buf' = <<>>
       \/ \E j \in 0..k : j <= Limit /\ input_buf' = SubSeq(source, 1, j)
  BY <1>3, <1>4, <1>6, <1>10
<1>12. TypeOK'
  <2>1. Len(input_buf') <= Limit
    BY <1>3, <1>8, <1>9, <1>11
  <2>2. pc' \in {"prompt", "skip", "execute", "wc", "cat", "exited"} /\ dirty' \in BOOLEAN
    <3>1. dirty' \in BOOLEAN
      BY <1>0
    <3> QED
      BY <1>10, <3>1
  <2> QED
    BY <1>1, <1>2, <2>1, <2>2 DEF TypeOK
<1>13. InOrder'
  <2>1. /\ input_buf' \in Seq(Chars(typed)) /\ Precedes(input_buf', source')
        /\ \A w : Precedes(w, source) => Precedes(w, input_buf')
    BY <1>8, <1>9, <1>11
  <2>2. \A c \in 1..Len(ran) : Precedes(ran[c], source') /\ Precedes(ran[c], input_buf')
    BY <1>2, <1>7, <2>1 DEF InOrder
  <2> QED
    BY <1>1, <1>2, <1>7, <2>1, <2>2 DEF InOrder
<1>14. Clean'
  <2> SUFFICES ASSUME ~dirty'
               PROVE  /\ AtLine(source') \/ (pc' = "skip" /\ stdio = <<>> /\ ~eof)
                      /\ Line(typed, terminal, input_buf')
                      /\ \A c \in 1..Len(ran) : Command(typed, terminal, ran[c])
                      /\ \A c \in 2..Len(ran) :
                            ran[c - 1][Len(ran[c - 1])][1] < ran[c][1][1]
    BY <1>1 DEF Clean
  <2>1. ~dirty /\ (k = n => stdio = <<>> /\ ~eof)
    <3>1. ~dirty /\ ~(TooLong(k) /\ (stdio # <<>> \/ eof))
      BY <1>0
    <3>2. k = n => TooLong(k)
      BY <1>3, <1>4 DEF TooLong
    <3> QED
      BY <3>1, <3>2
  <2>2. /\ AtLine(source)
        /\ \A c \in 1..Len(ran) : Command(typed, terminal, ran[c])
        /\ \A c \in 2..Len(ran) : ran[c - 1][Len(ran[c - 1])][1] < ran[c][1][1]
    BY <1>1, <1>2, <2>1 DEF Clean
  <2>3. AtLine(source') \/ (pc' = "skip" /\ stdio = <<>> /\ ~eof)
    <3>1. CASE k = n
      BY <1>3, <1>4, <1>10, <2>1, <3>1
    <3>2. CASE k # n
      <4>1. k < n
        BY <1>3, <1>5, <1>6, <3>2
      <4> QED
        BY <1>5, <1>7, <4>1
    <3> QED
      BY <3>1, <3>2
  \* Characters from the beginning of the input that end a line or have a dollar.
  <2>4. ASSUME NEW j \in 1..k, NEW b, b = SubSeq(source, 1, j),
               EndsLine(typed, source[j]) \/ Dollar(typed, b)
        PROVE  Line(typed, terminal, b)
    <3>1. /\ b \in Seq(Chars(typed)) /\ Len(b) = j /\ \A i \in 1..j : b[i] = source[i]
          /\ NoGaps(typed, b)
      <4>1. j \in 0..k /\ b = SubSeq(source, 1, j)
        BY <2>4
      <4> QED
        BY <1>8, <4>1
    <3>2. j \in 1..j /\ 1 \in 1..j /\ 1 \in 1..k /\ j # 0 /\ j \in Nat
      BY <1>6
    <3>3. b # <<>> /\ source # <<>>
      BY <1>1, <3>1, <3>2, EmptySeq DEF Ready
    <3>4. b[1][2] = 1
      BY <1>5, <2>2, <3>1, <3>2, <3>3 DEF AtLine
    <3>5. EndsLine(typed, b[Len(b)]) \/ Dollar(typed, b)
      BY <2>4, <3>1, <3>2
    <3>6. ASSUME terminal PROVE \A i \in 1..Len(b) : b[i][1] = b[1][1]
      <4>1. \A i \in 1..j - 1 : i \in 1..k - 1 /\ i \in 1..j
        BY <1>6
      <4>2. \A i \in 1..j - 1 : ~EndsLine(typed, b[i])
        BY <1>5, <3>1, <3>6, <4>1
      <4>3. Len(b) \in Nat /\ \A i \in 1..Len(b) - 1 : ~EndsLine(typed, b[i])
        BY <3>1, <3>2, <4>2
      <4> QED
        BY <3>1, <4>3, SameLine
    <3> QED
      BY <3>1, <3>3, <3>4, <3>5, <3>6 DEF Line, Begins
  <2>5. Line(typed, terminal, input_buf')
    <3>1. CASE input_buf' = <<>>
      BY <1>9, <3>1
    <3>2. CASE k > 0 /\ k <= Limit /\ input_buf' = SubSeq(source, 1, k)
      <4>1. k \in 1..k /\ k < n
        BY <1>3, <1>4, <1>6, <3>2
      <4>2. EndsLine(typed, source[k])
        BY <1>5, <3>2, <4>1
      <4> QED
        BY <2>4, <3>2, <4>1, <4>2
    <3>3. CASE k = n /\ input_buf' = SubSeq(source, 1, Limit)
               /\ HasDollar(SubSeq(source, 1, Limit))
      <4>1. Limit \in 1..k
        BY <1>3, <1>4, <3>3
      <4>2. Dollar(typed, SubSeq(source, 1, Limit))
        BY <3>3 DEF Dollar, HasDollar
      <4> QED
        BY <2>4, <3>3, <4>1, <4>2
    <3> QED
      BY <1>10, <3>1, <3>2, <3>3
  <2> QED
    BY <2>2, <2>3, <2>5
<1> QED
  BY <1>12, <1>13, <1>14 DEF InputInv

(* stdio reads.                                                             *)
LEMMA FillStdioKeeps ==
  ASSUME InputInv, FillStdio
  PROVE  InputInv'
<1> DEFINE n == Len(source)
<1> PICK k : k = Reads(n) /\ stdio' = SubSeq(source, 1, k) /\ source' = AfterRead(k)
             /\ eof' = (k = 0)
  BY DEF FillStdio
<1>1. /\ Ready /\ stdio = <<>> /\ ~eof
      /\ UNCHANGED <<terminal, restarts, typed, ended, closed, pc, input_buf, ran, given, dirty>>
  BY DEF FillStdio
<1>2. TypeOK /\ InOrder /\ Clean
  BY DEF InputInv
<1>3. typed \in Seq(Shapes) /\ Input(typed, source) /\ n \in Nat
  BY <1>2, LenProperties DEF TypeOK, InOrder, Input
<1>4. /\ k \in 0..Len(source)
      /\ \A i \in 1..k : source[i] # End
      /\ k > 0 => k = Len(source) \/ source[k + 1] = End \/ source[k + 1][2] = 1
      /\ k = 0 => source[1] = End
  <2>1. Len(source) <= n
    BY <1>3
  <2> HIDE DEF n
  <2> QED
    BY <1>1, <1>3, <2>1, ReadFacts
<1> HIDE DEF n
<1>5. /\ Input(typed, source')
      /\ \A w : Precedes(w, source) => Precedes(w, source')
      /\ AtLine(source')
  BY <1>1, <1>3, <1>4, AfterReadIsInput
<1>6. k \in 0..k
  BY <1>3, <1>4
<1>7. SubSeq(source, 1, k) \in Seq(Chars(typed))
  BY <1>3, <1>4, <1>6, FirstOfInput
<1>8. TypeOK'
  BY <1>1, <1>2 DEF TypeOK
<1>9. InOrder'
  BY <1>1, <1>2, <1>5, <1>7 DEF InOrder
<1>10. Clean'
  BY <1>1, <1>2, <1>5 DEF Clean
<1> QED
  BY <1>8, <1>9, <1>10 DEF InputInv

(* The rest of a long line is skipped.                                      *)
LEMMA SkipKeeps ==
  ASSUME InputInv, SkipRest \/ SkipEnds
  PROVE  InputInv'
<1>1. /\ pc = "skip"
      /\ UNCHANGED <<terminal, restarts, typed, source, ended, eof, closed, input_buf,
                     ran, given, dirty>>
  BY DEF SkipRest, SkipEnds
<1>2. TypeOK /\ InOrder /\ Clean
  BY DEF InputInv
<1>3. pc' \in {"skip", "execute"} /\ stdio' \in Seq(Chars(typed)) /\ (~dirty => AtLine(source'))
  <2>1. CASE SkipRest
    <3>1. stdio # <<>> /\ stdio \in Seq(Chars(typed))
      BY <1>2, <2>1 DEF SkipRest, InOrder
    <3>2. PICK k : /\ k = SelectInSeq(stdio, IsNewline)
                   /\ \/ /\ k > 0 /\ stdio' = SubSeq(stdio, k + 1, Len(stdio))
                         /\ pc' = "execute"
                      \/ k = 0 /\ stdio' = <<>> /\ UNCHANGED pc
      BY <2>1 DEF SkipRest
    <3>3. Len(stdio) \in Nat
      BY <3>1, LenProperties
    <3>4. k \in 0..Len(stdio)
      BY <3>2, <3>3, FirstNewline
    <3>5. k \in Nat /\ k <= Len(stdio)
      BY <3>3, <3>4
    <3>6. SubSeq(stdio, k + 1, Len(stdio)) \in Seq(Chars(typed))
      BY <3>1, <3>5, Cut
    <3>7. stdio' \in Seq(Chars(typed))
      BY <3>2, <3>6, EmptySeq
    <3>8. pc' \in {"skip", "execute"}
      BY <1>1, <3>2
    <3>9. ~dirty => AtLine(source')
      BY <1>1, <1>2, <3>1 DEF Clean
    <3> QED
      BY <3>7, <3>8, <3>9
  <2>2. CASE SkipEnds
    BY <1>1, <1>2, <2>2 DEF SkipEnds, Clean, InOrder
  <2> QED
    BY <2>1, <2>2
<1>4. TypeOK'
  BY <1>1, <1>2, <1>3 DEF TypeOK
<1>5. InOrder'
  BY <1>1, <1>2, <1>3 DEF InOrder
<1>6. Clean'
  BY <1>1, <1>2, <1>3 DEF Clean
<1> QED
  BY <1>4, <1>5, <1>6 DEF InputInv

(* wc and cat read, and end; a wait for input is interrupted.               *)
LEMMA ReadersKeep ==
  ASSUME InputInv, ReadStdin \/ ReaderEnds \/ Interrupted
  PROVE  InputInv'
<1>1. UNCHANGED <<terminal, restarts, typed, source, ended, eof, input_buf, ran, dirty>>
  BY DEF ReadStdin, ReaderEnds, Interrupted
<1>2. TypeOK /\ InOrder /\ Clean
  BY DEF InputInv
<1>3. stdio' \in Seq(Chars(typed))
  BY <1>2, EmptySeq DEF ReadStdin, ReaderEnds, Interrupted, InOrder
<1>4. given' \subseteq 1..Len(typed)
  <2>1. CASE ReadStdin
    <3>1. given' = given \cup {stdio[i][1] : i \in 1..Len(stdio)}
      BY <2>1 DEF ReadStdin
    <3>2. \A i \in 1..Len(stdio) : stdio[i] \in Chars(typed)
      BY <1>2, ElementOfSeq DEF InOrder
    <3>3. \A u \in Chars(typed) : u[1] \in 1..Len(typed)
      BY DEF Chars
    <3>4. given \subseteq 1..Len(typed)
      BY <1>2 DEF TypeOK
    <3> QED
      BY <3>1, <3>2, <3>3, <3>4
  <2>2. CASE ReaderEnds \/ Interrupted
    BY <1>2, <2>2 DEF ReaderEnds, Interrupted, TypeOK
  <2> QED
    BY <2>1, <2>2
<1>5. closed' \in BOOLEAN /\ (closed' => pc' = "prompt")
      /\ pc' \in {"prompt", "execute", "wc", "cat"}
  <2>1. pc \in {"skip", "wc", "cat"} /\ (pc = "skip" => Interrupted) /\ closed = FALSE
    BY <1>2 DEF ReadStdin, ReaderEnds, Interrupted, TypeOK
  <2>2. CASE ReadStdin
    <3>1. closed' = closed /\ pc' = pc /\ pc \in {"wc", "cat"}
      BY <2>2 DEF ReadStdin
    <3>2. closed' = FALSE
      BY <2>1, <3>1
    <3> QED
      BY <3>1, <3>2
  <2>3. CASE ReaderEnds
    BY <2>1, <2>3 DEF ReaderEnds, ClosesStdin
  <2>4. CASE Interrupted
    <3>1. closed' = (pc = "wc")
      BY <2>1, <2>4 DEF Interrupted, ClosesStdin
    <3>2. pc' = IF pc = "skip" THEN "execute" ELSE "prompt"
      BY <2>4 DEF Interrupted
    <3> QED
      BY <2>1, <3>1, <3>2
  <2> QED
    BY <2>2, <2>3, <2>4
<1>6. ~dirty => AtLine(source)
  BY <1>2 DEF ReadStdin, ReaderEnds, Interrupted, Clean, AtLine, Ready
<1>7. TypeOK'
  BY <1>1, <1>2, <1>4, <1>5 DEF TypeOK
<1>8. InOrder'
  BY <1>1, <1>2, <1>3 DEF InOrder
<1>9. Clean'
  BY <1>1, <1>2, <1>6 DEF Clean
<1> QED
  BY <1>7, <1>8, <1>9 DEF InputInv

(* A line is executed: its words come behind those of the command before.   *)
LEMMA ExecuteKeeps ==
  ASSUME InputInv, Execute
  PROVE  InputInv'
<1> DEFINE C == Chars(typed)
           b == input_buf
<1>0. PICK words : /\ words = Words(input_buf)
                   /\ ran' = IF words = <<>> THEN ran ELSE Append(ran, words)
                   /\ pc' = IF IsCommand(words, "exit") THEN "exited"
                            ELSE IF Reader(words) THEN FirstShape(words).kind ELSE "prompt"
  BY DEF Execute
<1>1. /\ pc = "execute" /\ input_buf' = <<>>
      /\ UNCHANGED <<terminal, restarts, typed, source, ended, stdio, eof, closed,
                     given, dirty>>
  BY DEF Execute
<1>2. TypeOK /\ InOrder /\ Clean
  BY DEF InputInv
<1>3. /\ typed \in Seq(Shapes) /\ b \in Seq(C) /\ Len(b) <= Limit /\ Len(b) \in Nat
      /\ ran \in Seq(Seq(C) \ {<<>>}) /\ Len(ran) \in Nat
      /\ Precedes(b, source)
      /\ \A c \in 1..Len(ran) : Precedes(ran[c], source) /\ Precedes(ran[c], b)
  BY <1>2, LenProperties DEF TypeOK, InOrder
<1>4. words = FlatMap(Word(typed), b)
  BY <1>0, <1>3, WordsOfLine
<1> HIDE DEF C, b
<1>5. /\ words \in Seq(C)
      /\ \A i \in 1..Len(words) : \E k \in 1..Len(b) : words[i] = b[k]
  BY <1>3, <1>4, WordsWithin DEF C
<1>6. /\ \A c \in 1..Len(ran) : ran[c] \in Seq(C) /\ ran[c] # <<>>
      /\ input_buf' \in Seq(C) /\ Len(input_buf') = 0
  BY <1>1, <1>3, ElementOfSeq, EmptySeq
<1>7. /\ Precedes(input_buf', source)
      /\ \A w : Precedes(w, input_buf')
  BY <1>6 DEF Precedes
<1>8. Precedes(words, source)
  <2> SUFFICES ASSUME NEW i \in 1..Len(words), NEW j \in 1..Len(source), source[j] # End
               PROVE  Before(words[i], source[j])
    BY DEF Precedes
  <2>1. PICK k \in 1..Len(b) : words[i] = b[k]
    BY <1>5
  <2> QED
    BY <1>3, <2>1 DEF Precedes
\* The commands with this one.
<1>9. CASE words = <<>>
  <2>1. ran' = ran
    BY <1>0, <1>9
  <2>2. pc' = "prompt"
    BY <1>0, <1>9, EmptySeq DEF IsCommand, Reader
  <2>3. TypeOK'
    BY <1>1, <1>2, <1>6, <2>2, LimitAssumption DEF TypeOK
  <2>4. InOrder'
    BY <1>1, <1>2, <1>6, <1>7, <2>1 DEF InOrder, C
  <2>5. Clean'
    BY <1>1, <1>2, <2>1 DEF Clean, Line
  <2> QED
    BY <2>3, <2>4, <2>5 DEF InputInv
<1>10. CASE words # <<>>
  <2> DEFINE l == Len(ran)
             none == <<>>
             T == Seq(C) \ {none}
             e == l + 1
  <2>1. ran' = Append(ran, words)
    BY <1>0, <1>10
  <2>2. words \in T /\ ran \in Seq(T)
    BY <1>3, <1>5, <1>10
  <2> HIDE DEF T
  <2>3. /\ ran' \in Seq(T) /\ Len(ran') = l + 1 /\ ran'[l + 1] = words
        /\ \A c \in 1..l : ran'[c] = ran[c]
    BY <2>1, <2>2, AppendProperties
  <2>4. Len(ran') = e /\ ran'[e] = words /\ l \in Nat /\ e = l + 1
    BY <1>3, <2>3
  <2> HIDE DEF l, e
  <2>5. \A c \in 1..e : c = e \/ c \in 1..l
    BY <2>4
  <2>6. TypeOK'
    <3>1. pc' \in {"exited", "wc", "cat", "prompt"}
      BY <1>0 DEF Reader, IsCommand
    <3>2. ~closed'
      BY <1>1, <1>2 DEF TypeOK
    <3>3. Len(input_buf') <= Limit
      BY <1>6, LimitAssumption
    <3> QED
      BY <1>1, <1>2, <3>1, <3>2, <3>3 DEF TypeOK
  <2>7. InOrder'
    <3>1. \A c \in 1..e : Precedes(ran'[c], source) /\ Precedes(ran'[c], input_buf')
      BY <1>3, <1>7, <1>8, <2>3, <2>4, <2>5 DEF l
    <3>2. ran' \in Seq(Seq(C) \ {<<>>})
      BY <2>3 DEF T
    <3> QED
      BY <1>1, <1>2, <1>6, <1>7, <2>4, <3>1, <3>2 DEF InOrder, C
  <2>8. Clean'
    <3> SUFFICES ASSUME ~dirty
                 PROVE  /\ AtLine(source)
                        /\ Line(typed, terminal, input_buf')
                        /\ \A c \in 1..e : Command(typed, terminal, ran'[c])
                        /\ \A c \in 2..e :
                              ran'[c - 1][Len(ran'[c - 1])][1] < ran'[c][1][1]
      BY <1>1, <2>4 DEF Clean
    <3>1. /\ AtLine(source) /\ Line(typed, terminal, b)
          /\ \A c \in 1..l : Command(typed, terminal, ran[c])
          /\ \A c \in 2..l : ran[c - 1][Len(ran[c - 1])][1] < ran[c][1][1]
      BY <1>1, <1>2 DEF Clean, b, l
    <3>2. Line(typed, terminal, input_buf')
      BY <1>1 DEF Line
    <3>3. /\ 1 \in 1..Len(words) /\ b # <<>> /\ 1 \in 1..Len(b) /\ Begins(typed, b)
          /\ \A j \in 1..Len(b) : b[1][1] <= b[j][1]
      <4>1. Len(words) \in Nat /\ Len(words) # 0
        BY <1>5, <1>10, EmptySeq, LenProperties
      <4>2. 1 \in 1..Len(words)
        BY <4>1
      <4>3. PICK k \in 1..Len(b) : words[1] = b[k]
        BY <1>5, <4>2
      <4>4. 1 \in 1..Len(b) /\ b # <<>>
        BY <1>3, EmptySeq
      <4>5. Begins(typed, b)
        BY <3>1, <4>4 DEF Line
      <4>6. b \in Seq(Chars(typed))
        BY <1>3 DEF C
      <4>7. \A j \in 1..Len(b) : b[1][1] <= b[j][1]
        BY <1>3, <4>5, <4>6, RowWords
      <4> QED
        BY <4>2, <4>4, <4>5, <4>7
    <3>4. Command(typed, terminal, words)
      <4>1. b \in Seq(Chars(typed))
        BY <1>3 DEF C
      <4> QED
        BY <1>3, <1>4, <1>10, <3>1, <3>3, <4>1, LineIsCommand
    \* The last command before is of earlier lines.
    <3>5. ASSUME l # 0 PROVE ran[l][Len(ran[l])][1] < words[1][1]
      <4> DEFINE m == Len(ran[l])
                 u == ran[l][m]
      <4>1. l \in 1..l
        BY <2>4, <3>5
      <4>2. ran[l] \in Seq(C) /\ ran[l] # <<>> /\ Precedes(ran[l], b)
        BY <1>3, <1>6, <4>1 DEF l
      <4>3. m \in Nat /\ m # 0
        BY <4>2, EmptySeq, LenProperties
      <4>4. m \in 1..m
        BY <4>3
      <4>5. u \in C
        BY <4>2, <4>4, ElementOfSeq
      <4>6. b[1] \in C /\ b[1][2] = 1
        BY <1>3, <3>3, ElementOfSeq DEF Begins
      <4>7. PICK k \in 1..Len(b) : words[1] = b[k]
        BY <1>5, <3>3
      <4>8. b[1][1] <= words[1][1] /\ b[k] \in C
        BY <1>3, <3>3, <4>7, ElementOfSeq
      <4>9. b[1] # End
        BY <1>3, <4>6, CharType DEF C
      <4>10. Before(u, b[1])
        BY <3>3, <4>2, <4>4, <4>9 DEF Precedes
      <4> HIDE DEF u, m
      <4>11. /\ u[1] \in Nat /\ u[2] \in Nat \ {0} /\ b[1][1] \in Nat
             /\ words[1][1] \in Nat
        BY <1>3, <4>5, <4>6, <4>7, <4>8, CharType DEF C
      <4>12. u[1] < words[1][1]
        BY <4>6, <4>8, <4>10, <4>11 DEF Before
      <4> QED
        BY <4>12 DEF u, m
    <3>6. \A c \in 1..e : Command(typed, terminal, ran'[c])
      BY <2>3, <2>4, <2>5, <3>1, <3>4
    <3>7. ASSUME NEW c \in 2..e PROVE ran'[c - 1][Len(ran'[c - 1])][1] < ran'[c][1][1]
      <4> DEFINE d == c - 1
      <4>1. d \in 1..l /\ (c = e \/ (c \in 2..l /\ c \in 1..l)) /\ (c = e => d = l /\ l # 0)
        BY <2>4
      <4>2. \A f \in 2..l : ran[f - 1][Len(ran[f - 1])][1] < ran[f][1][1]
        BY <3>1
      <4>3. c \in 2..l => ran[d][Len(ran[d])][1] < ran[c][1][1]
        BY <4>2
      <4> HIDE DEF d
      <4>4. ran'[d] = ran[d]
        BY <2>3, <4>1
      <4>5. c = e => ran[d][Len(ran[d])][1] < words[1][1]
        BY <3>5, <4>1
      <4>6. c = e => ran'[c] = words
        BY <2>4
      <4>7. c \in 2..l => ran'[c] = ran[c]
        BY <2>3, <4>1
      <4>8. ran[d][Len(ran[d])][1] < ran'[c][1][1]
        BY <4>1, <4>3, <4>5, <4>6, <4>7
      <4>9. ran'[d][Len(ran'[d])][1] < ran'[c][1][1]
        BY <4>4, <4>8
      <4> QED
        BY <4>9 DEF d
    <3> QED
      BY <3>1, <3>2, <3>6, <3>7
  <2> QED
    BY <2>6, <2>7, <2>8 DEF InputInv
<1> QED
  BY <1>9, <1>10

-----------------------------------------------------------------------------
(* The theorems.                                                            *)

(* At the start nothing has been typed.                                     *)
LEMMA InputInit ==
  Init => InputInv
<1> SUFFICES ASSUME Init PROVE InputInv
  OBVIOUS
<1> DEFINE none == <<>>
<1>1. /\ typed = none /\ source = none /\ stdio = none /\ input_buf = none /\ ran = none
      /\ terminal \in BOOLEAN /\ restarts \in BOOLEAN /\ ended = FALSE /\ eof = FALSE
      /\ closed = FALSE /\ pc = "prompt" /\ given = {} /\ dirty = FALSE
  BY DEF Init
<1>2. Len(none) = 0 /\ \A S : none \in Seq(S)
  BY EmptySeq
<1>3. TypeOK
  <2> HIDE DEF none
  <2>1. Len(typed) <= MaxTyped /\ Len(input_buf) <= Limit /\ typed \in Seq(Shapes)
    BY <1>1, <1>2, LimitAssumption
  <2>2. given \subseteq 1..Len(typed)
    BY <1>1
  <2> QED
    BY <1>1, <2>1, <2>2 DEF TypeOK
<1>4. Input(typed, source)
  BY <1>1, <1>2 DEF Input, Connected, Rising, Complete
<1>5. Precedes(input_buf, source)
  BY <1>1, <1>2 DEF Precedes
<1>6. InOrder
  <2> HIDE DEF none
  <2> QED
    BY <1>1, <1>2, <1>4, <1>5 DEF InOrder
<1>7. AtLine(source) /\ Line(typed, terminal, input_buf)
  BY <1>1 DEF AtLine, Line
<1>8. Clean
  <2> HIDE DEF none
  <2> QED
    BY <1>1, <1>2, <1>7 DEF Clean
<1> QED
  BY <1>3, <1>6, <1>8 DEF InputInv

(* Every step keeps the invariant.                                          *)
LEMMA InputStep ==
  InputInv /\ [Next]_vars => InputInv'
<1> SUFFICES ASSUME InputInv, [Next]_vars PROVE InputInv'
  OBVIOUS
<1>1. CASE TypeLine
  BY <1>1, TypeLineKeeps
<1>2. CASE TypeEnd
  BY <1>2, TypeEndKeeps
<1>3. CASE GetInput
  BY <1>3, GetInputKeeps
<1>4. CASE SkipRest \/ SkipEnds
  BY <1>4, SkipKeeps
<1>5. CASE FillStdio
  BY <1>5, FillStdioKeeps
<1>6. CASE Execute
  BY <1>6, ExecuteKeeps
<1>7. CASE ReadStdin \/ ReaderEnds \/ Interrupted
  BY <1>7, ReadersKeep
<1>8. CASE UNCHANGED vars
  BY <1>8 DEF vars, InputInv, TypeOK, InOrder, Clean
<1> QED
  BY <1>1, <1>2, <1>3, <1>4, <1>5, <1>6, <1>7, <1>8 DEF Next, ShellStep

(* The commands of the invariant are the commands of the property.          *)
LEMMA InvCommands ==
  InputInv => CommandsAreLines
<1> SUFFICES ASSUME InputInv, ~dirty, NEW c \in 1..Len(ran)
             PROVE  LET first == ran[c][1][1]
                        last == Last(ran[c])[1]
                    IN /\ c > 1 => Last(ran[c - 1])[1] < first
                       /\ terminal => first = last
                       /\ \/ ran[c] = Text(first, last)
                          \/ /\ IsPrefix(ran[c], Text(first, last))
                             /\ Len(ran[c]) <= Limit
                             /\ \E i \in 1..Len(ran[c]) : typed[ran[c][i][1]].kind = "dollar"
  BY DEF CommandsAreLines
<1>1. Command(typed, terminal, ran[c])
  BY DEF InputInv, Clean
<1>2. \A n, m : TextOf(typed, n, m) = Text(n, m)
  BY DEF TextOf, Text, LineOf, LineText
<1>3. c > 1 => ran[c - 1][Len(ran[c - 1])][1] < ran[c][1][1]
  <2>1. c > 1 => c \in 2..Len(ran)
    OBVIOUS
  <2> QED
    BY <2>1 DEF InputInv, Clean
<1>4. \A s : Last(s) = s[Len(s)]
  BY DEF Last
<1> QED
  BY <1>1, <1>2, <1>3, <1>4 DEF Command

(* The invariant holds of every behaviour.                                  *)
LEMMA InputAlways ==
  Spec => []InputInv
<1> QED
  BY InputInit, InputStep, PTL DEF Spec

(* The buffers have their types, nothing longer than the limit is executed, *)
(* and wc and cat read nothing that was not typed; get_input, wc, cat.      *)
THEOREM InputTypeCorrect ==
  Spec => []TypeOK
<1>1. InputInv => TypeOK
  BY DEF InputInv
<1> QED
  BY <1>1, InputAlways, PTL

(* Whatever the limit is, the shell executes whole lines in the order in    *)
(* which they were typed, none of them twice, and never the rest of a line, *)
(* unless a skip began with something in stdio; get_input and its skip.     *)
THEOREM CommandsAreWholeLines ==
  Spec => []CommandsAreLines
<1> QED
  BY InvCommands, InputAlways, PTL

-----------------------------------------------------------------------------
(* What becomes of a line: the inductive invariant                          *)

\* How many characters the lines have, with those that end them.
Total(t) == Len(TextOf(t, 1, Len(t))) + Len(t)

\* A line that may be lost: it is too long or behind one of exactly the limit;
\* through a pipe, there is more than a read can take.
Excused(t, term, n) ==
    IF term THEN t[n].len >= Limit \/ (n > 1 /\ t[n - 1].len = Limit) ELSE Total(t) > Limit

\* A character of line n, not the one that ends it, is in s.
Within(t, s, n) == \E i \in 1..Len(s) : s[i][1] = n /\ ~EndsLine(t, s[i])

\* A line with characters is under way, or was taken, or is excused.
Accounted(n) ==
    \/ Within(typed, source, n) \/ Within(typed, stdio, n) \/ Within(typed, input_buf, n)
    \/ n \in given \/ Ran(n) \/ Excused(typed, terminal, n)
Kept == \A n \in 1..Len(typed) : typed[n].len > 0 => Accounted(n)

\* Only what was typed can be read in one piece, so nothing is skipped of a pipe
\* unless there is more than a read can take.
Counted(t, s) == \A k \in 1..Len(s) : (\A i \in 1..k : s[i] # End) => k <= Total(t)
OnPipe == ~terminal => Counted(typed, source) /\ (pc = "skip" => Total(typed) > Limit)

\* s is a line up to its end, or nothing.
OneLine(t, s) ==
    s # <<>> => /\ EndsLine(t, s[Len(s)])
                /\ \A i \in 1..Len(s) - 1 : ~EndsLine(t, s[i])
                /\ \A i \in 1..Len(s) : s[i][1] = s[1][1]

\* What stdio holds of a terminal is one line, which is skipped only if it is
\* excused; so is the line that a skip will read.
OnTerminal ==
    terminal =>
        /\ dirty => eof
        /\ OneLine(typed, stdio)
        /\ stdio # <<>> => /\ pc \in {"skip", "wc", "cat"}
                           /\ pc = "skip" => Excused(typed, terminal, stdio[1][1])
        /\ pc = "skip" /\ stdio = <<>> /\ ~eof =>
               IF source = <<>> THEN Len(typed) > 0 /\ typed[Len(typed)].len = Limit
               ELSE source[1] # End => Excused(typed, terminal, source[1][1])

\* What get_input has read is on its way to be executed.
Buffered == input_buf # <<>> => pc \in {"skip", "execute"}

\* The inductive invariant of the lines.
Fate == Kept /\ OnPipe /\ OnTerminal /\ Buffered
FateInv == InputInv /\ Fate

(* The lines before a further one.                                          *)
LEMMA LongerShapes ==
  ASSUME NEW t \in Seq(Shapes), NEW shape \in Shapes, NEW t2, t2 = Longer(t, shape)
  PROVE  /\ t2 \in Seq(Shapes) /\ Len(t2) = Len(t) + 1 /\ t2[Len(t) + 1] = shape
         /\ \A n \in 1..Len(t) : t2[n] = t[n]
  BY AppendProperties DEF Longer

(* And their texts.                                                         *)
LEMMA LongerTexts ==
  ASSUME NEW t \in Seq(Shapes), NEW shape \in Shapes, NEW t2, t2 = Longer(t, shape)
  PROVE  \A n, m \in 1..Len(t) : TextOf(t2, n, m) = TextOf(t, n, m)
  BY OldLines

(* A further line adds its characters, and the one that ends it.            *)
LEMMA TotalGrows ==
  ASSUME NEW t \in Seq(Shapes), NEW shape \in Shapes, NEW t2, t2 = Longer(t, shape)
  PROVE  Total(t) \in Nat /\ Total(t2) = Total(t) + shape.len + 1
<1> DEFINE l == Len(t)
<1>1. l \in Nat /\ shape.len \in Nat
  BY LenProperties, ShapesAssumption
<1>2. /\ t2 \in Seq(Shapes) /\ Len(t2) = l + 1 /\ t2[l + 1] = shape
      /\ \A n, m \in 1..l : TextOf(t2, n, m) = TextOf(t, n, m)
  <2>1. t2 \in Seq(Shapes) /\ Len(t2) = l + 1 /\ t2[l + 1] = shape
    BY LongerShapes
  <2>2. \A n, m \in 1..l : TextOf(t2, n, m) = TextOf(t, n, m)
    BY LongerTexts
  <2> QED
    BY <2>1, <2>2
<1>3. 1 \in 1..Len(t2) /\ l \in 0..Len(t2) /\ l < Len(t2) /\ 1 - 1 = 0 /\ l + 1 \in 1..Len(t2)
  <2> HIDE DEF l
  <2> QED
    BY <1>1, <1>2
<1>4. /\ TextOf(t2, 1, l) \in Seq(Chars(t2))
      /\ TextOf(t2, 1, l + 1) = Cat(TextOf(t2, 1, l), LineOf(t2, l + 1))
  BY <1>2, <1>3, TextGrows
<1>5. LineOf(t2, l + 1) \in Seq(Chars(t2)) /\ Len(LineOf(t2, l + 1)) = shape.len
  BY <1>2, <1>3, LineType
<1>6. /\ Len(TextOf(t2, 1, l)) \in Nat
      /\ Len(TextOf(t2, 1, l + 1)) = Len(TextOf(t2, 1, l)) + shape.len
  <2>1. Len(TextOf(t2, 1, l)) \in Nat
    BY <1>4, LenProperties
  <2>2. Len(Cat(TextOf(t2, 1, l), LineOf(t2, l + 1))) = Len(TextOf(t2, 1, l)) + Len(LineOf(t2, l + 1))
    BY <1>4, <1>5, CatType
  <2> QED
    BY <1>4, <1>5, <2>1, <2>2
<1>7. TextOf(t2, 1, l) = TextOf(t, 1, l)
  <2>1. CASE l = 0
    <3>1. 0 - 1 + 1 = 0 /\ \A i : i \notin 1..0
      OBVIOUS
    <3> DEFINE a == [i \in 1..(0 - 1 + 1) |-> LineOf(t, 1 + i - 1)]
               b == [i \in 1..(0 - 1 + 1) |-> LineOf(t2, 1 + i - 1)]
    <3>2. a = b
      BY <3>1
    <3>3. TextOf(t, 1, 0) = FlattenSeq(a) /\ TextOf(t2, 1, 0) = FlattenSeq(b)
      BY DEF TextOf
    <3> HIDE DEF a, b
    <3> QED
      BY <2>1, <3>2, <3>3
  <2>2. CASE l # 0
    <3>1. 1 \in 1..l /\ l \in 1..l
      BY <1>1, <2>2
    <3> QED
      BY <1>2, <3>1
  <2> QED
    BY <2>1, <2>2
<1>8. Total(t) = Len(TextOf(t2, 1, l)) + l /\ Total(t2) = Len(TextOf(t2, 1, l + 1)) + (l + 1)
  BY <1>2, <1>7 DEF Total
<1> DEFINE c == Len(TextOf(t2, 1, l))
<1>9. c \in Nat /\ Total(t) = c + l /\ Total(t2) = (c + shape.len) + (l + 1)
  BY <1>6, <1>8
<1> HIDE DEF c, l
<1> QED
  BY <1>1, <1>9

(* A line that is excused stays so.                                         *)
LEMMA ExcusedStays ==
  ASSUME NEW t \in Seq(Shapes), NEW shape \in Shapes, NEW t2, t2 = Longer(t, shape),
         NEW term, NEW j \in 1..Len(t), Excused(t, term, j)
  PROVE  Excused(t2, term, j)
<1>1. /\ Len(t) \in Nat /\ shape.len \in Nat /\ Limit \in Nat
      /\ Total(t) \in Nat /\ Total(t2) = Total(t) + shape.len + 1
      /\ \A n \in 1..Len(t) : t2[n] = t[n]
  <2>1. Len(t) \in Nat /\ shape.len \in Nat /\ Limit \in Nat
    BY LenProperties, ShapesAssumption, LimitAssumption
  <2>2. Total(t) \in Nat /\ Total(t2) = Total(t) + shape.len + 1
    BY TotalGrows
  <2>3. \A n \in 1..Len(t) : t2[n] = t[n]
    BY AppendProperties DEF Longer
  <2> QED
    BY <2>1, <2>2, <2>3
<1>2. j > 1 => j - 1 \in 1..Len(t)
  BY <1>1
<1>3. CASE term
  BY <1>1, <1>2, <1>3 DEF Excused
<1>4. CASE ~term
  <2>1. Total(t) > Limit
    BY <1>4 DEF Excused
  <2>2. Total(t2) > Limit
    BY <1>1, <2>1
  <2> QED
    BY <1>4, <2>2 DEF Excused
<1> QED
  BY <1>3, <1>4

(* The elements of input: characters and ends.                              *)
LEMMA ItemType ==
  ASSUME NEW t \in Seq(Shapes), NEW u \in Items(t)
  PROVE  /\ u # End => /\ u \in Chars(t) /\ u[1] \in 1..Len(t) /\ u[2] \in Nat \ {0}
                       /\ t[u[1]].len \in Nat /\ u[2] <= t[u[1]].len + 1
         /\ u = End => u[1] = 0
<1>1. CASE u = End
  BY <1>1 DEF End
<1>2. CASE u # End
  <2>1. u \in Chars(t)
    BY <1>2 DEF Items
  <2> QED
    BY <1>2, <2>1, CharType
<1> QED
  BY <1>1, <1>2

\* s2 begins with s.
Starts(s, s2) == Len(s2) \in Nat /\ Len(s) <= Len(s2) /\ \A i \in 1..Len(s) : s2[i] = s[i]

(* What is in a text is in a longer one of more lines.                      *)
LEMMA WithinStays ==
  ASSUME NEW t \in Seq(Shapes), NEW shape \in Shapes, NEW t2, t2 = Longer(t, shape),
         NEW s \in Seq(Items(t)), NEW n \in 1..Len(t), Within(t, s, n),
         NEW s2, Starts(s, s2)
  PROVE  Within(t2, s2, n)
<1>0. Len(s2) \in Nat /\ Len(s) <= Len(s2) /\ \A i \in 1..Len(s) : s2[i] = s[i]
  BY DEF Starts
<1>1. PICK i \in 1..Len(s) : s[i][1] = n /\ ~EndsLine(t, s[i])
  BY DEF Within
<1>2. s[i] \in Items(t) /\ n # 0 /\ Len(s) \in Nat
  BY <1>1, ElementOfSeq, LenProperties
<1>3. s[i] \in Chars(t)
  BY <1>1, <1>2, ItemType
<1>4. EndsLine(t2, s[i]) <=> EndsLine(t, s[i])
  BY <1>3, OldLines
<1>5. i \in 1..Len(s2) /\ s2[i] = s[i]
  BY <1>0, <1>2
<1> QED
  BY <1>1, <1>4, <1>5 DEF Within

(* What is in the source is in what is read or in what is left.             *)
LEMMA WithinRead ==
  ASSUME typed \in Seq(Shapes), Input(typed, source), source # <<>>,
         NEW k \in 0..Len(source), k = 0 => source[1] = End,
         NEW n \in 1..Len(typed), Within(typed, source, n)
  PROVE  Within(typed, SubSeq(source, 1, k), n) \/ Within(typed, AfterRead(k), n)
<1> DEFINE l == Len(source)
           s == source
<1>1. s \in Seq(Items(typed)) /\ l \in Nat \ {0} /\ k \in Nat /\ k <= l
  BY LenProperties, EmptySeq DEF Input
<1>2. PICK i \in 1..l : s[i][1] = n /\ ~EndsLine(typed, s[i])
  BY DEF Within
<1>3. s[i] # End
  BY <1>2 DEF End
<1>4. CASE i \in 1..k
  <2>1. Len(SubSeq(s, 1, k)) = k /\ SubSeq(s, 1, k)[i] = s[i]
    BY <1>1, <1>4, Cut
  <2> QED
    BY <1>2, <1>4, <2>1 DEF Within
<1>5. CASE i \notin 1..k
  <2>1. CASE k > 0
    <3>1. /\ Len(SubSeq(s, k + 1, l)) = l - k
          /\ \A j \in 1..(l - k) : SubSeq(s, k + 1, l)[j] = s[k + j]
      BY <1>1, Cut
    <3>2. i - k \in 1..(l - k) /\ k + (i - k) = i
      <4> HIDE DEF l
      <4> QED
        BY <1>1, <1>5
    <3>3. AfterRead(k) = SubSeq(s, k + 1, l)
      BY <2>1 DEF AfterRead
    <3> DEFINE j == i - k
    <3>4. j \in 1..Len(AfterRead(k)) /\ AfterRead(k)[j] = s[i]
      BY <3>1, <3>2, <3>3
    <3> HIDE DEF j
    <3> QED
      BY <1>2, <3>4 DEF Within
  <2>2. CASE k = 0 /\ terminal
    <3>1. AfterRead(k) = Tail(s)
      BY <2>2 DEF AfterRead
    <3>2. i # 1
      BY <1>3, <2>2
    <3>3. Len(Tail(s)) = l - 1 /\ \A j \in 1..(l - 1) : Tail(s)[j] = s[j + 1]
      BY <1>1, HeadTailProperties
    <3>4. i - 1 \in 1..(l - 1) /\ (i - 1) + 1 = i
      <4> HIDE DEF l
      <4> QED
        BY <1>1, <3>2
    <3> DEFINE j == i - 1
    <3>5. j \in 1..Len(AfterRead(k)) /\ AfterRead(k)[j] = s[i]
      BY <3>1, <3>3, <3>4
    <3> HIDE DEF j
    <3> QED
      BY <1>2, <3>5 DEF Within
  <2>3. CASE k = 0 /\ ~terminal
    <3>1. AfterRead(k) = s
      BY <2>3 DEF AfterRead
    <3> QED
      BY <1>2, <3>1 DEF Within
  <2> QED
    BY <1>1, <2>1, <2>2, <2>3
<1> QED
  BY <1>4, <1>5

(* What can be read in one piece was typed, also with a further line,       *)
LEMMA CountedGrows ==
  ASSUME NEW t \in Seq(Shapes), NEW shape \in Shapes, NEW t2, t2 = Longer(t, shape),
         NEW s \in Seq(Items(t)), Counted(t, s),
         NEW s2, Len(s2) = Len(s) + shape.len + 1, Starts(s, s2)
  PROVE  Counted(t2, s2)
<1> DEFINE l == Len(s)
<1>0. \A i \in 1..Len(s) : s2[i] = s[i]
  BY DEF Starts
<1>1. l \in Nat /\ shape.len \in Nat
  BY LenProperties, ShapesAssumption
<1>2. Total(t) \in Nat /\ Total(t2) = Total(t) + shape.len + 1
  BY TotalGrows
<1> SUFFICES ASSUME NEW k \in 1..Len(s2), \A i \in 1..k : s2[i] # End
             PROVE  k <= Total(t2)
  BY DEF Counted
<1>3. CASE k <= l
  <2>1. k \in 1..l /\ \A i \in 1..k : i \in 1..l
    <3> HIDE DEF l
    <3> QED
      BY <1>1, <1>3
  <2>2. k <= Total(t)
    BY <1>0, <2>1 DEF Counted
  <2> QED
    BY <1>1, <1>2, <2>1, <2>2
<1>4. CASE ~(k <= l)
  <2>1. l <= Total(t)
    <3>1. CASE l = 0
      BY <1>2, <3>1
    <3>2. CASE l # 0
      <4>1. l \in 1..l /\ \A i \in 1..l : i \in 1..k
        <5> HIDE DEF l
        <5> QED
          BY <1>1, <1>4, <3>2
      <4>2. \A i \in 1..l : s[i] # End
        BY <1>0, <4>1
      <4> QED
        BY <4>1, <4>2 DEF Counted
    <3> QED
      BY <3>1, <3>2
  <2>2. k \in Nat /\ k <= l + shape.len + 1
    <3>1. k \in 1..(l + shape.len + 1)
      OBVIOUS
    <3> HIDE DEF l
    <3> QED
      BY <1>1, <3>1
  <2> HIDE DEF l
  <2> QED
    BY <1>1, <1>2, <2>1, <2>2
<1> QED
  BY <1>3, <1>4

(* with an end,                                                             *)
LEMMA CountedEnds ==
  ASSUME NEW t, NEW s, Len(s) \in Nat, Counted(t, s),
         NEW s2, Len(s2) = Len(s) + 1, Starts(s, s2), s2[Len(s) + 1] = End
  PROVE  Counted(t, s2)
<1> SUFFICES ASSUME NEW k \in 1..Len(s2), \A i \in 1..k : s2[i] # End
             PROVE  k <= Total(t)
  BY DEF Counted
<1>1. k # Len(s) + 1
  OBVIOUS
<1>2. k \in 1..Len(s) /\ \A i \in 1..k : i \in 1..Len(s)
  BY <1>1
<1>3. \A i \in 1..k : s[i] # End
  BY <1>2 DEF Starts
<1> QED
  BY <1>2, <1>3 DEF Counted

\* The first k are no ends; r is what is behind them.
NoEnd(s, k) == \A i \in 1..k : s[i] # End
Behind(s, k, r) == Len(r) = Len(s) - k /\ \A i \in 1..Len(s) - k : r[i] = s[k + i]

(* and behind what was read.                                                *)
LEMMA CountedRest ==
  ASSUME NEW t \in Seq(Shapes), Total(t) \in Nat, NEW s, Len(s) \in Nat, Counted(t, s),
         NEW k \in 0..Len(s), NoEnd(s, k), NEW r, Behind(s, k, r)
  PROVE  Counted(t, r)
<1>0. /\ \A i \in 1..k : s[i] # End
      /\ Len(r) = Len(s) - k /\ \A i \in 1..Len(s) - k : r[i] = s[k + i]
  BY DEF NoEnd, Behind
<1> SUFFICES ASSUME NEW j \in 1..Len(r), \A i \in 1..j : r[i] # End
             PROVE  j <= Total(t)
  BY DEF Counted
<1> DEFINE l == Len(s)
<1>1. l \in Nat /\ k \in Nat /\ k <= l /\ j \in 1..(l - k)
  BY <1>0
<1> HIDE DEF l
<1>2. k + j \in 1..l /\ j \in Nat
  BY <1>1
<1>3. ASSUME NEW i \in 1..(k + j) PROVE s[i] # End
  <2>1. CASE i <= k
    <3>1. i \in 1..k
      BY <1>1, <2>1
    <3> QED
      BY <1>0, <3>1
  <2>2. CASE ~(i <= k)
    <3>1. i - k \in 1..j /\ i - k \in 1..(l - k) /\ k + (i - k) = i
      BY <1>1, <2>2
    <3> DEFINE d == i - k
    <3>2. d \in 1..j /\ d \in 1..(l - k) /\ k + d = i
      BY <3>1
    <3> HIDE DEF d
    <3>3. r[d] = s[k + d] /\ r[d] # End
      BY <1>0, <3>2 DEF l
    <3> QED
      BY <3>2, <3>3
  <2> QED
    BY <2>1, <2>2
<1>4. k + j <= Total(t)
  BY <1>2, <1>3 DEF Counted, l
<1> QED
  BY <1>1, <1>2, <1>4

(* Characters without gaps of which none but the last ends its line are a   *)
(* row of one line.                                                         *)
LEMMA RowOfLine ==
  ASSUME NEW t \in Seq(Shapes), NEW b \in Seq(Chars(t)), NoGaps(t, b), b # <<>>,
         \A i \in 1..Len(b) - 1 : ~EndsLine(t, b[i])
  PROVE  \A i \in 1..Len(b) : b[i] = <<b[1][1], b[1][2] + (i - 1)>>
<1> DEFINE l == Len(b)
           m == b[1][1]
           p == b[1][2]
           P == {d \in Nat : d + 1 <= l => b[d + 1] = <<m, p + d>>}
<1>1. l \in Nat \ {0} /\ m \in Nat /\ p \in Nat \ {0} /\ b[1] = <<m, p>>
  <2>1. l \in Nat \ {0}
    BY LenProperties, EmptySeq
  <2>2. 1 \in 1..Len(b)
    BY <2>1
  <2>3. b[1] \in Chars(t)
    BY <2>2, ElementOfSeq
  <2> QED
    BY <2>1, <2>3, CharType
<1> HIDE DEF l, m, p
<1>2. 0 \in P
  <2>1. 0 + 1 = 1 /\ p + 0 = p
    BY <1>1
  <2> QED
    BY <1>1, <2>1
<1>3. ASSUME NEW d \in P PROVE d + 1 \in P
  <2>0. d \in Nat /\ d + 1 \in Nat
    OBVIOUS
  <2>1. ASSUME (d + 1) + 1 <= l PROVE b[(d + 1) + 1] = <<m, p + (d + 1)>>
    <3>1. d + 1 <= l /\ d + 1 \in 1..l - 1 /\ (p + d) + 1 = p + (d + 1)
      BY <1>1, <2>0, <2>1
    <3>2. b[d + 1] = <<m, p + d>>
      BY <3>1
    <3>3. ~EndsLine(t, b[d + 1]) /\ b[(d + 1) + 1] = After(t, b[d + 1])
      BY <3>1 DEF NoGaps, l
    <3> QED
      BY <3>1, <3>2, <3>3 DEF After
  <2> QED
    BY <2>0, <2>1
<1>4. P = Nat
  <2>1. P \in SUBSET Nat
    OBVIOUS
  <2> HIDE DEF P
  <2> QED
    BY <1>2, <1>3, <2>1, NumberInduction
<1>5. ASSUME NEW i \in 1..l PROVE b[i] = <<m, p + (i - 1)>>
  <2>1. i - 1 \in Nat /\ (i - 1) + 1 = i /\ i <= l
    BY <1>1
  <2>2. i - 1 \in P
    <3> HIDE DEF P
    <3> QED
      BY <1>4, <2>1
  <2> QED
    BY <2>1, <2>2
<1> QED
  BY <1>5 DEF l, m, p

(* The first newline of a line is its last character.                       *)
LEMMA LineNewline ==
  ASSUME NEW s, Len(s) \in Nat \ {0}, s # <<>>, OneLine(typed, s)
  PROVE  SelectInSeq(s, IsNewline) = Len(s)
<1> DEFINE I == {i \in 1..Len(s) : IsNewline(s[i])}
           k == SelectInSeq(s, IsNewline)
           l == Len(s)
<1>1. k = IF I # {} THEN Min(I) ELSE 0
  BY DEF SelectInSeq
<1>2. \A i \in 1..l : IsNewline(s[i]) <=> EndsLine(typed, s[i])
  BY DEF IsNewline, EndsLine
<1>3. l \in 1..l /\ \A i \in 1..l : i # l => i \in 1..l - 1
  <2>1. l \in Nat \ {0}
    OBVIOUS
  <2> HIDE DEF l
  <2> QED
    BY <2>1
<1>4. I = {l}
  BY <1>2, <1>3 DEF OneLine
<1> HIDE DEF I
<1>5. Min(I) \in I
  <2>1. I \in SUBSET Nat /\ I # {}
    BY <1>4
  <2> QED
    BY <2>1, MinIsLeast
<1> QED
  BY <1>1, <1>4, <1>5

(* A step that types nothing keeps account of the lines if it loses no      *)
(* character of a line that is not excused.                                 *)
LEMMA NothingLost ==
  ASSUME Kept, typed' = typed, terminal' = terminal, given \subseteq given',
         \A n \in 1..Len(typed) : Ran(n) => Ran(n)',
         \A n \in 1..Len(typed) :
             Within(typed, source, n) \/ Within(typed, stdio, n) \/ Within(typed, input_buf, n) =>
                 \/ Within(typed, source', n) \/ Within(typed, stdio', n) \/ Within(typed, input_buf', n)
                 \/ n \in given' \/ Ran(n)' \/ Excused(typed, terminal, n)
  PROVE  Kept'
<1> SUFFICES ASSUME NEW n \in 1..Len(typed), typed[n].len > 0
             PROVE  \/ Within(typed, source', n) \/ Within(typed, stdio', n) \/ Within(typed, input_buf', n)
                    \/ n \in given' \/ Ran(n)' \/ Excused(typed, terminal, n)
  BY DEF Kept, Accounted
<1>1. Accounted(n)
  BY DEF Kept
<1> QED
  BY <1>1 DEF Accounted

(* What was executed stays so.                                              *)
LEMMA RanStays ==
  ASSUME ran' = ran, NEW n
  PROVE  Ran(n) => Ran(n)'
  BY DEF Ran

(* What the invariant says of the types.                                    *)
LEMMA FateTypes ==
  ASSUME InputInv
  PROVE  /\ typed \in Seq(Shapes) /\ Len(typed) \in Nat /\ terminal \in BOOLEAN /\ Limit \in Nat \ {0}
         /\ Input(typed, source) /\ source \in Seq(Items(typed)) /\ Len(source) \in Nat
         /\ stdio \in Seq(Chars(typed)) /\ Len(stdio) \in Nat
         /\ input_buf \in Seq(Chars(typed)) /\ Len(input_buf) \in Nat
         /\ ran \in Seq(Seq(Chars(typed)) \ {<<>>})
         /\ Total(typed) \in Nat
<1>1. typed \in Seq(Shapes) /\ terminal \in BOOLEAN
  BY DEF InputInv, TypeOK
<1>2. /\ Input(typed, source) /\ stdio \in Seq(Chars(typed)) /\ input_buf \in Seq(Chars(typed))
      /\ ran \in Seq(Seq(Chars(typed)) \ {<<>>})
  BY DEF InputInv, InOrder
<1>3. source \in Seq(Items(typed))
  BY <1>2 DEF Input
<1>4. Total(typed) \in Nat
  <2>1. CASE Len(typed) = 0
    <3> DEFINE a == [i \in 1..(0 - 1 + 1) |-> LineOf(typed, 1 + i - 1)]
    <3>1. a = <<>>
      <4>1. 0 - 1 + 1 = 0 /\ \A i : i \notin 1..0
        OBVIOUS
      <4>2. DOMAIN a = {}
        BY <4>1
      <4>3. a = [i \in {} |-> 0]
        BY <4>2
      <4>4. <<>> = [i \in {} |-> 0]
        OBVIOUS
      <4> HIDE DEF a
      <4> QED
        BY <4>3, <4>4
    <3>2. TextOf(typed, 1, 0) = FlattenSeq(a)
      BY DEF TextOf
    <3>3. TextOf(typed, 1, 0) = <<>>
      BY <3>1, <3>2, FlattenFew
    <3>4. Len(<<>>) = 0
      BY EmptySeq
    <3> QED
      BY <2>1, <3>3, <3>4 DEF Total
  <2>2. CASE Len(typed) # 0
    <3>1. 1 \in 1..Len(typed) /\ Len(typed) \in 1 - 1..Len(typed) /\ Len(typed) \in Nat
      BY <1>1, <2>2, LenProperties
    <3>2. TextOf(typed, 1, Len(typed)) \in Seq(Chars(typed))
      BY <1>1, <3>1, TextGrows
    <3>3. Len(TextOf(typed, 1, Len(typed))) \in Nat
      BY <3>2, LenProperties
    <3> QED
      BY <3>1, <3>3 DEF Total
  <2> QED
    BY <2>1, <2>2
<1> QED
  BY <1>1, <1>2, <1>3, <1>4, LenProperties, LimitAssumption

(* A line is typed.                                                         *)
LEMMA TypeLineAccounts ==
  ASSUME FateInv, TypeLine
  PROVE  Fate'
<1> PICK shape \in Shapes : /\ typed' = Append(typed, shape)
                            /\ source' = source \o Units(Len(typed) + 1, shape.len)
  BY DEF TypeLine
<1> DEFINE t == typed
           t2 == Longer(t, shape)
           n2 == Len(t) + 1
           new == Units(n2, shape.len)
           s == source
           s2 == Cat(s, new)
<1>1. /\ UNCHANGED <<terminal, restarts, ended, stdio, eof, closed, pc, input_buf, ran, given, dirty>>
      /\ typed' = t2 /\ source' = s2
  BY DEF TypeLine, Longer, Cat
<1>2. /\ t \in Seq(Shapes) /\ Len(t) \in Nat /\ s \in Seq(Items(t)) /\ Len(s) \in Nat
      /\ stdio \in Seq(Chars(t)) /\ Len(stdio) \in Nat
      /\ input_buf \in Seq(Chars(t)) /\ Len(input_buf) \in Nat
      /\ stdio \in Seq(Items(t)) /\ input_buf \in Seq(Items(t)) /\ shape.len \in Nat
  <2>1. Chars(t) \subseteq Items(t)
    BY DEF Items
  <2> QED
    BY <2>1, FateTypes, SeqMonotonic, ShapesAssumption DEF FateInv
<1>3. Kept /\ OnPipe /\ OnTerminal /\ Buffered
  BY DEF FateInv, Fate
<1>4. t2 \in Seq(Shapes) /\ Len(t2) = n2 /\ t2[n2] = shape
  BY <1>2, LongerShapes
<1>5. \A n \in 1..Len(t) : t2[n] = t[n]
  BY <1>2, AppendProperties DEF Longer
<1>6. /\ new \in Seq(Chars(t2)) /\ Len(new) = shape.len + 1
      /\ \A p \in 1..shape.len + 1 : new[p] = <<n2, p>>
  BY <1>2, NewUnits
<1>7. /\ Len(s2) = Len(s) + shape.len + 1 /\ Starts(s, s2)
      /\ s2[Len(s) + 1] = <<n2, 1>> /\ Len(s) + 1 \in 1..Len(s2)
  <2>1. /\ Len(Cat(s, new)) = Len(s) + Len(new)
        /\ \A i \in 1..(Len(s) + Len(new)) : Cat(s, new)[i] = IF i <= Len(s) THEN s[i] ELSE new[i - Len(s)]
    <3> DEFINE I == Items(t2)
    <3>1. s \in Seq(I) /\ new \in Seq(I)
      <4>1. Chars(t) \subseteq Chars(t2)
        BY <1>2, OldLines
      <4>2. Items(t) \subseteq I /\ Chars(t2) \subseteq I
        BY <4>1 DEF Items
      <4> QED
        BY <1>2, <1>6, <4>2, SeqMonotonic
    <3> HIDE DEF I, s, new
    <3> QED
      BY <3>1, CatType
  <2> DEFINE l == Len(s)
             m == Len(new)
  <2>2. l \in Nat /\ m \in Nat \ {0} /\ m = shape.len + 1 /\ new[1] = <<n2, 1>>
    <3>1. 1 \in 1..shape.len + 1
      BY <1>2
    <3> QED
      BY <1>2, <1>6, <3>1
  <2>3. /\ Len(s2) = l + m
        /\ \A i \in 1..(l + m) : s2[i] = IF i <= l THEN s[i] ELSE new[i - l]
    BY <2>1
  <2> HIDE DEF l, m, s2, new
  <2>4. /\ \A i \in 1..l : i \in 1..(l + m) /\ i <= l
        /\ l + 1 \in 1..(l + m) /\ ~(l + 1 <= l) /\ (l + 1) - l = 1
    BY <2>2
  <2>5. Len(s2) = l + shape.len + 1 /\ l + 1 \in 1..Len(s2) /\ Len(s2) \in Nat /\ l <= Len(s2)
    <3>1. shape.len \in Nat /\ Len(s2) = l + m
      BY <1>2, <2>3
    <3> DEFINE d == Len(s2)
               c == shape.len
    <3>2. c \in Nat /\ d = l + m /\ m = c + 1
      BY <2>2, <3>1
    <3> HIDE DEF c, d
    <3>3. d = l + c + 1 /\ l + 1 \in 1..d /\ d \in Nat /\ l <= d
      BY <2>2, <3>2
    <3> QED
      BY <3>3 DEF c, d
  <2>6. s2[l + 1] = <<n2, 1>> /\ \A i \in 1..l : s2[i] = s[i]
    BY <2>2, <2>3, <2>4
  <2> QED
    BY <2>5, <2>6 DEF l, Starts
<1> HIDE DEF t2, new, s2
<1>8. \A n \in 1..Len(t) : \A term : Excused(t, term, n) => Excused(t2, term, n)
  BY <1>2, ExcusedStays DEF t2
<1>9. \A n \in 1..Len(t) : /\ Within(t, s, n) => Within(t2, s2, n)
                           /\ Within(t, stdio, n) => Within(t2, stdio, n)
                           /\ Within(t, input_buf, n) => Within(t2, input_buf, n)
  <2> SUFFICES ASSUME NEW n \in 1..Len(t)
               PROVE  /\ Within(t, s, n) => Within(t2, s2, n)
                      /\ Within(t, stdio, n) => Within(t2, stdio, n)
                      /\ Within(t, input_buf, n) => Within(t2, input_buf, n)
    OBVIOUS
  <2>1. ASSUME Within(t, s, n) PROVE Within(t2, s2, n)
    <3>3. t2 = Longer(t, shape) /\ t \in Seq(Shapes) /\ s \in Seq(Items(t))
      BY <1>2 DEF t2
    <3> HIDE DEF t, s
    <3> QED
      BY <1>7, <2>1, <3>3, WithinStays
  <2>2. ASSUME Within(t, stdio, n) PROVE Within(t2, stdio, n)
    <3>1. Starts(stdio, stdio)
      BY <1>2 DEF Starts
    <3> QED
      BY <1>2, <2>2, <3>1, WithinStays DEF t2
  <2>3. ASSUME Within(t, input_buf, n) PROVE Within(t2, input_buf, n)
    <3>1. Starts(input_buf, input_buf)
      BY <1>2 DEF Starts
    <3> QED
      BY <1>2, <2>3, <3>1, WithinStays DEF t2
  <2> QED
    BY <2>1, <2>2, <2>3
<1>10. Kept'
  <2> SUFFICES ASSUME NEW n \in 1..Len(t2), t2[n].len > 0
               PROVE  \/ Within(t2, s2, n) \/ Within(t2, stdio, n) \/ Within(t2, input_buf, n)
                      \/ n \in given \/ Ran(n) \/ Excused(t2, terminal, n)
    <3>1. \A m : Ran(m)' <=> Ran(m)
      BY <1>1 DEF Ran
    <3>2. typed' = t2 /\ source' = s2 /\ stdio' = stdio /\ input_buf' = input_buf
          /\ given' = given /\ terminal' = terminal
      BY <1>1
    <3> QED
      BY <3>1, <3>2 DEF Kept, Accounted
  <2>1. CASE n \in 1..Len(t)
    <3>1. Accounted(n)
      BY <1>3, <1>5, <2>1 DEF Kept
    <3> QED
      BY <1>8, <1>9, <2>1, <3>1 DEF Accounted
  <2>2. CASE n = n2
    <3>1. shape.len > 0
      BY <1>4, <2>2
    <3>2. ~EndsLine(t2, <<n2, 1>>)
      BY <1>2, <1>4, <3>1 DEF EndsLine
    <3>3. Within(t2, s2, n)
      <4> DEFINE i == Len(s) + 1
      <4>1. i \in 1..Len(s2) /\ s2[i] = <<n2, 1>>
        BY <1>7
      <4> HIDE DEF i
      <4>2. s2[i][1] = n /\ ~EndsLine(t2, s2[i])
        BY <2>2, <3>2, <4>1
      <4> QED
        BY <4>1, <4>2 DEF Within
    <3> QED
      BY <3>3
  <2>3. n \in 1..Len(t) \/ n = n2
    BY <1>2, <1>4
  <2> QED
    BY <2>1, <2>2, <2>3
<1>11. OnPipe'
  <2> SUFFICES ASSUME ~terminal PROVE Counted(t2, s2) /\ (pc = "skip" => Total(t2) > Limit)
    BY <1>1 DEF OnPipe
  <2>1. Counted(t, s) /\ (pc = "skip" => Total(t) > Limit)
    BY <1>3 DEF OnPipe
  <2>2. Counted(t2, s2)
    <3>1. t2 = Longer(t, shape) /\ t \in Seq(Shapes) /\ s \in Seq(Items(t))
      BY <1>2 DEF t2
    <3> HIDE DEF t, s
    <3> QED
      BY <1>7, <2>1, <3>1, CountedGrows
  <2>3. Total(t) \in Nat /\ Total(t2) = Total(t) + shape.len + 1 /\ Limit \in Nat
    BY <1>2, TotalGrows, LimitAssumption DEF t2
  <2>4. Total(t) > Limit => Total(t2) > Limit
    BY <1>2, <2>3
  <2> QED
    BY <2>1, <2>2, <2>4
<1>12. OnTerminal'
  <2> SUFFICES ASSUME terminal
               PROVE  /\ dirty => eof
                      /\ OneLine(t2, stdio)
                      /\ stdio # <<>> => /\ pc \in {"skip", "wc", "cat"}
                                         /\ pc = "skip" => Excused(t2, terminal, stdio[1][1])
                      /\ pc = "skip" /\ stdio = <<>> /\ ~eof =>
                             IF s2 = <<>> THEN Len(t2) > 0 /\ t2[Len(t2)].len = Limit
                             ELSE s2[1] # End => Excused(t2, terminal, s2[1][1])
    BY <1>1 DEF OnTerminal
  <2>1. /\ dirty => eof
        /\ OneLine(t, stdio)
        /\ stdio # <<>> => /\ pc \in {"skip", "wc", "cat"}
                           /\ pc = "skip" => Excused(t, terminal, stdio[1][1])
        /\ pc = "skip" /\ stdio = <<>> /\ ~eof =>
               IF s = <<>> THEN Len(t) > 0 /\ t[Len(t)].len = Limit
               ELSE s[1] # End => Excused(t, terminal, s[1][1])
    BY <1>3 DEF OnTerminal
  <2>2. \A i \in 1..Len(stdio) : /\ EndsLine(t2, stdio[i]) <=> EndsLine(t, stdio[i])
                                 /\ stdio[i][1] \in 1..Len(t)
    <3> SUFFICES ASSUME NEW i \in 1..Len(stdio)
                 PROVE  /\ EndsLine(t2, stdio[i]) <=> EndsLine(t, stdio[i])
                        /\ stdio[i][1] \in 1..Len(t)
      OBVIOUS
    <3>1. stdio[i] \in Chars(t)
      BY <1>2, ElementOfSeq
    <3>2. stdio[i][1] \in 1..Len(t)
      BY <1>2, <3>1, CharType
    <3>3. EndsLine(Longer(t, shape), stdio[i]) <=> EndsLine(t, stdio[i])
      BY <1>2, <3>1, OldLines
    <3> QED
      BY <3>2, <3>3 DEF t2
  <2>3. stdio # <<>> => Len(stdio) \in 1..Len(stdio) /\ 1 \in 1..Len(stdio)
    BY <1>2, EmptySeq
  <2>4. \A i \in 1..Len(stdio) - 1 : i \in 1..Len(stdio)
    BY <1>2
  <2>5. OneLine(t2, stdio)
    BY <2>1, <2>2, <2>3, <2>4 DEF OneLine
  <2>6. stdio # <<>> /\ pc = "skip" => Excused(t2, terminal, stdio[1][1])
    BY <1>8, <2>1, <2>2, <2>3
  <2>7. ASSUME pc = "skip", stdio = <<>>, ~eof
        PROVE  s2 # <<>> /\ (s2[1] # End => Excused(t2, terminal, s2[1][1]))
    <3>1. Len(s2) # 0
      BY <1>2, <1>7
    <3>2. s2 # <<>>
      BY <3>1, EmptySeq
    <3>3. CASE s = <<>>
      <4>1. Len(s) = 0
        BY <3>3, EmptySeq
      <4>2. s2[1] = <<n2, 1>>
        BY <1>7, <4>1
      <4>3. Len(t) > 0 /\ t[Len(t)].len = Limit
        BY <2>1, <2>7, <3>3
      <4>4. n2 > 1 /\ n2 - 1 = Len(t) /\ Len(t) \in 1..Len(t)
        BY <1>2, <4>3
      <4>5. t2[n2 - 1].len = Limit
        BY <1>5, <4>3, <4>4
      <4>6. Excused(t2, terminal, n2)
        BY <4>4, <4>5 DEF Excused
      <4>7. s2[1][1] = n2
        BY <4>2
      <4> QED
        BY <3>2, <4>6, <4>7
    <3>4. CASE s # <<>>
      <4>1. 1 \in 1..Len(s)
        BY <1>2, <3>4, EmptySeq
      <4>2. s2[1] = s[1] /\ s[1] \in Items(t)
        BY <1>2, <1>7, <4>1, ElementOfSeq DEF Starts
      <4>3. s[1] # End => Excused(t, terminal, s[1][1]) /\ s[1][1] \in 1..Len(t)
        BY <1>2, <2>1, <2>7, <3>4, <4>2, ItemType
      <4> QED
        BY <1>8, <3>2, <4>2, <4>3
    <3> QED
      BY <3>3, <3>4
  <2> QED
    BY <2>1, <2>5, <2>6, <2>7
<1>13. Buffered'
  BY <1>1, <1>3 DEF Buffered
<1> QED
  BY <1>10, <1>11, <1>12, <1>13 DEF Fate

(* A character that is in a text is in one that begins with it.             *)
LEMMA WithinMore ==
  ASSUME NEW t, NEW s, Len(s) \in Nat, NEW s2, Starts(s, s2), NEW n, Within(t, s, n)
  PROVE  Within(t, s2, n)
<1>1. PICK i \in 1..Len(s) : s[i][1] = n /\ ~EndsLine(t, s[i])
  BY DEF Within
<1>2. i \in 1..Len(s2) /\ s2[i] = s[i]
  BY <1>1 DEF Starts
<1> QED
  BY <1>1, <1>2 DEF Within

(* The input ends.                                                          *)
LEMMA TypeEndAccounts ==
  ASSUME FateInv, TypeEnd
  PROVE  Fate'
<1> DEFINE s == source
           s2 == Append(s, End)
<1>1. /\ UNCHANGED <<terminal, restarts, typed, stdio, eof, closed, pc, input_buf, ran, given, dirty>>
      /\ source' = s2
  BY DEF TypeEnd
<1>2. s \in Seq(Items(typed)) /\ Len(s) \in Nat /\ InputInv /\ Kept /\ OnPipe /\ OnTerminal /\ Buffered
  BY FateTypes DEF FateInv, Fate
<1>3. Len(s2) = Len(s) + 1 /\ Starts(s, s2) /\ s2[Len(s) + 1] = End /\ s2 # <<>>
  <2>1. End \in Items(typed)
    BY DEF Items
  <2> DEFINE I == Items(typed)
  <2>2. s \in Seq(I) /\ End \in I
    BY <1>2, <2>1
  <2> HIDE DEF I, s
  <2>3. /\ Len(Append(s, End)) = Len(s) + 1 /\ Append(s, End) # <<>>
        /\ \A k \in 1..Len(s) : Append(s, End)[k] = s[k]
        /\ Append(s, End)[Len(s) + 1] = End
    BY <2>2, Appended
  <2> QED
    BY <1>2, <2>3 DEF Starts
<1> HIDE DEF s2
<1>4. \A n \in 1..Len(typed) : Within(typed, s, n) => Within(typed, s2, n)
  BY <1>2, <1>3, WithinMore
<1>5. Kept'
  <2>1. \A n \in 1..Len(typed) : Ran(n) => Ran(n)'
    BY <1>1, RanStays
  <2> QED
    BY <1>1, <1>2, <1>4, <2>1, NothingLost
<1>6. OnPipe'
  <2> SUFFICES ASSUME ~terminal PROVE Counted(typed, s2) /\ (pc = "skip" => Total(typed) > Limit)
    BY <1>1 DEF OnPipe
  <2>1. Counted(typed, s) /\ (pc = "skip" => Total(typed) > Limit)
    BY <1>2 DEF OnPipe
  <2>2. Counted(typed, s2)
    <3> HIDE DEF s
    <3> QED
      BY <1>2, <1>3, <2>1, CountedEnds
  <2> QED
    BY <2>1, <2>2
<1>7. OnTerminal'
  <2> SUFFICES ASSUME terminal
               PROVE  /\ dirty => eof
                      /\ OneLine(typed, stdio)
                      /\ stdio # <<>> => /\ pc \in {"skip", "wc", "cat"}
                                         /\ pc = "skip" => Excused(typed, terminal, stdio[1][1])
                      /\ pc = "skip" /\ stdio = <<>> /\ ~eof =>
                             IF s2 = <<>> THEN Len(typed) > 0 /\ typed[Len(typed)].len = Limit
                             ELSE s2[1] # End => Excused(typed, terminal, s2[1][1])
    BY <1>1 DEF OnTerminal
  <2>1. /\ dirty => eof
        /\ OneLine(typed, stdio)
        /\ stdio # <<>> => /\ pc \in {"skip", "wc", "cat"}
                           /\ pc = "skip" => Excused(typed, terminal, stdio[1][1])
        /\ pc = "skip" /\ stdio = <<>> /\ ~eof =>
               IF s = <<>> THEN Len(typed) > 0 /\ typed[Len(typed)].len = Limit
               ELSE s[1] # End => Excused(typed, terminal, s[1][1])
    BY <1>2 DEF OnTerminal
  <2>2. CASE s = <<>>
    <3>1. Len(s) = 0
      BY <2>2, EmptySeq
    <3>2. s2[1] = End
      BY <1>3, <3>1
    <3> QED
      BY <1>3, <2>1, <3>2
  <2>3. CASE s # <<>>
    <3>1. 1 \in 1..Len(s)
      BY <1>2, <2>3, EmptySeq
    <3>2. s2[1] = s[1]
      BY <1>3, <3>1 DEF Starts
    <3> QED
      BY <1>3, <2>1, <2>3, <3>2
  <2> QED
    BY <2>2, <2>3
<1>8. Buffered'
  BY <1>1, <1>2 DEF Buffered
<1> QED
  BY <1>5, <1>6, <1>7, <1>8 DEF Fate

(* What stdio has read of a line is skipped.                                *)
LEMMA SkipAccounts ==
  ASSUME FateInv, SkipRest
  PROVE  Fate'
<1>1. /\ UNCHANGED <<terminal, restarts, typed, source, ended, eof, closed, input_buf, ran, given, dirty>>
      /\ pc = "skip" /\ stdio # <<>> /\ pc' \in {"skip", "execute"}
  BY DEF SkipRest
<1>2. /\ typed \in Seq(Shapes) /\ Len(typed) \in Nat /\ Len(stdio) \in Nat \ {0}
      /\ stdio \in Seq(Chars(typed))
      /\ Kept /\ OnPipe /\ OnTerminal /\ Buffered
  <2>1. Len(stdio) \in Nat \ {0}
    BY <1>1, FateTypes, EmptySeq DEF FateInv
  <2> QED
    BY <2>1, FateTypes DEF FateInv, Fate
<1>3. terminal => stdio' = <<>> /\ pc' = "execute"
  <2> SUFFICES ASSUME terminal PROVE stdio' = <<>> /\ pc' = "execute"
    OBVIOUS
  <2>1. OneLine(typed, stdio)
    BY <1>2 DEF OnTerminal
  <2>2. SelectInSeq(stdio, IsNewline) = Len(stdio)
    BY <1>1, <1>2, <2>1, LineNewline
  <2>3. stdio' = SubSeq(stdio, Len(stdio) + 1, Len(stdio)) /\ pc' = "execute"
    BY <1>2, <2>2 DEF SkipRest
  <2>4. SubSeq(stdio, Len(stdio) + 1, Len(stdio)) = <<>>
    <3> DEFINE l == Len(stdio)
               r == SubSeq(stdio, l + 1, l)
    <3>1. l \in Nat /\ l <= l
      BY <1>2
    <3>2. r \in Seq(Chars(typed)) /\ Len(r) = l - l
      BY <1>2, <3>1, Cut
    <3>3. Len(r) = 0
      <4> HIDE DEF l
      <4> QED
        BY <3>1, <3>2
    <3> HIDE DEF r
    <3>4. r = <<>>
      BY <3>2, <3>3, EmptySeq
    <3> QED
      BY <3>4 DEF r
  <2> QED
    BY <2>3, <2>4
<1>4. \A n \in 1..Len(typed) : Within(typed, stdio, n) => Excused(typed, terminal, n)
  <2> SUFFICES ASSUME NEW n \in 1..Len(typed), Within(typed, stdio, n)
               PROVE  Excused(typed, terminal, n)
    OBVIOUS
  <2>1. CASE terminal
    <3>1. Excused(typed, terminal, stdio[1][1]) /\ OneLine(typed, stdio)
      BY <1>1, <1>2, <2>1 DEF OnTerminal
    <3>2. PICK i \in 1..Len(stdio) : stdio[i][1] = n
      BY DEF Within
    <3>3. stdio[i][1] = stdio[1][1]
      BY <1>1, <3>1, <3>2 DEF OneLine
    <3> QED
      BY <3>1, <3>2, <3>3
  <2>2. CASE ~terminal
    BY <1>1, <1>2, <2>2 DEF OnPipe, Excused
  <2> QED
    BY <2>1, <2>2
<1>5. Kept'
  <2>1. \A n \in 1..Len(typed) : Ran(n) => Ran(n)'
    BY <1>1, RanStays
  <2> QED
    BY <1>1, <1>2, <1>4, <2>1, NothingLost
<1>6. OnPipe'
  BY <1>1, <1>2 DEF OnPipe
<1>7. OnTerminal'
  <2> SUFFICES ASSUME terminal PROVE OnTerminal'
    BY <1>1 DEF OnTerminal
  <2>1. stdio' = <<>> /\ pc' = "execute" /\ (dirty => eof)
    BY <1>2, <1>3 DEF OnTerminal
  <2> QED
    BY <1>1, <2>1 DEF OnTerminal, OneLine
<1>8. Buffered'
  BY <1>1, <1>2 DEF Buffered
<1> QED
  BY <1>5, <1>6, <1>7, <1>8 DEF Fate

(* The flag of the end of file ends the skip.                               *)
LEMMA SkipEndsAccounts ==
  ASSUME FateInv, SkipEnds
  PROVE  Fate'
<1>1. /\ UNCHANGED <<terminal, restarts, typed, source, ended, stdio, eof, closed, input_buf, ran,
                      given, dirty>>
      /\ stdio = <<>> /\ pc' = "execute"
  BY DEF SkipEnds
<1>2. Kept /\ OnPipe /\ OnTerminal /\ Buffered
  BY DEF FateInv, Fate
<1>3. \A n \in 1..Len(typed) : Ran(n) => Ran(n)'
  BY <1>1, RanStays
<1>4. Kept'
  BY <1>1, <1>2, <1>3, NothingLost
<1>5. OnPipe' /\ OnTerminal' /\ Buffered'
  BY <1>1, <1>2 DEF OnPipe, OnTerminal, Buffered
<1> QED
  BY <1>4, <1>5 DEF Fate

(* wc and cat take what there is in stdio,                                  *)
LEMMA ReadAccounts ==
  ASSUME FateInv, ReadStdin
  PROVE  Fate'
<1>1. /\ UNCHANGED <<terminal, restarts, typed, source, ended, eof, closed, pc, input_buf, ran, dirty>>
      /\ pc \in {"wc", "cat"} /\ stdio' = <<>>
      /\ given' = given \cup {stdio[i][1] : i \in 1..Len(stdio)}
  BY DEF ReadStdin
<1>2. Kept /\ OnPipe /\ OnTerminal /\ Buffered
  BY DEF FateInv, Fate
<1>3. \A n \in 1..Len(typed) : Ran(n) => Ran(n)'
  BY <1>1, RanStays
<1>4. \A n \in 1..Len(typed) : Within(typed, stdio, n) => n \in given'
  BY <1>1 DEF Within
<1>5. Kept'
  BY <1>1, <1>2, <1>3, <1>4, NothingLost
<1>6. OnPipe' /\ OnTerminal' /\ Buffered'
  BY <1>1, <1>2 DEF OnPipe, OnTerminal, Buffered, OneLine
<1> QED
  BY <1>5, <1>6 DEF Fate

(* end,                                                                     *)
LEMMA ReaderEndAccounts ==
  ASSUME FateInv, ReaderEnds
  PROVE  Fate'
<1>1. /\ UNCHANGED <<terminal, restarts, typed, source, ended, stdio, eof, input_buf, ran, given, dirty>>
      /\ pc \in {"wc", "cat"} /\ pc' = "prompt" /\ stdio = <<>>
  BY DEF ReaderEnds
<1>2. Kept /\ OnPipe /\ OnTerminal /\ Buffered
  BY DEF FateInv, Fate
<1>3. \A n \in 1..Len(typed) : Ran(n) => Ran(n)'
  BY <1>1, RanStays
<1>4. Kept'
  BY <1>1, <1>2, <1>3, NothingLost
<1>5. OnPipe' /\ OnTerminal' /\ Buffered'
  BY <1>1, <1>2 DEF OnPipe, OnTerminal, Buffered
<1> QED
  BY <1>4, <1>5 DEF Fate

(* or are interrupted, as a skip is.                                        *)
LEMMA InterruptedAccounts ==
  ASSUME FateInv, Interrupted
  PROVE  Fate'
<1>1. /\ UNCHANGED <<terminal, restarts, typed, source, ended, stdio, eof, input_buf, ran, given, dirty>>
      /\ pc \in {"skip", "wc", "cat"} /\ pc' \in {"execute", "prompt"} /\ stdio = <<>>
      /\ pc' = IF pc = "skip" THEN "execute" ELSE "prompt"
  BY DEF Interrupted
<1>2. Kept /\ OnPipe /\ OnTerminal /\ Buffered
  BY DEF FateInv, Fate
<1>3. \A n \in 1..Len(typed) : Ran(n) => Ran(n)'
  BY <1>1, RanStays
<1>4. Kept'
  BY <1>1, <1>2, <1>3, NothingLost
<1>5. OnPipe' /\ OnTerminal' /\ Buffered'
  BY <1>1, <1>2 DEF OnPipe, OnTerminal, Buffered
<1> QED
  BY <1>4, <1>5 DEF Fate

(* Without a step nothing is lost.                                          *)
LEMMA StutterAccounts ==
  ASSUME FateInv, UNCHANGED vars
  PROVE  Fate'
<1>1. UNCHANGED <<terminal, typed, source, stdio, eof, pc, input_buf, ran, given, dirty>>
  BY DEF vars
<1>2. Kept /\ OnPipe /\ OnTerminal /\ Buffered
  BY DEF FateInv, Fate
<1>3. \A n \in 1..Len(typed) : Ran(n) => Ran(n)'
  BY <1>1, RanStays
<1>4. Kept'
  BY <1>1, <1>2, <1>3, NothingLost
<1>5. OnPipe' /\ OnTerminal' /\ Buffered'
  BY <1>1, <1>2 DEF OnPipe, OnTerminal, Buffered
<1> QED
  BY <1>4, <1>5 DEF Fate

(* What is executed was taken.                                              *)
LEMMA ExecuteAccounts ==
  ASSUME FateInv, Execute
  PROVE  Fate'
<1> DEFINE words == Words(input_buf)
<1>1. /\ pc = "execute" /\ input_buf' = <<>>
      /\ ran' = IF words = <<>> THEN ran ELSE Append(ran, words)
      /\ UNCHANGED <<terminal, restarts, typed, source, ended, stdio, eof, closed, given, dirty>>
      /\ pc' = IF IsCommand(words, "exit") THEN "exited"
               ELSE IF Reader(words) THEN FirstShape(words).kind ELSE "prompt"
  BY DEF Execute
<1>2. /\ typed \in Seq(Shapes) /\ input_buf \in Seq(Chars(typed))
      /\ ran \in Seq(Seq(Chars(typed)) \ {<<>>})
      /\ Kept /\ OnPipe /\ OnTerminal /\ Buffered
  BY FateTypes DEF FateInv, Fate
<1>3. /\ words \in Seq(Chars(typed))
      /\ \A k \in 1..Len(input_buf) :
            ~EndsLine(typed, input_buf[k]) => \E i \in 1..Len(words) : words[i] = input_buf[k]
  <2> DEFINE w == FlatMap(Word(typed), input_buf)
  <2>1. words = w
    BY <1>2, WordsOfLine
  <2>2. /\ w \in Seq(Chars(typed))
        /\ \A k \in 1..Len(input_buf) :
              ~EndsLine(typed, input_buf[k]) => \E i \in 1..Len(w) : w[i] = input_buf[k]
    BY <1>2, WordsWithin
  <2> HIDE DEF w, words
  <2> QED
    BY <2>1, <2>2
<1>4. pc' # "skip"
  <2>1. Reader(words) => FirstShape(words).kind \in {"wc", "cat"}
    BY DEF Reader, IsCommand
  <2> HIDE DEF words
  <2> QED
    BY <1>1, <2>1
<1> HIDE DEF words
<1>5. words # <<>> => /\ Len(ran') = Len(ran) + 1 /\ ran'[Len(ran) + 1] = words
                      /\ Len(ran) \in Nat /\ \A c \in 1..Len(ran) : ran'[c] = ran[c]
  <2> SUFFICES ASSUME words # <<>>
               PROVE  /\ Len(ran') = Len(ran) + 1 /\ ran'[Len(ran) + 1] = words
                      /\ Len(ran) \in Nat /\ \A c \in 1..Len(ran) : ran'[c] = ran[c]
    OBVIOUS
  <2> DEFINE T == Seq(Chars(typed)) \ {<<>>}
  <2>1. ran' = Append(ran, words) /\ ran \in Seq(T) /\ words \in T
    BY <1>1, <1>2, <1>3
  <2> HIDE DEF T
  <2>2. /\ Len(Append(ran, words)) = Len(ran) + 1 /\ Append(ran, words)[Len(ran) + 1] = words
        /\ \A c \in 1..Len(ran) : Append(ran, words)[c] = ran[c]
    BY <2>1, Appended
  <2> QED
    BY <2>1, <2>2, LenProperties
<1>6. \A n : Ran(n) => Ran(n)'
  <2>1. CASE words = <<>>
    BY <1>1, <2>1 DEF Ran
  <2>2. CASE words # <<>>
    <3> SUFFICES ASSUME NEW n, Ran(n)
                 PROVE  \E c \in 1..Len(ran') : \E i \in 1..Len(ran'[c]) : ran'[c][i][1] = n
      BY DEF Ran
    <3>1. PICK c \in 1..Len(ran) : \E i \in 1..Len(ran[c]) : ran[c][i][1] = n
      BY DEF Ran
    <3>2. c \in 1..Len(ran') /\ ran'[c] = ran[c]
      BY <1>5, <2>2
    <3> QED
      BY <3>1, <3>2
  <2> QED
    BY <2>1, <2>2
<1>7. \A n \in 1..Len(typed) : Within(typed, input_buf, n) => Ran(n)'
  <2> SUFFICES ASSUME NEW n \in 1..Len(typed), Within(typed, input_buf, n)
               PROVE  \E c \in 1..Len(ran') : \E i \in 1..Len(ran'[c]) : ran'[c][i][1] = n
    BY DEF Ran
  <2>1. PICK k \in 1..Len(input_buf) : input_buf[k][1] = n /\ ~EndsLine(typed, input_buf[k])
    BY DEF Within
  <2>2. PICK i \in 1..Len(words) : words[i] = input_buf[k]
    BY <1>3, <2>1
  <2>3. words # <<>>
    BY <2>2, EmptySeq
  <2> DEFINE c == Len(ran) + 1
  <2>4. c \in 1..Len(ran') /\ ran'[c] = words
    BY <1>5, <2>3
  <2> HIDE DEF c
  <2>5. i \in 1..Len(ran'[c]) /\ ran'[c][i][1] = n
    BY <2>1, <2>2, <2>4
  <2> QED
    BY <2>4, <2>5
<1>8. Kept'
  BY <1>1, <1>2, <1>6, <1>7, NothingLost
<1>9. OnPipe'
  BY <1>1, <1>2, <1>4 DEF OnPipe
<1>10. OnTerminal'
  BY <1>1, <1>2, <1>4 DEF OnTerminal
<1>11. Buffered'
  BY <1>1 DEF Buffered
<1> QED
  BY <1>8, <1>9, <1>10, <1>11 DEF Fate

(* What a read leaves of a pipe was typed.                                  *)
LEMMA CountedRead ==
  ASSUME typed \in Seq(Shapes), Input(typed, source), source # <<>>, ~terminal,
         NEW k \in 0..Len(source), NoEnd(source, k),
         Counted(typed, source), Total(typed) \in Nat
  PROVE  Counted(typed, AfterRead(k))
<1> DEFINE l == Len(source)
           s == source
           r == SubSeq(s, k + 1, l)
<1>1. s \in Seq(Items(typed)) /\ l \in Nat /\ k \in Nat /\ k <= l
  BY LenProperties DEF Input
<1>2. CASE k = 0
  BY <1>2 DEF AfterRead
<1>3. CASE k # 0
  <2>1. Behind(s, k, r)
    BY <1>1, Cut DEF Behind
  <2>2. AfterRead(k) = r
    BY <1>1, <1>3 DEF AfterRead
  <2> HIDE DEF r
  <2>3. Counted(typed, r)
    BY <1>1, <2>1, CountedRest
  <2> QED
    BY <2>2, <2>3
<1> QED
  BY <1>2, <1>3

(* What is read are characters without gaps.                                *)
LEMMA FirstRead ==
  ASSUME typed \in Seq(Shapes), Input(typed, source), NEW k \in 0..Len(source), NoEnd(source, k),
         NEW j \in 0..k, NEW b, b = SubSeq(source, 1, j)
  PROVE  /\ b \in Seq(Chars(typed)) /\ Len(b) = j /\ \A i \in 1..j : b[i] = source[i]
         /\ NoGaps(typed, b)
<1>1. \A i \in 1..k : source[i] # End
  BY DEF NoEnd
<1>2. typed \in Seq(Shapes) /\ Input(typed, source)
  OBVIOUS
<1>3. \A e : e = SubSeq(source, 1, j) =>
         /\ e \in Seq(Chars(typed)) /\ Len(e) = j /\ \A i \in 1..j : e[i] = source[i]
         /\ NoGaps(typed, e)
         /\ \A w : Precedes(w, source) => Precedes(w, e)
  BY <1>1, <1>2, FirstOfInput, Zenon
<1> QED
  BY <1>3, Zenon

(* stdio reads.                                                             *)
LEMMA FillAccounts ==
  ASSUME FateInv, FillStdio
  PROVE  Fate'
<1> DEFINE n == Len(source)
<1> PICK k : k = Reads(n) /\ stdio' = SubSeq(source, 1, k) /\ source' = AfterRead(k)
             /\ eof' = (k = 0)
  BY DEF FillStdio
<1>1. /\ Ready /\ stdio = <<>> /\ ~eof /\ pc \in {"skip", "wc", "cat"}
      /\ UNCHANGED <<terminal, restarts, typed, ended, closed, pc, input_buf, ran, given, dirty>>
  BY DEF FillStdio
<1>2. /\ typed \in Seq(Shapes) /\ Len(typed) \in Nat /\ terminal \in BOOLEAN
      /\ Input(typed, source) /\ n \in Nat /\ Total(typed) \in Nat
      /\ Kept /\ OnPipe /\ OnTerminal /\ Buffered
  BY FateTypes DEF FateInv, Fate
<1>3. /\ k \in 0..Len(source)
      /\ \A i \in 1..k : source[i] # End
      /\ terminal => \A i \in 1..k - 1 : ~EndsLine(typed, source[i])
      /\ k > 0 => EndsLine(typed, source[k])
      /\ k = 0 => source[1] = End
  <2>1. Len(source) <= n
    BY <1>2
  <2> HIDE DEF n
  <2> QED
    BY <1>1, <1>2, <2>1, ReadFacts
<1> HIDE DEF n
<1> DEFINE b == SubSeq(source, 1, k)
<1>4. /\ b \in Seq(Chars(typed)) /\ Len(b) = k /\ \A i \in 1..k : b[i] = source[i]
      /\ NoGaps(typed, b)
  <2>1. k \in 0..k /\ NoEnd(source, k)
    BY <1>3 DEF NoEnd
  <2>2. b = SubSeq(source, 1, k)
    OBVIOUS
  <2>3. typed \in Seq(Shapes) /\ Input(typed, source) /\ k \in 0..Len(source)
    BY <1>2, <1>3
  <2> HIDE DEF b
  <2> QED
    BY <2>1, <2>2, <2>3, FirstRead
<1>5. stdio' = b /\ source # <<>> /\ k \in Nat
  BY <1>1, <1>3 DEF Ready
<1>6. \A m \in 1..Len(typed) :
         Within(typed, source, m) => Within(typed, b, m) \/ Within(typed, source', m)
  <2> SUFFICES ASSUME NEW m \in 1..Len(typed), Within(typed, source, m)
               PROVE  Within(typed, b, m) \/ Within(typed, source', m)
    OBVIOUS
  <2>1. Within(typed, SubSeq(source, 1, k), m) \/ Within(typed, AfterRead(k), m)
    BY <1>2, <1>3, <1>5, WithinRead
  <2> QED
    BY <2>1
<1> HIDE DEF b
<1>7. \A m : ~Within(typed, stdio, m)
  BY <1>1, EmptySeq DEF Within
<1>8. Kept'
  <2>1. \A m \in 1..Len(typed) : Ran(m) => Ran(m)'
    BY <1>1, RanStays
  <2> QED
    BY <1>1, <1>2, <1>5, <1>6, <1>7, <2>1, NothingLost
<1>9. OnPipe'
  <2> SUFFICES ASSUME ~terminal
               PROVE  Counted(typed, source') /\ (pc = "skip" => Total(typed) > Limit)
    BY <1>1 DEF OnPipe
  <2>1. Counted(typed, source) /\ (pc = "skip" => Total(typed) > Limit)
    BY <1>2 DEF OnPipe
  <2>2. Counted(typed, AfterRead(k))
    <3>1. NoEnd(source, k)
      BY <1>3 DEF NoEnd
    <3> QED
      BY <1>2, <1>3, <1>5, <2>1, <3>1, CountedRead
  <2> QED
    BY <2>1, <2>2
<1>10. OnTerminal'
  <2> SUFFICES ASSUME terminal
               PROVE  /\ ~dirty
                      /\ OneLine(typed, b)
                      /\ b # <<>> /\ pc = "skip" => Excused(typed, terminal, b[1][1])
                      /\ ~(b = <<>> /\ k # 0)
    BY <1>1, <1>5 DEF OnTerminal
  <2>1. /\ dirty => eof
        /\ pc = "skip" /\ stdio = <<>> /\ ~eof =>
               IF source = <<>> THEN Len(typed) > 0 /\ typed[Len(typed)].len = Limit
               ELSE source[1] # End => Excused(typed, terminal, source[1][1])
    BY <1>2 DEF OnTerminal
  <2>2. b = <<>> <=> k = 0
    BY <1>4, EmptySeq
  <2>3. ASSUME k # 0
        PROVE  /\ EndsLine(typed, b[k]) /\ \A i \in 1..k - 1 : ~EndsLine(typed, b[i])
               /\ b[1] = source[1] /\ source[1] # End
    <3>1. k > 0 /\ k \in 1..k /\ 1 \in 1..k /\ \A i \in 1..k - 1 : i \in 1..k
      BY <1>5, <2>3
    <3> QED
      BY <1>3, <1>4, <3>1
  <2>4. OneLine(typed, b)
    <3> SUFFICES ASSUME k # 0
                 PROVE  /\ EndsLine(typed, b[k])
                        /\ \A i \in 1..k - 1 : ~EndsLine(typed, b[i])
                        /\ \A i \in 1..k : b[i][1] = b[1][1]
      BY <1>4, <2>2 DEF OneLine
    <3>1. \A i \in 1..Len(b) : b[i][1] = b[1][1]
      <4>1. Len(b) \in Nat /\ \A i \in 1..Len(b) - 1 : ~EndsLine(typed, b[i])
        BY <1>4, <1>5, <2>3
      <4> QED
        BY <1>4, <4>1, SameLine
    <3> QED
      BY <1>4, <2>3, <3>1
  <2>5. b # <<>> /\ pc = "skip" => Excused(typed, terminal, b[1][1])
    BY <1>1, <1>5, <2>1, <2>2, <2>3
  <2> QED
    BY <1>1, <2>1, <2>2, <2>4, <2>5
<1>11. Buffered'
  BY <1>1, <1>2 DEF Buffered
<1> QED
  BY <1>8, <1>9, <1>10, <1>11 DEF Fate

(* Of a terminal a read that is too long is of one line, which is too long, *)
(* too.                                                                     *)
LEMMA LongRead ==
  ASSUME NEW t \in Seq(Shapes), NEW b \in Seq(Chars(t)), Len(b) = Limit + 1, NoGaps(t, b),
         \A i \in 1..Len(b) - 1 : ~EndsLine(t, b[i])
  PROVE  /\ \A i \in 1..Len(b) : b[i][1] = b[1][1]
         /\ b[1][1] \in 1..Len(t) /\ t[b[1][1]].len \in Nat /\ t[b[1][1]].len >= Limit
         /\ b[1][2] = 1 => b[Len(b)] = <<b[1][1], Limit + 1>>
<1> DEFINE l == Len(b)
           m == b[1][1]
           p == b[1][2]
<1>1. Limit \in Nat \ {0} /\ l \in Nat /\ l = Limit + 1 /\ 1 \in 1..l /\ l \in 1..l /\ b # <<>>
  BY LimitAssumption, EmptySeq
<1>2. b[1] \in Chars(t) /\ b[l] \in Chars(t)
  BY <1>1, ElementOfSeq
<1>3. m \in 1..Len(t) /\ p \in Nat \ {0} /\ t[m].len \in Nat
  BY <1>2, CharType
<1>4. \A i \in 1..l : b[i] = <<m, p + (i - 1)>>
  <2>1. \A i \in 1..Len(b) : b[i] = <<b[1][1], b[1][2] + (i - 1)>>
    BY <1>1, RowOfLine
  <2> QED
    BY <2>1
<1> HIDE DEF l, m, p
<1>5. b[l] = <<m, p + Limit>>
  <2>1. l - 1 = Limit
    BY <1>1
  <2> QED
    BY <1>1, <1>4, <2>1
<1>6. b[l][1] = m /\ b[l][2] = p + Limit
  BY <1>5
<1>7. p + Limit <= t[m].len + 1
  BY <1>2, <1>6, CharType
<1>8. t[m].len >= Limit
  BY <1>1, <1>3, <1>7
<1>9. \A i \in 1..l : b[i][1] = m
  BY <1>4
<1>10. p = 1 => b[l] = <<m, Limit + 1>>
  <2>1. p = 1 => p + Limit = Limit + 1
    BY <1>1
  <2> QED
    BY <1>5, <2>1
<1> QED
  BY <1>3, <1>8, <1>9, <1>10 DEF l, m, p

(* What comes behind a read of a terminal that is too long, from the        *)
(* beginning of a line, is excused.                                         *)
LEMMA BehindLongRead ==
  ASSUME typed \in Seq(Shapes), Len(typed) \in Nat, Input(typed, source), terminal,
         NEW k \in 1..Len(source), k = Limit + 1, source[k] # End,
         NEW m \in 1..Len(typed), source[k] = <<m, Limit + 1>>, typed[m].len \in Nat, typed[m].len >= Limit
  PROVE  IF AfterRead(k) = <<>> THEN Len(typed) > 0 /\ typed[Len(typed)].len = Limit
         ELSE AfterRead(k)[1] # End => Excused(typed, terminal, AfterRead(k)[1][1])
<1> DEFINE l == Len(source)
           r == SubSeq(source, k + 1, l)
<1>1. /\ source \in Seq(Items(typed)) /\ l \in Nat /\ k \in Nat \ {0} /\ k <= l /\ Limit \in Nat
      /\ Connected(typed, source) /\ Complete(typed, source) /\ source # <<>>
  BY LenProperties, EmptySeq, LimitAssumption DEF Input
<1>2. /\ r \in Seq(Items(typed)) /\ Len(r) = l - k /\ \A i \in 1..l - k : r[i] = source[k + i]
      /\ AfterRead(k) = r
  <2>1. AfterRead(k) = r
    BY <1>1 DEF AfterRead
  <2> QED
    BY <1>1, <2>1, Cut
<1>3. source[k][1] = m /\ source[k][2] = Limit + 1
  OBVIOUS
<1>4. EndsLine(typed, source[k]) <=> typed[m].len = Limit
  BY <1>1, <1>3 DEF EndsLine
<1> HIDE DEF r, l
<1>5. CASE r = <<>>
  <2>1. Len(r) = 0
    BY <1>5, EmptySeq
  <2>2. k = l
    BY <1>1, <1>2, <2>1
  <2>3. source[k][1] = Len(typed) /\ EndsLine(typed, source[k])
    BY <1>1, <2>2 DEF Complete, l
  <2> QED
    BY <1>2, <1>3, <1>4, <1>5, <2>3
<1>6. CASE r # <<>>
  <2>1. Len(r) # 0
    BY <1>2, <1>6, EmptySeq
  <2>2. 1 \in 1..l - k /\ k \in 1..l - 1
    BY <1>1, <1>2, <2>1
  <2>3. r[1] = source[k + 1]
    BY <1>2, <2>2
  <2> SUFFICES ASSUME r[1] # End PROVE Excused(typed, terminal, r[1][1])
    BY <1>2, <1>6
  <2>4. source[k + 1] = After(typed, source[k])
    BY <1>1, <2>2, <2>3 DEF Connected, l
  <2>5. CASE EndsLine(typed, source[k])
    <3>1. r[1][1] = m + 1
      BY <1>3, <2>3, <2>4, <2>5 DEF After
    <3>2. m + 1 > 1 /\ (m + 1) - 1 = m
      OBVIOUS
    <3>3. Excused(typed, terminal, m + 1)
      BY <1>4, <2>5, <3>2 DEF Excused
    <3> QED
      BY <3>1, <3>3
  <2>6. CASE ~EndsLine(typed, source[k])
    <3>1. r[1][1] = m
      BY <1>3, <2>3, <2>4, <2>6 DEF After
    <3>2. Excused(typed, terminal, m)
      BY DEF Excused
    <3> QED
      BY <3>1, <3>2
  <2> QED
    BY <2>5, <2>6
<1> QED
  BY <1>5, <1>6

(* get_input reads.                                                         *)
LEMMA GetInputAccounts ==
  ASSUME FateInv, GetInput
  PROVE  Fate'
<1> DEFINE n == Limit + 1
<1>0. PICK k : /\ k = Reads(n) /\ source' = AfterRead(k)
               /\ dirty' = (dirty \/ (TooLong(k) /\ (stdio # <<>> \/ eof)))
               /\ \/ k = 0 /\ pc' = "exited" /\ input_buf' = <<>>
                  \/ /\ k > 0 /\ ~TooLong(k) /\ pc' = "execute"
                     /\ input_buf' = SubSeq(source, 1, k)
                  \/ /\ TooLong(k) /\ pc' = "skip"
                     /\ \E capped \in {SubSeq(source, 1, Limit)} :
                          input_buf' = IF HasDollar(capped) THEN capped ELSE <<>>
  BY DEF GetInput
<1>1. /\ pc = "prompt" /\ Ready /\ source # <<>>
      /\ UNCHANGED <<terminal, restarts, typed, ended, stdio, eof, closed, ran, given>>
  BY DEF GetInput, Ready
<1>2. /\ typed \in Seq(Shapes) /\ Len(typed) \in Nat /\ terminal \in BOOLEAN
      /\ Input(typed, source) /\ Len(source) \in Nat /\ Total(typed) \in Nat
      /\ Kept /\ OnPipe /\ OnTerminal /\ Buffered /\ Clean
      /\ Limit \in Nat \ {0} /\ n \in Nat /\ n > Limit
  BY FateTypes, LimitAssumption DEF FateInv, Fate, InputInv
<1>3. n = Limit + 1
  OBVIOUS
<1> HIDE DEF n
<1>4. /\ k \in 0..Len(source) /\ k <= n
      /\ \A i \in 1..k : source[i] # End
      /\ terminal => \A i \in 1..k - 1 : ~EndsLine(typed, source[i])
      /\ k < n => (k = 0 => source[1] = End)
  BY <1>0, <1>1, <1>2, ReadFacts
<1>5. k \in Nat /\ (k = 0 => source[1] = End) /\ (TooLong(k) <=> k = n) /\ NoEnd(source, k)
  BY <1>2, <1>3, <1>4 DEF TooLong, NoEnd
<1> DEFINE b == SubSeq(source, 1, k)
<1>6. /\ b \in Seq(Chars(typed)) /\ Len(b) = k /\ \A i \in 1..k : b[i] = source[i]
      /\ NoGaps(typed, b)
  <2>1. k \in 0..k /\ k \in 0..Len(source)
    BY <1>4, <1>5
  <2>2. b = SubSeq(source, 1, k)
    OBVIOUS
  <2> HIDE DEF b
  <2> QED
    BY <1>2, <1>5, <2>1, <2>2, FirstRead
<1>7. \A j \in 1..Len(typed) :
         Within(typed, source, j) => Within(typed, b, j) \/ Within(typed, source', j)
  <2> SUFFICES ASSUME NEW j \in 1..Len(typed), Within(typed, source, j)
               PROVE  Within(typed, b, j) \/ Within(typed, source', j)
    OBVIOUS
  <2>1. Within(typed, SubSeq(source, 1, k), j) \/ Within(typed, AfterRead(k), j)
    BY <1>1, <1>2, <1>4, <1>5, WithinRead
  <2> QED
    BY <1>0, <2>1
<1>8. \/ k = 0 /\ pc' = "exited" /\ input_buf' = <<>>
      \/ k # 0 /\ k # n /\ pc' = "execute" /\ input_buf' = b
      \/ k = n /\ pc' = "skip"
  BY <1>0, <1>5
<1> HIDE DEF b
\* On a terminal a read that is too long is of a line that is.
<1>9. ASSUME terminal, k = n
      PROVE  /\ \A i \in 1..k : b[i][1] = b[1][1]
             /\ b[1][1] \in 1..Len(typed) /\ typed[b[1][1]].len \in Nat
             /\ typed[b[1][1]].len >= Limit
             /\ b[1][2] = 1 => b[k] = <<b[1][1], Limit + 1>>
  <2>1. Len(b) = Limit + 1
    BY <1>3, <1>6, <1>9
  <2>2. \A i \in 1..Len(b) - 1 : ~EndsLine(typed, b[i])
    <3>1. \A i \in 1..k - 1 : i \in 1..k
      BY <1>5
    <3> QED
      BY <1>4, <1>6, <1>9, <3>1
  <2>3. /\ \A i \in 1..Len(b) : b[i][1] = b[1][1]
        /\ b[1][1] \in 1..Len(typed) /\ typed[b[1][1]].len \in Nat
        /\ typed[b[1][1]].len >= Limit
        /\ b[1][2] = 1 => b[Len(b)] = <<b[1][1], Limit + 1>>
    BY <1>2, <1>6, <2>1, <2>2, LongRead
  <2> QED
    BY <1>6, <2>3
<1>10. ~terminal /\ k = n => Total(typed) > Limit
  <2> SUFFICES ASSUME ~terminal, k = n PROVE Total(typed) > Limit
    OBVIOUS
  <2>1. Counted(typed, source)
    BY <1>2 DEF OnPipe
  <2>2. k \in 1..Len(source) /\ \A i \in 1..k : source[i] # End
    BY <1>2, <1>4, <1>5
  <2>3. k <= Total(typed)
    BY <2>1, <2>2 DEF Counted
  <2> QED
    BY <1>2, <1>5, <2>3
<1>11. \A j \in 1..Len(typed) :
          Within(typed, b, j) => Within(typed, input_buf', j) \/ Excused(typed, terminal, j)
  <2> SUFFICES ASSUME NEW j \in 1..Len(typed), Within(typed, b, j)
               PROVE  Within(typed, input_buf', j) \/ Excused(typed, terminal, j)
    OBVIOUS
  <2>1. PICK i \in 1..k : b[i][1] = j
    BY <1>6 DEF Within
  <2>2. CASE k # 0 /\ k # n /\ input_buf' = b
    BY <2>2
  <2>3. CASE k = n /\ terminal
    <3>1. b[1][1] = j
      BY <1>9, <2>1, <2>3
    <3>2. typed[j].len >= Limit
      BY <1>9, <2>3, <3>1
    <3> QED
      BY <2>3, <3>2 DEF Excused
  <2>4. CASE k = n /\ ~terminal
    BY <1>10, <2>4 DEF Excused
  <2>5. k # 0
    BY <2>1
  <2> QED
    BY <1>8, <2>2, <2>3, <2>4, <2>5
<1>12. Kept'
  <2>1. \A j \in 1..Len(typed) : Ran(j) => Ran(j)'
    BY <1>1, RanStays
  <2>2. input_buf = <<>>
    BY <1>1, <1>2 DEF Buffered
  <2>3. \A j : ~Within(typed, input_buf, j)
    BY <2>2, EmptySeq DEF Within
  <2> QED
    BY <1>1, <1>2, <1>7, <1>11, <2>1, <2>3, NothingLost
<1>13. OnPipe'
  <2> SUFFICES ASSUME ~terminal
               PROVE  Counted(typed, source') /\ (pc' = "skip" => Total(typed) > Limit)
    BY <1>1 DEF OnPipe
  <2>1. Counted(typed, source)
    BY <1>2 DEF OnPipe
  <2>2. Counted(typed, AfterRead(k))
    BY <1>1, <1>2, <1>4, <1>5, <2>1, CountedRead
  <2>3. pc' = "skip" => k = n
    BY <1>8
  <2> QED
    BY <1>0, <1>10, <2>2, <2>3
<1>14. OnTerminal'
  <2> SUFFICES ASSUME terminal
               PROVE  /\ dirty' => eof
                      /\ stdio = <<>>
                      /\ pc' = "skip" /\ ~eof =>
                             IF source' = <<>> THEN Len(typed) > 0 /\ typed[Len(typed)].len = Limit
                             ELSE source'[1] # End => Excused(typed, terminal, source'[1][1])
    BY <1>1 DEF OnTerminal, OneLine
  <2>1. (dirty => eof) /\ stdio = <<>>
    BY <1>1, <1>2 DEF OnTerminal
  <2>2. dirty' => eof
    BY <1>0, <2>1
  <2>3. ASSUME pc' = "skip", ~eof
        PROVE  IF source' = <<>> THEN Len(typed) > 0 /\ typed[Len(typed)].len = Limit
               ELSE source'[1] # End => Excused(typed, terminal, source'[1][1])
    <3>1. k = n /\ ~dirty /\ 1 \in 1..k /\ k \in 1..k /\ k \in 1..Len(source)
      BY <1>2, <1>4, <1>5, <1>8, <2>1, <2>3
    <3>2. AtLine(source)
      BY <1>1, <1>2, <3>1 DEF Clean
    <3>3. b[1][2] = 1 /\ source[k] # End /\ b[k] = source[k]
      BY <1>1, <1>4, <1>6, <3>1, <3>2 DEF AtLine
    <3>4. /\ source[k] = <<b[1][1], Limit + 1>> /\ b[1][1] \in 1..Len(typed)
          /\ typed[b[1][1]].len \in Nat /\ typed[b[1][1]].len >= Limit
      BY <1>9, <3>1, <3>3
    <3>5. IF AfterRead(k) = <<>> THEN Len(typed) > 0 /\ typed[Len(typed)].len = Limit
          ELSE AfterRead(k)[1] # End => Excused(typed, terminal, AfterRead(k)[1][1])
      BY <1>2, <1>3, <3>1, <3>3, <3>4, BehindLongRead
    <3> QED
      BY <1>0, <3>5
  <2> QED
    BY <2>1, <2>2, <2>3
<1>15. Buffered'
  BY <1>8 DEF Buffered
<1> QED
  BY <1>12, <1>13, <1>14, <1>15 DEF Fate

(* At first there are no lines, and nothing is read.                        *)
LEMMA FateInit ==
  Init => FateInv
<1> SUFFICES ASSUME Init PROVE FateInv
  OBVIOUS
<1> DEFINE none == <<>>
<1>1. /\ typed = none /\ source = none /\ stdio = none /\ input_buf = none
      /\ pc = "prompt" /\ dirty = FALSE
  BY DEF Init
<1>2. Len(none) = 0
  BY EmptySeq
<1> HIDE DEF none
<1>3. Kept
  BY <1>1, <1>2 DEF Kept
<1>4. OnPipe
  BY <1>1, <1>2 DEF OnPipe, Counted
<1>5. OnTerminal /\ Buffered
  BY <1>1 DEF OnTerminal, OneLine, Buffered, none
<1> QED
  BY <1>3, <1>4, <1>5, InputInit DEF Fate, FateInv

(* Every step keeps account of the lines.                                   *)
LEMMA FateStep ==
  FateInv /\ [Next]_vars => FateInv'
<1>1. FateInv /\ [Next]_vars => InputInv'
  BY InputStep DEF FateInv
<1> SUFFICES ASSUME FateInv, [Next]_vars PROVE Fate'
  BY <1>1 DEF FateInv
<1>2. CASE TypeLine
  BY <1>2, TypeLineAccounts
<1>3. CASE TypeEnd
  BY <1>3, TypeEndAccounts
<1>4. CASE GetInput
  BY <1>4, GetInputAccounts
<1>5. CASE SkipRest
  BY <1>5, SkipAccounts
<1>6. CASE FillStdio
  BY <1>6, FillAccounts
<1>7. CASE SkipEnds
  BY <1>7, SkipEndsAccounts
<1>8. CASE Execute
  BY <1>8, ExecuteAccounts
<1>9. CASE ReadStdin
  BY <1>9, ReadAccounts
<1>10. CASE ReaderEnds
  BY <1>10, ReaderEndAccounts
<1>11. CASE Interrupted
  BY <1>11, InterruptedAccounts
<1>12. CASE UNCHANGED vars
  BY <1>12, StutterAccounts
<1> QED
  BY <1>2, <1>3, <1>4, <1>5, <1>6, <1>7, <1>8, <1>9, <1>10, <1>11, <1>12 DEF Next, ShellStep

(* A line that is gone is under way nowhere.                                *)
LEMMA InvFate ==
  FateInv => LineFate
<1> SUFFICES ASSUME FateInv, NEW n \in 1..Len(typed), Gone(n), typed[n].len > 0, n \notin given
             PROVE  \/ Ran(n)
                    \/ /\ terminal
                       /\ typed[n].len >= Limit \/ (n > 1 /\ typed[n - 1].len = Limit)
                    \/ ~terminal /\ Len(Text(1, Len(typed))) + Len(typed) > Limit
  BY DEF LineFate
<1>1. Accounted(n)
  BY DEF FateInv, Fate, Kept
<1>2. ~Within(typed, source, n) /\ ~Within(typed, stdio, n) /\ ~Within(typed, input_buf, n)
  BY DEF Gone, Within
<1>3. TextOf(typed, 1, Len(typed)) = Text(1, Len(typed))
  BY DEF TextOf, Text, LineOf, LineText
<1> QED
  BY <1>1, <1>2, <1>3 DEF Accounted, Excused, Total

(* Whatever the limit is, no line is lost but those that are excused: on a  *)
(* terminal one that is too long, or behind one of exactly the limit;       *)
(* through a pipe any, once more was written than a read can take; the      *)
(* others are executed, or read by wc or cat; get_input and its skip.       *)
THEOREM LinesHaveTheirFate ==
  Spec => []LineFate
<1>1. Spec => []FateInv
  BY FateInit, FateStep, PTL DEF Spec
<1> QED
  BY <1>1, InvFate, PTL
=============================================================================
