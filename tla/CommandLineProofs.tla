-------------------------- MODULE CommandLineProofs --------------------------
(* The variables of the shell hold texts that need no second expansion and  *)
(* implement the function they stand for, the tokens of a line mean what    *)
(* its words mean, and the commands of a pipeline have the words they       *)
(* should, whatever lines are typed, however they are cut and expanded.     *)
EXTENDS CommandLine, SequenceLemmas

\* The characters. (The provers do not know that "$" is a string.)
Char == STRING \cup {"$"}

\* What a value, a name and a part of a line without its bars are made of.
Final == Char \ {"$", "|"}
Named == Char \ {"="}
Unbarred == Char \ {"|"}

Variable == [name : Seq(Named) \ {<<>>}, value : Seq(Final)]

Distinct(list) ==
    \A i, j \in 1..Len(list) : list[i].name = list[j].name => i = j

\* The inductive invariant: the list is one of variables with names of their
\* own, and the line that is to be executed has words.
Listed == varList \in Seq(Variable) /\ Distinct(varList)
Typed == pc = "execute" => tokens \in Seq(Seq(Char)) /\ tokens # <<>>
LineInv == Listed /\ Typed

-----------------------------------------------------------------------------
(* Texts                                                                    *)

(* What a flattened list of texts is made of, each of the texts is made of. *)
LEMMA FlattenWithin ==
  ASSUME NEW S, NEW T, NEW rows \in Seq(Seq(S)), FlattenSeq(rows) \in Seq(T)
  PROVE  \A k \in 1..Len(rows) : rows[k] \in Seq(T)
<1> DEFINE P == {u \in Seq(Seq(S)) : FlattenSeq(u) \in Seq(T) =>
                                        \A k \in 1..Len(u) : u[k] \in Seq(T)}
<1>1. <<>> \in P
  <2>1. <<>> \in Seq(Seq(S)) /\ Len(<<>>) = 0
    BY EmptySeq
  <2> QED
    BY <2>1
<1>2. ASSUME NEW u \in P, NEW x \in Seq(S) PROVE Cat(u, One(x)) \in P
  <2> DEFINE e == One(x)
             v == Cat(u, e)
             r == FlattenSeq(u)
  <2>1. /\ e \in Seq(Seq(S)) /\ Len(e) = 1 /\ e[1] = x
        /\ u \in Seq(Seq(S)) /\ Len(u) \in Nat
    BY OneType, LenProperties
  <2>2. /\ v \in Seq(Seq(S)) /\ Len(v) = Len(u) + 1
        /\ \A i \in 1..(Len(u) + 1) :
              v[i] = IF i <= Len(u) THEN u[i] ELSE e[i - Len(u)]
    <3> HIDE DEF e, P
    <3>1. /\ v \in Seq(Seq(S)) /\ Len(v) = Len(u) + Len(e)
          /\ \A i \in 1..(Len(u) + Len(e)) :
                v[i] = IF i <= Len(u) THEN u[i] ELSE e[i - Len(u)]
      BY <2>1, CatType
    <3> HIDE DEF v
    <3> QED
      BY <2>1, <3>1
  <2>3. r \in Seq(S) /\ FlattenSeq(v) = Cat(r, x)
    BY <2>1, FlattenOne
  <2>4. ASSUME FlattenSeq(v) \in Seq(T)
        PROVE  r \in Seq(T) /\ x \in Seq(T)
    <3>1. /\ Len(r) \in Nat /\ Len(x) \in Nat /\ Len(Cat(r, x)) = Len(r) + Len(x)
          /\ \A i \in 1..(Len(r) + Len(x)) :
                Cat(r, x)[i] = IF i <= Len(r) THEN r[i] ELSE x[i - Len(r)]
      BY <2>3, CatType, LenProperties
    <3>2. \A i \in 1..(Len(r) + Len(x)) : Cat(r, x)[i] \in T
      <4> HIDE DEF r, v
      <4> QED
        BY <2>3, <2>4, <3>1, ElementOfSeq
    <3> HIDE DEF r, v
    <3>3. ASSUME NEW i \in 1..Len(r) PROVE r[i] \in T
      <4>1. i \in 1..(Len(r) + Len(x)) /\ i <= Len(r)
        BY <3>1
      <4> QED
        BY <3>1, <3>2, <4>1
    <3>4. ASSUME NEW i \in 1..Len(x) PROVE x[i] \in T
      <4>1. /\ i + Len(r) \in 1..(Len(r) + Len(x)) /\ ~(i + Len(r) <= Len(r))
            /\ (i + Len(r)) - Len(r) = i
        BY <3>1
      <4> QED
        BY <3>1, <3>2, <4>1
    <3> QED
      BY <2>3, <3>3, <3>4, TextWithin
  <2>5. ASSUME FlattenSeq(v) \in Seq(T), NEW k \in 1..Len(v) PROVE v[k] \in Seq(T)
    <3>1. \A j \in 1..Len(u) : u[j] \in Seq(T)
      BY <2>4, <2>5
    <3>2. x \in Seq(T)
      BY <2>4, <2>5
    <3> HIDE DEF v, e
    <3>3. CASE k <= Len(u)
      <4>1. k \in 1..Len(u) /\ k \in 1..(Len(u) + 1)
        BY <2>1, <2>2, <2>5, <3>3
      <4> QED
        BY <2>2, <3>1, <3>3, <4>1
    <3>4. CASE ~(k <= Len(u))
      <4>1. k - Len(u) = 1 /\ k \in 1..(Len(u) + 1)
        BY <2>1, <2>2, <2>5, <3>4
      <4> QED
        BY <2>1, <2>2, <3>2, <3>4, <4>1
    <3> QED
      BY <3>3, <3>4
  <2> QED
    BY <2>2, <2>5
<1>3. P = Seq(Seq(S))
  <2>1. P \in SUBSET Seq(Seq(S))
    OBVIOUS
  <2> HIDE DEF P
  <2> QED
    BY <1>1, <1>2, <2>1, SequenceInduction
<1> QED
  BY <1>3

(* Whatever strtok returns is a text of at least one character, none of     *)
(* which is the delimiter.                                                  *)
LEMMA PiecesType ==
  ASSUME NEW S, NEW s \in Seq(S), NEW d
  PROVE  Pieces(s, d) \in Seq(Seq(S \ {d}) \ {<<>>})
<1> DEFINE starts(i) == s[i] # d /\ (i = 1 \/ s[i - 1] = d)
           ends(i) == {j \in i..Len(s) : ~Has(SubSeq(s, i, j), d)}
           end(i) == Max(ends(i))
           W == Seq(S \ {d}) \ {<<>>}
           rows == [i \in 1..Len(s) |-> IF starts(i) THEN <<SubSeq(s, i, end(i))>> ELSE <<>>]
<1>0. Len(s) \in Nat /\ \A i \in 1..Len(s) : s[i] \in S
  BY LenProperties, ElementOfSeq
<1>1. ASSUME NEW i \in 1..Len(s), starts(i) PROVE SubSeq(s, i, end(i)) \in W
  <2> HIDE DEF W
  <2>1. \A j \in i..Len(s) :
            /\ SubSeq(s, i, j) \in Seq(S) /\ Len(SubSeq(s, i, j)) = (j - i) + 1
            /\ \A k \in 1..((j - i) + 1) : SubSeq(s, i, j)[k] = s[(i + k) - 1]
    <3> SUFFICES ASSUME NEW j \in i..Len(s)
                 PROVE  /\ SubSeq(s, i, j) \in Seq(S) /\ Len(SubSeq(s, i, j)) = (j - i) + 1
                        /\ \A k \in 1..((j - i) + 1) : SubSeq(s, i, j)[k] = s[(i + k) - 1]
      OBVIOUS
    <3>1. i \in Int /\ j \in Int /\ i <= j /\ \A k \in i..j : s[k] \in S
      BY <1>0
    <3> QED
      BY <3>1, SubSeqProperties
  <2>2. i \in ends(i)
    <3>1. i \in i..Len(s) /\ (i - i) + 1 = 1 /\ (i + 1) - 1 = i
      BY <1>0
    <3>2. Len(SubSeq(s, i, i)) = 1 /\ SubSeq(s, i, i)[1] = s[i] /\ SubSeq(s, i, i) \in Seq(S)
      BY <2>1, <3>1
    <3>3. DOMAIN SubSeq(s, i, i) = 1..1
      BY <3>2, LenProperties
    <3>4. ~Has(SubSeq(s, i, i), d)
      <4>1. \A k \in 1..1 : k = 1
        OBVIOUS
      <4> QED
        BY <1>1, <3>2, <3>3, <4>1 DEF Has, ToSet
    <3> QED
      BY <3>1, <3>4
  <2>3. end(i) \in ends(i)
    <3>1. ends(i) \in SUBSET Nat /\ \A x \in ends(i) : x <= Len(s)
      BY <1>0
    <3> HIDE DEF ends
    <3> QED
      BY <1>0, <2>2, <3>1, MaxIsGreatest
  <2> DEFINE j == end(i)
             p == SubSeq(s, i, j)
  <2>4. j \in i..Len(s) /\ ~Has(p, d)
    BY <2>3
  <2>5. p \in Seq(S) /\ Len(p) = (j - i) + 1 /\ Len(p) # 0
    <3> HIDE DEF j
    <3> QED
      BY <2>1, <2>4
  <2> HIDE DEF j, p
  <2>6. \A k \in 1..Len(p) : p[k] \in S \ {d}
    <3>1. DOMAIN p = 1..Len(p) /\ \A k \in 1..Len(p) : p[k] \in S
      BY <2>5, LenProperties, ElementOfSeq
    <3> QED
      BY <2>4, <3>1 DEF Has, ToSet
  <2>7. p \in Seq(S \ {d}) /\ p # <<>>
    BY <2>5, <2>6, TextWithin, EmptySeq
  <2> QED
    BY <2>7 DEF W, p, j
<1>2. rows \in Seq(Seq(W))
  <2>1. \A i \in 1..Len(s) :
           (IF starts(i) THEN <<SubSeq(s, i, end(i))>> ELSE <<>>) \in Seq(W)
    <3> SUFFICES ASSUME NEW i \in 1..Len(s)
                 PROVE  (IF starts(i) THEN <<SubSeq(s, i, end(i))>> ELSE <<>>) \in Seq(W)
      OBVIOUS
    <3> DEFINE p == SubSeq(s, i, end(i))
    <3>1. starts(i) => p \in W
      BY <1>1
    <3> HIDE DEF p, W, starts
    <3>2. starts(i) => <<p>> \in Seq(W)
      BY <3>1
    <3>3. (IF starts(i) THEN <<p>> ELSE <<>>) \in Seq(W)
      BY <3>2, EmptySeq
    <3> QED
      BY <3>3 DEF p
  <2> HIDE DEF W, starts, end
  <2> QED
    BY <1>0, <2>1
<1> HIDE DEF W, rows
<1>3. FlattenSeq(rows) \in Seq(W)
  BY <1>2, FlattenAppend
<1> QED
  BY <1>3 DEF rows, W, Pieces

(* A text that is more than delimiters has a piece.                         *)
LEMMA PiecesSome ==
  ASSUME NEW S, NEW s \in Seq(S), NEW d, \E i \in 1..Len(s) : s[i] # d
  PROVE  Pieces(s, d) # <<>>
<1> DEFINE starts(i) == s[i] # d /\ (i = 1 \/ s[i - 1] = d)
           piece(i) == SubSeq(s, i, Max({j \in i..Len(s) : ~Has(SubSeq(s, i, j), d)}))
           row(i) == IF starts(i) THEN <<piece(i)>> ELSE <<>>
           X == {piece(i) : i \in 1..Len(s)}
           rows == [i \in 1..Len(s) |-> row(i)]
           T == {i \in 1..Len(s) : s[i] # d}
<1>0. Len(s) \in Nat /\ T # {} /\ T \in SUBSET Nat
  BY LenProperties
<1>1. PICK i \in T : \A j \in T : i <= j
  <2> HIDE DEF T
  <2> QED
    BY <1>0, LeastExists
<1>2. i \in 1..Len(s) /\ starts(i)
  <2>1. i # 1 => i - 1 \in 1..Len(s) /\ ~(i <= i - 1)
    BY <1>0
  <2> QED
    BY <1>1, <2>1
<1>3. rows \in Seq(Seq(X)) /\ Len(rows) = Len(s) /\ rows[i] # <<>>
  <2>1. \A k \in 1..Len(s) : piece(k) \in X
    OBVIOUS
  <2> HIDE DEF X, piece, starts
  <2>2. \A k \in 1..Len(s) : row(k) \in Seq(X)
    BY <2>1, EmptySeq
  <2>3. row(i) # <<>>
    BY <1>2
  <2> HIDE DEF row
  <2> QED
    BY <1>0, <1>2, <2>2, <2>3
<1> HIDE DEF rows, X
<1>4. FlattenSeq(rows) # <<>>
  <2> SUFFICES ASSUME FlattenSeq(rows) = <<>> PROVE FALSE
    OBVIOUS
  <2>1. FlattenSeq(rows) \in Seq({})
    BY EmptySeq
  <2>2. rows[i] \in Seq({})
    BY <1>2, <1>3, <2>1, FlattenWithin
  <2>3. Seq({}) = {<<>>}
    <3> SUFFICES ASSUME NEW u \in Seq({}) PROVE u = <<>>
      BY EmptySeq
    <3>1. Len(u) \in Nat /\ \A k \in 1..Len(u) : u[k] \in {}
      BY ElementOfSeq, LenProperties
    <3>2. Len(u) = 0
      BY <3>1
    <3> QED
      BY <3>2, EmptySeq
  <2> QED
    BY <1>3, <2>2, <2>3
<1> QED
  BY <1>4 DEF rows, Pieces

(* What strtok returns has a length, and each piece is a text of its own.   *)
LEMMA FirstPiece ==
  ASSUME NEW S, NEW s \in Seq(S), NEW d, \E i \in 1..Len(s) : s[i] # d
  PROVE  Pieces(s, d)[1] \in Seq(S \ {d}) \ {<<>>}
<1> DEFINE W == Seq(S \ {d}) \ {<<>>}
           p == Pieces(s, d)
<1>1. p \in Seq(W) /\ p # <<>>
  BY PiecesType, PiecesSome
<1>2. Len(p) \in Nat /\ Len(p) # 0
  <2> HIDE DEF p, W
  <2> QED
    BY <1>1, LenProperties, EmptySeq
<1>3. 1 \in 1..Len(p)
  <2> HIDE DEF p
  <2> QED
    BY <1>2
<1> HIDE DEF p, W
<1>4. p[1] \in W
  BY <1>1, <1>3, ElementOfSeq
<1> QED
  BY <1>4 DEF p, W

-----------------------------------------------------------------------------
(* The list of variables                                                    *)

(* EntryOf is the first entry with the name, or 0.                          *)
LEMMA EntryFound ==
  ASSUME NEW list \in Seq(Variable), NEW name
  PROVE  LET i == EntryOf(list, name)
         IN \/ i = 0 /\ \A k \in 1..Len(list) : list[k].name # name
            \/ i \in 1..Len(list) /\ list[i].name = name
<1> DEFINE I == {i \in 1..Len(list) : list[i].name = name}
<1>1. EntryOf(list, name) = IF I # {} THEN Min(I) ELSE 0
  BY DEF EntryOf, SelectInSeq
<1>2. I # {} => Min(I) \in I
  <2>1. I \in SUBSET Nat
    OBVIOUS
  <2> HIDE DEF I
  <2> QED
    BY <2>1, MinIsLeast
<1>3. CASE I = {}
  BY <1>1, <1>3
<1>4. CASE I # {}
  <2>1. EntryOf(list, name) \in I
    BY <1>1, <1>2, <1>4
  <2> QED
    BY <2>1
<1> QED
  BY <1>3, <1>4

(* getVar returns a final text, the empty one for a name that is not there. *)
LEMMA GetVarFinal ==
  ASSUME NEW list \in Seq(Variable), NEW name
  PROVE  GetVar(list, name) \in Seq(Final)
<1> DEFINE i == EntryOf(list, name)
<1>1. i = 0 \/ i \in 1..Len(list)
  BY EntryFound
<1>2. GetVar(list, name) = IF i = 0 THEN <<>> ELSE list[i].value
  BY DEF GetVar
<1> HIDE DEF i
<1>3. CASE i = 0
  BY <1>2, <1>3, EmptySeq
<1>4. CASE i # 0
  <2>1. list[i] \in Variable
    BY <1>1, <1>4, ElementOfSeq
  <2> QED
    BY <1>2, <1>4, <2>1 DEF Variable
<1> QED
  BY <1>3, <1>4

(* A value is stored without dollars: what decode_variable makes of it is   *)
(* joined from values that are final.                                       *)
LEMMA StoredFinal ==
  ASSUME NEW list \in Seq(Variable), NEW value \in Seq(Unbarred)
  PROVE  Stored(list, value) \in Seq(Final)
<1>1. CASE ~Has(value, "$")
  <2>1. \A i \in 1..Len(value) : value[i] \in Final
    <3>1. DOMAIN value = 1..Len(value) /\ \A i \in 1..Len(value) : value[i] \in Unbarred
      BY LenProperties, ElementOfSeq
    <3> QED
      BY <1>1, <3>1 DEF Has, ToSet, Final, Unbarred
  <2>2. value \in Seq(Final)
    BY <2>1, TextWithin
  <2> QED
    BY <1>1, <2>2 DEF Stored
<1>2. CASE Has(value, "$")
  <2> DEFINE p == Pieces(value, "$")
             g(n) == GetVar(list, p[n])
             rows == [n \in 1..Len(p) |-> g(n)]
             V == Seq(Final)
  <2>1. Len(p) \in Nat
    <3>1. p \in Seq(Seq(Unbarred \ {"$"}) \ {<<>>})
      BY PiecesType
    <3> HIDE DEF p
    <3> QED
      BY <3>1, LenProperties
  <2>2. \A n \in 1..Len(p) : g(n) \in V
    BY GetVarFinal
  <2>3. rows \in Seq(V)
    <3> HIDE DEF g, p, V
    <3> QED
      BY <2>1, <2>2
  <2>4. FlattenSeq(rows) \in Seq(Final)
    <3> HIDE DEF rows
    <3> QED
      BY <2>3, FlattenAppend DEF V
  <2>5. Stored(list, value) = FlattenSeq(rows)
    BY <1>2 DEF Stored, DecodeVariable
  <2> QED
    BY <2>4, <2>5
<1> QED
  BY <1>1, <1>2

(* A new variable comes first; updateVar changes the one entry of a name    *)
(* and puts a name in the list only when it is not there.                   *)
LEMMA UpdateKeepsList ==
  ASSUME NEW list \in Seq(Variable), Distinct(list),
         NEW name \in Seq(Named) \ {<<>>}, NEW value \in Seq(Unbarred)
  PROVE  UpdateVar(list, name, value) \in Seq(Variable) /\ Distinct(UpdateVar(list, name, value))
<1> DEFINE i == EntryOf(list, name)
           val == Stored(list, value)
           new == [name |-> name, value |-> val]
<1>0. Len(list) \in Nat /\ val \in Seq(Final) /\ \A k \in 1..Len(list) : list[k] \in Variable
  BY StoredFinal, LenProperties, ElementOfSeq
<1>1. new \in Variable
  BY <1>0 DEF Variable
<1>2. CASE i = 0
  <2> DEFINE e == One(new)
             u == Cat(e, list)
  <2>1. e \in Seq(Variable) /\ Len(e) = 1 /\ e[1] = new
    <3> HIDE DEF new
    <3> QED
      BY <1>1, OneType
  <2>2. /\ u \in Seq(Variable) /\ Len(u) = 1 + Len(list)
        /\ \A k \in 1..(1 + Len(list)) : u[k] = IF k <= 1 THEN e[k] ELSE list[k - 1]
    <3> HIDE DEF e, new
    <3>1. /\ u \in Seq(Variable) /\ Len(u) = Len(e) + Len(list)
          /\ \A k \in 1..(Len(e) + Len(list)) :
                u[k] = IF k <= Len(e) THEN e[k] ELSE list[k - Len(e)]
      BY <2>1, CatType
    <3> HIDE DEF u
    <3> QED
      BY <2>1, <3>1
  <2>3. UpdateVar(list, name, value) = u
    BY <1>2 DEF UpdateVar, Cat, One
  <2>4. \A k \in 1..Len(list) : list[k].name # name
    BY <1>2, EntryFound
  <2>5. new.name = name
    OBVIOUS
  <2> HIDE DEF u, e, new
  <2>6. ASSUME NEW k \in 1..Len(u)
        PROVE  \/ k = 1 /\ u[k].name = name
               \/ k - 1 \in 1..Len(list) /\ u[k] = list[k - 1] /\ u[k].name # name
    <3>1. k \in 1..(1 + Len(list))
      BY <2>2
    <3>2. k = 1 \/ (k - 1 \in 1..Len(list) /\ ~(k <= 1))
      BY <1>0, <3>1
    <3> QED
      BY <2>1, <2>2, <2>4, <2>5, <3>1, <3>2
  <2>7. Distinct(u)
    <3> SUFFICES ASSUME NEW j \in 1..Len(u), NEW k \in 1..Len(u), u[j].name = u[k].name
                 PROVE  j = k
      BY DEF Distinct
    <3>1. CASE j = 1
      BY <2>6, <3>1
    <3>2. CASE k = 1
      BY <2>6, <3>2
    <3>3. CASE j # 1 /\ k # 1
      <4>1. j - 1 = k - 1
        BY <2>6, <3>3 DEF Distinct
      <4> QED
        BY <1>0, <2>2, <4>1
    <3> QED
      BY <3>1, <3>2, <3>3
  <2> QED
    BY <2>2, <2>3, <2>7
<1>3. CASE i # 0
  <2>1. i \in 1..Len(list) /\ list[i].name = name
    BY <1>3, EntryFound
  <2> DEFINE r == [list[i] EXCEPT !.value = val]
             u == [list EXCEPT ![i] = r]
  <2>2. r \in Variable /\ r.name = list[i].name
    BY <1>0, <2>1 DEF Variable
  <2>3. UpdateVar(list, name, value) = u
    BY <1>3 DEF UpdateVar
  <2>4. /\ u \in Seq(Variable) /\ Len(u) = Len(list)
        /\ \A k \in 1..Len(list) : u[k] = IF k = i THEN r ELSE list[k]
    <3> HIDE DEF r, i
    <3> QED
      BY <2>1, <2>2, ExceptSeq
  <2> HIDE DEF u, r, i
  <2>5. \A k \in 1..Len(list) : u[k].name = list[k].name
    BY <2>2, <2>4
  <2>6. Distinct(u)
    BY <2>4, <2>5 DEF Distinct
  <2> QED
    BY <2>3, <2>4, <2>6
<1> QED
  BY <1>2, <1>3

-----------------------------------------------------------------------------
(* The expansion of a word                                                  *)

(* f goes through the turns of the loop of tokenize_input.                  *)
Turns(f, list, w, start, n) ==
    f = [i \in 0..n |-> IF i = 0 THEN start ELSE ExpandAt(list, w, f[i - 1], i)]

(* Where a turn stands: with a text.                                        *)
GoodTurn(acc) ==
    /\ DOMAIN acc = {"text", "names", "expansion", "stop"}
    /\ acc.text \in Seq(Char) /\ acc.stop \in BOOLEAN

(* There are such turns for every number of characters.                     *)
LEMMA TurnsExist ==
  ASSUME NEW list, NEW w, NEW start, NEW n \in Nat
  PROVE  \E f : Turns(f, list, w, start, n)
<1> DEFINE P == {m \in Nat : \E f : Turns(f, list, w, start, m)}
<1>1. 0 \in P
  <2> DEFINE f == [i \in 0..0 |-> start]
  <2>1. \A i \in 0..0 : i = 0
    OBVIOUS
  <2>2. f = [i \in 0..0 |-> IF i = 0 THEN start ELSE ExpandAt(list, w, f[i - 1], i)]
    BY <2>1
  <2> HIDE DEF f
  <2>3. Turns(f, list, w, start, 0)
    BY <2>2 DEF Turns
  <2> QED
    BY <2>3
<1>2. ASSUME NEW m \in P PROVE m + 1 \in P
  <2>1. PICK f : Turns(f, list, w, start, m)
    OBVIOUS
  <2> DEFINE next == ExpandAt(list, w, f[m], m + 1)
             g == [i \in 0..(m + 1) |-> IF i = m + 1 THEN next ELSE f[i]]
  <2>2. m \in Nat
    OBVIOUS
  <2>3. ASSUME NEW i \in 0..(m + 1)
        PROVE  g[i] = IF i = 0 THEN start ELSE ExpandAt(list, w, g[i - 1], i)
    <3>1. CASE i = m + 1
      <4>1. i # 0 /\ i - 1 = m /\ m \in 0..(m + 1) /\ m # m + 1
        BY <2>2, <3>1
      <4>2. g[i] = next /\ g[i - 1] = f[m]
        <5> HIDE DEF next
        <5> QED
          BY <3>1, <4>1
      <4> HIDE DEF g
      <4> QED
        BY <3>1, <4>1, <4>2
    <3>2. CASE i # m + 1
      <4>1. i \in 0..m /\ (i # 0 => i - 1 \in 0..(m + 1) /\ i - 1 # m + 1)
        BY <2>2, <3>2
      <4>2. f[i] = IF i = 0 THEN start ELSE ExpandAt(list, w, f[i - 1], i)
        BY <2>1, <4>1 DEF Turns
      <4>3. g[i] = f[i] /\ (i # 0 => g[i - 1] = f[i - 1])
        <5> HIDE DEF next
        <5> QED
          BY <3>2, <4>1
      <4> HIDE DEF g
      <4> QED
        BY <4>2, <4>3
    <3> QED
      BY <3>1, <3>2
  <2>4. g = [i \in 0..(m + 1) |-> g[i]]
    OBVIOUS
  <2> HIDE DEF g
  <2>5. Turns(g, list, w, start, m + 1)
    BY <2>3, <2>4 DEF Turns
  <2> QED
    BY <2>2, <2>5
<1>3. P = Nat
  <2>1. P \in SUBSET Nat
    OBVIOUS
  <2> HIDE DEF P
  <2> QED
    BY <1>1, <1>2, <2>1, NumberInduction
<1> QED
  BY <1>3

(* A dollar behind a text.                                                  *)
LEMMA DollarAppended ==
  ASSUME NEW s \in Seq(Char)
  PROVE  Append(s, "$") \in Seq(Char)
<1> DEFINE d == "$"
<1>1. d \in Char
  BY DEF Char
<1> HIDE DEF d
<1>2. Append(s, d) \in Seq(Char)
  BY <1>1, AppendProperties
<1> QED
  BY <1>2 DEF d

(* A turn adds a dollar, a value or as much of the value as has room.       *)
LEMMA TurnKeepsText ==
  ASSUME NEW list \in Seq(Variable), NEW w, NEW acc, GoodTurn(acc), NEW i
  PROVE  GoodTurn(ExpandAt(list, w, acc, i))
<1> DEFINE value == GetVar(list, acc.names[1])
           room == Room(acc.text, value)
           cut == SubSeq(value, 1, room)
           stopped == [acc EXCEPT !.stop = TRUE]
           doubled == [acc EXCEPT !.text = Append(@, "$")]
           filled == [acc EXCEPT !.text = @ \o cut, !.stop = TRUE]
           named == [acc EXCEPT !.text = @ \o value, !.names = Tail(@), !.expansion = @ + 1]
           long == Len(acc.text) + Len(value) > MaxStr
<1>1. /\ acc.text \in Seq(Char) /\ Len(acc.text) \in Nat /\ acc.stop \in BOOLEAN
      /\ DOMAIN acc = {"text", "names", "expansion", "stop"}
  BY LenProperties DEF GoodTurn
<1>2. value \in Seq(Char) /\ Len(value) \in Nat
  <2>1. value \in Seq(Final)
    BY GetVarFinal
  <2>2. Final \subseteq Char
    BY DEF Final
  <2> HIDE DEF value
  <2> QED
    BY <2>1, <2>2, SeqMonotonic, LenProperties
<1> HIDE DEF value
<1>3. long => cut \in Seq(Char)
  <2> SUFFICES ASSUME long PROVE cut \in Seq(Char)
    OBVIOUS
  <2>1. room \in Nat /\ room <= Len(value)
    BY <1>1, <1>2, StrAssumption DEF Room
  <2> HIDE DEF room
  <2> QED
    BY <1>2, <2>1, Cut
<1> HIDE DEF cut
<1>4. GoodTurn(stopped)
  BY <1>1 DEF GoodTurn
<1>5. GoodTurn(doubled)
  <2>1. Append(acc.text, "$") \in Seq(Char)
    BY <1>1, DollarAppended
  <2> DEFINE t == Append(acc.text, "$")
  <2>2. doubled = [acc EXCEPT !.text = t]
    OBVIOUS
  <2> HIDE DEF t
  <2>3. GoodTurn([acc EXCEPT !.text = t])
    BY <1>1, <2>1 DEF GoodTurn, t
  <2> QED
    BY <2>2, <2>3
<1>6. long => GoodTurn(filled)
  <2> SUFFICES ASSUME long PROVE GoodTurn(filled)
    OBVIOUS
  <2> DEFINE t == acc.text \o cut
  <2>1. t \in Seq(Char)
    BY <1>1, <1>3, ConcatProperties
  <2>2. filled = [acc EXCEPT !.text = t, !.stop = TRUE]
    OBVIOUS
  <2> HIDE DEF t
  <2>3. GoodTurn([acc EXCEPT !.text = t, !.stop = TRUE])
    BY <1>1, <2>1 DEF GoodTurn
  <2> QED
    BY <2>2, <2>3
<1>7. GoodTurn(named)
  <2> DEFINE t == acc.text \o value
             n == Tail(acc.names)
             x == acc.expansion + 1
  <2>1. t \in Seq(Char)
    BY <1>1, <1>2, ConcatProperties
  <2>2. named = [acc EXCEPT !.text = t, !.names = n, !.expansion = x]
    OBVIOUS
  <2> HIDE DEF t, n, x
  <2>3. GoodTurn([acc EXCEPT !.text = t, !.names = n, !.expansion = x])
    BY <1>1, <2>1 DEF GoodTurn
  <2> QED
    BY <2>2, <2>3
<1>8. \/ ExpandAt(list, w, acc, i) = acc
      \/ ExpandAt(list, w, acc, i) = stopped
      \/ ExpandAt(list, w, acc, i) = doubled
      \/ long /\ ExpandAt(list, w, acc, i) = filled
      \/ ExpandAt(list, w, acc, i) = named
  <2> HIDE DEF stopped, doubled, filled, named
  <2>1. ExpandAt(list, w, acc, i) =
          CASE acc.stop \/ w[i] # "$" -> acc
            [] ~acc.stop /\ w[i] = "$" /\ w[i + 1] = "$" ->
                 IF Len(acc.text) > MaxStr THEN stopped ELSE doubled
            [] OTHER -> IF long THEN filled ELSE named
    BY DEF ExpandAt, value, cut, stopped, doubled, filled, named
  <2> HIDE DEF long
  <2> QED
    BY <1>1, <2>1
<1> QED
  BY <1>4, <1>5, <1>6, <1>7, <1>8

(* So an expanded word is a text.                                           *)
LEMMA ExpandedText ==
  ASSUME NEW list \in Seq(Variable), NEW w \in Seq(Char), w # <<>>
  PROVE  Expand(list, w) \in Seq(Char)
<1> DEFINE pieces == Pieces(w, "$")
           prefixed == w[1] # "$"
           start == [text |-> IF prefixed THEN pieces[1] ELSE <<>>,
                     names |-> IF prefixed THEN Tail(pieces) ELSE pieces,
                     expansion |-> 0, stop |-> FALSE]
           n == Len(w) - 1
           turn == CHOOSE f : f = [i \in 0..n |->
                       IF i = 0 THEN start ELSE ExpandAt(list, w, f[i - 1], i)]
           end == turn[n]
<1>1. n \in Nat /\ 1 \in 1..Len(w)
  <2>1. Len(w) \in Nat /\ Len(w) # 0
    BY LenProperties, EmptySeq
  <2> QED
    BY <2>1
<1>2. GoodTurn(start)
  <2>1. prefixed => pieces[1] \in Seq(Char)
    <3> SUFFICES ASSUME prefixed PROVE pieces[1] \in Seq(Char)
      OBVIOUS
    <3>1. pieces[1] \in Seq(Char \ {"$"}) \ {<<>>}
      BY <1>1, FirstPiece
    <3> HIDE DEF pieces
    <3>2. Char \ {"$"} \subseteq Char
      OBVIOUS
    <3> QED
      BY <3>1, <3>2, SeqMonotonic
  <2>2. <<>> \in Seq(Char)
    BY EmptySeq
  <2> HIDE DEF pieces, prefixed
  <2> QED
    BY <2>1, <2>2 DEF GoodTurn
<1>3. Turns(turn, list, w, start, n)
  <2> HIDE DEF start, n
  <2>1. \E f : f = [i \in 0..n |-> IF i = 0 THEN start ELSE ExpandAt(list, w, f[i - 1], i)]
    <3>1. \E f : Turns(f, list, w, start, n)
      BY <1>1, TurnsExist
    <3> QED
      BY <3>1 DEF Turns
  <2>2. turn = [i \in 0..n |-> IF i = 0 THEN start ELSE ExpandAt(list, w, turn[i - 1], i)]
    BY <2>1
  <2> HIDE DEF turn
  <2> QED
    BY <2>2 DEF Turns
<1>4. GoodTurn(end)
  <2> HIDE DEF turn, start, n
  <2> DEFINE P == {m \in Nat : m <= n => GoodTurn(turn[m])}
  <2>1. 0 \in P
    <3>1. 0 \in 0..n
      BY <1>1
    <3>2. turn[0] = start
      BY <1>3, <3>1 DEF Turns
    <3> QED
      BY <1>2, <3>2
  <2>2. ASSUME NEW m \in P PROVE m + 1 \in P
    <3>0. m \in Nat /\ m + 1 \in Nat
      OBVIOUS
    <3>1. ASSUME m + 1 <= n PROVE GoodTurn(turn[m + 1])
      <4>1. m + 1 \in 0..n /\ m + 1 # 0 /\ (m + 1) - 1 = m /\ m <= n
        BY <1>1, <3>0, <3>1
      <4>2. turn[m + 1] = ExpandAt(list, w, turn[m], m + 1)
        BY <1>3, <4>1 DEF Turns
      <4>3. GoodTurn(turn[m])
        BY <4>1
      <4> QED
        BY <4>2, <4>3, TurnKeepsText
    <3> QED
      BY <3>0, <3>1
  <2>3. P = Nat
    <3>1. P \in SUBSET Nat
      OBVIOUS
    <3> HIDE DEF P
    <3> QED
      BY <2>1, <2>2, <3>1, NumberInduction
  <2>4. n \in P
    BY <1>1, <2>3
  <2>5. n <= n
    BY <1>1
  <2> QED
    BY <2>4, <2>5
<1>5. \/ Expand(list, w) = end.text
      \/ Expand(list, w) = Append(end.text, "$")
  <2>1. Expand(list, w) = IF Dollars(w) # end.expansion /\ Len(end.text) < MaxStr
                          THEN Append(end.text, "$") ELSE end.text
    BY DEF Expand
  <2> HIDE DEF end
  <2> QED
    BY <2>1
<1> HIDE DEF end
<1>6. Append(end.text, "$") \in Seq(Char) /\ end.text \in Seq(Char)
  BY <1>4, DollarAppended DEF GoodTurn
<1> QED
  BY <1>5, <1>6

(* And the tokens of a line are texts.                                      *)
LEMMA TokensTyped ==
  ASSUME NEW list \in Seq(Variable), NEW l \in Lines
  PROVE  TokenizeInput(list, l) \in Seq(Seq(Char)) /\ TokenizeInput(list, l) # <<>>
<1> DEFINE token(k) == IF Has(l[k], "$") THEN Expand(list, l[k]) ELSE l[k]
           toks == [k \in 1..Len(l) |-> token(k)]
<1>1. l \in Seq(Seq(Char)) /\ Len(l) \in Nat /\ Len(l) # 0
  <2>1. l \in Seq(Seq(Char)) /\ l # <<>>
    <3>1. l \in Seq(Seq(STRING)) /\ l # <<>>
      BY LinesAssumption
    <3>2. STRING \subseteq Char
      BY DEF Char
    <3>3. Seq(STRING) \subseteq Seq(Char)
      BY <3>2, SeqMonotonic
    <3> QED
      BY <3>1, <3>3, SeqMonotonic
  <2> QED
    BY <2>1, LenProperties, EmptySeq
<1>2. ASSUME NEW k \in 1..Len(l) PROVE token(k) \in Seq(Char)
  <2>1. l[k] \in Seq(Char) /\ l[k] # <<>>
    BY <1>1, LinesAssumption, ElementOfSeq
  <2> QED
    BY <2>1, ExpandedText
<1> HIDE DEF token
<1>3. toks \in Seq(Seq(Char)) /\ Len(toks) = Len(l)
  BY <1>1, <1>2
<1>4. TokenizeInput(list, l) = toks
  BY DEF TokenizeInput, token
<1> HIDE DEF toks
<1> QED
  BY <1>1, <1>3, <1>4, EmptySeq

-----------------------------------------------------------------------------
(* The invariant                                                            *)

(* A line that is executed in the foreground has no bar in it.              *)
LEMMA NoBarInForeground ==
  ASSUME Typed, Foreground
  PROVE  tokens[1] \in Seq(Unbarred) /\ tokens[1] \in Seq(Char)
<1> DEFINE flat == FlattenSeq(tokens)
           bars == {i \in 1..Len(flat) : flat[i] = "|"}
<1>1. tokens \in Seq(Seq(Char)) /\ tokens # <<>> /\ Len(tokens) \in Nat /\ 1 \in 1..Len(tokens)
  <2>1. tokens \in Seq(Seq(Char)) /\ tokens # <<>>
    BY DEF Typed, Foreground
  <2>2. Len(tokens) \in Nat /\ Len(tokens) # 0
    BY <2>1, LenProperties, EmptySeq
  <2> QED
    BY <2>1, <2>2
<1>2. flat \in Seq(Char) /\ Len(flat) \in Nat
  <2>1. flat \in Seq(Char)
    BY <1>1, FlattenAppend
  <2> QED
    BY <2>1, LenProperties
<1>3. Cardinality(bars) = 0
  BY DEF Foreground, Words, PipeCount, Count
<1>4. bars = {}
  <2>1. IsFiniteSet(bars)
    <3>1. IsFiniteSet(1..Len(flat))
      BY <1>2, FS_Interval
    <3>2. bars \subseteq 1..Len(flat)
      OBVIOUS
    <3> HIDE DEF bars, flat
    <3> QED
      BY <3>1, <3>2, FS_Subset
  <2> HIDE DEF bars
  <2> QED
    BY <1>3, <2>1, FS_EmptySet
<1>5. flat \in Seq(Unbarred)
  <2>1. \A i \in 1..Len(flat) : flat[i] \in Char /\ flat[i] # "|"
    <3>1. \A i \in 1..Len(flat) : flat[i] \in Char
      <4> HIDE DEF flat
      <4> QED
        BY <1>2, ElementOfSeq
    <3> QED
      BY <1>4, <3>1
  <2>2. \A i \in 1..Len(flat) : flat[i] \in Unbarred
    BY <2>1 DEF Unbarred
  <2> HIDE DEF flat
  <2> QED
    BY <1>2, <2>2, TextWithin
<1> QED
  BY <1>1, <1>5, FlattenWithin, ElementOfSeq

(* The name and the value of an assignment.                                 *)
LEMMA AssignedParts ==
  ASSUME NEW cmd \in Seq(Unbarred), cmd \in Seq(Char),
         ~ \A i \in 1..Len(cmd) : cmd[i] = "="
  PROVE  AssignedName(cmd) \in Seq(Named) \ {<<>>} /\ AssignedValue(cmd) \in Seq(Unbarred)
<1> DEFINE name == AssignedName(cmd)
           I == {i \in 1..Len(cmd) : cmd[i] # "="}
           start == SelectInSeq(cmd, LAMBDA c : c # "=")
           from == start + Len(name) + 1
<1>1. name \in Seq(Named) \ {<<>>}
  BY FirstPiece DEF AssignedName, Named
<1>2. start \in Nat
  <2>1. start = IF I # {} THEN Min(I) ELSE 0
    BY DEF SelectInSeq
  <2>2. I \in SUBSET Nat
    OBVIOUS
  <2> HIDE DEF I, start
  <2> QED
    BY <2>1, <2>2, MinIsLeast
<1>3. from \in Int /\ 1 <= from
  <2>1. Len(name) \in Nat
    <3> HIDE DEF name
    <3> QED
      BY <1>1, LenProperties
  <2> HIDE DEF name, start
  <2> QED
    BY <1>2, <2>1
<1>4. Len(cmd) \in Nat /\ \A i \in 1..Len(cmd) : cmd[i] \in Unbarred
  BY LenProperties, ElementOfSeq
<1> HIDE DEF from
<1>5. SubSeq(cmd, from, Len(cmd)) \in Seq(Unbarred)
  <2>1. \A i \in from..Len(cmd) : cmd[i] \in Unbarred
    BY <1>3, <1>4
  <2> QED
    BY <1>3, <1>4, <2>1, SubSeqProperties
<1>6. AssignedValue(cmd) = SubSeq(cmd, from, Len(cmd))
  BY DEF AssignedValue, from
<1> QED
  BY <1>1, <1>5, <1>6

(* At first no variable is listed.                                          *)
LEMMA LineInit == Init => LineInv
<1> SUFFICES ASSUME Init PROVE LineInv
  OBVIOUS
<1> DEFINE none == <<>>
<1>1. varList = none /\ none \in Seq(Variable) /\ Len(none) = 0
  BY EmptySeq DEF Init
<1> HIDE DEF none
<1>2. Listed
  BY <1>1 DEF Listed, Distinct
<1>3. Typed
  BY DEF Init, Typed
<1> QED
  BY <1>2, <1>3 DEF LineInv

(* Only an assignment in the foreground changes a variable, and the line    *)
(* is read with the variables as they are.                                  *)
LEMMA LineStep == LineInv /\ [Next]_vars => LineInv'
<1> SUFFICES ASSUME LineInv, [Next]_vars PROVE Listed' /\ Typed'
  BY DEF LineInv
<1>0. varList \in Seq(Variable) /\ Distinct(varList) /\ Typed
  BY DEF LineInv, Listed
<1>1. varList' = varList => Listed'
  BY <1>0 DEF Listed
<1>2. pc' # "execute" => Typed'
  BY DEF Typed
<1>3. CASE TypeLine
  <2>1. PICK l \in Lines : tokens' = TokenizeInput(varList, l)
    BY <1>3 DEF TypeLine
  <2>2. tokens' \in Seq(Seq(Char)) /\ tokens' # <<>>
    BY <1>0, <2>1, TokensTyped
  <2>3. Typed'
    BY <2>2 DEF Typed
  <2> QED
    BY <1>1, <1>3, <2>3 DEF TypeLine
<1>4. CASE ExitShell
  <2> DEFINE none == <<>>
  <2>1. varList' = none /\ none \in Seq(Variable) /\ Len(none) = 0
    BY <1>4, EmptySeq DEF ExitShell
  <2> HIDE DEF none
  <2>2. Listed'
    BY <2>1 DEF Listed, Distinct
  <2> QED
    BY <1>2, <1>4, <2>2 DEF ExitShell
<1>5. CASE Assignment
  <2> DEFINE cmd == tokens[1]
  <2>1. pc' # "execute"
    BY <1>5 DEF Assignment
  <2>2. CASE \A i \in 1..Len(cmd) : cmd[i] = "="
    BY <1>1, <1>2, <1>5, <2>1, <2>2 DEF Assignment
  <2>3. CASE ~ \A i \in 1..Len(cmd) : cmd[i] = "="
    <3>1. varList' = UpdateVar(varList, AssignedName(cmd), AssignedValue(cmd))
      BY <1>5, <2>3 DEF Assignment
    <3>2. cmd \in Seq(Unbarred) /\ cmd \in Seq(Char)
      BY <1>0, <1>5, NoBarInForeground DEF Assignment
    <3>3. /\ AssignedName(cmd) \in Seq(Named) \ {<<>>}
          /\ AssignedValue(cmd) \in Seq(Unbarred)
      <4> HIDE DEF cmd
      <4> QED
        BY <2>3, <3>2, AssignedParts
    <3>4. Listed'
      BY <1>0, <3>1, <3>3, UpdateKeepsList DEF Listed
    <3> QED
      BY <1>2, <2>1, <3>4
  <2> QED
    BY <2>2, <2>3
<1>6. CASE Command
  BY <1>1, <1>2, <1>6 DEF Command
<1>7. CASE Background
  BY <1>1, <1>2, <1>7 DEF Background
<1>8. CASE Pipeline
  BY <1>1, <1>2, <1>8 DEF Pipeline
<1>9. CASE Prompt
  BY <1>1, <1>2, <1>9 DEF Prompt
<1>10. CASE UNCHANGED vars
  BY <1>0, <1>1, <1>10 DEF vars, Typed
<1> QED
  BY <1>3, <1>4, <1>5, <1>6, <1>7, <1>8, <1>9, <1>10 DEF Next

(* The invariant gives the property: a variable of that type has a value    *)
(* without dollars and bars and a name without "=".                         *)
LEMMA ListedIsFinal == Listed => ValuesAreFinal
<1> SUFFICES ASSUME Listed PROVE ValuesAreFinal
  OBVIOUS
<1>1. /\ \A i, j \in 1..Len(varList) : varList[i].name = varList[j].name => i = j
  BY DEF Listed, Distinct
<1>2. ASSUME NEW i \in 1..Len(varList)
      PROVE  /\ ~Has(varList[i].value, "$") /\ ~Has(varList[i].value, "|")
             /\ varList[i].name # <<>> /\ ~Has(varList[i].name, "=")
  <2>1. varList[i] \in Variable
    BY ElementOfSeq DEF Listed
  <2>2. /\ varList[i].value \in Seq(Final)
        /\ varList[i].name \in Seq(Named) /\ varList[i].name # <<>>
    BY <2>1 DEF Variable
  <2> DEFINE v == varList[i].value
             n == varList[i].name
  <2>3. /\ DOMAIN v = 1..Len(v) /\ \A k \in 1..Len(v) : v[k] \in Final
        /\ DOMAIN n = 1..Len(n) /\ \A k \in 1..Len(n) : n[k] \in Named
    <3> HIDE DEF v, n
    <3> QED
      BY <2>2, LenProperties, ElementOfSeq DEF v, n
  <2> HIDE DEF v, n
  <2>4. ~Has(v, "$") /\ ~Has(v, "|") /\ ~Has(n, "=")
    BY <2>3 DEF Has, ToSet, Final, Named
  <2> QED
    BY <2>2, <2>4 DEF v, n
<1> QED
  BY <1>1, <1>2 DEF ValuesAreFinal

(* No value ever holds a dollar or a bar, so that one expansion is all a    *)
(* word needs; no name is listed twice, so that the entry getVar finds is   *)
(* the one updateVar has written; and every name can be written before an   *)
(* "=". For every set of lines and every length of the text buffers.        *)
THEOREM ValuesStayFinal == Spec => []ValuesAreFinal
<1>1. LineInv => ValuesAreFinal
  BY ListedIsFinal DEF LineInv
<1> QED
  BY LineInit, LineStep, <1>1, PTL DEF Spec

(* getVar looks a name up in the function that the list stands for.         *)
LEMMA LookupIsGetVar ==
  ASSUME NEW list \in Seq(Variable), Distinct(list), NEW name
  PROVE  /\ DOMAIN EnvOf(list) = {list[i].name : i \in 1..Len(list)}
         /\ Env!Lookup(EnvOf(list), name) = GetVar(list, name)
<1> DEFINE i == EntryOf(list, name)
           names == {list[k].name : k \in 1..Len(list)}
           value(n) == (CHOOSE v \in ToSet(list) : v.name = n).value
<1>1. \/ i = 0 /\ \A k \in 1..Len(list) : list[k].name # name
      \/ i \in 1..Len(list) /\ list[i].name = name
  BY EntryFound
<1>2. GetVar(list, name) = IF i = 0 THEN <<>> ELSE list[i].value
  BY DEF GetVar
<1>3. EnvOf(list) = [n \in names |-> value(n)]
  BY DEF EnvOf
<1> HIDE DEF i
<1>4. DOMAIN EnvOf(list) = names
  <2> HIDE DEF value, names
  <2> QED
    BY <1>3
<1>5. CASE name \notin names
  <2>1. i = 0
    BY <1>1, <1>5
  <2>2. Env!Lookup(EnvOf(list), name) = <<>>
    BY <1>4, <1>5 DEF Env!Lookup
  <2> QED
    BY <1>2, <1>4, <2>1, <2>2
<1>6. CASE name \in names
  <2>1. i \in 1..Len(list) /\ list[i].name = name /\ i # 0
    BY <1>1, <1>6
  <2>2. list[i] \in ToSet(list)
    <3>1. DOMAIN list = 1..Len(list)
      BY LenProperties
    <3> QED
      BY <2>1, <3>1 DEF ToSet
  <2>3. \A v \in ToSet(list) : v.name = name => v = list[i]
    <3>1. DOMAIN list = 1..Len(list)
      BY LenProperties
    <3> QED
      BY <2>1, <3>1 DEF ToSet, Distinct
  <2>4. (CHOOSE v \in ToSet(list) : v.name = name) = list[i]
    BY <2>1, <2>2, <2>3
  <2>5. EnvOf(list)[name] = value(name)
    <3> HIDE DEF value, names
    <3> QED
      BY <1>3, <1>6
  <2>6. Env!Lookup(EnvOf(list), name) = EnvOf(list)[name]
    <3> HIDE DEF names
    <3> QED
      BY <1>4, <1>6 DEF Env!Lookup
  <2> QED
    BY <1>2, <1>4, <2>1, <2>4, <2>5, <2>6
<1> QED
  BY <1>5, <1>6

-----------------------------------------------------------------------------
(* The meaning of a word, character by character, and its pieces.           *)

PieceFrom(w, d, i) == SubSeq(w, i, Max({j \in i..Len(w) : ~Has(SubSeq(w, i, j), d)}))
PieceRow(w, d, i) == IF w[i] # d /\ (i = 1 \/ w[i - 1] = d) THEN One(PieceFrom(w, d, i)) ELSE <<>>
PieceRows(w, d) == [i \in 1..Len(w) |-> PieceRow(w, d, i)]

MeaningAt(list, w, i) ==
    IF w[i] = "$" /\ i < Len(w) /\ w[i + 1] # "$" THEN GetVar(list, PieceFrom(w, "$", i + 1))
    ELSE IF w[i] # "$" /\ \E k \in 1..i : w[k] = "$" THEN <<>> ELSE One(w[i])
MeaningRows(list, w) == [i \in 1..Len(w) |-> MeaningAt(list, w, i)]

(* Has a piece of a word the character c?                                   *)
LEMMA InPiece ==
  ASSUME NEW S, NEW w \in Seq(S), NEW i \in Nat \ {0}, NEW j \in Nat, j <= Len(w), NEW c
  PROVE  Has(SubSeq(w, i, j), c) <=> \E k \in i..j : w[k] = c
<1>1. ToSet(SubSeq(w, i, j)) = {w[k] : k \in i..j}
  BY PieceElements
<1> QED
  BY <1>1 DEF Has

(* Where the piece that begins at i ends: before the next d, at e.          *)
LEMMA PieceEnds ==
  ASSUME NEW S, NEW w \in Seq(S), NEW d, NEW i \in 1..Len(w), NEW e \in i..Len(w),
         \A k \in i..e : w[k] # d, e < Len(w) => w[e + 1] = d
  PROVE  PieceFrom(w, d, i) = SubSeq(w, i, e)
<1> DEFINE ends == {j \in i..Len(w) : ~Has(SubSeq(w, i, j), d)}
<1>0. Len(w) \in Nat /\ i \in Nat \ {0} /\ e \in Nat /\ i <= e /\ e <= Len(w)
  BY LenProperties
<1>1. ASSUME NEW j \in i..Len(w) PROVE j \in ends <=> j <= e
  <2>1. j \in ends <=> \A k \in i..j : w[k] # d
    <3>1. j \in Nat /\ j <= Len(w)
      BY <1>0
    <3>2. Has(SubSeq(w, i, j), d) <=> \E k \in i..j : w[k] = d
      BY <1>0, <3>1, InPiece
    <3> QED
      BY <3>2
  <2>2. CASE j <= e
    <3>1. \A k \in i..j : k \in i..e
      BY <1>0, <2>2
    <3> QED
      BY <2>1, <2>2, <3>1
  <2>3. CASE ~(j <= e)
    <3>1. e + 1 \in i..j /\ e < Len(w)
      BY <1>0, <2>3
    <3> QED
      BY <2>1, <2>3, <3>1
  <2> QED
    BY <2>2, <2>3
<1>2. ends \in SUBSET Nat /\ ends # {} /\ e \in ends /\ \A j \in ends : j <= e
  <2>1. ends \in SUBSET Nat
    BY <1>0
  <2>2. \A j \in ends : j \in i..Len(w)
    OBVIOUS
  <2>3. e \in i..Len(w) /\ e <= e
    BY <1>0
  <2> HIDE DEF ends
  <2> QED
    BY <1>1, <2>1, <2>2, <2>3
<1>3. Max(ends) = e
  <2> HIDE DEF ends
  <2>1. Max(ends) \in ends /\ \A y \in ends : y <= Max(ends)
    BY <1>0, <1>2, MaxIsGreatest
  <2>2. Max(ends) \in Nat /\ Max(ends) <= e /\ e <= Max(ends)
    BY <1>2, <2>1
  <2> QED
    BY <1>0, <2>2
<1> QED
  BY <1>3 DEF PieceFrom

(* Every piece has such an end.                                             *)
LEMMA PieceHasEnd ==
  ASSUME NEW S, NEW w \in Seq(S), NEW d, NEW i \in 1..Len(w), w[i] # d
  PROVE  \E e \in i..Len(w) : /\ \A k \in i..e : w[k] # d
                              /\ e < Len(w) => w[e + 1] = d
<1> DEFINE D == {k \in i..Len(w) : w[k] = d}
<1>0. Len(w) \in Nat /\ i \in Nat \ {0} /\ i <= Len(w)
  BY LenProperties
<1>1. CASE D = {}
  <2>1. Len(w) \in i..Len(w) /\ ~(Len(w) < Len(w))
    BY <1>0
  <2>2. \A k \in i..Len(w) : w[k] # d
    BY <1>1
  <2> QED
    BY <2>1, <2>2
<1>2. CASE D # {}
  <2>1. D \in SUBSET Nat
    BY <1>0
  <2>2. PICK a \in D : \A y \in D : a <= y
    <3> HIDE DEF D
    <3> QED
      BY <1>2, <2>1, LeastExists
  <2>3. a \in i..Len(w) /\ w[a] = d /\ a # i
    OBVIOUS
  <2>4. a - 1 \in i..Len(w) /\ (a - 1) + 1 = a /\ a - 1 < Len(w)
    BY <1>0, <2>3
  <2>5. ASSUME NEW k \in i..(a - 1) PROVE w[k] # d
    <3>1. k \in i..Len(w) /\ ~(a <= k)
      BY <1>0, <2>3
    <3> QED
      BY <2>2, <3>1
  <2> QED
    BY <2>3, <2>4, <2>5
<1> QED
  BY <1>1, <1>2

(* Rows of pieces and of the meaning.                                       *)
LEMMA PieceFromType ==
  ASSUME NEW S, NEW w \in Seq(S), NEW d, NEW i \in 1..Len(w), w[i] # d
  PROVE  PieceFrom(w, d, i) \in Seq(S)
<1>1. PICK e \in i..Len(w) : /\ \A k \in i..e : w[k] # d
                             /\ e < Len(w) => w[e + 1] = d
  BY PieceHasEnd
<1>2. PieceFrom(w, d, i) = SubSeq(w, i, e)
  BY <1>1, PieceEnds
<1>3. i \in Nat \ {0} /\ e \in Nat /\ e <= Len(w)
  BY LenProperties
<1> QED
  BY <1>2, <1>3, PieceElements

(* The pieces of a text are the rows at their first characters, flattened.  *)
LEMMA PiecesInRows ==
  ASSUME NEW S, NEW w \in Seq(S), NEW d
  PROVE  /\ PieceRows(w, d) \in Seq(Seq(Seq(S))) /\ Len(PieceRows(w, d)) = Len(w)
         /\ Pieces(w, d) = FlattenSeq(PieceRows(w, d))
<1>0. Len(w) \in Nat
  BY LenProperties
<1>1. ASSUME NEW i \in 1..Len(w) PROVE PieceRow(w, d, i) \in Seq(Seq(S))
  <2>1. CASE w[i] # d /\ (i = 1 \/ w[i - 1] = d)
    <3>1. PieceFrom(w, d, i) \in Seq(S)
      BY <2>1, PieceFromType
    <3>2. One(PieceFrom(w, d, i)) \in Seq(Seq(S))
      BY <3>1, OneType
    <3> QED
      BY <2>1, <3>2 DEF PieceRow
  <2>2. CASE ~(w[i] # d /\ (i = 1 \/ w[i - 1] = d))
    BY <2>2, EmptySeq DEF PieceRow
  <2> QED
    BY <2>1, <2>2
<1>2. PieceRows(w, d) \in Seq(Seq(Seq(S))) /\ Len(PieceRows(w, d)) = Len(w)
  BY <1>0, <1>1 DEF PieceRows
<1>3. Pieces(w, d) = FlattenSeq(PieceRows(w, d))
  BY DEF Pieces, PieceRows, PieceRow, PieceFrom, One
<1> QED
  BY <1>2, <1>3

(* And the meaning of a word is the rows of its characters, flattened.      *)
LEMMA MeaningInRows ==
  ASSUME NEW list \in Seq(Variable), Distinct(list), NEW w \in Seq(Char)
  PROVE  /\ MeaningRows(list, w) \in Seq(Seq(Char)) /\ Len(MeaningRows(list, w)) = Len(w)
         /\ Env!Meaning(EnvOf(list), w) = FlattenSeq(MeaningRows(list, w))
<1>0. Len(w) \in Nat
  BY LenProperties
<1>1. \A name : GetVar(list, name) \in Seq(Char)
  <2>1. Final \subseteq Char
    BY DEF Final
  <2>2. Seq(Final) \subseteq Seq(Char)
    BY <2>1, SeqMonotonic
  <2> QED
    BY <2>2, GetVarFinal
<1>2. ASSUME NEW i \in 1..Len(w) PROVE MeaningAt(list, w, i) \in Seq(Char)
  <2>1. One(w[i]) \in Seq(Char)
    <3>1. w[i] \in Char
      BY ElementOfSeq
    <3> QED
      BY <3>1, OneType
  <2> QED
    BY <1>1, <2>1, EmptySeq DEF MeaningAt
<1>3. MeaningRows(list, w) \in Seq(Seq(Char)) /\ Len(MeaningRows(list, w)) = Len(w)
  BY <1>0, <1>2 DEF MeaningRows
<1> DEFINE e == EnvOf(list)
           at(i) == IF Env!BeginsName(w, i) THEN Env!Lookup(e, Env!NameAfter(w, i))
                    ELSE IF Env!InName(w, i) THEN <<>> ELSE <<w[i]>>
<1>4. ASSUME NEW i \in 1..Len(w) PROVE at(i) = MeaningAt(list, w, i)
  <2>1. Env!BeginsName(w, i) <=> w[i] = "$" /\ i < Len(w) /\ w[i + 1] # "$"
    BY DEF Env!BeginsName
  <2>2. Env!NameAfter(w, i) = PieceFrom(w, "$", i + 1)
    BY DEF Env!NameAfter, PieceFrom, Has, Env!Max, Max, Env!ToSet, ToSet
  <2>3. Env!InName(w, i) <=> w[i] # "$" /\ \E k \in 1..i : w[k] = "$"
    <3>1. 1 \in Nat \ {0} /\ i \in Nat /\ i <= Len(w)
      BY <1>0
    <3>2. Has(SubSeq(w, 1, i), "$") <=> \E k \in 1..i : w[k] = "$"
      BY <3>1, InPiece
    <3> QED
      BY <3>2 DEF Env!InName, Has, Env!ToSet, ToSet
  <2>4. Env!Lookup(e, Env!NameAfter(w, i)) = GetVar(list, PieceFrom(w, "$", i + 1))
    BY <2>2, LookupIsGetVar
  <2> QED
    BY <2>1, <2>3, <2>4 DEF MeaningAt, One
<1>5. Env!Meaning(e, w) = FlattenSeq([i \in 1..Len(w) |-> at(i)])
  <2>1. Env!Meaning(e, w) = Env!FlattenSeq([i \in 1..Len(w) |-> at(i)])
    BY DEF Env!Meaning
  <2>2. \A s : Env!FlattenSeq(s) = FlattenSeq(s)
    BY DEF Env!FlattenSeq, FlattenSeq
  <2> HIDE DEF at, e
  <2> QED
    BY <2>1, <2>2
<1>6. [i \in 1..Len(w) |-> at(i)] = MeaningRows(list, w)
  <2> HIDE DEF at
  <2> QED
    BY <1>4 DEF MeaningRows
<1> QED
  BY <1>3, <1>5, <1>6

(* What is in front of the first dollar stands for itself.                  *)
LEMMA PrefixMeant ==
  ASSUME NEW list \in Seq(Variable), Distinct(list), NEW w \in Seq(Char),
         NEW q \in 0..Len(w), \A k \in 1..q : w[k] # "$"
  PROVE  FlatTo(MeaningRows(list, w), q) = SubSeq(w, 1, q)
<1> DEFINE R == MeaningRows(list, w)
           P == {k \in Nat : k <= q => FlatTo(R, k) = SubSeq(w, 1, k)}
<1>0. Len(w) \in Nat /\ q \in Nat /\ q <= Len(w)
  BY LenProperties
<1>1. R \in Seq(Seq(Char)) /\ Len(R) = Len(w)
  BY MeaningInRows
<1>2. \A i \in 1..Len(w) : R[i] = MeaningAt(list, w, i)
  BY DEF MeaningRows
<1> HIDE DEF R
<1>3. 0 \in P
  <2>1. FlatTo(R, 0) = <<>>
    BY <1>1, FlatEnds
  <2>2. SubSeq(w, 1, 0) = <<>>
    BY SubSeqEmpty
  <2> QED
    BY <2>1, <2>2
<1>4. ASSUME NEW k \in P PROVE k + 1 \in P
  <2>0. k \in Nat /\ k + 1 \in Nat /\ (k + 1) - 1 = k
    OBVIOUS
  <2>1. ASSUME k + 1 <= q PROVE FlatTo(R, k + 1) = SubSeq(w, 1, k + 1)
    <3>1. k + 1 \in 1..Len(R) /\ k + 1 \in 1..q /\ k <= q /\ k + 1 \in 1..Len(w) /\ 0 <= k /\ k + 1 <= Len(w)
      BY <1>0, <1>1, <2>0, <2>1
    <3>2. FlatTo(R, k + 1) = Cat(FlatTo(R, k), R[k + 1])
      BY <1>1, <2>0, <3>1, FlatStep
    <3>3. R[k + 1] = One(w[k + 1])
      <4>1. \A m \in 1..(k + 1) : m \in 1..q
        BY <1>0, <2>0, <2>1
      <4>2. w[k + 1] # "$" /\ \A m \in 1..(k + 1) : w[m] # "$"
        BY <3>1, <4>1
      <4>3. MeaningAt(list, w, k + 1) = One(w[k + 1])
        BY <4>2 DEF MeaningAt
      <4> QED
        BY <1>2, <3>1, <4>3
    <3>4. FlatTo(R, k) = SubSeq(w, 1, k)
      BY <3>1
    <3>5. SubSeq(w, 1, k + 1) = Cat(SubSeq(w, 1, k), One(w[k + 1]))
      <4>1. PICK z \in Nat : z = 0
        OBVIOUS
      <4>2. SubSeq(w, z + 1, k + 1) = Cat(SubSeq(w, z + 1, k), One(w[k + 1]))
        <5>1. z \in Nat /\ k \in Nat /\ z <= k /\ k + 1 <= Len(w)
          BY <2>0, <3>1, <4>1
        <5> QED
          BY <5>1, PieceGrows, Zenon
      <4>3. z + 1 = 1
        BY <4>1
      <4> QED
        BY <4>2, <4>3
    <3> QED
      BY <3>2, <3>3, <3>4, <3>5
  <2> QED
    BY <2>0, <2>1
<1>5. P = Nat
  <2>1. P \in SUBSET Nat
    OBVIOUS
  <2> HIDE DEF P
  <2> QED
    BY <1>3, <1>4, <2>1, NumberInduction
<1>6. q \in P /\ q <= q
  BY <1>0, <1>5
<1> QED
  BY <1>6 DEF R

(* A word without a dollar means itself.                                    *)
LEMMA PlainWordMeant ==
  ASSUME NEW list \in Seq(Variable), Distinct(list), NEW w \in Seq(Char),
         \A k \in 1..Len(w) : w[k] # "$"
  PROVE  Env!Meaning(EnvOf(list), w) = w
<1> DEFINE R == MeaningRows(list, w)
<1>0. Len(w) \in 0..Len(w)
  BY LenProperties
<1>1. R \in Seq(Seq(Char)) /\ Len(R) = Len(w) /\ Env!Meaning(EnvOf(list), w) = FlattenSeq(R)
  BY MeaningInRows
<1>2. FlatTo(R, Len(w)) = SubSeq(w, 1, Len(w))
  BY <1>0, PrefixMeant
<1> HIDE DEF R
<1>3. FlatTo(R, Len(R)) = FlattenSeq(R)
  BY <1>1, FlatEnds
<1>4. SubSeq(w, 1, Len(w)) = w
  BY SubSeqFull
<1> QED
  BY <1>1, <1>2, <1>3, <1>4

-----------------------------------------------------------------------------
(* The turns of the loop follow the meaning of the word.                    *)

(* The dollars in the first i characters that begin a name.                 *)
Begun(w, i) == {k \in 1..i : w[k] = "$" /\ w[k + 1] # "$"}

(* A text that was cut off: it holds at least MaxStr - 1 characters.        *)
CutOff(text, meaning) ==
    Len(meaning) > MaxStr /\ \E m \in (MaxStr - 1)..Len(meaning) : text = SubSeq(meaning, 1, m)

(* q characters are in front of the first dollar of w.                      *)
FirstDollar(w, q) == q \in Nat /\ q < Len(w) /\ w[q + 1] = "$" /\ \A k \in 1..q : w[k] # "$"

(* Where the i-th turn stands.                                              *)
Turned(list, w, q, acc, i) ==
    IF acc.stop THEN CutOff(acc.text, FlattenSeq(MeaningRows(list, w)))
    ELSE /\ acc.text = FlatTo(MeaningRows(list, w), IF i < q THEN q ELSE i)
         /\ acc.names = FlatFrom(PieceRows(w, "$"), i + 1)
         /\ acc.expansion = Cardinality(Begun(w, i))

(* One more character is one more dollar, or none.                          *)
LEMMA BegunOneMore ==
  ASSUME NEW w, NEW i \in Nat
  PROVE  /\ Cardinality(Begun(w, i)) \in Nat /\ IsFiniteSet(Begun(w, i))
         /\ Cardinality(Begun(w, 0)) = 0
         /\ Cardinality(Begun(w, i + 1)) = Cardinality(Begun(w, i))
               + (IF w[i + 1] = "$" /\ w[(i + 1) + 1] # "$" THEN 1 ELSE 0)
<1>1. IsFiniteSet(Begun(w, i)) /\ Cardinality(Begun(w, i)) \in Nat
  <2>1. Begun(w, i) \in SUBSET (1..i)
    BY DEF Begun
  <2>2. IsFiniteSet(1..i)
    BY FS_Interval
  <2> QED
    BY <2>1, <2>2, FS_Subset, FS_CardinalityType
<1>2. Begun(w, 0) = {}
  <2>1. 1..0 = {}
    OBVIOUS
  <2> QED
    BY <2>1 DEF Begun
<1>3. Cardinality(Begun(w, 0)) = 0
  BY <1>2, FS_EmptySet
<1>4. CASE w[i + 1] = "$" /\ w[(i + 1) + 1] # "$"
  <2>1. Begun(w, i + 1) = Begun(w, i) \cup {i + 1} /\ i + 1 \notin Begun(w, i)
    <3>1. \A k : k \in 1..(i + 1) <=> k \in 1..i \/ k = i + 1
      OBVIOUS
    <3>2. i + 1 \notin 1..i
      OBVIOUS
    <3> QED
      BY <1>4, <3>1, <3>2 DEF Begun
  <2>2. Cardinality(Begun(w, i) \cup {i + 1}) = Cardinality(Begun(w, i)) + 1
    BY <1>1, <2>1, FS_AddElement
  <2> QED
    BY <1>1, <1>3, <1>4, <2>1, <2>2
<1>5. CASE ~(w[i + 1] = "$" /\ w[(i + 1) + 1] # "$")
  <2>1. Begun(w, i + 1) = Begun(w, i)
    <3>1. \A k : k \in 1..(i + 1) <=> k \in 1..i \/ k = i + 1
      OBVIOUS
    <3> QED
      BY <1>5, <3>1 DEF Begun
  <2> QED
    BY <1>1, <1>3, <1>5, <2>1
<1> QED
  BY <1>4, <1>5

(* What is left of the names when the pieces have rows to come.             *)
LEMMA RowOfPiece ==
  ASSUME NEW w \in Seq(Char), NEW i \in 1..Len(w)
  PROVE  /\ w[i] # "$" /\ (i = 1 \/ w[i - 1] = "$")
              => PieceRows(w, "$")[i] = One(PieceFrom(w, "$", i)) /\ PieceFrom(w, "$", i) \in Seq(Char)
         /\ ~(w[i] # "$" /\ (i = 1 \/ w[i - 1] = "$")) => PieceRows(w, "$")[i] = <<>>
<1>1. PieceRows(w, "$")[i] = PieceRow(w, "$", i)
  BY DEF PieceRows
<1>2. w[i] # "$" => PieceFrom(w, "$", i) \in Seq(Char)
  BY PieceFromType
<1> QED
  BY <1>1, <1>2 DEF PieceRow

(* The row of a character of the meaning behind the first dollar.           *)
LEMMA RowOfMeaning ==
  ASSUME NEW list \in Seq(Variable), NEW w \in Seq(Char), NEW q, FirstDollar(w, q),
         NEW i \in 1..Len(w), q < i
  PROVE  /\ w[i] # "$" => MeaningRows(list, w)[i] = <<>>
         /\ w[i] = "$" /\ i < Len(w) /\ w[i + 1] # "$"
              => MeaningRows(list, w)[i] = GetVar(list, PieceFrom(w, "$", i + 1))
         /\ w[i] = "$" /\ (i = Len(w) \/ w[i + 1] = "$") => MeaningRows(list, w)[i] = One(w[i])
<1>0. Len(w) \in Nat
  BY LenProperties
<1>1. MeaningRows(list, w)[i] = MeaningAt(list, w, i)
  BY DEF MeaningRows
<1>2. q + 1 \in 1..i /\ w[q + 1] = "$"
  BY <1>0 DEF FirstDollar
<1>3. CASE w[i] # "$"
  BY <1>1, <1>2, <1>3 DEF MeaningAt
<1>4. CASE w[i] = "$"
  <2>1. i = Len(w) => ~(i < Len(w))
    BY <1>0
  <2> QED
    BY <1>1, <1>4, <2>1 DEF MeaningAt
<1> QED
  BY <1>3, <1>4

(* A turn at a character adds its row.                                      *)
LEMMA TurnMeans ==
  ASSUME NEW list \in Seq(Variable), Distinct(list), NEW w \in Seq(Char), NEW q, FirstDollar(w, q),
         NEW acc, GoodTurn(acc), NEW i \in Nat, i + 1 < Len(w), Turned(list, w, q, acc, i)
  PROVE  Turned(list, w, q, ExpandAt(list, w, acc, i + 1), i + 1)
<1> DEFINE R == MeaningRows(list, w)
           P == PieceRows(w, "$")
           next == ExpandAt(list, w, acc, i + 1)
           meaning == FlattenSeq(R)
           value == GetVar(list, acc.names[1])
<1>0. /\ Len(w) \in Nat /\ i + 1 \in 1..Len(w) /\ i + 2 \in 1..Len(w) /\ (i + 1) + 1 = i + 2
      /\ (i + 2) - 1 = i + 1 /\ (i + 1) - 1 = i /\ i + 2 # 1 /\ q \in Nat
  BY LenProperties DEF FirstDollar
<1>1. /\ DOMAIN acc = {"text", "names", "expansion", "stop"} /\ acc.text \in Seq(Char)
      /\ Len(acc.text) \in Nat /\ acc.stop \in BOOLEAN
  BY LenProperties DEF GoodTurn
<1>2. R \in Seq(Seq(Char)) /\ Len(R) = Len(w)
  BY MeaningInRows
<1>3. P \in Seq(Seq(Seq(Char))) /\ Len(P) = Len(w)
  BY PiecesInRows
<1>4. FlatFrom(P, i + 1) = Cat(P[i + 2], FlatFrom(P, i + 2)) /\ FlatFrom(P, i + 2) \in Seq(Seq(Char))
  <2> HIDE DEF P
  <2> QED
    BY <1>0, <1>3, FlatStep
<1>5. /\ R[i + 1] \in Seq(Char) /\ FlatTo(R, i + 1) \in Seq(Char)
      /\ FlatTo(R, i + 1) = Cat(FlatTo(R, i), R[i + 1])
      /\ FlatFrom(R, i + 1) \in Seq(Char)
  <2> HIDE DEF R
  <2> QED
    BY <1>0, <1>2, FlatStep
<1>6. meaning = Cat(FlatTo(R, i + 1), FlatFrom(R, i + 1)) /\ meaning = Cat(FlatTo(R, i), FlatFrom(R, i))
  <2> HIDE DEF R
  <2>1. i + 1 \in 0..Len(R) /\ i \in 0..Len(R)
    BY <1>0, <1>2
  <2> QED
    BY <1>2, <2>1, FlatSplits
<1>7. CASE acc.stop
  <2>1. next = acc
    BY <1>7 DEF ExpandAt
  <2> QED
    BY <1>7, <2>1 DEF Turned
<1>8. CASE ~acc.stop /\ w[i + 1] # "$"
  <2>1. next = acc
    BY <1>8 DEF ExpandAt
  <2>2. acc.names = FlatFrom(P, i + 2)
    <3>1. P[i + 2] = <<>>
      BY <1>0, <1>8, RowOfPiece
    <3>2. acc.names = FlatFrom(P, i + 1)
      BY <1>8 DEF Turned
    <3> HIDE DEF P
    <3> QED
      BY <1>4, <3>1, <3>2, CatEmpty
  <2>3. acc.expansion = Cardinality(Begun(w, i + 1))
    <3>1. acc.expansion = Cardinality(Begun(w, i)) /\ Cardinality(Begun(w, i)) \in Nat
      BY <1>8, BegunOneMore DEF Turned
    <3>2. Cardinality(Begun(w, i + 1)) = Cardinality(Begun(w, i)) + 0
      BY <1>8, BegunOneMore
    <3> QED
      BY <3>1, <3>2
  <2>4. acc.text = FlatTo(R, IF i + 1 < q THEN q ELSE i + 1)
    <3>1. acc.text = FlatTo(R, IF i < q THEN q ELSE i)
      BY <1>8 DEF Turned
    <3> HIDE DEF R
    <3>2. CASE i < q
      <4>1. (IF i + 1 < q THEN q ELSE i + 1) = q
        BY <1>0, <3>2
      <4> QED
        BY <3>1, <3>2, <4>1
    <3>3. CASE ~(i < q)
      <4>1. q < i + 1 /\ ~(i + 1 < q)
        BY <1>0, <3>3
      <4>2. R[i + 1] = <<>>
        BY <1>0, <1>8, <4>1, RowOfMeaning DEF R
      <4>3. FlatTo(R, i) \in Seq(Char)
        <5>1. i \in 0..Len(R)
          BY <1>0, <1>2
        <5> QED
          BY <1>2, <5>1, FlatSplits
      <4>4. FlatTo(R, i + 1) = FlatTo(R, i)
        BY <1>5, <4>2, <4>3, CatEmpty
      <4> QED
        BY <3>1, <3>3, <4>1, <4>4
    <3> QED
      BY <3>2, <3>3
  <2>5. i + 2 = (i + 1) + 1
    BY <1>0
  <2> HIDE DEF R, P
  <2> QED
    BY <1>8, <2>1, <2>2, <2>3, <2>4, <2>5 DEF Turned, R, P
<1>9. ASSUME ~acc.stop, w[i + 1] = "$"
      PROVE  /\ q < i + 1 /\ ~(i + 1 < q) /\ acc.text = FlatTo(R, i)
             /\ acc.names = FlatFrom(P, i + 1) /\ acc.expansion = Cardinality(Begun(w, i))
             /\ Cardinality(Begun(w, i)) \in Nat
  <2>1. ~(i + 1 <= q)
    BY <1>0, <1>9 DEF FirstDollar
  <2>2. q < i + 1 /\ ~(i + 1 < q) /\ ~(i < q)
    BY <1>0, <2>1
  <2>3. Cardinality(Begun(w, i)) \in Nat
    BY BegunOneMore
  <2> QED
    BY <1>9, <2>2, <2>3 DEF Turned
<1>10. CASE ~acc.stop /\ w[i + 1] = "$" /\ w[i + 2] = "$"
  <2>1. next = IF Len(acc.text) > MaxStr THEN [acc EXCEPT !.stop = TRUE]
               ELSE [acc EXCEPT !.text = Append(@, "$")]
    BY <1>0, <1>10 DEF ExpandAt
  <2>2. CASE Len(acc.text) > MaxStr
    <3>1. next.stop = TRUE /\ next.text = acc.text
      BY <1>1, <2>1, <2>2
    <3>2. CutOff(acc.text, meaning)
      <4>1. acc.text = FlatTo(R, i) /\ FlatFrom(R, i) \in Seq(Char)
        <5>1. i \in 0..Len(R)
          BY <1>0, <1>2
        <5> HIDE DEF R
        <5> QED
          BY <1>2, <1>9, <1>10, <5>1, FlatSplits
      <4>2. meaning = Cat(acc.text, FlatFrom(R, i))
        BY <1>6, <4>1
      <4> HIDE DEF R, meaning
      <4>3. /\ Len(meaning) = Len(acc.text) + Len(FlatFrom(R, i))
            /\ acc.text = SubSeq(meaning, 1, Len(acc.text)) /\ Len(FlatFrom(R, i)) \in Nat
        <5>1. 0 \in 0..Len(FlatFrom(R, i))
          BY <4>1, LenProperties
        <5> QED
          BY <1>1, <4>1, <4>2, <5>1, CatCut
      <4>4. Len(acc.text) \in (MaxStr - 1)..Len(meaning) /\ Len(meaning) > MaxStr
        BY <1>1, <2>2, <4>3, StrAssumption
      <4> QED
        BY <4>3, <4>4 DEF CutOff
    <3> HIDE DEF next, meaning, R
    <3> QED
      BY <3>1, <3>2 DEF Turned, meaning, R, next
  <2>3. CASE ~(Len(acc.text) > MaxStr)
    <3> DEFINE text == Append(acc.text, "$")
    <3>1. next = [acc EXCEPT !.text = text]
      BY <2>1, <2>3
    <3> HIDE DEF text, next
    <3>2. /\ next.stop = acc.stop /\ next.text = text /\ next.names = acc.names
          /\ next.expansion = acc.expansion
      BY <1>1, <3>1
    <3>3. text = FlatTo(R, i + 1)
      <4>1. R[i + 1] = One(w[i + 1])
        BY <1>0, <1>9, <1>10, RowOfMeaning
      <4>2. text = Cat(acc.text, One(w[i + 1]))
        <5>1. text = Append(acc.text, w[i + 1])
          BY <1>10 DEF text
        <5>2. acc.text \in Seq(Char) /\ w[i + 1] \in Char
          BY <1>0, <1>1, ElementOfSeq DEF GoodTurn
        <5> QED
          BY <5>1, <5>2, OneType
      <4> HIDE DEF R
      <4> QED
        BY <1>5, <1>9, <1>10, <4>1, <4>2
    <3>4. acc.names = FlatFrom(P, i + 2)
      <4>1. P[i + 2] = <<>>
        BY <1>0, <1>10, RowOfPiece
      <4> HIDE DEF P
      <4> QED
        BY <1>4, <1>9, <1>10, <4>1, CatEmpty
    <3>5. acc.expansion = Cardinality(Begun(w, i + 1))
      <4>1. Cardinality(Begun(w, i + 1)) = Cardinality(Begun(w, i)) + 0
        <5>1. w[(i + 1) + 1] = "$"
          BY <1>0, <1>10
        <5>2. Cardinality(Begun(w, i + 1)) = Cardinality(Begun(w, i))
                  + (IF w[i + 1] = "$" /\ w[(i + 1) + 1] # "$" THEN 1 ELSE 0)
          BY BegunOneMore
        <5> QED
          BY <5>1, <5>2
      <4> QED
        BY <1>9, <1>10, <4>1
    <3> HIDE DEF R, P
    <3> QED
      BY <1>0, <1>9, <1>10, <3>2, <3>3, <3>4, <3>5 DEF Turned, R, P, next
  <2> QED
    BY <2>2, <2>3
<1>11. CASE ~acc.stop /\ w[i + 1] = "$" /\ w[i + 2] # "$"
  <2> DEFINE room == Room(acc.text, value)
             cut == SubSeq(value, 1, room)
             filled == [acc EXCEPT !.text = @ \o cut, !.stop = TRUE]
             named == [acc EXCEPT !.text = @ \o value, !.names = Tail(@), !.expansion = @ + 1]
             long == Len(acc.text) + Len(value) > MaxStr
  <2>1. next = IF long THEN filled ELSE named
    <3> HIDE DEF filled, named
    <3>1. next =
            CASE acc.stop \/ w[i + 1] # "$" -> acc
              [] ~acc.stop /\ w[i + 1] = "$" /\ w[i + 2] = "$" ->
                   IF Len(acc.text) > MaxStr THEN [acc EXCEPT !.stop = TRUE]
                   ELSE [acc EXCEPT !.text = Append(@, "$")]
              [] OTHER -> IF long THEN filled ELSE named
      BY <1>0 DEF ExpandAt, filled, named
    <3> HIDE DEF next, long
    <3> QED
      BY <1>11, <3>1
  <2>2. /\ P[i + 2] = One(PieceFrom(w, "$", i + 2)) /\ PieceFrom(w, "$", i + 2) \in Seq(Char)
    BY <1>0, <1>11, RowOfPiece
  <2>3. /\ acc.names = Cat(One(PieceFrom(w, "$", i + 2)), FlatFrom(P, i + 2))
    <3> HIDE DEF P
    <3> QED
      BY <1>4, <1>9, <1>11, <2>2
  <2>4. acc.names[1] = PieceFrom(w, "$", i + 2) /\ Tail(acc.names) = FlatFrom(P, i + 2)
    <3> DEFINE h == PieceFrom(w, "$", i + 2)
               t == FlatFrom(P, i + 2)
    <3>1. h \in Seq(Char) /\ t \in Seq(Seq(Char)) /\ acc.names = Cat(One(h), t)
      BY <1>4, <2>2, <2>3
    <3> HIDE DEF h, t
    <3>2. acc.names[1] = h /\ Tail(acc.names) = t
      BY <3>1, FrontAndRest
    <3> QED
      BY <3>2 DEF h, t
  <2>5. R[i + 1] = value
    <3>1. i + 1 < Len(w)
      BY <1>0
    <3> QED
      BY <1>0, <1>9, <1>11, <2>4, <3>1, RowOfMeaning
  <2>6. value \in Seq(Char) /\ Len(value) \in Nat
    <3> HIDE DEF R, value
    <3> QED
      BY <1>5, <2>5, LenProperties
  <2>7. FlatTo(R, i + 1) = Cat(acc.text, value)
    BY <1>5, <1>9, <1>11, <2>5
  <2> HIDE DEF value
  <2>8. CASE long
    <3>1. room \in Nat /\ room <= Len(value)
      BY <1>1, <2>6, <2>8, StrAssumption DEF Room
    <3>2. cut \in Seq(Char) /\ Len(cut) = room
      <4> HIDE DEF room
      <4> QED
        BY <2>6, <3>1, Cut
    <3>3. Len(acc.text) + room >= MaxStr - 1
      BY <1>1, <2>6, <2>8, StrAssumption DEF Room
    <3>4. next.stop = TRUE /\ next.text = Cat(acc.text, cut)
      <4> DEFINE t == acc.text \o cut
      <4>1. next = [acc EXCEPT !.text = t, !.stop = TRUE]
        BY <2>1, <2>8
      <4> HIDE DEF t, next
      <4>2. next.stop = TRUE /\ next.text = t
        BY <1>1, <4>1
      <4> QED
        BY <4>2 DEF t, Cat
    <3>5. CutOff(Cat(acc.text, cut), meaning)
      <4> DEFINE to == FlatTo(R, i + 1)
                 from == FlatFrom(R, i + 1)
                 m == Len(acc.text) + room
      <4>1. room \in 0..Len(value)
        BY <2>6, <3>1
      <4>2. /\ Cat(acc.text, cut) = SubSeq(to, 1, m) /\ Len(to) = Len(acc.text) + Len(value)
        <5> HIDE DEF room, R
        <5>1. /\ Cat(acc.text, SubSeq(value, 1, room)) = SubSeq(Cat(acc.text, value), 1, Len(acc.text) + room)
              /\ Len(Cat(acc.text, value)) = Len(acc.text) + Len(value)
          BY <1>1, <2>6, <4>1, CatCut
        <5> QED
          BY <2>7, <5>1
      <4>3. to \in Seq(Char) /\ from \in Seq(Char) /\ meaning = Cat(to, from)
        BY <1>5, <1>6
      <4>4. m \in Nat /\ m \in 0..Len(to) /\ m >= MaxStr - 1 /\ Len(to) > MaxStr /\ Len(to) \in Nat
        <5> HIDE DEF room, to
        <5> QED
          BY <1>1, <2>6, <2>8, <3>1, <3>3, <4>2, StrAssumption
      <4> HIDE DEF to, from, m, meaning
      <4>5. /\ to = SubSeq(meaning, 1, Len(to)) /\ Len(meaning) = Len(to) + Len(from)
            /\ Len(from) \in Nat
        <5>1. 0 \in 0..Len(from)
          BY <4>3, LenProperties
        <5> QED
          BY <4>3, <5>1, CatCut
      <4>6. SubSeq(to, 1, m) = SubSeq(meaning, 1, m)
        BY <4>3, <4>4, CutOfCat
      <4>7. m \in (MaxStr - 1)..Len(meaning) /\ Len(meaning) > MaxStr
        BY <4>4, <4>5, StrAssumption
      <4> QED
        BY <4>2, <4>6, <4>7 DEF CutOff
    <3> HIDE DEF next, meaning, R
    <3> QED
      BY <3>4, <3>5 DEF Turned, meaning, R, next
  <2>9. CASE ~long
    <3>1. /\ next.stop = acc.stop /\ next.text = Cat(acc.text, value) /\ next.names = Tail(acc.names)
          /\ next.expansion = acc.expansion + 1
      <4> DEFINE t == acc.text \o value
                 n == Tail(acc.names)
                 x == acc.expansion + 1
      <4>1. next = [acc EXCEPT !.text = t, !.names = n, !.expansion = x]
        BY <2>1, <2>9
      <4> HIDE DEF t, n, x, next
      <4>2. next.stop = acc.stop /\ next.text = t /\ next.names = n /\ next.expansion = x
        BY <1>1, <4>1
      <4> QED
        BY <4>2 DEF t, n, x, Cat
    <3>2. acc.expansion + 1 = Cardinality(Begun(w, i + 1))
      <4>1. Cardinality(Begun(w, i + 1)) = Cardinality(Begun(w, i)) + 1
        <5>1. Cardinality(Begun(w, i + 1)) = Cardinality(Begun(w, i))
                 + (IF w[i + 1] = "$" /\ w[(i + 1) + 1] # "$" THEN 1 ELSE 0)
          BY BegunOneMore
        <5>2. w[i + 1] = "$" /\ w[(i + 1) + 1] # "$"
          BY <1>0, <1>11
        <5> QED
          BY <5>1, <5>2
      <4> QED
        BY <1>9, <1>11, <4>1
    <3> HIDE DEF next, R, P
    <3> QED
      BY <1>0, <1>9, <1>11, <2>4, <2>7, <3>1, <3>2 DEF Turned, R, P, next
  <2> QED
    BY <2>8, <2>9
<1> QED
  BY <1>1, <1>7, <1>8, <1>10, <1>11

(* Every word with a dollar has a first one.                                *)
LEMMA FirstDollarExists ==
  ASSUME NEW w \in Seq(Char), Has(w, "$")
  PROVE  w # <<>> /\ \E q : FirstDollar(w, q)
<1> DEFINE D == {k \in 1..Len(w) : w[k] = "$"}
<1>0. Len(w) \in Nat /\ DOMAIN w = 1..Len(w)
  BY LenProperties
<1>1. D # {}
  BY <1>0 DEF Has, ToSet
<1>2. PICK d \in D : \A y \in D : d <= y
  <2>1. D \in SUBSET Nat
    BY <1>0
  <2> HIDE DEF D
  <2> QED
    BY <1>1, <2>1, LeastExists
<1>3. d \in 1..Len(w) /\ w[d] = "$"
  OBVIOUS
<1>4. d - 1 \in Nat /\ d - 1 < Len(w) /\ (d - 1) + 1 = d
  BY <1>0, <1>3
<1>5. ASSUME NEW k \in 1..(d - 1) PROVE w[k] # "$"
  <2>1. k \in 1..Len(w) /\ ~(d <= k)
    BY <1>0, <1>3
  <2> QED
    BY <1>2, <2>1
<1>6. FirstDollar(w, d - 1)
  BY <1>3, <1>4, <1>5 DEF FirstDollar
<1>7. w # <<>>
  BY <1>0, <1>3, EmptySeq
<1> QED
  BY <1>6, <1>7

(* Where the loop starts.                                                   *)
LEMMA StartMeans ==
  ASSUME NEW list \in Seq(Variable), Distinct(list), NEW w \in Seq(Char), NEW q, FirstDollar(w, q)
  PROVE  LET pieces == Pieces(w, "$")
             prefixed == w[1] # "$"
             start == [text |-> IF prefixed THEN pieces[1] ELSE <<>>,
                       names |-> IF prefixed THEN Tail(pieces) ELSE pieces,
                       expansion |-> 0, stop |-> FALSE]
         IN Turned(list, w, q, start, 0) /\ GoodTurn(start)
<1> DEFINE R == MeaningRows(list, w)
           P == PieceRows(w, "$")
           pieces == Pieces(w, "$")
           prefixed == w[1] # "$"
           text == IF prefixed THEN pieces[1] ELSE <<>>
           names == IF prefixed THEN Tail(pieces) ELSE pieces
           start == [text |-> text, names |-> names, expansion |-> 0, stop |-> FALSE]
<1>0. /\ Len(w) \in Nat /\ 1 \in 1..Len(w) /\ q \in Nat /\ q < Len(w) /\ q \in 0..Len(w)
      /\ w[q + 1] = "$" /\ \A k \in 1..q : w[k] # "$"
  BY LenProperties DEF FirstDollar
<1>1. /\ P \in Seq(Seq(Seq(Char))) /\ Len(P) = Len(w) /\ pieces = FlattenSeq(P)
  BY PiecesInRows
<1>2. pieces = Cat(P[1], FlatFrom(P, 1)) /\ FlatFrom(P, 1) \in Seq(Seq(Char))
  <2> HIDE DEF P, pieces
  <2>1. 1 \in 1..Len(P) /\ 1 - 1 = 0
    BY <1>0, <1>1
  <2>2. FlatFrom(P, 1 - 1) = Cat(P[1], FlatFrom(P, 1)) /\ FlatFrom(P, 1) \in Seq(Seq(Char))
    BY <1>1, <2>1, FlatStep
  <2>3. FlatFrom(P, 0) = FlattenSeq(P)
    BY <1>1, FlatEnds
  <2> QED
    BY <1>1, <2>1, <2>2, <2>3
<1>3. FlatTo(R, q) = SubSeq(w, 1, q)
  BY <1>0, PrefixMeant
<1>4. text = FlatTo(R, q) /\ names = FlatFrom(P, 1) /\ text \in Seq(Char)
  <2>1. CASE prefixed
    <3>1. q # 0
      BY <1>0, <2>1
    <3>2. q \in 1..Len(w) /\ q \in Nat /\ q <= Len(w)
      BY <1>0, <3>1
    <3>3. PieceFrom(w, "$", 1) = SubSeq(w, 1, q)
      BY <1>0, <3>2, PieceEnds
    <3>4. P[1] = One(PieceFrom(w, "$", 1)) /\ PieceFrom(w, "$", 1) \in Seq(Char)
      BY <1>0, <2>1, RowOfPiece
    <3> DEFINE h == PieceFrom(w, "$", 1)
               t == FlatFrom(P, 1)
    <3>5. pieces = Cat(One(h), t) /\ h \in Seq(Char) /\ t \in Seq(Seq(Char))
      BY <1>2, <3>4
    <3> HIDE DEF h, t, pieces
    <3>6. pieces[1] = h /\ Tail(pieces) = t
      BY <3>5, FrontAndRest
    <3> QED
      BY <1>3, <2>1, <3>3, <3>4, <3>6 DEF h, t
  <2>2. CASE ~prefixed
    <3>1. q = 0
      <4>1. q # 0 => 1 \in 1..q
        BY <1>0
      <4> QED
        BY <1>0, <2>2, <4>1
    <3>2. SubSeq(w, 1, 0) = <<>>
      BY SubSeqEmpty
    <3>3. P[1] = <<>>
      BY <1>0, <2>2, RowOfPiece
    <3>4. Cat(<<>>, FlatFrom(P, 1)) = FlatFrom(P, 1)
      <4> HIDE DEF P
      <4> QED
        BY <1>2, CatEmpty
    <3> HIDE DEF P, R, pieces
    <3> QED
      BY <1>2, <1>3, <2>2, <3>1, <3>2, <3>3, <3>4, EmptySeq
  <2> QED
    BY <2>1, <2>2
<1> HIDE DEF text, names, R, P
<1>5. GoodTurn(start)
  BY <1>4 DEF GoodTurn
<1>6. Turned(list, w, q, start, 0)
  <2>1. start.stop = FALSE /\ start.text = text /\ start.names = names /\ start.expansion = 0
    OBVIOUS
  <2>2. (IF 0 < q THEN q ELSE 0) = q /\ 0 + 1 = 1
    BY <1>0
  <2>3. Cardinality(Begun(w, 0)) = 0
    <3>1. 0 \in Nat
      OBVIOUS
    <3> QED
      BY <3>1, BegunOneMore
  <2> HIDE DEF start
  <2> QED
    BY <1>4, <2>1, <2>2, <2>3 DEF Turned, R, P
<1> QED
  BY <1>5, <1>6 DEF text, names

(* How many dollars there are, and how many of them begin a name.           *)
LEMMA DollarsBegin ==
  ASSUME NEW w \in Seq(Char), w # <<>>
  PROVE  /\ w[Len(w)] = "$" => Dollars(w) # Cardinality(Begun(w, Len(w) - 1))
         /\ w[Len(w)] # "$" /\ ~(\E i \in 1..Len(w) - 1 : w[i] = "$" /\ w[i + 1] = "$")
               => Dollars(w) = Cardinality(Begun(w, Len(w) - 1))
<1> DEFINE n == Len(w)
           D == {i \in 1..n : w[i] = "$"}
           B == Begun(w, n - 1)
<1>0. n \in Nat /\ n # 0 /\ n - 1 \in Nat /\ n \in 1..n
  BY LenProperties, EmptySeq
<1>1. Dollars(w) = Cardinality(D)
  BY DEF Dollars, Count
<1> HIDE DEF n
<1>2. D \in SUBSET (1..n) /\ IsFiniteSet(1..n) /\ IsFiniteSet(D) /\ Cardinality(D) \in Nat
  <2>1. IsFiniteSet(1..n)
    BY <1>0, FS_Interval
  <2> QED
    BY <2>1, FS_Subset, FS_CardinalityType
<1>3. B \subseteq D
  <2>1. \A i \in 1..(n - 1) : i \in 1..n
    BY <1>0
  <2> QED
    BY <2>1 DEF Begun
<1>4. w[n] = "$" => Cardinality(D) # Cardinality(B)
  <2> SUFFICES ASSUME w[n] = "$" PROVE Cardinality(D) # Cardinality(B)
    OBVIOUS
  <2>1. n \in D
    BY <1>0
  <2>2. n \notin B
    <3>1. n \notin 1..(n - 1)
      BY <1>0
    <3> QED
      BY <3>1 DEF Begun
  <2> HIDE DEF D, B
  <2>3. B # D
    BY <2>1, <2>2
  <2> QED
    BY <1>2, <1>3, <2>3, FS_Subset
<1>5. w[n] # "$" /\ ~(\E i \in 1..(n - 1) : w[i] = "$" /\ w[i + 1] = "$") => D = B
  <2> SUFFICES ASSUME w[n] # "$", \A i \in 1..(n - 1) : w[i] = "$" => w[i + 1] # "$"
               PROVE  D \subseteq B
    BY <1>3
  <2> SUFFICES ASSUME NEW i \in D PROVE i \in B
    OBVIOUS
  <2>1. i \in 1..n /\ w[i] = "$" /\ i # n
    OBVIOUS
  <2>2. i \in 1..(n - 1)
    BY <1>0, <2>1
  <2>3. w[i + 1] # "$"
    BY <2>1, <2>2
  <2> QED
    BY <2>1, <2>2, <2>3 DEF Begun
<1> QED
  BY <1>1, <1>4, <1>5 DEF n

(* What a word with dollars is expanded to: its meaning, the meaning with a *)
(* dollar behind it, or a meaning that is cut off.                          *)
LEMMA ExpandMeans ==
  ASSUME NEW list \in Seq(Variable), Distinct(list), NEW w \in Seq(Char), Has(w, "$")
  PROVE  LET meaning == Env!Meaning(EnvOf(list), w)
             doubled == w[Len(w)] # "$" /\ \E i \in 1..Len(w) - 1 : w[i] = "$" /\ w[i + 1] = "$"
         IN \/ Expand(list, w) = meaning
            \/ doubled /\ Expand(list, w) = Append(meaning, "$") /\ meaning \in Seq(Char)
            \/ \E text \in Seq(Char) : CutOff(text, meaning) /\ Expand(list, w) \in {text, Append(text, "$")}
<1> DEFINE meaning == Env!Meaning(EnvOf(list), w)
           doubled == w[Len(w)] # "$" /\ \E i \in 1..Len(w) - 1 : w[i] = "$" /\ w[i + 1] = "$"
           R == MeaningRows(list, w)
           pieces == Pieces(w, "$")
           prefixed == w[1] # "$"
           start == [text |-> IF prefixed THEN pieces[1] ELSE <<>>,
                     names |-> IF prefixed THEN Tail(pieces) ELSE pieces,
                     expansion |-> 0, stop |-> FALSE]
           n == Len(w) - 1
           turn == CHOOSE f : f = [i \in 0..n |->
                       IF i = 0 THEN start ELSE ExpandAt(list, w, f[i - 1], i)]
           end == turn[n]
<1>0. PICK q : FirstDollar(w, q) /\ w # <<>>
  BY FirstDollarExists
<1>1. n \in Nat /\ Len(w) \in Nat /\ n + 1 = Len(w) /\ n < Len(w) /\ Len(w) \in 1..Len(w)
  BY <1>0, LenProperties, EmptySeq
<1>2. GoodTurn(start) /\ Turned(list, w, q, start, 0)
  <2> HIDE DEF start
  <2> QED
    BY <1>0, StartMeans DEF start
<1>3. Turns(turn, list, w, start, n)
  <2> HIDE DEF start, n
  <2>1. \E f : f = [i \in 0..n |-> IF i = 0 THEN start ELSE ExpandAt(list, w, f[i - 1], i)]
    <3>1. \E f : Turns(f, list, w, start, n)
      BY <1>1, TurnsExist
    <3> QED
      BY <3>1 DEF Turns
  <2>2. turn = [i \in 0..n |-> IF i = 0 THEN start ELSE ExpandAt(list, w, turn[i - 1], i)]
    BY <2>1
  <2> HIDE DEF turn
  <2> QED
    BY <2>2 DEF Turns
<1>4. Expand(list, w) = IF Dollars(w) # end.expansion /\ Len(end.text) < MaxStr
                        THEN Append(end.text, "$") ELSE end.text
  BY DEF Expand
<1> HIDE DEF turn, start
<1>5. GoodTurn(end) /\ Turned(list, w, q, end, n)
  <2> DEFINE T(m) == GoodTurn(turn[m]) /\ Turned(list, w, q, turn[m], m)
             Q == {m \in Nat : m <= n => T(m)}
  <2> HIDE DEF n
  <2>1. 0 \in Q
    <3>1. 0 \in 0..n
      BY <1>1
    <3>2. turn[0] = start
      BY <1>3, <3>1 DEF Turns
    <3> QED
      BY <1>2, <3>2
  <2>2. ASSUME NEW m \in Q PROVE m + 1 \in Q
    <3>0. m \in Nat /\ m + 1 \in Nat
      OBVIOUS
    <3>1. ASSUME m + 1 <= n PROVE T(m + 1)
      <4>1. m + 1 \in 0..n /\ m + 1 # 0 /\ (m + 1) - 1 = m /\ m <= n /\ m + 1 < Len(w)
        BY <1>1, <3>0, <3>1
      <4>2. turn[m + 1] = ExpandAt(list, w, turn[m], m + 1)
        BY <1>3, <4>1 DEF Turns
      <4>3. GoodTurn(turn[m]) /\ Turned(list, w, q, turn[m], m)
        BY <4>1
      <4>4. GoodTurn(turn[m + 1])
        BY <4>2, <4>3, TurnKeepsText
      <4>5. Turned(list, w, q, turn[m + 1], m + 1)
        BY <1>0, <3>0, <4>1, <4>2, <4>3, TurnMeans
      <4> QED
        BY <4>4, <4>5
    <3> HIDE DEF T
    <3> QED
      BY <3>0, <3>1
  <2>3. Q = Nat
    <3>1. Q \in SUBSET Nat
      OBVIOUS
    <3> HIDE DEF Q
    <3> QED
      BY <2>1, <2>2, <3>1, NumberInduction
  <2>4. n \in Q
    BY <1>1, <2>3
  <2>5. n <= n
    BY <1>1
  <2> QED
    BY <2>4, <2>5
<1> HIDE DEF end
<1>6. R \in Seq(Seq(Char)) /\ Len(R) = Len(w) /\ meaning = FlattenSeq(R)
  BY MeaningInRows
<1>7. end.text \in Seq(Char) /\ Len(end.text) \in Nat /\ end.stop \in BOOLEAN
  BY <1>5, LenProperties DEF GoodTurn
<1> HIDE DEF meaning, doubled
<1>8. CASE end.stop
  <2>1. CutOff(end.text, meaning)
    BY <1>5, <1>6, <1>8 DEF Turned
  <2>2. Expand(list, w) \in {end.text, Append(end.text, "$")}
    BY <1>4
  <2> QED
    BY <1>7, <2>1, <2>2 DEF meaning, doubled
<1>9. CASE ~end.stop
  <2>1. q <= n /\ ~(n < q) /\ q < Len(w)
    BY <1>0, <1>1 DEF FirstDollar
  <2>2. end.text = FlatTo(R, n) /\ end.expansion = Cardinality(Begun(w, n))
    BY <1>5, <1>9, <2>1 DEF Turned
  <2>3. meaning = Cat(end.text, R[Len(w)])
    <3> HIDE DEF R
    <3>1. Len(w) \in 1..Len(R) /\ Len(R) = Len(w)
      BY <1>1, <1>6
    <3>2. FlatTo(R, Len(w)) = Cat(FlatTo(R, Len(w) - 1), R[Len(w)])
      BY <1>6, <3>1, FlatStep
    <3>3. FlatTo(R, Len(w)) = FlattenSeq(R)
      BY <1>6, <3>1, FlatEnds
    <3> QED
      BY <1>6, <2>2, <3>2, <3>3
  <2>4. CASE w[Len(w)] # "$"
    <3>1. R[Len(w)] = <<>>
      BY <1>0, <1>1, <2>1, <2>4, RowOfMeaning
    <3>2. meaning = end.text
      BY <1>7, <2>3, <3>1, CatEmpty
    <3>3. CASE doubled
      <4>1. Expand(list, w) = meaning \/ Expand(list, w) = Append(meaning, "$")
        BY <1>4, <3>2
      <4> QED
        BY <1>7, <3>2, <3>3, <4>1 DEF meaning, doubled
    <3>4. CASE ~doubled
      <4>1. Dollars(w) = Cardinality(Begun(w, n))
        BY <1>0, <2>4, <3>4, DollarsBegin DEF doubled
      <4>2. Expand(list, w) = meaning
        BY <1>4, <2>2, <3>2, <4>1
      <4> QED
        BY <4>2 DEF meaning
    <3> QED
      BY <3>3, <3>4
  <2>5. CASE w[Len(w)] = "$"
    <3> DEFINE d == "$"
    <3>1. R[Len(w)] = One(d) /\ d \in Char
      <4>1. d \in Char
        BY DEF Char
      <4>2. R[Len(w)] = One(w[Len(w)])
        BY <1>0, <1>1, <2>1, <2>5, RowOfMeaning
      <4> QED
        BY <2>5, <4>1, <4>2
    <3>2. Dollars(w) # end.expansion
      BY <1>0, <2>2, <2>5, DollarsBegin
    <3>3. Append(end.text, "$") = Cat(end.text, One(d))
      BY DEF Cat, One
    <3> HIDE DEF d
    <3>4. meaning = Append(end.text, "$")
      BY <2>3, <3>1, <3>3
    <3>5. CASE Len(end.text) < MaxStr
      <4>1. Expand(list, w) = meaning
        BY <1>4, <3>2, <3>4, <3>5
      <4> QED
        BY <4>1 DEF meaning
    <3>6. CASE ~(Len(end.text) < MaxStr)
      <4>1. Expand(list, w) = end.text
        BY <1>4, <3>6
      <4>2. meaning = Cat(end.text, One(d)) /\ One(d) \in Seq(Char) /\ Len(One(d)) = 1
        BY <3>1, <3>3, <3>4, OneType
      <4>3. Len(meaning) = Len(end.text) + 1 /\ end.text = SubSeq(meaning, 1, Len(end.text))
        <5> DEFINE t == end.text
                   o == One(d)
        <5>1. t \in Seq(Char) /\ o \in Seq(Char) /\ Len(o) = 1 /\ meaning = Cat(t, o) /\ 0 \in 0..Len(o)
          BY <1>7, <4>2
        <5> HIDE DEF t, o
        <5>2. Len(Cat(t, o)) = Len(t) + Len(o) /\ t = SubSeq(Cat(t, o), 1, Len(t))
          BY <5>1, CatCut
        <5> QED
          BY <5>1, <5>2 DEF t
      <4>4. CutOff(end.text, meaning)
        <5>1. Len(meaning) > MaxStr /\ Len(end.text) \in (MaxStr - 1)..Len(meaning)
          BY <1>7, <3>6, <4>3, StrAssumption
        <5> QED
          BY <4>3, <5>1 DEF CutOff
      <4> QED
        BY <1>7, <4>1, <4>4 DEF meaning
    <3> QED
      BY <3>5, <3>6
  <2> QED
    BY <2>4, <2>5
<1> QED
  BY <1>7, <1>8, <1>9

(* A line is a sequence of words that are not empty.                        *)
LEMMA LineTyped ==
  ASSUME NEW l \in Lines
  PROVE  /\ l \in Seq(Seq(Char)) /\ Len(l) \in Nat \ {0}
         /\ \A k \in 1..Len(l) : l[k] \in Seq(Char) /\ l[k] # <<>> /\ Len(l[k]) \in Nat \ {0}
<1>1. l \in Seq(Seq(Char)) /\ l # <<>>
  <2>1. l \in Seq(Seq(STRING)) /\ l # <<>>
    BY LinesAssumption
  <2>2. STRING \subseteq Char
    BY DEF Char
  <2>3. Seq(STRING) \subseteq Seq(Char)
    BY <2>2, SeqMonotonic
  <2> QED
    BY <2>1, <2>3, SeqMonotonic
<1>2. ASSUME NEW k \in 1..Len(l)
      PROVE  l[k] \in Seq(Char) /\ l[k] # <<>> /\ Len(l[k]) \in Nat \ {0}
  <2>1. l[k] \in Seq(Char)
    BY <1>1, ElementOfSeq
  <2>2. l[k] # <<>>
    BY LinesAssumption
  <2> QED
    BY <2>1, <2>2, LenProperties, EmptySeq
<1>3. Len(l) \in Nat \ {0}
  BY <1>1, LenProperties, EmptySeq
<1> QED
  BY <1>1, <1>2, <1>3

(* A token of a line, in terms of the meaning of its word.                  *)
LEMMA TokenMeans ==
  ASSUME NEW list \in Seq(Variable), Distinct(list), NEW l \in Lines, NEW k \in 1..Len(l)
  PROVE  LET w == l[k]
             token == TokenizeInput(list, l)[k]
             meaning == Env!Meaning(EnvOf(list), w)
             doubled == w[Len(w)] # "$" /\ \E i \in 1..Len(w) - 1 : w[i] = "$" /\ w[i + 1] = "$"
         IN \/ token = meaning
            \/ doubled /\ token = Append(meaning, "$") /\ meaning \in Seq(Char)
            \/ \E text \in Seq(Char) : CutOff(text, meaning) /\ token \in {text, Append(text, "$")}
<1> DEFINE w == l[k]
           token == TokenizeInput(list, l)[k]
<1>1. w \in Seq(Char) /\ Len(w) \in Nat
  BY LineTyped
<1>2. token = IF Has(w, "$") THEN Expand(list, w) ELSE w
  BY DEF TokenizeInput
<1> HIDE DEF w, token
<1>3. CASE Has(w, "$")
  <2>1. token = Expand(list, w)
    BY <1>2, <1>3
  <2> HIDE DEF token
  <2> QED
    BY <1>1, <1>3, <2>1, ExpandMeans DEF w, token
<1>4. CASE ~Has(w, "$")
  <2>1. \A i \in 1..Len(w) : w[i] # "$"
    <3>1. DOMAIN w = 1..Len(w)
      BY <1>1, LenProperties
    <3> QED
      BY <1>4, <3>1 DEF Has, ToSet
  <2>2. Env!Meaning(EnvOf(list), w) = w
    BY <1>1, <2>1, PlainWordMeant
  <2>3. token = w
    BY <1>2, <1>4
  <2> QED
    BY <2>2, <2>3 DEF w, token
<1> QED
  BY <1>3, <1>4

\* The inductive invariant of what a line means: it is one of the lines, and
\* its tokens are those of the variables as they are.
Meant == pc = "execute" => line \in Lines /\ tokens = TokenizeInput(varList, line)
MeantInv == LineInv /\ Meant

(* At first there is no line to be executed.                                *)
LEMMA MeantInit == Init => MeantInv
<1>1. Init => Meant
  BY DEF Init, Meant
<1> QED
  BY <1>1, LineInit DEF MeantInv

(* A line and its tokens are kept until it is executed.                     *)
LEMMA MeantStep == MeantInv /\ [Next]_vars => MeantInv'
<1> SUFFICES ASSUME MeantInv, [Next]_vars PROVE MeantInv'
  OBVIOUS
<1>1. LineInv'
  BY LineStep DEF MeantInv
<1>2. Meant'
  <2>1. pc' # "execute" => Meant'
    BY DEF Meant
  <2>2. CASE TypeLine
    <3>1. PICK l \in Lines : line' = l /\ tokens' = TokenizeInput(varList, l)
      BY <2>2 DEF TypeLine
    <3>2. varList' = varList
      BY <2>2 DEF TypeLine
    <3> QED
      BY <3>1, <3>2 DEF Meant
  <2>3. CASE ExitShell
    BY <2>1, <2>3 DEF ExitShell
  <2>4. CASE Assignment
    BY <2>1, <2>4 DEF Assignment
  <2>5. CASE Command
    BY <2>1, <2>5 DEF Command
  <2>6. CASE Background
    BY <2>1, <2>6 DEF Background
  <2>7. CASE Pipeline
    BY <2>1, <2>7 DEF Pipeline
  <2>8. CASE Prompt
    BY <2>1, <2>8 DEF Prompt
  <2>9. CASE UNCHANGED vars
    BY <2>9 DEF vars, Meant, MeantInv
  <2> QED
    BY <2>2, <2>3, <2>4, <2>5, <2>6, <2>7, <2>8, <2>9 DEF Next
<1> QED
  BY <1>1, <1>2 DEF MeantInv

(* So each token is the meaning of its word, or as much of it as fits.      *)
LEMMA MeantTokens == MeantInv => TokensAreMeant
<1> SUFFICES ASSUME MeantInv, pc = "execute"
             PROVE  /\ Len(tokens) = Len(line)
                    /\ \A k \in 1..Len(line) :
                         LET w == line[k]
                             meaning == Env!Meaning(EnvOf(varList), w)
                         IN \/ Last(w) # "$" /\ \E i \in 1..Len(w) - 1 : w[i] = "$" /\ w[i + 1] = "$"
                            \/ tokens[k] = meaning
                            \/ /\ Len(meaning) > MaxStr
                               /\ \E n \in MaxStr - 1 .. Len(meaning) :
                                    tokens[k] \in {SubSeq(meaning, 1, n), Append(SubSeq(meaning, 1, n), "$")}
  BY DEF TokensAreMeant
<1>1. /\ varList \in Seq(Variable) /\ Distinct(varList)
      /\ line \in Lines /\ tokens = TokenizeInput(varList, line)
  BY DEF MeantInv, LineInv, Listed, Meant
<1>2. Len(tokens) = Len(line)
  <2>1. Len(line) \in Nat
    BY <1>1, LineTyped
  <2> QED
    BY <1>1, <2>1 DEF TokenizeInput
<1>3. ASSUME NEW k \in 1..Len(line)
      PROVE  LET w == line[k]
                 meaning == Env!Meaning(EnvOf(varList), w)
             IN \/ Last(w) # "$" /\ \E i \in 1..Len(w) - 1 : w[i] = "$" /\ w[i + 1] = "$"
                \/ tokens[k] = meaning
                \/ /\ Len(meaning) > MaxStr
                   /\ \E n \in MaxStr - 1 .. Len(meaning) :
                        tokens[k] \in {SubSeq(meaning, 1, n), Append(SubSeq(meaning, 1, n), "$")}
  <2> DEFINE w == line[k]
             meaning == Env!Meaning(EnvOf(varList), w)
             doubled == w[Len(w)] # "$" /\ \E i \in 1..Len(w) - 1 : w[i] = "$" /\ w[i + 1] = "$"
  <2>1. \/ tokens[k] = meaning
        \/ doubled /\ tokens[k] = Append(meaning, "$") /\ meaning \in Seq(Char)
        \/ \E text \in Seq(Char) : CutOff(text, meaning) /\ tokens[k] \in {text, Append(text, "$")}
    BY <1>1, TokenMeans
  <2>2. doubled => Last(w) # "$" /\ \E i \in 1..Len(w) - 1 : w[i] = "$" /\ w[i + 1] = "$"
    BY DEF Last
  <2> HIDE DEF w, meaning
  <2>3. ASSUME NEW text, CutOff(text, meaning), tokens[k] \in {text, Append(text, "$")}
        PROVE  /\ Len(meaning) > MaxStr
               /\ \E n \in MaxStr - 1 .. Len(meaning) :
                    tokens[k] \in {SubSeq(meaning, 1, n), Append(SubSeq(meaning, 1, n), "$")}
    <3>1. PICK m \in (MaxStr - 1)..Len(meaning) : text = SubSeq(meaning, 1, m)
      BY <2>3 DEF CutOff
    <3>2. tokens[k] \in {SubSeq(meaning, 1, m), Append(SubSeq(meaning, 1, m), "$")}
      BY <2>3, <3>1
    <3> QED
      BY <2>3, <3>2 DEF CutOff
  <2> QED
    BY <2>1, <2>2, <2>3 DEF w, meaning
<1> QED
  BY <1>2, <1>3

(* The line that is executed has a token for each of its words: the meaning *)
(* of the word, unless it holds a doubled dollar, and when that is longer   *)
(* than a text may be, at least MaxStr - 1 characters of it. For every set  *)
(* of lines and every length of the text buffers; tokenize_input.           *)
THEOREM TokensMeanLines == Spec => []TokensAreMeant
<1> QED
  BY MeantInit, MeantStep, MeantTokens, PTL DEF Spec

(* A value holds neither a dollar nor a bar.                                *)
LEMMA ValueHolds ==
  ASSUME NEW list \in Seq(Variable), NEW name
  PROVE  /\ GetVar(list, name) \in Seq(Char)
         /\ "$" \notin ToSet(GetVar(list, name)) /\ "|" \notin ToSet(GetVar(list, name))
<1> DEFINE v == GetVar(list, name)
<1>1. v \in Seq(Final)
  BY GetVarFinal
<1> HIDE DEF v
<1>2. v \in Seq(Char)
  <2>1. Final \subseteq Char
    BY DEF Final
  <2> QED
    BY <1>1, <2>1, SeqMonotonic
<1>3. DOMAIN v = 1..Len(v) /\ \A k \in 1..Len(v) : v[k] \in Final
  BY <1>1, LenProperties, ElementOfSeq
<1>4. "$" \notin ToSet(v) /\ "|" \notin ToSet(v)
  BY <1>3 DEF ToSet, Final
<1> QED
  BY <1>2, <1>4 DEF v

(* What is behind the first dollar holds no bar.                            *)
LEMMA BarInPrefix ==
  ASSUME NEW list \in Seq(Variable), Distinct(list), NEW w \in Seq(Char), NEW q, FirstDollar(w, q),
         "|" \in ToSet(Env!Meaning(EnvOf(list), w))
  PROVE  \E p \in 1..q : Env!Meaning(EnvOf(list), w)[p] = "|"
<1> DEFINE R == MeaningRows(list, w)
           meaning == Env!Meaning(EnvOf(list), w)
           before == FlatTo(R, q)
           from == FlatFrom(R, q)
           rest == SubSeq(R, q + 1, Len(R))
<1>0. /\ Len(w) \in Nat /\ q \in Nat /\ q < Len(w) /\ q \in 0..Len(w) /\ q + 1 \in Nat \ {0}
      /\ \A k \in 1..q : w[k] # "$"
  BY LenProperties DEF FirstDollar
<1>1. R \in Seq(Seq(Char)) /\ Len(R) = Len(w) /\ meaning = FlattenSeq(R)
  BY MeaningInRows
<1>2. before = SubSeq(w, 1, q)
  BY <1>0, PrefixMeant
<1>3. /\ before \in Seq(Char) /\ from \in Seq(Char) /\ meaning = Cat(before, from)
  <2> HIDE DEF R, meaning
  <2> QED
    BY <1>0, <1>1, FlatSplits
<1>4. ASSUME NEW i \in 1..Len(w), q < i PROVE "|" \notin ToSet(R[i])
  <2>1. \/ R[i] = <<>>
        \/ R[i] = GetVar(list, PieceFrom(w, "$", i + 1))
        \/ w[i] = "$" /\ R[i] = One(w[i])
    <3>1. i = Len(w) \/ i < Len(w)
      BY <1>0
    <3> QED
      BY <1>4, <3>1, RowOfMeaning
  <2> HIDE DEF R
  <2>2. CASE R[i] = <<>>
    BY <2>2, OneElement
  <2>3. CASE R[i] = GetVar(list, PieceFrom(w, "$", i + 1))
    BY <2>3, ValueHolds
  <2>4. CASE w[i] = "$" /\ R[i] = One(w[i])
    <3>1. ToSet(R[i]) = {w[i]}
      BY <2>4, OneElement
    <3> QED
      BY <2>4, <3>1
  <2> QED
    BY <2>1, <2>2, <2>3, <2>4
<1>5. "|" \notin ToSet(from)
  <2> HIDE DEF R
  <2>1. /\ rest \in Seq(Seq(Char)) /\ Len(rest) = Len(w) - q
        /\ \A k \in 1..((Len(w) - (q + 1)) + 1) : rest[k] = R[((q + 1) + k) - 1]
    <3>1. Len(R) \in Nat /\ Len(R) <= Len(R) /\ q + 1 <= Len(R)
      BY <1>0, <1>1
    <3>2. /\ rest \in Seq(Seq(Char)) /\ Len(rest) = IF q + 1 <= Len(R) THEN (Len(R) - (q + 1)) + 1 ELSE 0
          /\ \A k \in 1..((Len(R) - (q + 1)) + 1) : rest[k] = R[((q + 1) + k) - 1]
      BY <1>0, <1>1, <3>1, PieceElements
    <3>3. (Len(R) - (q + 1)) + 1 = Len(w) - q
      BY <1>0, <1>1
    <3> HIDE DEF rest
    <3> QED
      BY <1>1, <3>1, <3>2, <3>3
  <2>2. ASSUME NEW k \in 1..Len(rest) PROVE "|" \notin ToSet(rest[k])
    <3> HIDE DEF rest
    <3>1. k \in 1..((Len(w) - (q + 1)) + 1) /\ ((q + 1) + k) - 1 \in 1..Len(w) /\ q < ((q + 1) + k) - 1
      BY <1>0, <2>1
    <3> QED
      BY <1>4, <2>1, <3>1
  <2>3. from = FlattenSeq(rest)
    BY DEF FlatFrom
  <2> HIDE DEF rest, from
  <2> QED
    BY <2>1, <2>2, <2>3, FlattenWithout
<1>6. "|" \in ToSet(before)
  <2> HIDE DEF before, from, meaning
  <2>1. ToSet(meaning) = ToSet(before) \cup ToSet(from)
    BY <1>3, CatElements
  <2> QED
    BY <1>5, <2>1 DEF meaning
<1> HIDE DEF before, from, meaning
<1>7. PICK p \in 1..Len(before) : before[p] = "|"
  BY <1>3, <1>6, LenProperties DEF ToSet
<1>8. Len(before) = q
  BY <1>0, <1>2, Cut
<1>9. meaning[p] = before[p]
  <2>1. Len(before) \in Nat /\ Len(from) \in Nat
    BY <1>3, LenProperties
  <2>2. p \in 1..(Len(before) + Len(from)) /\ p <= Len(before)
    BY <2>1
  <2> QED
    BY <1>3, <2>2, CatType
<1> QED
  BY <1>7, <1>8, <1>9 DEF meaning

(* A dollar before a dollar stands for itself.                              *)
LEMMA DoubledStays ==
  ASSUME NEW list \in Seq(Variable), Distinct(list), NEW w \in Seq(Char),
         NEW i \in 1..Len(w) - 1, w[i] = "$", w[i + 1] = "$"
  PROVE  "$" \in ToSet(Env!Meaning(EnvOf(list), w))
<1> DEFINE R == MeaningRows(list, w)
           meaning == Env!Meaning(EnvOf(list), w)
<1>1. R \in Seq(Seq(Char)) /\ Len(R) = Len(w) /\ meaning = FlattenSeq(R)
  BY MeaningInRows
<1>2. i \in 1..Len(w) /\ i \in 1..Len(R)
  <2>1. Len(w) \in Nat
    BY LenProperties
  <2> QED
    BY <1>1, <2>1
<1>3. R[i] = One(w[i])
  <2>1. R[i] = MeaningAt(list, w, i)
    BY <1>2 DEF MeaningRows
  <2> QED
    BY <2>1 DEF MeaningAt
<1> HIDE DEF R, meaning
<1>4. ToSet(R[i]) \subseteq ToSet(FlattenSeq(R))
  BY <1>1, <1>2, FlattenElements
<1>5. ToSet(R[i]) = {w[i]}
  BY <1>3, OneElement
<1> QED
  BY <1>1, <1>4, <1>5 DEF meaning

(* Where every dollar begins a name, no dollar is left.                     *)
LEMMA NamesLeaveNoDollar ==
  ASSUME NEW list \in Seq(Variable), Distinct(list), NEW w \in Seq(Char), Env!AllDollarsName(w)
  PROVE  "$" \notin ToSet(Env!Meaning(EnvOf(list), w))
<1> DEFINE R == MeaningRows(list, w)
           meaning == Env!Meaning(EnvOf(list), w)
<1>1. R \in Seq(Seq(Char)) /\ Len(R) = Len(w) /\ meaning = FlattenSeq(R)
  BY MeaningInRows
<1>2. ASSUME NEW i \in 1..Len(w) PROVE "$" \notin ToSet(R[i])
  <2>1. w[i] = "$" => i < Len(w) /\ w[i + 1] # "$"
    BY DEF Env!AllDollarsName, Env!BeginsName
  <2>2. \/ R[i] = GetVar(list, PieceFrom(w, "$", i + 1))
        \/ R[i] = <<>>
        \/ w[i] # "$" /\ R[i] = One(w[i])
    <3>1. R[i] = MeaningAt(list, w, i)
      BY DEF MeaningRows
    <3> HIDE DEF R
    <3> QED
      BY <2>1, <3>1 DEF MeaningAt
  <2> HIDE DEF R
  <2>3. CASE R[i] = GetVar(list, PieceFrom(w, "$", i + 1))
    BY <2>3, ValueHolds
  <2>4. CASE R[i] = <<>>
    BY <2>4, OneElement
  <2>5. CASE w[i] # "$" /\ R[i] = One(w[i])
    <3>1. ToSet(R[i]) = {w[i]}
      BY <2>5, OneElement
    <3> QED
      BY <2>5, <3>1
  <2> QED
    BY <2>2, <2>3, <2>4, <2>5
<1> HIDE DEF R
<1>3. "$" \notin ToSet(FlattenSeq(R))
  BY <1>1, <1>2, FlattenWithout
<1> QED
  BY <1>1, <1>3

(* A dollar behind a text is its last character.                            *)
LEMMA DollarLast ==
  ASSUME NEW s \in Seq(Char)
  PROVE  /\ Append(s, "$") \in Seq(Char) /\ Len(Append(s, "$")) = Len(s) + 1
         /\ Append(s, "$")[Len(s) + 1] = "$"
         /\ ToSet(s) \subseteq ToSet(Append(s, "$"))
<1> DEFINE d == "$"
           a == Append(s, d)
<1>1. d \in Char
  BY DEF Char
<1> HIDE DEF d
<1>2. a \in Seq(Char) /\ Len(a) = Len(s) + 1 /\ a[Len(s) + 1] = d
  BY <1>1, AppendProperties
<1>3. ToSet(s) \subseteq ToSet(a)
  <2>1. One(d) \in Seq(Char) /\ a = Cat(s, One(d))
    BY <1>1, OneType
  <2> HIDE DEF a
  <2> QED
    BY <2>1, CatElements
<1> QED
  BY <1>2, <1>3 DEF d

(* A word is no longer than a text of the shell.                            *)
LEMMA WordFits ==
  ASSUME NEW l \in Lines, NEW k \in 1..Len(l)
  PROVE  Len(l[k]) <= MaxStr
<1>1. l \in Seq(Seq(Char)) /\ Len(l) \in Nat \ {0} /\ Len(l[k]) \in Nat
  BY LineTyped
<1>2. Len(l[k]) <= Len(FlattenSeq(l)) /\ Len(FlattenSeq(l)) \in Nat
  BY <1>1, FlattenElements
<1>3. Len(FlattenSeq(l)) + Len(l) - 1 <= MaxStr
  BY LinesAssumption
<1> QED
  BY <1>1, <1>2, <1>3, StrAssumption

(* A bar in the meaning of a word is in its token: it stands in front of    *)
(* the first dollar, where nothing is cut off.                              *)
LEMMA TokenBar ==
  ASSUME NEW list \in Seq(Variable), Distinct(list), NEW l \in Lines, NEW k \in 1..Len(l),
         "|" \in ToSet(Env!Meaning(EnvOf(list), l[k]))
  PROVE  "|" \in ToSet(TokenizeInput(list, l)[k])
<1> DEFINE w == l[k]
           token == TokenizeInput(list, l)[k]
           meaning == Env!Meaning(EnvOf(list), w)
<1>1. w \in Seq(Char) /\ Len(w) \in Nat /\ Len(w) <= MaxStr
  BY LineTyped, WordFits
<1>2. \/ token = meaning
      \/ token = Append(meaning, "$") /\ meaning \in Seq(Char)
      \/ \E text \in Seq(Char) : CutOff(text, meaning) /\ token \in {text, Append(text, "$")}
  <2> HIDE DEF token, meaning
  <2> QED
    BY TokenMeans DEF token, meaning
<1>3. "|" \in ToSet(meaning)
  OBVIOUS
<1>4. ASSUME \A i \in 1..Len(w) : w[i] # "$" PROVE meaning = w
  BY <1>1, <1>4, PlainWordMeant
<1>5. ASSUME NEW q, FirstDollar(w, q) PROVE \E p \in 1..q : meaning[p] = "|"
  BY <1>1, <1>5, BarInPrefix
<1>6. Has(w, "$") \/ \A i \in 1..Len(w) : w[i] # "$"
  <2>1. DOMAIN w = 1..Len(w)
    BY <1>1, LenProperties
  <2> QED
    BY <2>1 DEF Has, ToSet
<1>7. Has(w, "$") => \E q : FirstDollar(w, q)
  BY <1>1, FirstDollarExists
<1> HIDE DEF w, token, meaning
<1>8. CASE token = meaning
  BY <1>3, <1>8 DEF token
<1>9. CASE token = Append(meaning, "$") /\ meaning \in Seq(Char)
  BY <1>3, <1>9, DollarLast DEF token
<1>10. ASSUME NEW text \in Seq(Char), CutOff(text, meaning), token \in {text, Append(text, "$")}
       PROVE  "|" \in ToSet(token)
  <2>1. PICK m \in (MaxStr - 1)..Len(meaning) : text = SubSeq(meaning, 1, m) /\ Len(meaning) > MaxStr
    BY <1>10 DEF CutOff
  <2>2. meaning # w
    BY <1>1, <2>1, StrAssumption
  <2>3. PICK q : FirstDollar(w, q)
    BY <1>4, <1>6, <1>7, <2>2
  <2>4. PICK p \in 1..q : meaning[p] = "|"
    BY <1>5, <2>3
  <2>5. m \in Nat /\ p \in 1..m /\ m <= Len(meaning)
    <3>1. p <= MaxStr - 1 /\ p \in Nat \ {0}
      BY <1>1, <2>3, <2>4, StrAssumption DEF FirstDollar
    <3> QED
      BY <2>1, <3>1, StrAssumption
  <2>6. text[p] = meaning[p] /\ Len(text) = m
    <3>1. meaning \in Seq(Char)
      <4>1. meaning = FlattenSeq(MeaningRows(list, w)) /\ MeaningRows(list, w) \in Seq(Seq(Char))
        BY <1>1, MeaningInRows DEF meaning, w
      <4> QED
        BY <4>1, FlattenAppend
    <3> QED
      BY <2>1, <2>5, <3>1, Cut
  <2>7. "|" \in ToSet(text)
    <3>1. DOMAIN text = 1..Len(text)
      BY LenProperties
    <3> QED
      BY <2>4, <2>5, <2>6, <3>1 DEF ToSet
  <2> QED
    BY <1>10, <2>7, DollarLast
<1> QED
  BY <1>2, <1>8, <1>9, <1>10 DEF token

(* A token of one character that is no dollar is the meaning of its word,   *)
(* and the other way round.                                                 *)
LEMMA ShortToken ==
  ASSUME NEW list \in Seq(Variable), Distinct(list), NEW l \in Lines, NEW k \in 1..Len(l),
         NEW c, c # "$"
  PROVE  TokenizeInput(list, l)[k] = One(c) <=> Env!Meaning(EnvOf(list), l[k]) = One(c)
<1> DEFINE w == l[k]
           token == TokenizeInput(list, l)[k]
           meaning == Env!Meaning(EnvOf(list), w)
           doubled == \E i \in 1..Len(w) - 1 : w[i] = "$" /\ w[i + 1] = "$"
<1>1. w \in Seq(Char)
  BY LineTyped
<1>2. \/ token = meaning
      \/ doubled /\ token = Append(meaning, "$") /\ meaning \in Seq(Char)
      \/ \E text \in Seq(Char) : CutOff(text, meaning) /\ token \in {text, Append(text, "$")}
  <2> HIDE DEF token, meaning
  <2> QED
    BY TokenMeans DEF token, meaning
<1>3. doubled => "$" \in ToSet(meaning)
  BY <1>1, DoubledStays
<1>4. ToSet(One(c)) = {c} /\ Len(One(c)) = 1 /\ One(c)[1] = c
  <2>1. c \in {c}
    OBVIOUS
  <2> QED
    BY <2>1, OneElement, OneType
<1>5. meaning \in Seq(Char) /\ Len(meaning) \in Nat
  <2>1. meaning = FlattenSeq(MeaningRows(list, w)) /\ MeaningRows(list, w) \in Seq(Seq(Char))
    BY <1>1, MeaningInRows
  <2>2. FlattenSeq(MeaningRows(list, w)) \in Seq(Char)
    BY <2>1, FlattenAppend
  <2> HIDE DEF meaning
  <2> QED
    BY <2>1, <2>2, LenProperties
<1> HIDE DEF w, token, meaning
<1>6. CASE token = meaning
  BY <1>6 DEF token, meaning, w
<1>7. CASE doubled /\ token = Append(meaning, "$")
  <2>1. meaning # One(c)
    BY <1>3, <1>4, <1>7
  <2>2. token # One(c)
    <3>1. Len(token) = Len(meaning) + 1 /\ token[Len(meaning) + 1] = "$"
      BY <1>5, <1>7, DollarLast
    <3>2. Len(meaning) = 0 => token[1] = "$"
      BY <3>1
    <3> QED
      BY <1>4, <1>5, <3>1, <3>2
  <2> QED
    BY <2>1, <2>2 DEF token, meaning, w
<1>8. ASSUME NEW text \in Seq(Char), CutOff(text, meaning), token \in {text, Append(text, "$")}
      PROVE  token # One(c) /\ meaning # One(c)
  <2>1. PICK m \in (MaxStr - 1)..Len(meaning) : text = SubSeq(meaning, 1, m) /\ Len(meaning) > MaxStr
    BY <1>8 DEF CutOff
  <2>2. meaning # One(c)
    BY <1>4, <2>1, StrAssumption
  <2>3. m \in Nat /\ m <= Len(meaning) /\ m > 1
    BY <1>5, <2>1, StrAssumption
  <2>4. Len(text) = m
    BY <1>5, <2>1, <2>3, Cut
  <2>5. Len(token) = m \/ Len(token) = m + 1
    BY <1>8, <2>4, DollarLast
  <2>6. Len(token) # 1
    <3>1. \A n : n = m \/ n = m + 1 => n # 1
      BY <2>3
    <3> QED
      BY <2>5, <3>1
  <2> QED
    BY <1>4, <2>2, <2>6
<1> QED
  BY <1>2, <1>6, <1>7, <1>8 DEF token, meaning, w

(* The token of a word whose meaning is certain.                            *)
LEMMA PlainToken ==
  ASSUME NEW list \in Seq(Variable), Distinct(list), NEW l \in Lines, NEW k \in 1..Len(l),
         Env!AllDollarsName(l[k]), Env!Fits(EnvOf(list), l[k])
  PROVE  /\ TokenizeInput(list, l)[k] = Env!Meaning(EnvOf(list), l[k])
         /\ "$" \notin ToSet(TokenizeInput(list, l)[k])
         /\ TokenizeInput(list, l)[k] \in Seq(Char)
<1> DEFINE w == l[k]
           token == TokenizeInput(list, l)[k]
           meaning == Env!Meaning(EnvOf(list), w)
           doubled == \E i \in 1..Len(w) - 1 : w[i] = "$" /\ w[i + 1] = "$"
<1>1. w \in Seq(Char) /\ Len(w) \in Nat
  BY LineTyped
<1>2. \/ token = meaning
      \/ doubled
      \/ \E text \in Seq(Char) : CutOff(text, meaning) /\ token \in {text, Append(text, "$")}
  <2> HIDE DEF token, meaning
  <2> QED
    BY TokenMeans DEF token, meaning
<1>3. ~doubled
  <2>1. \A i \in 1..Len(w) - 1 : i \in 1..Len(w)
    BY <1>1
  <2> QED
    BY <2>1 DEF Env!AllDollarsName, Env!BeginsName
<1>4. "$" \notin ToSet(meaning)
  BY <1>1, NamesLeaveNoDollar
<1>5. meaning \in Seq(Char) /\ Len(meaning) \in Nat
  <2>1. meaning = FlattenSeq(MeaningRows(list, w)) /\ MeaningRows(list, w) \in Seq(Seq(Char))
    BY <1>1, MeaningInRows
  <2>2. FlattenSeq(MeaningRows(list, w)) \in Seq(Char)
    BY <2>1, FlattenAppend
  <2> HIDE DEF meaning
  <2> QED
    BY <2>1, <2>2, LenProperties
<1>6. Len(meaning) <= MaxStr
  BY DEF Env!Fits
<1> HIDE DEF token, meaning, doubled
<1>7. \A text : ~CutOff(text, meaning)
  BY <1>5, <1>6, StrAssumption DEF CutOff
<1> QED
  BY <1>2, <1>3, <1>4, <1>5, <1>7 DEF token, meaning

(* The first piece of a text that does not begin with d.                    *)
LEMMA FirstPieceIs ==
  ASSUME NEW S, NEW s \in Seq(S), NEW d, NEW e \in 1..Len(s),
         \A k \in 1..e : s[k] # d, e < Len(s) => s[e + 1] = d
  PROVE  Pieces(s, d)[1] = SubSeq(s, 1, e)
<1> DEFINE P == PieceRows(s, d)
           h == PieceFrom(s, d, 1)
           t == FlatFrom(P, 1)
<1>0. Len(s) \in Nat /\ 1 \in 1..Len(s) /\ 1 \in 1..e /\ s[1] # d
  BY LenProperties
<1>1. /\ P \in Seq(Seq(Seq(S))) /\ Len(P) = Len(s) /\ Pieces(s, d) = FlattenSeq(P)
  BY PiecesInRows
<1>2. h = SubSeq(s, 1, e)
  BY <1>0, PieceEnds
<1>3. h \in Seq(S) /\ P[1] = One(h)
  <2>1. h \in Seq(S)
    BY <1>0, PieceFromType
  <2>2. P[1] = PieceRow(s, d, 1)
    BY <1>0 DEF PieceRows
  <2> QED
    BY <1>0, <2>1, <2>2 DEF PieceRow
<1>4. FlattenSeq(P) = Cat(P[1], t) /\ t \in Seq(Seq(S))
  <2> HIDE DEF P
  <2>1. 1 \in 1..Len(P) /\ 1 - 1 = 0
    BY <1>0, <1>1
  <2>2. FlatFrom(P, 1 - 1) = Cat(P[1], FlatFrom(P, 1)) /\ FlatFrom(P, 1) \in Seq(Seq(S))
    BY <1>1, <2>1, FlatStep
  <2>3. FlatFrom(P, 0) = FlattenSeq(P)
    BY <1>1, FlatEnds
  <2> QED
    BY <2>1, <2>2, <2>3
<1> HIDE DEF P, h, t
<1>5. Cat(One(h), t)[1] = h
  BY <1>3, <1>4, FrontAndRest
<1> QED
  BY <1>1, <1>2, <1>3, <1>4, <1>5

(* v is what is behind the first e characters of w.                         *)
Behind(v, w, e) == Len(v) = Len(w) - e /\ \A k \in 1..Len(v) : v[k] = w[e + k]

(* Its pieces are pieces of the word.                                       *)
SamePieces(v, w, e, d) ==
    \A c \in 1..Len(v) : v[c] # d => PieceFrom(w, d, e + c) = PieceFrom(v, d, c)

(* A piece that begins behind the first e characters ends there too.        *)
LEMMA PieceBehind ==
  ASSUME NEW S, NEW w \in Seq(S), NEW v \in Seq(S), NEW d, NEW e \in Nat, e <= Len(w), Behind(v, w, e)
  PROVE  SamePieces(v, w, e, d)
<1> SUFFICES ASSUME NEW c \in 1..Len(v), v[c] # d
             PROVE  PieceFrom(w, d, e + c) = PieceFrom(v, d, c)
  BY DEF SamePieces
<1> DEFINE b == e + c
<1>0. Len(w) \in Nat /\ Len(v) \in Nat /\ c \in Nat \ {0} /\ b \in Nat \ {0} /\ b \in 1..Len(w)
  BY LenProperties DEF Behind
<1>1. PICK a \in c..Len(v) : (\A k \in c..a : v[k] # d) /\ (a < Len(v) => v[a + 1] = d)
  BY PieceHasEnd
<1>2. PieceFrom(v, d, c) = SubSeq(v, c, a)
  BY <1>1, PieceEnds
<1> DEFINE g == e + a
<1>3. /\ g \in b..Len(w) /\ (g < Len(w) => a < Len(v)) /\ a \in Nat /\ g \in Nat /\ a <= Len(v)
      /\ g <= Len(w) /\ c <= a /\ b <= g /\ (g - b) + 1 = (a - c) + 1 /\ (a - c) + 1 \in Nat
  BY <1>0 DEF Behind
<1>4. ASSUME NEW k \in b..g PROVE w[k] # d
  <2>1. k - e \in c..a /\ k - e \in 1..Len(v) /\ e + (k - e) = k
    BY <1>0, <1>3
  <2> QED
    BY <1>1, <2>1 DEF Behind
<1>5. g < Len(w) => w[g + 1] = d
  <2> SUFFICES ASSUME g < Len(w) PROVE w[g + 1] = d
    OBVIOUS
  <2>1. a < Len(v) /\ a + 1 \in 1..Len(v) /\ e + (a + 1) = g + 1
    BY <1>0, <1>3
  <2>2. v[a + 1] = d /\ v[a + 1] = w[e + (a + 1)]
    BY <1>1, <2>1 DEF Behind
  <2> QED
    BY <2>1, <2>2
<1> HIDE DEF g
<1>6. PieceFrom(w, d, b) = SubSeq(w, b, g)
  BY <1>0, <1>3, <1>4, <1>5, PieceEnds
<1> DEFINE x == SubSeq(w, b, g)
           y == SubSeq(v, c, a)
<1>7. /\ x \in Seq(S) /\ Len(x) = (g - b) + 1
      /\ \A k \in 1..((g - b) + 1) : x[k] = w[(b + k) - 1]
  BY <1>0, <1>3, PieceElements
<1>8. y \in Seq(S) /\ Len(y) = (a - c) + 1 /\ \A k \in 1..((a - c) + 1) : y[k] = v[(c + k) - 1]
  BY <1>0, <1>3, PieceElements
<1>9. ASSUME NEW k \in 1..((a - c) + 1) PROVE x[k] = y[k]
  <2>1. (c + k) - 1 \in 1..Len(v) /\ e + ((c + k) - 1) = (b + k) - 1
    BY <1>0, <1>3
  <2>2. v[(c + k) - 1] = w[(b + k) - 1]
    BY <2>1 DEF Behind
  <2>3. x[k] = w[(b + k) - 1] /\ y[k] = v[(c + k) - 1]
    <3> HIDE DEF x, y
    <3> QED
      BY <1>3, <1>7, <1>8
  <2> QED
    BY <2>2, <2>3
<1> HIDE DEF x, y
<1>10. x = y
  <2>1. Len(x) = Len(y)
    BY <1>3, <1>7, <1>8
  <2>2. \A k \in 1..Len(x) : x[k] = y[k]
    BY <1>3, <1>7, <1>9
  <2> QED
    BY <1>7, <1>8, <2>1, <2>2, SeqEqual
<1> QED
  BY <1>2, <1>6, <1>10 DEF x, y

(* The meaning of what is behind a part of a word without dollars.          *)
NoDollarTo(w, e) == \A k \in 1..e : w[k] # "$"

(* That part stands for itself, and the rest for what it means alone.       *)
LEMMA MeaningBehind ==
  ASSUME NEW list \in Seq(Variable), Distinct(list), NEW w \in Seq(Char),
         NEW e \in 0..Len(w), NoDollarTo(w, e)
  PROVE  Env!Meaning(EnvOf(list), w)
            = Cat(SubSeq(w, 1, e), Env!Meaning(EnvOf(list), SubSeq(w, e + 1, Len(w))))
<1> DEFINE v == SubSeq(w, e + 1, Len(w))
           R == MeaningRows(list, w)
           Q == MeaningRows(list, v)
           rest == SubSeq(R, e + 1, Len(R))
           m == Len(w) - e
<1>0. Len(w) \in Nat /\ e \in Nat /\ e <= Len(w) /\ e + 1 \in Nat \ {0} /\ m \in Nat
  BY LenProperties
<1>1. R \in Seq(Seq(Char)) /\ Len(R) = Len(w) /\ Env!Meaning(EnvOf(list), w) = FlattenSeq(R)
  BY MeaningInRows
<1>2. v \in Seq(Char) /\ Len(v) = m /\ \A i \in 1..m : v[i] = w[e + i]
  <2>1. v \in Seq(Char) /\ Len(v) = Len(w) - e
    BY <1>0, Cut
  <2>2. \A i \in 1..((Len(w) - (e + 1)) + 1) : v[i] = w[((e + 1) + i) - 1]
    <3>1. Len(w) <= Len(w)
      BY <1>0
    <3> QED
      BY <1>0, <3>1, PieceElements
  <2>3. ASSUME NEW i \in 1..m PROVE i \in 1..((Len(w) - (e + 1)) + 1) /\ ((e + 1) + i) - 1 = e + i
    BY <1>0
  <2> HIDE DEF v
  <2> QED
    BY <2>1, <2>2, <2>3
<1>3. Q \in Seq(Seq(Char)) /\ Len(Q) = m /\ Env!Meaning(EnvOf(list), v) = FlattenSeq(Q)
  <2> HIDE DEF v
  <2> QED
    BY <1>2, MeaningInRows
<1>4. rest \in Seq(Seq(Char)) /\ Len(rest) = m /\ \A i \in 1..m : rest[i] = R[e + i]
  <2> HIDE DEF R
  <2>1. rest \in Seq(Seq(Char)) /\ Len(rest) = Len(R) - e
    BY <1>0, <1>1, Cut
  <2>2. \A i \in 1..((Len(R) - (e + 1)) + 1) : rest[i] = R[((e + 1) + i) - 1]
    <3>1. Len(R) <= Len(R) /\ Len(R) \in Nat
      BY <1>0, <1>1
    <3> QED
      BY <1>0, <1>1, <3>1, PieceElements
  <2>3. ASSUME NEW i \in 1..m PROVE i \in 1..((Len(R) - (e + 1)) + 1) /\ ((e + 1) + i) - 1 = e + i
    BY <1>0, <1>1
  <2> HIDE DEF rest
  <2> QED
    BY <1>1, <2>1, <2>2, <2>3
<1> HIDE DEF v
<1>5. SamePieces(v, w, e, "$")
  <2> DEFINE d == "$"
  <2>1. Behind(v, w, e)
    BY <1>2 DEF Behind
  <2>2. v \in Seq(Char) /\ e \in Nat /\ e <= Len(w) /\ w \in Seq(Char)
    BY <1>0, <1>2
  <2> HIDE DEF d
  <2>3. SamePieces(v, w, e, d)
    BY <2>1, <2>2, PieceBehind
  <2> QED
    BY <2>3 DEF d
<1>6. ASSUME NEW i \in 1..m PROVE R[e + i] = Q[i]
  <2>0. e + i \in 1..Len(w) /\ i \in 1..Len(v) /\ (e + i < Len(w) <=> i < Len(v))
    BY <1>0, <1>2
  <2>1. R[e + i] = MeaningAt(list, w, e + i) /\ Q[i] = MeaningAt(list, v, i)
    BY <2>0 DEF MeaningRows
  <2>2. v[i] = w[e + i] /\ (i < Len(v) => v[i + 1] = w[(e + i) + 1])
    <3>1. i < Len(v) => i + 1 \in 1..m /\ e + (i + 1) = (e + i) + 1
      BY <1>0, <1>2
    <3> QED
      BY <1>2, <3>1
  <2>3. (\E k \in 1..(e + i) : w[k] = "$") <=> (\E k \in 1..i : v[k] = "$")
    <3>1. ASSUME NEW k \in 1..(e + i), w[k] = "$" PROVE \E j \in 1..i : v[j] = "$"
      <4>1. ~(k \in 1..e)
        BY <3>1 DEF NoDollarTo
      <4>2. k - e \in 1..i /\ k - e \in 1..m /\ e + (k - e) = k
        BY <1>0, <4>1
      <4> QED
        BY <1>2, <3>1, <4>2
    <3>2. ASSUME NEW k \in 1..i, v[k] = "$" PROVE \E j \in 1..(e + i) : w[j] = "$"
      <4>1. e + k \in 1..(e + i) /\ k \in 1..m
        BY <1>0
      <4> QED
        BY <1>2, <3>2, <4>1
    <3> QED
      BY <3>1, <3>2
  <2>4. ASSUME i < Len(v), v[i + 1] # "$"
        PROVE  PieceFrom(w, "$", (e + i) + 1) = PieceFrom(v, "$", i + 1)
    <3>1. i + 1 \in 1..Len(v) /\ e + (i + 1) = (e + i) + 1
      BY <1>0, <1>2, <2>4
    <3> QED
      BY <1>5, <2>4, <3>1 DEF SamePieces
  <2> HIDE DEF R, Q
  <2>5. One(w[e + i]) = One(v[i])
    BY <2>2
  <2>6. MeaningAt(list, w, e + i) = MeaningAt(list, v, i)
    <3>1. CASE v[i] = "$" /\ i < Len(v) /\ v[i + 1] # "$"
      BY <2>0, <2>2, <2>4, <3>1 DEF MeaningAt
    <3>2. CASE ~(v[i] = "$" /\ i < Len(v) /\ v[i + 1] # "$")
      <4>1. ~(w[e + i] = "$" /\ e + i < Len(w) /\ w[(e + i) + 1] # "$")
        BY <2>0, <2>2, <3>2
      <4> QED
        BY <2>2, <2>3, <2>5, <3>2, <4>1 DEF MeaningAt
    <3> QED
      BY <3>1, <3>2
  <2> QED
    BY <2>1, <2>6
<1> HIDE DEF Q
<1>7. rest = Q
  <2> HIDE DEF rest, R, m
  <2>1. \A i \in 1..m : rest[i] = Q[i]
    BY <1>4, <1>6
  <2> QED
    BY <1>3, <1>4, <2>1, SeqEqual
<1>8. FlatTo(R, e) = SubSeq(w, 1, e)
  BY PrefixMeant DEF NoDollarTo
<1>9. FlattenSeq(R) = Cat(FlatTo(R, e), FlatFrom(R, e))
  <2> HIDE DEF R
  <2> QED
    BY <1>0, <1>1, FlatSplits
<1>10. FlatFrom(R, e) = FlattenSeq(rest)
  BY DEF FlatFrom
<1> QED
  BY <1>1, <1>3, <1>7, <1>8, <1>9, <1>10 DEF v

(* No variables are the function from no names.                             *)
LEMMA EnvOfNone == EnvOf(<<>>) = <<>>
<1> DEFINE f == [n \in {} |-> (CHOOSE v \in ToSet(<<>>) : v.name = n).value]
<1>1. Len(<<>>) = 0 /\ <<>> \in Seq({})
  BY EmptySeq
<1>2. 1..0 = {}
  OBVIOUS
<1>3. EnvOf(<<>>) = f
  <2>1. {<<>>[i].name : i \in 1..Len(<<>>)} = {}
    BY <1>1, <1>2
  <2> QED
    BY <2>1 DEF EnvOf
<1>4. f \in Seq({}) /\ Len(f) = 0
  <2> DEFINE value(n) == (CHOOSE v \in ToSet(<<>>) : v.name = n).value
  <2>1. f \in [1..0 -> {}]
    <3> HIDE DEF value
    <3>1. [n \in {} |-> value(n)] \in [{} -> {}]
      OBVIOUS
    <3> QED
      BY <1>2, <3>1 DEF value
  <2>2. DOMAIN f = 1..0
    BY <1>2
  <2> HIDE DEF f
  <2>3. f \in Seq({})
    BY <2>1, SeqDef
  <2>4. Len(f) \in Nat /\ DOMAIN f = 1..Len(f)
    BY <2>3, LenProperties
  <2>5. Len(f) = 0
    <3>1. \A n \in Nat : 1..n = {} => n = 0
      <4> SUFFICES ASSUME NEW n \in Nat, n # 0 PROVE 1..n # {}
        OBVIOUS
      <4>1. 1 \in 1..n
        OBVIOUS
      <4> QED
        BY <4>1
    <3> QED
      BY <1>2, <2>2, <2>4, <3>1
  <2> QED
    BY <2>3, <2>5
<1> HIDE DEF f
<1> QED
  BY <1>3, <1>4, EmptySeq

(* The list stands for a function, and updateVar for a change of it.        *)
LEMMA EnvOfUpdate ==
  ASSUME NEW list \in Seq(Variable), Distinct(list),
         NEW name \in Seq(Named) \ {<<>>}, NEW value \in Seq(Unbarred)
  PROVE  EnvOf(UpdateVar(list, name, value)) = Env!With(EnvOf(list), name, Stored(list, value))
<1> DEFINE u == UpdateVar(list, name, value)
           i == EntryOf(list, name)
           val == Stored(list, value)
           new == [name |-> name, value |-> val]
           names(l) == {l[k].name : k \in 1..Len(l)}
           at(l, n) == (CHOOSE v \in ToSet(l) : v.name = n).value
<1>1. u \in Seq(Variable) /\ Distinct(u) /\ Len(u) \in Nat
  <2>1. u \in Seq(Variable) /\ Distinct(u)
    BY UpdateKeepsList
  <2> HIDE DEF u
  <2> QED
    BY <2>1, LenProperties
<1>2. Len(list) \in Nat
  BY LenProperties
<1>3. ASSUME NEW l \in Seq(Variable), Distinct(l), NEW k \in 1..Len(l)
      PROVE  at(l, l[k].name) = l[k].value
  <2>1. DOMAIN l = 1..Len(l)
    BY <1>3, LenProperties
  <2>2. l[k] \in ToSet(l)
    BY <2>1 DEF ToSet
  <2>3. \A v \in ToSet(l) : v.name = l[k].name => v = l[k]
    BY <1>3, <2>1 DEF ToSet, Distinct
  <2>4. (CHOOSE v \in ToSet(l) : v.name = l[k].name) = l[k]
    BY <2>2, <2>3
  <2> QED
    BY <2>4
<1>4. /\ names(u) = names(list) \cup {name}
      /\ \E k \in 1..Len(u) : u[k].name = name /\ u[k].value = val
      /\ \A j \in 1..Len(list) : list[j].name # name => \E k \in 1..Len(u) : u[k] = list[j]
  <2>1. CASE i = 0
    <3> HIDE DEF val
    <3> DEFINE o == One(new)
    <3>1. u = Cat(o, list)
      BY <2>1 DEF UpdateVar, Cat, One, val
    <3>2. o \in Seq({new} \cup Variable) /\ list \in Seq({new} \cup Variable) /\ Len(o) = 1 /\ o[1] = new
      <4> HIDE DEF new
      <4>1. new \in {new} \cup Variable /\ Variable \subseteq {new} \cup Variable
        OBVIOUS
      <4> QED
        BY <4>1, OneType, SeqMonotonic
    <3>3. new.name = name /\ new.value = val
      OBVIOUS
    <3> HIDE DEF o, new, u
    <3>4. /\ Len(u) = 1 + Len(list)
          /\ \A k \in 1..(1 + Len(list)) : u[k] = IF k <= 1 THEN o[k] ELSE list[k - 1]
      <4>1. /\ Len(Cat(o, list)) = Len(o) + Len(list)
            /\ \A k \in 1..(Len(o) + Len(list)) :
                  Cat(o, list)[k] = IF k <= Len(o) THEN o[k] ELSE list[k - Len(o)]
        <5> DEFINE T == {new} \cup Variable
        <5>1. o \in Seq(T) /\ list \in Seq(T)
          BY <3>2
        <5> HIDE DEF T
        <5> QED
          BY <5>1, CatType
      <4> QED
        BY <3>1, <3>2, <4>1
    <3>5. 1 \in 1..Len(u) /\ u[1] = new
      <4>1. 1 \in 1..(1 + Len(list)) /\ 1 <= 1
        BY <1>2
      <4> QED
        BY <3>2, <3>4, <4>1
    <3>6. ASSUME NEW j \in 1..Len(list) PROVE j + 1 \in 1..Len(u) /\ u[j + 1] = list[j]
      <4>1. j + 1 \in 1..(1 + Len(list)) /\ ~(j + 1 <= 1) /\ (j + 1) - 1 = j
        BY <1>2
      <4> QED
        BY <3>4, <4>1
    <3>7. ASSUME NEW k \in 1..Len(u) PROVE u[k].name \in names(list) \cup {name}
      <4>1. CASE k = 1
        BY <3>3, <3>5, <4>1
      <4>2. CASE k # 1
        <5>1. k - 1 \in 1..Len(list) /\ (k - 1) + 1 = k
          BY <1>2, <3>4, <4>2
        <5>2. u[k] = list[k - 1]
          BY <3>6, <5>1
        <5> QED
          BY <5>1, <5>2
      <4> QED
        BY <4>1, <4>2
    <3>8. name \in names(u) /\ \A j \in 1..Len(list) : list[j].name \in names(u)
      <4>1. \A j \in 1..Len(list) : u[j + 1].name = list[j].name
        BY <3>6
      <4>2. u[1].name = name
        BY <3>3, <3>5
      <4> QED
        BY <3>5, <3>6, <4>1, <4>2
    <3>9. names(u) = names(list) \cup {name}
      BY <3>7, <3>8
    <3> QED
      BY <3>3, <3>5, <3>6, <3>9
  <2>2. CASE i # 0
    <3>1. i \in 1..Len(list) /\ list[i].name = name
      BY <2>2, EntryFound
    <3> DEFINE r == [list[i] EXCEPT !.value = val]
    <3>2. u = [list EXCEPT ![i] = r]
      BY <2>2 DEF UpdateVar
    <3>3. r.name = name /\ r.value = val
      <4>1. list[i] \in Variable
        BY <3>1, ElementOfSeq
      <4>2. "name" \in DOMAIN list[i] /\ "value" \in DOMAIN list[i]
        BY <4>1 DEF Variable
      <4> HIDE DEF val
      <4> QED
        BY <3>1, <4>2
    <3>4. DOMAIN list = 1..Len(list) /\ DOMAIN u = 1..Len(u)
      <4> HIDE DEF u
      <4> QED
        BY <1>1, LenProperties
    <3>5. \A k \in 1..Len(list) : u[k] = IF k = i THEN r ELSE list[k]
      <4> HIDE DEF r, i
      <4> QED
        BY <3>1, <3>2, <3>4
    <3>6. Len(u) = Len(list)
      <4>1. DOMAIN u = DOMAIN list
        <5> HIDE DEF r, i
        <5> QED
          BY <3>2
      <4>2. Len(u) \in Nat
        <5> HIDE DEF u
        <5> QED
          BY <1>1, LenProperties
      <4>3. 1..Len(u) = 1..Len(list)
        BY <3>4, <4>1
      <4>4. ASSUME NEW m \in Nat, NEW n \in Nat, 1..m = 1..n PROVE m = n
        <5>1. \A x \in Int : (1 <= x /\ x <= m) <=> (1 <= x /\ x <= n)
          BY <4>4
        <5>2. m > 0 => m <= n
          BY <5>1
        <5>3. n > 0 => n <= m
          BY <5>1
        <5> QED
          BY <5>2, <5>3
      <4> HIDE DEF u
      <4> QED
        BY <1>2, <4>2, <4>3, <4>4
    <3> HIDE DEF u, r, i, val
    <3>7. \A k \in 1..Len(list) : u[k].name = list[k].name
      BY <3>1, <3>3, <3>5
    <3>8. names(u) = names(list)
      BY <3>6, <3>7
    <3>9. name \in names(list)
      BY <3>1
    <3>10. names(u) = names(list) \cup {name}
      BY <3>8, <3>9
    <3>11. \A j \in 1..Len(list) : list[j].name # name => u[j] = list[j]
      BY <3>1, <3>5
    <3>12. u[i].name = name /\ u[i].value = val
      BY <3>1, <3>3, <3>5
    <3> QED
      BY <3>1, <3>6, <3>10, <3>11, <3>12
  <2> QED
    BY <2>1, <2>2
<1>5. EnvOf(u) = [n \in names(u) |-> at(u, n)] /\ EnvOf(list) = [n \in names(list) |-> at(list, n)]
  BY DEF EnvOf
<1>6. Env!With(EnvOf(list), name, val)
        = [n \in names(list) \cup {name} |-> IF n = name THEN val ELSE EnvOf(list)[n]]
  <2>1. DOMAIN EnvOf(list) = names(list)
    <3> HIDE DEF at, names
    <3> QED
      BY <1>5
  <2> HIDE DEF val, names
  <2> QED
    BY <2>1 DEF Env!With
<1> HIDE DEF u, val
<1>7. ASSUME NEW n \in names(list) \cup {name}
      PROVE  at(u, n) = IF n = name THEN val ELSE EnvOf(list)[n]
  <2>1. CASE n = name
    <3>1. PICK k \in 1..Len(u) : u[k].name = name /\ u[k].value = val
      BY <1>4
    <3>2. at(u, u[k].name) = u[k].value
      BY <1>1, <1>3
    <3> HIDE DEF at
    <3> QED
      BY <2>1, <3>1, <3>2
  <2>2. CASE n # name
    <3>1. PICK j \in 1..Len(list) : list[j].name = n
      BY <2>2
    <3>2. PICK k \in 1..Len(u) : u[k] = list[j]
      BY <1>4, <2>2, <3>1
    <3>3. at(u, u[k].name) = u[k].value /\ at(list, list[j].name) = list[j].value
      BY <1>1, <1>3
    <3>4. n \in names(list)
      BY <3>1
    <3> HIDE DEF at, names
    <3>5. EnvOf(list)[n] = at(list, n)
      BY <1>5, <3>4
    <3> QED
      BY <2>2, <3>1, <3>2, <3>3, <3>5
  <2> QED
    BY <2>1, <2>2
<1> HIDE DEF at, names
<1> QED
  BY <1>4, <1>5, <1>6, <1>7 DEF u, val

(* A line without bars has none in any of its words.                        *)
LEMMA NoBars ==
  ASSUME NEW toks \in Seq(Seq(Char))
  PROVE  PipeCount(toks) = 0 <=> \A k \in 1..Len(toks) : "|" \notin ToSet(toks[k])
<1> DEFINE flat == FlattenSeq(toks)
           b == "|"
<1>1. flat \in Seq(Char)
  BY FlattenAppend
<1>2. PipeCount(toks) = Cardinality(Places(flat, b))
  BY DEF PipeCount, Count, Places
<1>3. ASSUME NEW k \in 1..Len(toks) PROVE ToSet(toks[k]) \subseteq ToSet(flat)
  BY FlattenElements
<1>4. (\A k \in 1..Len(toks) : b \notin ToSet(toks[k])) => b \notin ToSet(flat)
  BY FlattenWithout
<1> HIDE DEF flat, b
<1>5. Cardinality(Places(flat, b)) = 0 <=> \A i \in 1..Len(flat) : flat[i] # b
  BY <1>1, PlacesFinite
<1>6. b \in ToSet(flat) <=> \E i \in 1..Len(flat) : flat[i] = b
  <2>1. DOMAIN flat = 1..Len(flat)
    BY <1>1, LenProperties
  <2> QED
    BY <2>1 DEF ToSet
<1>7. PipeCount(toks) = 0 <=> \A k \in 1..Len(toks) : b \notin ToSet(toks[k])
  BY <1>2, <1>3, <1>4, <1>5, <1>6
<1> QED
  BY <1>7 DEF b

(* The words of a line and its tokens, one for one.                         *)
LEMMA LineAsMeant ==
  ASSUME MeantInv, pc = "execute"
  PROVE  /\ varList \in Seq(Variable) /\ Distinct(varList)
         /\ line \in Lines /\ tokens = TokenizeInput(varList, line)
         /\ tokens \in Seq(Seq(Char)) /\ Len(tokens) = Len(line) /\ Len(line) \in Nat \ {0}
<1>1. /\ varList \in Seq(Variable) /\ Distinct(varList)
      /\ line \in Lines /\ tokens = TokenizeInput(varList, line) /\ tokens \in Seq(Seq(Char))
  BY DEF MeantInv, LineInv, Listed, Typed, Meant
<1>2. Len(line) \in Nat \ {0}
  BY <1>1, LineTyped
<1>3. Len(tokens) = Len(line)
  BY <1>1, <1>2 DEF TokenizeInput
<1> QED
  BY <1>1, <1>2, <1>3

(* What is not cut at a bar and not run in the background is, in terms of   *)
(* the meaning of its words, run by the shell itself.                       *)
LEMMA ForegroundIsHere ==
  ASSUME MeantInv, Foreground
  PROVE  ~Env!RunsElsewhere(EnvOf(varList), line)
<1>0. pc = "execute"
  BY DEF Foreground
<1>1. /\ varList \in Seq(Variable) /\ Distinct(varList)
      /\ line \in Lines /\ tokens = TokenizeInput(varList, line)
      /\ tokens \in Seq(Seq(Char)) /\ Len(tokens) = Len(line) /\ Len(line) \in Nat \ {0}
  BY <1>0, LineAsMeant
<1>2. ASSUME NEW k \in 1..Len(line) PROVE "|" \notin Env!ToSet(Env!Meaning(EnvOf(varList), line[k]))
  <2>1. PipeCount(tokens) = 0
    BY DEF Foreground, Words
  <2>2. "|" \notin ToSet(tokens[k])
    BY <1>1, <2>1, NoBars
  <2>3. "|" \notin ToSet(Env!Meaning(EnvOf(varList), line[k]))
    BY <1>1, <2>2, TokenBar
  <2> QED
    BY <2>3 DEF ToSet, Env!ToSet
<1>3. Env!Meaning(EnvOf(varList), line[Len(line)]) # <<"&">>
  <2> DEFINE c == "&"
  <2>1. c # "$" /\ Len(line) \in 1..Len(line)
    BY <1>1
  <2>2. tokens[Len(line)] # One(c)
    BY <1>1 DEF Foreground, InBackground, Last, One
  <2> HIDE DEF c
  <2>3. Env!Meaning(EnvOf(varList), line[Len(line)]) # One(c)
    BY <1>1, <2>1, <2>2, ShortToken
  <2> QED
    BY <2>3 DEF One, c
<1> QED
  BY <1>2, <1>3 DEF Env!RunsElsewhere

(* An assignment whose meaning is certain: its first "=" is where its name  *)
(* ends, in the word and in what the word means.                            *)
LEMMA AssignmentMeans ==
  ASSUME NEW list \in Seq(Variable), Distinct(list), NEW w \in Seq(Char), Env!IsAssignment(w),
         "$" \notin ToSet(Env!Meaning(EnvOf(list), w))
  PROVE  LET cmd == Env!Meaning(EnvOf(list), w)
         IN /\ Assigns(cmd) /\ cmd # <<"exit">>
            /\ ~ \A i \in 1..Len(cmd) : cmd[i] = "="
            /\ AssignedName(cmd) = Env!Name(w)
            /\ AssignedValue(cmd) = Env!Meaning(EnvOf(list), Env!Value(w))
            /\ ~Has(AssignedValue(cmd), "$")
<1> DEFINE d == "="
           cmd == Env!Meaning(EnvOf(list), w)
<1>0. Len(w) \in Nat
  BY LenProperties
<1>1. PICK i \in 2..Len(w) : w[i] = d /\ ToSet(SubSeq(w, 1, i - 1)) \cap {d, "$"} = {}
  BY DEF Env!IsAssignment, Env!ToSet, ToSet
<1> DEFINE e == i - 1
           p == SubSeq(w, 1, i)
           v == SubSeq(w, i + 1, Len(w))
           x == Env!Meaning(EnvOf(list), v)
<1>2. /\ i \in Nat /\ i <= Len(w) /\ e \in Nat \ {0} /\ e + 1 = i /\ e <= Len(w) /\ 1 \in 1..e
      /\ i \in 0..Len(w) /\ e \in 0..i
  BY <1>0
<1>3. \A k \in 1..e : w[k] # d /\ w[k] # "$"
  <2>1. ToSet(SubSeq(w, 1, e)) = {w[k] : k \in 1..e}
    BY <1>2, PieceElements
  <2>2. ToSet(SubSeq(w, 1, e)) \cap {d, "$"} = {}
    BY <1>1
  <2> SUFFICES ASSUME NEW k \in 1..e PROVE w[k] # d /\ w[k] # "$"
    OBVIOUS
  <2>3. w[k] \in ToSet(SubSeq(w, 1, e))
    BY <2>1
  <2> HIDE DEF d, e
  <2> QED
    BY <2>2, <2>3
<1>4. Env!EqualsAt(w) = i
  <2> DEFINE T == {j \in 1..Len(w) : w[j] = d}
  <2>1. T \in SUBSET Nat /\ i \in T
    BY <1>0, <1>1
  <2>2. \A j \in T : i <= j
    <3> SUFFICES ASSUME NEW j \in T, ~(i <= j) PROVE FALSE
      OBVIOUS
    <3>1. j \in 1..e
      BY <1>2
    <3> QED
      BY <1>3, <3>1
  <2>3. Env!EqualsAt(w) = Min(T)
    BY DEF Env!EqualsAt, Env!Min, Min
  <2> HIDE DEF T
  <2>4. Min(T) \in T /\ Min(T) <= i
    BY <2>1, MinIsLeast
  <2>5. i <= Min(T) /\ Min(T) \in Nat
    BY <2>1, <2>2, <2>4
  <2> QED
    BY <1>2, <2>3, <2>4, <2>5
<1>5. /\ p \in Seq(Char) /\ Len(p) = i /\ \A k \in 1..i : p[k] = w[k]
      /\ v \in Seq(Char) /\ Cat(p, v) = w
  BY <1>2, Cut
<1>6. Env!Name(w) = SubSeq(w, 1, e) /\ Env!Value(w) = v
  BY <1>4 DEF Env!Name, Env!Value
<1>7. x \in Seq(Char)
  <2> HIDE DEF v
  <2>1. x = FlattenSeq(MeaningRows(list, v)) /\ MeaningRows(list, v) \in Seq(Seq(Char))
    BY <1>5, MeaningInRows
  <2> HIDE DEF x
  <2> QED
    BY <2>1, FlattenAppend
<1>8. cmd = Cat(p, x)
  <2>1. NoDollarTo(w, i)
    <3> SUFFICES ASSUME NEW k \in 1..i PROVE w[k] # "$"
      BY DEF NoDollarTo
    <3>1. k \in 1..e \/ k = i
      BY <1>2
    <3> QED
      BY <1>1, <1>3, <3>1
  <2> QED
    BY <1>2, <2>1, MeaningBehind
<1> HIDE DEF p, v, x, cmd
<1>9. /\ cmd \in Seq(Char) /\ Len(cmd) = i + Len(x) /\ Len(x) \in Nat
      /\ \A k \in 1..i : cmd[k] = w[k]
  <2>1. /\ Cat(p, x) \in Seq(Char) /\ Len(Cat(p, x)) = Len(p) + Len(x)
        /\ \A k \in 1..(Len(p) + Len(x)) : Cat(p, x)[k] = IF k <= Len(p) THEN p[k] ELSE x[k - Len(p)]
    BY <1>5, <1>7, CatType
  <2>2. Len(x) \in Nat
    BY <1>7, LenProperties
  <2>3. \A k \in 1..i : k \in 1..(i + Len(x)) /\ k <= i
    BY <1>2, <2>2
  <2> QED
    BY <1>5, <1>8, <2>1, <2>2, <2>3
<1>10. /\ e \in 1..Len(cmd) /\ e < Len(cmd) /\ i \in 1..Len(cmd) /\ 1 \in 1..Len(cmd)
       /\ cmd[i] = d /\ cmd[1] # d /\ \A k \in 1..e : cmd[k] # d
  <2>1. e \in 1..Len(cmd) /\ e < Len(cmd) /\ i \in 1..Len(cmd) /\ 1 \in 1..Len(cmd)
    BY <1>2, <1>9
  <2>2. \A k \in 1..e : k \in 1..i
    BY <1>2
  <2>3. \A k \in 1..e : cmd[k] # d
    BY <1>3, <1>9, <2>2
  <2> QED
    BY <1>1, <1>2, <1>9, <2>1, <2>3
<1>11. Has(cmd, d) /\ ~Has(cmd, "$")
  <2>1. DOMAIN cmd = 1..Len(cmd)
    BY <1>9, LenProperties
  <2>2. Has(cmd, d)
    BY <1>10, <2>1 DEF Has, ToSet
  <2> QED
    BY <2>2 DEF Has, cmd
<1>12. cmd # <<"exit">>
  <2>1. ToSet(One("exit")) = {"exit"}
    BY OneElement
  <2> QED
    BY <1>11, <2>1 DEF Has, One, d
<1>13. AssignedName(cmd) = SubSeq(w, 1, e)
  <2>0. cmd[e + 1] = d
    BY <1>2, <1>10
  <2> HIDE DEF d, e
  <2>1. Pieces(cmd, d)[1] = SubSeq(cmd, 1, e)
    BY <1>9, <1>10, <2>0, FirstPieceIs
  <2>2. SubSeq(Cat(p, x), 1, e) = SubSeq(p, 1, e) /\ SubSeq(Cat(p, v), 1, e) = SubSeq(p, 1, e)
    BY <1>2, <1>5, <1>7, CutOfCat
  <2>3. SubSeq(cmd, 1, e) = SubSeq(w, 1, e)
    BY <1>5, <1>8, <2>2
  <2> QED
    BY <2>1, <2>3 DEF AssignedName, d
<1>14. AssignedValue(cmd) = x
  <2> DEFINE I == {k \in 1..Len(cmd) : cmd[k] # d}
  <2>1. 1 \in I /\ I \in SUBSET Nat /\ \A k \in I : 1 <= k
    BY <1>10
  <2>2. SelectInSeq(cmd, LAMBDA c : c # "=") = IF I # {} THEN Min(I) ELSE 0
    BY DEF SelectInSeq
  <2> HIDE DEF I
  <2>3. Min(I) = 1
    <3>1. Min(I) \in I /\ Min(I) <= 1
      BY <2>1, MinIsLeast
    <3>2. Min(I) \in Nat /\ 1 <= Min(I)
      BY <2>1, <3>1
    <3> QED
      BY <3>1, <3>2
  <2>4. SelectInSeq(cmd, LAMBDA c : c # "=") = 1
    BY <2>1, <2>2, <2>3
  <2>5. Len(AssignedName(cmd)) = e
    <3>1. Len(SubSeq(w, 1, e)) = e
      BY <1>2, Cut
    <3> QED
      BY <1>13, <3>1
  <2>6. AssignedValue(cmd) = SubSeq(cmd, 1 + e + 1, Len(cmd))
    BY <2>4, <2>5 DEF AssignedValue
  <2>7. SubSeq(Cat(p, x), Len(p) + 1, Len(p) + Len(x)) = x
    BY <1>5, <1>7, CatRest
  <2>8. 1 + e + 1 = i + 1
    BY <1>2
  <2> QED
    BY <1>5, <1>8, <1>9, <2>6, <2>7, <2>8
<1>15. ~Has(x, "$")
  <2>1. ToSet(Cat(p, x)) = ToSet(p) \cup ToSet(x)
    BY <1>5, <1>7, CatElements
  <2> QED
    BY <1>8, <1>11, <2>1 DEF Has
<1>16. Assigns(cmd)
  BY <1>11 DEF Assigns, d
<1> QED
  BY <1>6, <1>10, <1>12, <1>13, <1>14, <1>15, <1>16 DEF x, cmd, d

(* What the promise calls the line that is to be executed.                  *)
Shown == IF pc = "execute" THEN line ELSE <<>>

(* An assignment in a line whose meaning is certain.                        *)
CertainAssignment ==
    /\ Env!IsAssignment(line[1]) /\ Env!Plain(EnvOf(varList), line)
    /\ ~Env!RunsElsewhere(EnvOf(varList), line)

(* Such a line is none of those the shell gives to others, and the variable *)
(* it sets is the one that is written.                                      *)
LEMMA CertainIsAssigned ==
  ASSUME MeantInv, pc = "execute", CertainAssignment
  PROVE  /\ tokens[1] # <<"exit">> /\ ~InBackground /\ PipeCount(Words) = 0
         /\ Assigns(tokens[1]) /\ ~ \A i \in 1..Len(tokens[1]) : tokens[1][i] = "="
         /\ AssignedName(tokens[1]) = Env!Name(line[1])
         /\ Stored(varList, AssignedValue(tokens[1])) = Env!Meaning(EnvOf(varList), Env!Value(line[1]))
<1>1. /\ varList \in Seq(Variable) /\ Distinct(varList)
      /\ line \in Lines /\ tokens = TokenizeInput(varList, line)
      /\ tokens \in Seq(Seq(Char)) /\ Len(tokens) = Len(line) /\ Len(line) \in Nat \ {0}
  BY LineAsMeant
<1>2. ASSUME NEW k \in 1..Len(line)
      PROVE  /\ tokens[k] = Env!Meaning(EnvOf(varList), line[k])
             /\ "$" \notin ToSet(tokens[k]) /\ "|" \notin ToSet(tokens[k])
  <2>1. Env!AllDollarsName(line[k]) /\ Env!Fits(EnvOf(varList), line[k])
    BY DEF CertainAssignment, Env!Plain
  <2>2. tokens[k] = Env!Meaning(EnvOf(varList), line[k]) /\ "$" \notin ToSet(tokens[k])
    BY <1>1, <2>1, PlainToken
  <2>3. "|" \notin ToSet(Env!Meaning(EnvOf(varList), line[k]))
    BY DEF CertainAssignment, Env!RunsElsewhere, Env!ToSet, ToSet
  <2> QED
    BY <2>2, <2>3
<1>3. 1 \in 1..Len(line) /\ Len(line) \in 1..Len(line)
  BY <1>1
<1>4. ~InBackground
  <2>1. Last(tokens) = tokens[Len(line)]
    BY <1>1 DEF Last
  <2>2. Env!Meaning(EnvOf(varList), line[Len(line)]) # <<"&">>
    BY DEF CertainAssignment, Env!RunsElsewhere
  <2> QED
    BY <1>2, <1>3, <2>1, <2>2 DEF InBackground
<1>5. PipeCount(Words) = 0
  <2>1. Words = tokens
    BY <1>4 DEF Words
  <2> QED
    BY <1>1, <1>2, <2>1, NoBars
<1>6. line[1] \in Seq(Char)
  BY <1>1, <1>3, LineTyped
<1> DEFINE w == line[1]
           cmd == Env!Meaning(EnvOf(varList), w)
<1>7. tokens[1] = cmd /\ "$" \notin ToSet(cmd)
  BY <1>2, <1>3
<1>8. Env!IsAssignment(w)
  BY DEF CertainAssignment
<1>9. /\ Assigns(cmd) /\ cmd # <<"exit">>
      /\ ~ \A i \in 1..Len(cmd) : cmd[i] = "="
      /\ AssignedName(cmd) = Env!Name(w)
      /\ AssignedValue(cmd) = Env!Meaning(EnvOf(varList), Env!Value(w))
      /\ ~Has(AssignedValue(cmd), "$")
  BY <1>1, <1>6, <1>7, <1>8, AssignmentMeans
<1> HIDE DEF cmd
<1>10. Stored(varList, AssignedValue(cmd)) = AssignedValue(cmd)
  BY <1>9 DEF Stored
<1> QED
  BY <1>4, <1>5, <1>7, <1>9, <1>10

(* Whatever a line assigns, it is one variable that changes.                *)
LEMMA AssignmentSets ==
  ASSUME MeantInv, Foreground, ~ \A i \in 1..Len(tokens[1]) : tokens[1][i] = "=",
         varList' = UpdateVar(varList, AssignedName(tokens[1]), AssignedValue(tokens[1]))
  PROVE  EnvOf(varList)' = Env!With(EnvOf(varList), AssignedName(tokens[1]),
                                    Stored(varList, AssignedValue(tokens[1])))
<1> DEFINE cmd == tokens[1]
           name == AssignedName(cmd)
           value == AssignedValue(cmd)
<1>1. varList \in Seq(Variable) /\ Distinct(varList) /\ Typed
  BY DEF MeantInv, LineInv, Listed
<1>2. cmd \in Seq(Unbarred) /\ cmd \in Seq(Char)
  BY <1>1, NoBarInForeground
<1>3. name \in Seq(Named) \ {<<>>} /\ value \in Seq(Unbarred)
  <2> HIDE DEF cmd
  <2> QED
    BY <1>2, AssignedParts DEF cmd
<1> HIDE DEF name, value
<1>4. EnvOf(UpdateVar(varList, name, value)) = Env!With(EnvOf(varList), name, Stored(varList, value))
  BY <1>1, <1>3, EnvOfUpdate
<1>5. EnvOf(varList)' = EnvOf(varList')
  BY DEF EnvOf
<1> QED
  BY <1>4, <1>5 DEF name, value

(* A strange assignment still changes one variable only.                    *)
LEMMA SetsOne ==
  ASSUME NEW e, NEW n, NEW t, NEW f, f = Env!With(e, n, t)
  PROVE  \E m \in DOMAIN f : f = Env!With(e, m, f[m])
<1>1. DOMAIN f = DOMAIN e \cup {n} /\ n \in DOMAIN f /\ f[n] = t
  BY DEF Env!With
<1> QED
  BY <1>1

(* In terms of the promise, a line is executed as an assignment or as one   *)
(* that leaves all variables, or all but one.                               *)
LEMMA LineKeepsPromise ==
  ASSUME MeantInv, pc = "execute", pc' # "execute",
         \/ varList' = varList /\ ~CertainAssignment
         \/ Foreground /\ Assignment
  PROVE  Env!Next
<1>1. /\ varList \in Seq(Variable) /\ Distinct(varList)
      /\ line \in Lines /\ tokens = TokenizeInput(varList, line)
      /\ tokens \in Seq(Seq(Char)) /\ Len(tokens) = Len(line) /\ Len(line) \in Nat \ {0}
  BY LineAsMeant
<1>2. Shown = line /\ line # <<>> /\ Shown' = <<>>
  BY <1>1, EmptySeq DEF Shown
<1>3. CASE varList' = varList /\ ~CertainAssignment
  <2>1. EnvOf(varList)' = EnvOf(varList)
    BY <1>3 DEF EnvOf
  <2>2. Env!Other
    BY <1>2, <1>3, <2>1 DEF Env!Other, CertainAssignment, Shown
  <2> QED
    BY <2>2 DEF Env!Next
<1>4. CASE Foreground /\ Assignment
  <2>1. ~Env!RunsElsewhere(EnvOf(varList), line)
    BY <1>4, ForegroundIsHere
  <2>2. CASE CertainAssignment
    <3>1. ~ \A i \in 1..Len(tokens[1]) : tokens[1][i] = "="
      BY <2>2, CertainIsAssigned
    <3>2. varList' = UpdateVar(varList, AssignedName(tokens[1]), AssignedValue(tokens[1]))
      BY <1>4, <3>1 DEF Assignment
    <3>3. EnvOf(varList)' = Env!With(EnvOf(varList), Env!Name(line[1]),
                                     Env!Meaning(EnvOf(varList), Env!Value(line[1])))
      BY <1>4, <2>2, <3>1, <3>2, CertainIsAssigned, AssignmentSets
    <3>4. Env!Assign
      BY <1>2, <2>2, <3>3 DEF Env!Assign, CertainAssignment, Shown
    <3> QED
      BY <3>4 DEF Env!Next
  <2>3. CASE ~CertainAssignment
    <3>1. CASE \A i \in 1..Len(tokens[1]) : tokens[1][i] = "="
      <4>1. varList' = varList
        BY <1>4, <3>1 DEF Assignment
      <4>2. EnvOf(varList)' = EnvOf(varList)
        BY <4>1 DEF EnvOf
      <4>3. Env!Other
        BY <1>2, <2>3, <4>2 DEF Env!Other, CertainAssignment, Shown
      <4> QED
        BY <4>3 DEF Env!Next
    <3>2. CASE ~ \A i \in 1..Len(tokens[1]) : tokens[1][i] = "="
      <4>1. varList' = UpdateVar(varList, AssignedName(tokens[1]), AssignedValue(tokens[1]))
        BY <1>4, <3>2 DEF Assignment
      <4>2. \E n \in DOMAIN EnvOf(varList)' :
               EnvOf(varList)' = Env!With(EnvOf(varList), n, EnvOf(varList)'[n])
        BY <1>4, <3>2, <4>1, AssignmentSets, SetsOne
      <4>3. \/ ~Env!Plain(EnvOf(varList), line)
            \/ ~Env!IsAssignment(line[1]) /\ "=" \in Env!ToSet(Env!Meaning(EnvOf(varList), line[1]))
        <5> SUFFICES ASSUME Env!Plain(EnvOf(varList), line)
                     PROVE  ~Env!IsAssignment(line[1]) /\ "=" \in Env!ToSet(Env!Meaning(EnvOf(varList), line[1]))
          OBVIOUS
        <5>1. ~Env!IsAssignment(line[1])
          BY <2>1, <2>3 DEF CertainAssignment
        <5>2. 1 \in 1..Len(line)
          BY <1>1
        <5>3. Env!AllDollarsName(line[1]) /\ Env!Fits(EnvOf(varList), line[1])
          BY <5>2 DEF Env!Plain
        <5>4. tokens[1] = Env!Meaning(EnvOf(varList), line[1])
          BY <1>1, <5>2, <5>3, PlainToken
        <5>5. "=" \in ToSet(tokens[1])
          BY <1>4 DEF Assignment, Assigns, Has
        <5> QED
          BY <5>1, <5>4, <5>5 DEF ToSet, Env!ToSet
      <4>4. Env!Other
        BY <1>2, <2>1, <2>3, <4>2, <4>3 DEF Env!Other, CertainAssignment, Shown
      <4> QED
        BY <4>4 DEF Env!Next
    <3> QED
      BY <3>1, <3>2
  <2> QED
    BY <2>2, <2>3
<1> QED
  BY <1>3, <1>4

(* At first no variable is set and no line is there.                        *)
LEMMA PromiseInit == Init => Env!Init
<1> SUFFICES ASSUME Init PROVE Env!Init
  OBVIOUS
<1>1. EnvOf(varList) = <<>>
  BY EnvOfNone DEF Init
<1> QED
  BY <1>1 DEF Init, Env!Init

(* Every step of the shell is one of the promise, or none of it.            *)
LEMMA PromiseStep == MeantInv /\ [Next]_vars => [Env!Next]_(Env!vars)
<1> SUFFICES ASSUME MeantInv, [Next]_vars
             PROVE  \/ Env!Next
                    \/ EnvOf(varList)' = EnvOf(varList) /\ Shown' = Shown
  BY DEF Env!vars, Shown
<1>0. varList' = varList => EnvOf(varList)' = EnvOf(varList)
  BY DEF EnvOf
<1>1. CASE TypeLine
  <2>1. PICK l \in Lines : line' = l
    BY <1>1 DEF TypeLine
  <2>2. line' # <<>>
    BY <2>1, LineTyped, EmptySeq
  <2>3. Env!Type
    BY <1>0, <1>1, <2>2 DEF TypeLine, Env!Type
  <2> QED
    BY <2>3 DEF Env!Next
<1>2. CASE ExitShell
  <2>0. pc = "execute"
    BY <1>2 DEF ExitShell
  <2>1. /\ varList \in Seq(Variable) /\ Distinct(varList)
        /\ line \in Lines /\ tokens = TokenizeInput(varList, line) /\ Len(line) \in Nat \ {0}
    BY <2>0, LineAsMeant
  <2>2. Env!Meaning(EnvOf(varList), line[1]) = <<"exit">>
    <3> DEFINE c == "exit"
    <3>1. c # "$" /\ tokens[1] = One(c) /\ 1 \in 1..Len(line)
      BY <1>2, <2>1 DEF ExitShell, One
    <3> HIDE DEF c
    <3>2. Env!Meaning(EnvOf(varList), line[1]) = One(c)
      BY <2>1, <3>1, ShortToken
    <3> QED
      BY <3>2 DEF One, c
  <2>3. EnvOf(varList)' = <<>>
    <3>1. varList' = <<>>
      BY <1>2 DEF ExitShell
    <3>2. EnvOf(varList') = <<>>
      BY <3>1, EnvOfNone
    <3> QED
      BY <3>2 DEF EnvOf
  <2>4. line # <<>>
    BY <2>1, LineTyped, EmptySeq
  <2>5. Env!Exit
    BY <1>2, <2>0, <2>2, <2>3, <2>4 DEF ExitShell, Env!Exit
  <2> QED
    BY <2>5 DEF Env!Next
<1>3. CASE Assignment
  <2>1. pc = "execute" /\ pc' # "execute" /\ Foreground
    BY <1>3 DEF Assignment, Foreground
  <2> QED
    BY <1>3, <2>1, LineKeepsPromise
<1>4. CASE Command
  <2>1. pc = "execute" /\ pc' # "execute" /\ varList' = varList /\ ~Assigns(tokens[1])
    BY <1>4 DEF Command, Foreground
  <2>2. ~CertainAssignment
    BY <2>1, CertainIsAssigned
  <2> QED
    BY <2>1, <2>2, LineKeepsPromise
<1>5. CASE Background
  <2>1. pc = "execute" /\ pc' # "execute" /\ varList' = varList /\ InBackground
    BY <1>5 DEF Background
  <2>2. ~CertainAssignment
    BY <2>1, CertainIsAssigned
  <2> QED
    BY <2>1, <2>2, LineKeepsPromise
<1>6. CASE Pipeline
  <2>1. pc = "execute" /\ pc' # "execute" /\ varList' = varList /\ PipeCount(Words) # 0
    <3>1. PipeCount(Words) > 0 => PipeCount(Words) # 0
      OBVIOUS
    <3> QED
      BY <1>6, <3>1 DEF Pipeline
  <2>2. ~CertainAssignment
    BY <2>1, CertainIsAssigned
  <2> QED
    BY <2>1, <2>2, LineKeepsPromise
<1>7. CASE Prompt
  <2>1. Shown' = Shown /\ varList' = varList
    BY <1>7 DEF Prompt, Shown
  <2> QED
    BY <1>0, <2>1
<1>8. CASE UNCHANGED vars
  <2>1. Shown' = Shown /\ varList' = varList
    BY <1>8 DEF vars, Shown
  <2> QED
    BY <1>0, <2>1
<1> QED
  BY <1>1, <1>2, <1>3, <1>4, <1>5, <1>6, <1>7, <1>8 DEF Next

(* The list of variables implements the function from names to texts: an    *)
(* assignment whose meaning is certain sets its name to the meaning of its  *)
(* value, "exit" forgets all, and whatever else is typed changes no         *)
(* variable, or one by a strange assignment; main, execute_commands,        *)
(* updateVar.                                                               *)
THEOREM LinesKeepThePromise == Spec => ImplementsEnvironment
<1> QED
  BY MeantInit, MeantStep, PromiseInit, PromiseStep, PTL DEF Spec, ImplementsEnvironment, Env!Spec

-----------------------------------------------------------------------------
(* The parts of a word, the commands of a line                              *)

(* One character more of a part, or the end of it.                          *)
NextPart(parts, c) ==
    IF c = "|" THEN Append(parts, <<>>) ELSE Append(Front(parts), Append(Last(parts), c))

(* f goes through the parts as they are filled.                             *)
Filling(f, w, n) == f = [i \in 0..n |-> IF i = 0 THEN << <<>> >> ELSE NextPart(f[i - 1], w[i])]

(* f goes through the tokens of a line.                                     *)
Cutting(f, toks, n) ==
    f = [i \in 0..n |-> IF i = 0 THEN [cmds |-> << <<>> >>, argCount |-> 0]
                        ELSE CutToken(f[i - 1], toks[i])]

(* A word of every length can be gone through,                              *)
LEMMA FillingExists ==
  ASSUME NEW w, NEW n \in Nat
  PROVE  \E f : Filling(f, w, n)
<1> DEFINE P == {m \in Nat : \E f : Filling(f, w, m)}
<1>1. 0 \in P
  <2> DEFINE start == << <<>> >>
             f == [i \in 0..0 |-> start]
  <2>1. \A i \in 0..0 : i = 0
    OBVIOUS
  <2>2. f = [i \in 0..0 |-> IF i = 0 THEN start ELSE NextPart(f[i - 1], w[i])]
    BY <2>1
  <2> HIDE DEF f
  <2>3. Filling(f, w, 0)
    BY <2>2 DEF Filling
  <2> QED
    BY <2>3
<1>2. ASSUME NEW m \in P PROVE m + 1 \in P
  <2>1. PICK f : Filling(f, w, m)
    OBVIOUS
  <2> DEFINE next == NextPart(f[m], w[m + 1])
             g == [i \in 0..(m + 1) |-> IF i = m + 1 THEN next ELSE f[i]]
  <2>2. m \in Nat
    OBVIOUS
  <2>3. ASSUME NEW i \in 0..(m + 1)
        PROVE  g[i] = IF i = 0 THEN << <<>> >> ELSE NextPart(g[i - 1], w[i])
    <3>1. CASE i = m + 1
      <4>1. i # 0 /\ i - 1 = m /\ m \in 0..(m + 1) /\ m # m + 1
        BY <2>2, <3>1
      <4>2. g[i] = next /\ g[i - 1] = f[m]
        <5> HIDE DEF next
        <5> QED
          BY <3>1, <4>1
      <4> HIDE DEF g
      <4> QED
        BY <3>1, <4>1, <4>2
    <3>2. CASE i # m + 1
      <4>1. i \in 0..m /\ (i # 0 => i - 1 \in 0..(m + 1) /\ i - 1 # m + 1)
        BY <2>2, <3>2
      <4>2. f[i] = IF i = 0 THEN << <<>> >> ELSE NextPart(f[i - 1], w[i])
        BY <2>1, <4>1 DEF Filling
      <4>3. g[i] = f[i] /\ (i # 0 => g[i - 1] = f[i - 1])
        <5> HIDE DEF next
        <5> QED
          BY <3>2, <4>1
      <4> HIDE DEF g
      <4> QED
        BY <4>2, <4>3
    <3> QED
      BY <3>1, <3>2
  <2>4. g = [i \in 0..(m + 1) |-> g[i]]
    OBVIOUS
  <2> HIDE DEF g
  <2>5. Filling(g, w, m + 1)
    BY <2>3, <2>4 DEF Filling
  <2> QED
    BY <2>2, <2>5
<1>3. P = Nat
  <2>1. P \in SUBSET Nat
    OBVIOUS
  <2> HIDE DEF P
  <2> QED
    BY <1>1, <1>2, <2>1, NumberInduction
<1> QED
  BY <1>3

(* and so can a line.                                                       *)
LEMMA CuttingExists ==
  ASSUME NEW toks, NEW n \in Nat
  PROVE  \E f : Cutting(f, toks, n)
<1> DEFINE P == {m \in Nat : \E f : Cutting(f, toks, m)}
<1>1. 0 \in P
  <2> DEFINE start == [cmds |-> << <<>> >>, argCount |-> 0]
             f == [i \in 0..0 |-> start]
  <2>1. \A i \in 0..0 : i = 0
    OBVIOUS
  <2>2. f = [i \in 0..0 |-> IF i = 0 THEN start ELSE CutToken(f[i - 1], toks[i])]
    BY <2>1
  <2> HIDE DEF f
  <2>3. Cutting(f, toks, 0)
    BY <2>2 DEF Cutting
  <2> QED
    BY <2>3
<1>2. ASSUME NEW m \in P PROVE m + 1 \in P
  <2>1. PICK f : Cutting(f, toks, m)
    OBVIOUS
  <2> DEFINE next == CutToken(f[m], toks[m + 1])
             g == [i \in 0..(m + 1) |-> IF i = m + 1 THEN next ELSE f[i]]
  <2>2. m \in Nat
    OBVIOUS
  <2>3. ASSUME NEW i \in 0..(m + 1)
        PROVE  g[i] = IF i = 0 THEN [cmds |-> << <<>> >>, argCount |-> 0] ELSE CutToken(g[i - 1], toks[i])
    <3>1. CASE i = m + 1
      <4>1. i # 0 /\ i - 1 = m /\ m \in 0..(m + 1) /\ m # m + 1
        BY <2>2, <3>1
      <4>2. g[i] = next /\ g[i - 1] = f[m]
        <5> HIDE DEF next
        <5> QED
          BY <3>1, <4>1
      <4> HIDE DEF g
      <4> QED
        BY <3>1, <4>1, <4>2
    <3>2. CASE i # m + 1
      <4>1. i \in 0..m /\ (i # 0 => i - 1 \in 0..(m + 1) /\ i - 1 # m + 1)
        BY <2>2, <3>2
      <4>2. f[i] = IF i = 0 THEN [cmds |-> << <<>> >>, argCount |-> 0] ELSE CutToken(f[i - 1], toks[i])
        BY <2>1, <4>1 DEF Cutting
      <4>3. g[i] = f[i] /\ (i # 0 => g[i - 1] = f[i - 1])
        <5> HIDE DEF next
        <5> QED
          BY <3>2, <4>1
      <4> HIDE DEF g
      <4> QED
        BY <4>2, <4>3
    <3> QED
      BY <3>1, <3>2
  <2>4. g = [i \in 0..(m + 1) |-> g[i]]
    OBVIOUS
  <2> HIDE DEF g
  <2>5. Cutting(g, toks, m + 1)
    BY <2>3, <2>4 DEF Cutting
  <2> QED
    BY <2>2, <2>5
<1>3. P = Nat
  <2>1. P \in SUBSET Nat
    OBVIOUS
  <2> HIDE DEF P
  <2> QED
    BY <1>1, <1>2, <2>1, NumberInduction
<1> QED
  BY <1>3

(* A token more in a line.                                                  *)
LEMMA PipeCountOneMore ==
  ASSUME NEW toks \in Seq(Seq(Char)), NEW w \in Seq(Char)
  PROVE  /\ PipeCount(Cat(toks, One(w))) = PipeCount(toks) + Count(w, "|")
         /\ PipeCount(toks) \in Nat /\ Count(w, "|") \in Nat
<1> DEFINE b == "|"
<1> HIDE DEF b
<1>1. FlattenSeq(toks) \in Seq(Char) /\ FlattenSeq(Cat(toks, One(w))) = Cat(FlattenSeq(toks), w)
  BY FlattenOne
<1>2. \A s : Count(s, b) = Cardinality(Places(s, b))
  BY DEF Count, Places
<1>3. Count(Cat(FlattenSeq(toks), w), b) = Count(FlattenSeq(toks), b) + Count(w, b)
  BY <1>1, <1>2, PlacesOfCat
<1>4. Count(FlattenSeq(toks), b) \in Nat /\ Count(w, b) \in Nat
  BY <1>1, <1>2, PlacesFinite
<1> QED
  BY <1>1, <1>3, <1>4 DEF PipeCount, b

(* p are the parts of u: one more than bars, of which the first and the     *)
(* last are empty where a bar is first and last.                            *)
PartsFit(p, u) ==
    /\ p \in Seq(Seq(Char)) /\ Len(p) = Cardinality(Places(u, "|")) + 1
    /\ (\A k \in 1..Len(u) : u[k] # "|") => p = One(u)
    /\ p[1] = <<>> <=> u = <<>> \/ u[1] = "|"
    /\ p[Len(p)] = <<>> <=> u = <<>> \/ u[Len(u)] = "|"

(* They fit with one character more.                                        *)
LEMMA PartsGrow ==
  ASSUME NEW u \in Seq(Char), NEW x \in Char, NEW p, PartsFit(p, u)
  PROVE  PartsFit(NextPart(p, x), Cat(u, One(x)))
<1> DEFINE b == "|"
           v == Cat(u, One(x))
           q == NextPart(p, x)
<1>1. /\ v \in Seq(Char) /\ v # <<>> /\ Len(v) = Len(u) + 1 /\ Len(u) \in Nat
      /\ \A k \in 1..Len(u) : v[k] = u[k]
      /\ v[Len(u) + 1] = x
  BY OneMore
<1>2. Cardinality(Places(v, b)) = Cardinality(Places(u, b)) + (IF x = b THEN 1 ELSE 0)
  <2> HIDE DEF b
  <2> QED
    BY PlacesOneMore
<1>3. /\ Cardinality(Places(u, b)) \in Nat
      /\ Cardinality(Places(u, b)) = 0 <=> \A i \in 1..Len(u) : u[i] # b
  <2> HIDE DEF b
  <2> QED
    BY PlacesFinite
<1>4. /\ p \in Seq(Seq(Char)) /\ Len(p) = Cardinality(Places(u, b)) + 1
      /\ (\A k \in 1..Len(u) : u[k] # b) => p = One(u)
      /\ p[1] = <<>> <=> u = <<>> \/ u[1] = b
      /\ p[Len(p)] = <<>> <=> u = <<>> \/ u[Len(u)] = b
  BY DEF PartsFit
<1>5. /\ Len(p) \in Nat \ {0} /\ p # <<>> /\ 1 \in 1..Len(p)
      /\ u = <<>> <=> Len(u) = 0
      /\ u # <<>> => 1 \in 1..Len(u)
  BY <1>1, <1>3, <1>4, EmptySeq
<1>6. u # <<>> => v[1] = u[1]
  BY <1>1, <1>5
<1>7. u = <<>> => v[1] = x
  BY <1>1, <1>5
<1>8. SUFFICES /\ q \in Seq(Seq(Char)) /\ Len(q) = Cardinality(Places(v, b)) + 1
               /\ (\A k \in 1..Len(v) : v[k] # b) => q = One(v)
               /\ q[1] = <<>> <=> v = <<>> \/ v[1] = b
               /\ q[Len(q)] = <<>> <=> v = <<>> \/ v[Len(v)] = b
  BY DEF PartsFit
<1> HIDE DEF v
<1>9. CASE x = b
  <2> DEFINE none == <<>>
  <2>1. none \in Seq(Char) /\ q = Append(p, none)
    BY <1>9, EmptySeq DEF NextPart
  <2> HIDE DEF none, q, b
  <2>2. /\ q \in Seq(Seq(Char)) /\ Len(q) = Len(p) + 1
        /\ \A k \in 1..Len(p) : q[k] = p[k]
        /\ q[Len(p) + 1] = none
    BY <1>4, <2>1, AppendProperties
  <2>3. q[1] = p[1] /\ q[Len(q)] = <<>>
    BY <1>5, <2>2 DEF none
  <2>4. v[Len(v)] = b /\ Len(v) \in 1..Len(v)
    BY <1>1, <1>9
  <2>5. q[1] = <<>> <=> v = <<>> \/ v[1] = b
    BY <1>1, <1>4, <1>6, <1>7, <1>9, <2>3
  <2>6. Len(q) = Cardinality(Places(v, b)) + 1
    BY <1>2, <1>3, <1>4, <1>9, <2>2
  <2> QED
    BY <2>2, <2>3, <2>4, <2>5, <2>6
<1>10. CASE x # b
  <2> DEFINE y == Append(Last(p), x)
  <2>1. Last(p) \in Seq(Char) /\ Last(p) = p[Len(p)]
    <3>1. p[Len(p)] \in Seq(Char)
      BY <1>4, <1>5, ElementOfSeq
    <3> QED
      BY <3>1 DEF Last
  <2>2. y \in Seq(Char) /\ y # <<>>
    BY <2>1, AppendProperties
  <2>3. q = WithLast(p, y)
    BY <1>10 DEF NextPart, WithLast
  <2> HIDE DEF q, y
  <2>4. /\ q \in Seq(Seq(Char)) /\ Len(q) = Len(p)
        /\ \A k \in 1..(Len(p) - 1) : q[k] = p[k]
        /\ q[Len(p)] = y
    <3>1. p \in Seq(Seq(Char)) /\ p # <<>> /\ y \in Seq(Char)
      BY <1>4, <1>5, <2>2
    <3>2. /\ WithLast(p, y) \in Seq(Seq(Char)) /\ Len(WithLast(p, y)) = Len(p)
          /\ \A k \in 1..(Len(p) - 1) : WithLast(p, y)[k] = p[k]
          /\ WithLast(p, y)[Len(p)] = y
      BY <3>1, LastReplaced
    <3> QED
      BY <2>3, <3>2
  <2> HIDE DEF b
  <2>5. v[Len(v)] # b /\ Len(q) = Cardinality(Places(v, b)) + 1
    BY <1>1, <1>2, <1>3, <1>4, <1>10, <2>4
  <2>6. q[1] = <<>> <=> v[1] = b
    <3>1. CASE Len(p) = 1
      <4>1. \A k \in 1..Len(u) : u[k] # b
        <5>1. Cardinality(Places(u, b)) = 0
          <6>1. Len(p) = Cardinality(Places(u, b)) + 1 /\ Cardinality(Places(u, b)) \in Nat
            BY <1>3, <1>4
          <6> QED
            BY <3>1, <6>1
        <5> QED
          BY <1>3, <5>1
      <4>2. v[1] # b
        BY <1>5, <1>6, <1>7, <1>10, <4>1
      <4> QED
        BY <2>2, <2>4, <3>1, <4>2
    <3>2. CASE Len(p) # 1
      <4>1. u # <<>>
        <5>1. ~ \A k \in 1..Len(u) : u[k] # b
          BY <1>3, <1>4, <3>2
        <5> QED
          BY <1>5, <5>1
      <4>2. 1 \in 1..(Len(p) - 1)
        <5>1. \A m \in Nat \ {0} : m # 1 => 1 \in 1..(m - 1)
          OBVIOUS
        <5> QED
          BY <1>5, <3>2, <5>1
      <4> QED
        BY <1>4, <1>6, <2>4, <4>1, <4>2
    <3> QED
      BY <3>1, <3>2
  <2>7. ASSUME \A k \in 1..Len(v) : v[k] # b PROVE q = One(v)
    <3>1. \A k \in 1..Len(u) : k \in 1..Len(v)
      BY <1>1
    <3>2. \A k \in 1..Len(u) : u[k] # b
      BY <1>1, <2>7, <3>1
    <3>3. p = One(u) /\ Len(One(u)) = 1 /\ One(u)[1] = u
      BY <1>4, <3>2, OneType
    <3>4. y = v
      <4>1. Append(u, x) = Cat(u, One(x)) /\ Last(p) = u
        BY <2>1, <3>3, OneType
      <4> QED
        BY <4>1 DEF y, v
    <3>5. One(v) \in Seq(Seq(Char)) /\ Len(One(v)) = 1 /\ One(v)[1] = v
      BY <1>1, OneType
    <3>6. Len(q) = 1 /\ q[1] = v
      BY <2>4, <3>3, <3>4
    <3> QED
      BY <2>4, <3>5, <3>6, SeqEqual
  <2> QED
    BY <1>1, <2>2, <2>4, <2>5, <2>6, <2>7
<1> QED
  BY <1>9, <1>10

(* The parts of a word.                                                     *)
LEMMA PartsOfWord ==
  ASSUME NEW w \in Seq(Char)
  PROVE  PartsFit(Parts(w), w)
<1> DEFINE n == Len(w)
           parts == CHOOSE f : f = [j \in 0..n |->
                        IF j = 0 THEN << <<>> >>
                        ELSE IF w[j] = "|" THEN Append(f[j - 1], <<>>)
                        ELSE Append(Front(f[j - 1]), Append(Last(f[j - 1]), w[j]))]
<1>0. n \in Nat
  BY LenProperties
<1>1. Filling(parts, w, n)
  <2> HIDE DEF n
  <2>1. \A f : Filling(f, w, n) <=>
               f = [j \in 0..n |-> IF j = 0 THEN << <<>> >>
                                   ELSE IF w[j] = "|" THEN Append(f[j - 1], <<>>)
                                   ELSE Append(Front(f[j - 1]), Append(Last(f[j - 1]), w[j]))]
    BY DEF Filling, NextPart
  <2>2. \E f : Filling(f, w, n)
    BY <1>0, FillingExists
  <2>3. parts = [j \in 0..n |-> IF j = 0 THEN << <<>> >>
                                ELSE IF w[j] = "|" THEN Append(parts[j - 1], <<>>)
                                ELSE Append(Front(parts[j - 1]), Append(Last(parts[j - 1]), w[j]))]
    BY <2>1, <2>2
  <2> HIDE DEF parts
  <2> QED
    BY <2>1, <2>3
<1>2. Parts(w) = parts[n]
  BY DEF Parts
<1> HIDE DEF parts, n
<1> DEFINE P == {m \in Nat : m <= n => PartsFit(parts[m], SubSeq(w, 1, m))}
<1>3. 0 \in P
  <2>1. parts[0] = << <<>> >>
    <3>1. 0 \in 0..n
      BY <1>0
    <3> QED
      BY <1>1, <3>1 DEF Filling
  <2>2. SubSeq(w, 1, 0) = <<>>
    BY SubSeqEmpty
  <2> DEFINE none == <<>>
  <2>3. none \in Seq(Char) /\ Len(none) = 0
    BY EmptySeq
  <2> HIDE DEF none
  <2>4. One(none) \in Seq(Seq(Char)) /\ Len(One(none)) = 1 /\ One(none)[1] = none
    BY <2>3, OneType
  <2>5. Cardinality(Places(none, "|")) = 0
    <3> DEFINE b == "|"
    <3> HIDE DEF b
    <3>1. Cardinality(Places(none, b)) = 0 <=> \A i \in 1..Len(none) : none[i] # b
      BY <2>3, PlacesFinite
    <3> QED
      BY <2>3, <3>1 DEF b
  <2>6. PartsFit(One(none), none)
    <3>1. One(none)[1] = <<>> /\ none = <<>> /\ One(none)[Len(One(none))] = <<>>
      BY <2>4 DEF none
    <3>2. Len(One(none)) = Cardinality(Places(none, "|")) + 1
      BY <2>4, <2>5
    <3> QED
      BY <2>4, <3>1, <3>2 DEF PartsFit
  <2> QED
    BY <2>1, <2>2, <2>6 DEF One, none
<1>4. ASSUME NEW m \in P PROVE m + 1 \in P
  <2>0. m \in Nat /\ m + 1 \in Nat
    OBVIOUS
  <2>1. ASSUME m + 1 <= n PROVE PartsFit(parts[m + 1], SubSeq(w, 1, m + 1))
    <3>1. m <= n /\ m + 1 \in 0..n /\ m + 1 # 0 /\ (m + 1) - 1 = m /\ m + 1 \in 1..Len(w) /\ 0 <= m
      BY <1>0, <2>0, <2>1 DEF n
    <3>2. parts[m + 1] = NextPart(parts[m], w[m + 1])
      BY <1>1, <3>1 DEF Filling
    <3>3. /\ SubSeq(w, 0 + 1, m) \in Seq(Char) /\ w[m + 1] \in Char
          /\ SubSeq(w, 0 + 1, m + 1) = Cat(SubSeq(w, 0 + 1, m), One(w[m + 1]))
      BY <2>0, <2>1, <3>1, PieceGrows DEF n
    <3>4. 0 + 1 = 1
      OBVIOUS
    <3>5. PartsFit(parts[m], SubSeq(w, 1, m))
      BY <3>1
    <3>6. PartsFit(NextPart(parts[m], w[m + 1]), Cat(SubSeq(w, 1, m), One(w[m + 1])))
      BY <3>3, <3>4, <3>5, PartsGrow
    <3> QED
      BY <3>2, <3>3, <3>4, <3>6
  <2> QED
    BY <2>0, <2>1
<1>5. P = Nat
  <2>1. P \in SUBSET Nat
    OBVIOUS
  <2> HIDE DEF P
  <2> QED
    BY <1>3, <1>4, <2>1, NumberInduction
<1>6. n \in P /\ n <= n
  BY <1>0, <1>5
<1>7. SubSeq(w, 1, n) = w
  BY SubSeqFull DEF n
<1> QED
  BY <1>2, <1>6, <1>7

(* The parts of a word, where it has bars and where it has none.            *)
LEMMA WordParts ==
  ASSUME NEW w \in Seq(Char)
  PROVE  /\ Parts(w) \in Seq(Seq(Char)) /\ Count(w, "|") \in Nat
         /\ Len(Parts(w)) = Count(w, "|") + 1
         /\ ~Has(w, "|") => Parts(w) = One(w) /\ Count(w, "|") = 0
         /\ Has(w, "|") => Count(w, "|") # 0
         /\ w # <<>> => /\ Parts(w)[1] = <<>> <=> w[1] = "|"
                        /\ Parts(w)[Len(Parts(w))] = <<>> <=> w[Len(w)] = "|"
<1> DEFINE b == "|"
<1>1. PartsFit(Parts(w), w)
  BY PartsOfWord
<1>2. Count(w, b) = Cardinality(Places(w, b))
  BY DEF Count, Places
<1>3. DOMAIN w = 1..Len(w)
  BY LenProperties
<1>4. Has(w, b) <=> \E i \in 1..Len(w) : w[i] = b
  BY <1>3 DEF Has, ToSet
<1>5. /\ Cardinality(Places(w, b)) \in Nat
      /\ Cardinality(Places(w, b)) = 0 <=> \A i \in 1..Len(w) : w[i] # b
  <2> HIDE DEF b
  <2> QED
    BY PlacesFinite
<1> QED
  BY <1>1, <1>2, <1>4, <1>5 DEF PartsFit

(* What a token gives to the j-th of the commands that it is part of.       *)
Share(w, j) ==
    IF j \notin 1..Len(Parts(w)) THEN <<>>
    ELSE IF Has(w, "|") /\ Parts(w)[j] = <<>> THEN <<>>
    ELSE One(Parts(w)[j])

Shares(toks, p) == [k \in 1..Len(toks) |-> Share(toks[k], p - PipeCount(SubSeq(toks, 1, k - 1)))]

(* It is one word or none.                                                  *)
LEMMA ShareType ==
  ASSUME NEW w \in Seq(Char), NEW j
  PROVE  /\ Share(w, j) \in Seq(Seq(Char))
         /\ Share(w, j) # <<>> => Len(Share(w, j)) = 1
<1>1. CASE Share(w, j) = <<>>
  BY <1>1, EmptySeq
<1>2. CASE Share(w, j) # <<>>
  <2>1. j \in 1..Len(Parts(w)) /\ Share(w, j) = One(Parts(w)[j])
    BY <1>2 DEF Share
  <2>2. Parts(w)[j] \in Seq(Char)
    BY <2>1, WordParts, ElementOfSeq
  <2> QED
    BY <2>1, <2>2, OneType
<1> QED
  BY <1>1, <1>2

(* The p-th command of a line, token by token.                              *)
LEMMA CommandOfNext ==
  ASSUME NEW u \in Seq(Seq(Char)), NEW w \in Seq(Char), NEW p
  PROVE  /\ CommandOf(u, p) \in Seq(Seq(Char))
         /\ CommandOf(Cat(u, One(w)), p) = Cat(CommandOf(u, p), Share(w, p - PipeCount(u)))
<1> DEFINE v == Cat(u, One(w))
           share == Share(w, p - PipeCount(u))
<1>1. /\ v \in Seq(Seq(Char)) /\ v # <<>> /\ Len(v) = Len(u) + 1 /\ Len(u) \in Nat
      /\ \A k \in 1..Len(u) : v[k] = u[k]
      /\ v[Len(u) + 1] = w
  BY OneMore
<1>2. \A k \in 0..Len(u) : SubSeq(v, 1, k) = SubSeq(u, 1, k)
  <2>1. One(w) \in Seq(Seq(Char))
    BY OneType
  <2> SUFFICES ASSUME NEW k \in 0..Len(u) PROVE SubSeq(v, 1, k) = SubSeq(u, 1, k)
    OBVIOUS
  <2> QED
    BY <2>1, CutOfCat
<1> HIDE DEF v
<1>3. \A t : CommandOf(t, p) = FlattenSeq(Shares(t, p))
  BY DEF CommandOf, Shares, Share, One
<1>4. ASSUME NEW t \in Seq(Seq(Char)) PROVE Shares(t, p) \in Seq(Seq(Seq(Char))) /\ Len(Shares(t, p)) = Len(t)
  <2>1. \A k \in 1..Len(t) : Share(t[k], p - PipeCount(SubSeq(t, 1, k - 1))) \in Seq(Seq(Char))
    <3> SUFFICES ASSUME NEW k \in 1..Len(t)
                 PROVE  Share(t[k], p - PipeCount(SubSeq(t, 1, k - 1))) \in Seq(Seq(Char))
      OBVIOUS
    <3>1. t[k] \in Seq(Char)
      BY ElementOfSeq
    <3> QED
      BY <3>1, ShareType
  <2>2. Len(t) \in Nat
    BY LenProperties
  <2> QED
    BY <2>1, <2>2 DEF Shares
<1>5. share \in Seq(Seq(Char))
  BY ShareType
<1> DEFINE r == Shares(u, p)
           s == Shares(v, p)
<1>6. s = Cat(r, One(share))
  <2>1. /\ Cat(r, One(share)) \in Seq(Seq(Seq(Char))) /\ Len(Cat(r, One(share))) = Len(r) + 1
        /\ \A k \in 1..Len(r) : Cat(r, One(share))[k] = r[k]
        /\ Cat(r, One(share))[Len(r) + 1] = share
    <3>1. r \in Seq(Seq(Seq(Char)))
      BY <1>4
    <3> HIDE DEF r, share
    <3> QED
      BY <1>5, <3>1, OneMore
  <2>2. r \in Seq(Seq(Seq(Char))) /\ Len(r) = Len(u) /\ s \in Seq(Seq(Seq(Char))) /\ Len(s) = Len(u) + 1
    BY <1>1, <1>4
  <2>3. ASSUME NEW k \in 1..Len(s) PROVE s[k] = Cat(r, One(share))[k]
    <3>1. s[k] = Share(v[k], p - PipeCount(SubSeq(v, 1, k - 1)))
      <4>1. k \in 1..Len(v)
        BY <1>1, <2>2, <2>3
      <4> QED
        BY <4>1 DEF Shares
    <3>2. k - 1 \in 0..Len(u)
      BY <1>1, <2>2, <2>3
    <3>3. SubSeq(v, 1, k - 1) = SubSeq(u, 1, k - 1)
      BY <1>2, <3>2
    <3>4. CASE k \in 1..Len(u)
      <4>1. r[k] = Share(u[k], p - PipeCount(SubSeq(u, 1, k - 1)))
        BY <3>4 DEF Shares
      <4>2. v[k] = u[k] /\ Cat(r, One(share))[k] = r[k]
        <5> HIDE DEF r, share
        <5> QED
          BY <1>1, <2>1, <2>2, <3>4
      <4> QED
        BY <3>1, <3>3, <4>1, <4>2
    <3>5. CASE k \notin 1..Len(u)
      <4>1. k = Len(u) + 1 /\ k - 1 = Len(u)
        BY <1>1, <2>2, <2>3, <3>5
      <4>2. SubSeq(u, 1, Len(u)) = u
        BY SubSeqFull
      <4>3. v[k] = w /\ Cat(r, One(share))[k] = share
        <5> HIDE DEF r, share
        <5> QED
          BY <1>1, <2>1, <2>2, <4>1
      <4> QED
        BY <3>1, <3>3, <4>1, <4>2, <4>3
    <3> QED
      BY <3>4, <3>5
  <2>4. Len(s) = Len(Cat(r, One(share)))
    BY <2>1, <2>2
  <2> HIDE DEF r, s, share
  <2> QED
    BY <2>1, <2>2, <2>3, <2>4, SeqEqual
<1>7. r \in Seq(Seq(Seq(Char)))
  BY <1>4
<1>8. CommandOf(u, p) = FlattenSeq(r) /\ CommandOf(v, p) = FlattenSeq(s)
  BY <1>3
<1> HIDE DEF r, s, share
<1>9. FlattenSeq(r) \in Seq(Seq(Char)) /\ FlattenSeq(Cat(r, One(share))) = Cat(FlattenSeq(r), share)
  BY <1>5, <1>7, FlattenOne
<1> QED
  BY <1>6, <1>8, <1>9 DEF share, v

(* What the last command is with the share of a token behind argCount.      *)
JoinedTo(last, argCount, share) ==
    IF share = <<>> THEN last ELSE IF argCount = 0 THEN share ELSE Cat(last, share)

(* Where argCount stands: behind the last argument, or on the only one.     *)
ArgFits(argCount, last) ==
    argCount \in Nat /\ (argCount = Len(last) \/ (argCount = 0 /\ Len(last) = 1))

(* A word that is put there.                                                *)
LEMMA WordPut ==
  ASSUME NEW cmds \in Seq(Seq(Seq(Char))), cmds # <<>>, NEW a, ArgFits(a, cmds[Len(cmds)]),
         NEW w \in Seq(Char)
  PROVE  PutWord(cmds, a, w) = WithLast(cmds, JoinedTo(cmds[Len(cmds)], a, One(w)))
<1> DEFINE last == cmds[Len(cmds)]
           new == IF a < Len(last) THEN [last EXCEPT ![a + 1] = w] ELSE Append(last, w)
           o == One(w)
<1>1. last \in Seq(Seq(Char)) /\ Len(last) \in Nat
  <2>1. Len(cmds) \in 1..Len(cmds)
    BY LenProperties, EmptySeq
  <2>2. cmds[Len(cmds)] \in Seq(Seq(Char))
    BY <2>1, ElementOfSeq
  <2> QED
    BY <2>2, LenProperties
<1>2. o \in Seq(Seq(Char)) /\ Len(o) = 1 /\ o[1] = w /\ o # <<>>
  BY OneType
<1>3. PutWord(cmds, a, w) = Append(Front(cmds), new)
  BY DEF PutWord, Last
<1>4. a \in Nat /\ (a = Len(last) \/ (a = 0 /\ Len(last) = 1))
  BY DEF ArgFits
<1>5. Append(last, w) = Cat(last, o)
  <2> HIDE DEF last
  <2> QED
    BY <1>1, OneType DEF o
<1> HIDE DEF last
<1>6. CASE a < Len(last)
  <2>1. a = 0 /\ Len(last) = 1 /\ a + 1 = 1 /\ 1 \in 1..Len(last)
    BY <1>1, <1>4, <1>6
  <2> DEFINE i == a + 1
             e == [last EXCEPT ![i] = w]
  <2>2. e \in Seq(Seq(Char)) /\ Len(e) = Len(last) /\ \A j \in 1..Len(last) : e[j] = IF j = i THEN w ELSE last[j]
    <3>1. i \in 1..Len(last)
      BY <2>1
    <3> HIDE DEF i
    <3> QED
      BY <1>1, <3>1, ExceptSeq
  <2>3. new = e
    BY <1>6
  <2> HIDE DEF e, o, new
  <2>4. e = o
    <3>1. Len(e) = Len(o) /\ \A j \in 1..Len(e) : j = 1
      BY <1>2, <2>1, <2>2
    <3>2. \A j \in 1..Len(e) : e[j] = o[j]
      BY <1>2, <2>1, <2>2, <3>1
    <3> QED
      BY <1>2, <2>2, <3>1, <3>2, SeqEqual
  <2>5. JoinedTo(last, a, o) = o
    BY <1>2, <2>1 DEF JoinedTo
  <2> QED
    BY <1>3, <2>3, <2>4, <2>5 DEF WithLast, last, o
<1>7. CASE ~(a < Len(last))
  <2>1. a = Len(last)
    BY <1>1, <1>4, <1>7
  <2>2. new = Cat(last, o)
    BY <1>5, <1>7
  <2> HIDE DEF o, new
  <2>3. JoinedTo(last, a, o) = Cat(last, o)
    <3>1. CASE a = 0
      <4>1. last = <<>>
        BY <1>1, <2>1, <3>1, EmptySeq
      <4>2. Cat(<<>>, o) = o
        BY <1>2, CatEmpty
      <4> QED
        BY <1>2, <3>1, <4>1, <4>2 DEF JoinedTo
    <3>2. CASE a # 0
      BY <1>2, <3>2 DEF JoinedTo
    <3> QED
      BY <3>1, <3>2
  <2> QED
    BY <1>3, <2>2, <2>3 DEF WithLast, last, o
<1> QED
  BY <1>6, <1>7

(* f goes through the parts of a token that is joined by bars.              *)
Putting(f, acc, parts, n) ==
    f = [k \in 1..n |-> IF k = 1 THEN PutPart(acc.cmds, acc.argCount, parts[1])
                        ELSE PutPart(Append(f[k - 1], <<>>), 0, parts[k])]

(* As many parts as there are can be gone through.                          *)
LEMMA PuttingExists ==
  ASSUME NEW acc, NEW parts, NEW n \in Nat
  PROVE  \E f : Putting(f, acc, parts, n)
<1> DEFINE P == {m \in Nat : \E f : Putting(f, acc, parts, m)}
<1>1. 0 \in P
  <2> DEFINE f == [k \in 1..0 |-> 0]
  <2>1. \A k : k \notin 1..0
    OBVIOUS
  <2>2. f = [k \in 1..0 |-> IF k = 1 THEN PutPart(acc.cmds, acc.argCount, parts[1])
                            ELSE PutPart(Append(f[k - 1], <<>>), 0, parts[k])]
    BY <2>1
  <2> HIDE DEF f
  <2>3. Putting(f, acc, parts, 0)
    BY <2>2 DEF Putting
  <2> QED
    BY <2>3
<1>2. ASSUME NEW m \in P PROVE m + 1 \in P
  <2>1. PICK f : Putting(f, acc, parts, m)
    OBVIOUS
  <2> DEFINE next == IF m + 1 = 1 THEN PutPart(acc.cmds, acc.argCount, parts[1])
                     ELSE PutPart(Append(f[m], <<>>), 0, parts[m + 1])
             g == [k \in 1..(m + 1) |-> IF k = m + 1 THEN next ELSE f[k]]
  <2>2. m \in Nat
    OBVIOUS
  <2>3. ASSUME NEW k \in 1..(m + 1)
        PROVE  g[k] = IF k = 1 THEN PutPart(acc.cmds, acc.argCount, parts[1])
                      ELSE PutPart(Append(g[k - 1], <<>>), 0, parts[k])
    <3>1. CASE k = m + 1
      <4>1. k # 1 => k - 1 = m /\ m \in 1..(m + 1) /\ m # m + 1
        BY <2>2, <3>1
      <4>2. g[k] = next /\ (k # 1 => g[k - 1] = f[m])
        <5> HIDE DEF next
        <5> QED
          BY <3>1, <4>1
      <4> HIDE DEF g
      <4> QED
        BY <3>1, <4>1, <4>2
    <3>2. CASE k # m + 1
      <4>1. k \in 1..m /\ (k # 1 => k - 1 \in 1..(m + 1) /\ k - 1 # m + 1)
        BY <2>2, <3>2
      <4>2. f[k] = IF k = 1 THEN PutPart(acc.cmds, acc.argCount, parts[1])
                   ELSE PutPart(Append(f[k - 1], <<>>), 0, parts[k])
        BY <2>1, <4>1 DEF Putting
      <4>3. g[k] = f[k] /\ (k # 1 => g[k - 1] = f[k - 1])
        <5> HIDE DEF next
        <5> QED
          BY <3>2, <4>1
      <4> HIDE DEF g
      <4> QED
        BY <4>2, <4>3
    <3> QED
      BY <3>1, <3>2
  <2>4. g = [k \in 1..(m + 1) |-> g[k]]
    OBVIOUS
  <2> HIDE DEF g
  <2>5. Putting(g, acc, parts, m + 1)
    BY <2>3, <2>4 DEF Putting
  <2> QED
    BY <2>2, <2>5
<1>3. P = Nat
  <2>1. P \in SUBSET Nat
    OBVIOUS
  <2> HIDE DEF P
  <2> QED
    BY <1>1, <1>2, <2>1, NumberInduction
<1> QED
  BY <1>3

(* The p-th command when a token is cut: the commands before the last stay, *)
(* the last gets a share, and there is one for every further share.         *)
CutAt(acc, w, p) ==
    IF p < Len(acc.cmds) THEN acc.cmds[p]
    ELSE IF p = Len(acc.cmds) THEN JoinedTo(acc.cmds[p], acc.argCount, Share(w, 1))
    ELSE Share(w, (p - Len(acc.cmds)) + 1)

(* cmds are the commands when n parts of a token are put.                   *)
PutSoFar(cmds, acc, w, n) ==
    /\ cmds \in Seq(Seq(Seq(Char))) /\ Len(cmds) = (Len(acc.cmds) + n) - 1
    /\ \A p \in 1..Len(cmds) : cmds[p] = CutAt(acc, w, p)

(* Where a line stands between two tokens.                                  *)
Cuttable(acc) ==
    /\ acc.cmds \in Seq(Seq(Seq(Char))) /\ acc.cmds # <<>>
    /\ ArgFits(acc.argCount, acc.cmds[Len(acc.cmds)])

(* The first share goes to the last command.                                *)
LEMMA FirstPut ==
  ASSUME NEW acc, Cuttable(acc), NEW w \in Seq(Char), NEW cmds,
         \/ Share(w, 1) = <<>> /\ cmds = acc.cmds
         \/ \E x \in Seq(Char) : Share(w, 1) = One(x) /\ cmds = PutWord(acc.cmds, acc.argCount, x)
  PROVE  PutSoFar(cmds, acc, w, 1)
<1> DEFINE old == acc.cmds
           a == acc.argCount
           L == Len(old)
           last == old[L]
<1>1. old \in Seq(Seq(Seq(Char))) /\ old # <<>> /\ ArgFits(a, last) /\ L \in Nat \ {0} /\ (L + 1) - 1 = L
  BY LenProperties, EmptySeq DEF Cuttable
<1>2. last \in Seq(Seq(Char))
  <2>1. L \in 1..L
    BY <1>1
  <2> HIDE DEF old
  <2> QED
    BY <1>1, <2>1, ElementOfSeq
<1>3. \A p \in 1..L : CutAt(acc, w, p) = IF p = L THEN JoinedTo(last, a, Share(w, 1)) ELSE old[p]
  <2> SUFFICES ASSUME NEW p \in 1..L
               PROVE  CutAt(acc, w, p) = IF p = L THEN JoinedTo(last, a, Share(w, 1)) ELSE old[p]
    OBVIOUS
  <2>1. p < L \/ p = L
    BY <1>1
  <2>2. p < L => p # L
    BY <1>1
  <2> QED
    BY <2>1, <2>2 DEF CutAt
<1>4. CASE Share(w, 1) = <<>> /\ cmds = acc.cmds
  <2>1. \A p \in 1..L : CutAt(acc, w, p) = old[p]
    BY <1>3, <1>4 DEF JoinedTo
  <2> QED
    BY <1>1, <1>4, <2>1 DEF PutSoFar
<1>5. CASE \E x \in Seq(Char) : Share(w, 1) = One(x) /\ cmds = PutWord(acc.cmds, acc.argCount, x)
  <2>1. PICK x \in Seq(Char) : Share(w, 1) = One(x) /\ cmds = PutWord(old, a, x)
    BY <1>5
  <2> DEFINE y == JoinedTo(last, a, One(x))
  <2>2. y \in Seq(Seq(Char))
    <3>1. One(x) \in Seq(Seq(Char))
      BY OneType
    <3>2. Cat(last, One(x)) \in Seq(Seq(Char))
      BY <1>2, <3>1, CatType
    <3> QED
      BY <1>2, <3>1, <3>2 DEF JoinedTo
  <2>3. cmds = WithLast(old, y)
    BY <1>1, <2>1, WordPut
  <2> HIDE DEF y, old
  <2>4. /\ WithLast(old, y) \in Seq(Seq(Seq(Char))) /\ Len(WithLast(old, y)) = L
        /\ \A k \in 1..(L - 1) : WithLast(old, y)[k] = old[k]
        /\ WithLast(old, y)[L] = y
    <3> DEFINE T == Seq(Seq(Char))
    <3>1. old \in Seq(T) /\ old # <<>> /\ y \in T
      BY <1>1, <2>2
    <3> HIDE DEF T
    <3>2. /\ WithLast(old, y) \in Seq(T) /\ Len(WithLast(old, y)) = Len(old)
          /\ \A k \in 1..(Len(old) - 1) : WithLast(old, y)[k] = old[k]
          /\ WithLast(old, y)[Len(old)] = y
      BY <3>1, LastReplaced
    <3> QED
      BY <3>2 DEF T
  <2>5. ASSUME NEW p \in 1..L PROVE cmds[p] = CutAt(acc, w, p)
    <3>1. CASE p = L
      BY <1>3, <2>1, <2>3, <2>4, <3>1 DEF y
    <3>2. CASE p # L
      <4>1. p \in 1..(L - 1)
        <5>1. L \in Nat \ {0} /\ p \in 1..L
          BY <1>1
        <5> HIDE DEF L
        <5> QED
          BY <3>2, <5>1
      <4> QED
        BY <1>3, <2>3, <2>4, <3>2, <4>1
    <3> QED
      BY <3>1, <3>2
  <2>6. cmds \in Seq(Seq(Seq(Char))) /\ Len(cmds) = L
    BY <2>3, <2>4
  <2> HIDE DEF L
  <2> QED
    BY <1>1, <2>5, <2>6 DEF PutSoFar, L, old
<1> QED
  BY <1>4, <1>5

(* And each further share to a command of its own.                          *)
LEMMA NextPut ==
  ASSUME NEW acc, Cuttable(acc), NEW w \in Seq(Char), Has(w, "|"), NEW n \in Nat \ {0},
         n + 1 <= Len(Parts(w)), NEW cmds, PutSoFar(cmds, acc, w, n)
  PROVE  PutSoFar(PutPart(Append(cmds, <<>>), 0, Parts(w)[n + 1]), acc, w, n + 1)
<1> DEFINE L == Len(acc.cmds)
           none == <<>>
           more == Append(cmds, none)
           part == Parts(w)[n + 1]
           new == PutPart(more, 0, part)
           K == L + n
<1>1. L \in Nat \ {0}
  BY LenProperties, EmptySeq DEF Cuttable
<1>2. /\ cmds \in Seq(Seq(Seq(Char))) /\ Len(cmds) = (L + n) - 1
      /\ \A p \in 1..Len(cmds) : cmds[p] = CutAt(acc, w, p)
  BY DEF PutSoFar
<1>3. none \in Seq(Seq(Char)) /\ Len(none) = 0
  BY EmptySeq
<1>4. part \in Seq(Char) /\ Share(w, n + 1) = (IF part = <<>> THEN <<>> ELSE One(part))
  <2>1. Parts(w) \in Seq(Seq(Char)) /\ Len(Parts(w)) \in Nat
    BY WordParts, LenProperties
  <2>2. n + 1 \in 1..Len(Parts(w))
    BY <2>1
  <2>3. part \in Seq(Char)
    BY <2>1, <2>2, ElementOfSeq
  <2> QED
    BY <2>2, <2>3 DEF Share
<1>5. K \in Nat \ {0} /\ K > L /\ (K - L) + 1 = n + 1 /\ (L + (n + 1)) - 1 = K /\ Len(cmds) + 1 = K /\ Len(cmds) = K - 1
  <2>1. L \in Nat \ {0} /\ Len(cmds) = (L + n) - 1
    BY <1>1, <1>2
  <2> HIDE DEF L
  <2> QED
    BY <2>1
<1>6. CutAt(acc, w, K) = Share(w, n + 1)
  <2>1. ~(K < L) /\ K # L
    BY <1>1, <1>5
  <2> HIDE DEF K
  <2> QED
    BY <1>5, <2>1 DEF CutAt
<1> HIDE DEF none, part
<1>7. /\ more \in Seq(Seq(Seq(Char))) /\ Len(more) = K /\ more # <<>> /\ more[K] = none
      /\ \A p \in 1..(K - 1) : more[p] = cmds[p]
  <2>0. cmds \in Seq(Seq(Seq(Char))) /\ none \in Seq(Seq(Char))
    BY <1>2, <1>3
  <2>1. /\ more \in Seq(Seq(Seq(Char))) /\ Len(more) = Len(cmds) + 1 /\ more # <<>>
        /\ \A p \in 1..Len(cmds) : more[p] = cmds[p]
        /\ more[Len(cmds) + 1] = none
    <3> DEFINE T == Seq(Seq(Char))
    <3>0. cmds \in Seq(T) /\ none \in T
      BY <2>0
    <3> HIDE DEF none, T
    <3>1. /\ Append(cmds, none) \in Seq(T) /\ Len(Append(cmds, none)) = Len(cmds) + 1
          /\ Append(cmds, none) # <<>>
          /\ \A p \in 1..Len(cmds) : Append(cmds, none)[p] = cmds[p]
          /\ Append(cmds, none)[Len(cmds) + 1] = none
      BY <3>0, Appended
    <3> QED
      BY <3>1 DEF more, T
  <2> HIDE DEF more, K
  <2> QED
    BY <1>5, <2>1
<1> HIDE DEF more
<1>8. /\ new \in Seq(Seq(Seq(Char))) /\ Len(new) = K
      /\ new[K] = Share(w, n + 1)
      /\ \A p \in 1..(K - 1) : new[p] = cmds[p]
  <2>1. CASE part = <<>>
    BY <1>4, <1>7, <2>1 DEF PutPart, none
  <2>2. CASE part # <<>>
    <3>1. ArgFits(0, more[Len(more)])
      BY <1>3, <1>7 DEF ArgFits
    <3>2. new = WithLast(more, JoinedTo(more[Len(more)], 0, One(part)))
      BY <1>4, <1>7, <2>2, <3>1, WordPut DEF PutPart
    <3>3. One(part) \in Seq(Seq(Char)) /\ One(part) # <<>>
      BY <1>4, OneType
    <3>4. JoinedTo(more[Len(more)], 0, One(part)) = One(part)
      BY <3>3 DEF JoinedTo
    <3> DEFINE o == One(part)
    <3> HIDE DEF o, new
    <3>5. /\ WithLast(more, o) \in Seq(Seq(Seq(Char))) /\ Len(WithLast(more, o)) = Len(more)
          /\ \A k \in 1..(Len(more) - 1) : WithLast(more, o)[k] = more[k]
          /\ WithLast(more, o)[Len(more)] = o
      <4>1. more \in Seq(Seq(Seq(Char))) /\ more # <<>> /\ o \in Seq(Seq(Char))
        BY <1>7, <3>3 DEF o
      <4> QED
        BY <4>1, LastReplaced
    <3>6. new = WithLast(more, o) /\ Share(w, n + 1) = o
      BY <1>4, <2>2, <3>2, <3>4 DEF o
    <3> HIDE DEF K
    <3> QED
      BY <1>7, <3>5, <3>6
  <2> QED
    BY <2>1, <2>2
<1> HIDE DEF new
<1>9. ASSUME NEW p \in 1..K PROVE new[p] = CutAt(acc, w, p)
  <2>1. CASE p = K
    BY <1>6, <1>8, <2>1
  <2>2. CASE p # K
    <3>1. p \in 1..(K - 1) /\ p \in 1..Len(cmds)
      BY <1>5, <2>2
    <3> QED
      BY <1>2, <1>8, <3>1
  <2> QED
    BY <2>1, <2>2
<1>10. PutSoFar(new, acc, w, n + 1)
  <2> HIDE DEF K
  <2> QED
    BY <1>5, <1>8, <1>9 DEF PutSoFar
<1> QED
  BY <1>10 DEF new, more, none, part

(* So a token is cut into its shares.                                       *)
LEMMA TokenCut ==
  ASSUME NEW acc, Cuttable(acc), NEW w \in Seq(Char)
  PROVE  /\ PutSoFar(CutToken(acc, w).cmds, acc, w, Len(Parts(w)))
         /\ CutToken(acc, w).argCount = IF Has(w, "|") THEN 0 ELSE acc.argCount + 1
<1> DEFINE n == Len(Parts(w))
<1>0. Parts(w) \in Seq(Seq(Char)) /\ n \in Nat
  BY WordParts, LenProperties
<1>1. CASE ~Has(w, "|")
  <2>1. Parts(w) = One(w) /\ Len(One(w)) = 1 /\ One(w)[1] = w
    BY <1>1, WordParts, OneType
  <2>2. Share(w, 1) = One(w)
    <3>1. 1 \in 1..1
      OBVIOUS
    <3> QED
      BY <1>1, <2>1, <3>1 DEF Share
  <2>3. /\ CutToken(acc, w).cmds = PutWord(acc.cmds, acc.argCount, w)
        /\ CutToken(acc, w).argCount = acc.argCount + 1
    <3>1. w # <<"|">>
      <4>1. \A x : ToSet(One(x)) = {x}
        BY OneElement
      <4> QED
        BY <1>1, <4>1 DEF Has, One
    <3>2. CutToken(acc, w) = [cmds |-> PutWord(acc.cmds, acc.argCount, w), argCount |-> acc.argCount + 1]
      BY <1>1, <3>1, Zenon DEF CutToken, NextArg
    <3> QED
      BY <3>2
  <2>4. PutSoFar(CutToken(acc, w).cmds, acc, w, 1)
    BY <2>2, <2>3, FirstPut
  <2> QED
    BY <1>1, <2>1, <2>3, <2>4
<1>2. CASE Has(w, "|") /\ w = <<"|">>
  <2> DEFINE b == "|"
  <2>1. w = One(b) /\ w # <<>> /\ Len(w) = 1 /\ w[1] = b
    <3>1. w = One(b)
      BY <1>2 DEF One
    <3>2. b \in {b}
      OBVIOUS
    <3> HIDE DEF b
    <3> QED
      BY <3>1, <3>2, OneType
  <2>2. Count(w, b) = 1
    <3> DEFINE none == <<>>
    <3> HIDE DEF b
    <3>0. b \in Char
      <4>1. w[1] \in Char
        BY <2>1, ElementOfSeq
      <4> QED
        BY <2>1, <4>1
    <3>1. none \in Seq(Char) /\ Len(none) = 0 /\ Cat(none, One(b)) = One(b)
      BY <3>0, EmptySeq, OneType, CatEmpty
    <3> HIDE DEF none
    <3>2. Cardinality(Places(none, b)) = 0 <=> \A i \in 1..Len(none) : none[i] # b
      BY <3>1, PlacesFinite
    <3>3. Cardinality(Places(none, b)) = 0
      BY <3>1, <3>2
    <3>4. Cardinality(Places(Cat(none, One(b)), b)) = Cardinality(Places(none, b)) + 1
      <4>1. \A c : Cardinality(Places(Cat(none, One(b)), c)) = Cardinality(Places(none, c)) + (IF b = c THEN 1 ELSE 0)
        <5>1. none \in Seq(Char)
          BY <3>1
        <5> SUFFICES ASSUME NEW c
                     PROVE  Cardinality(Places(Cat(none, One(b)), c))
                               = Cardinality(Places(none, c)) + (IF b = c THEN 1 ELSE 0)
          OBVIOUS
        <5> QED
          BY <3>0, <5>1, PlacesOneMore
      <4> QED
        BY <4>1
    <3>5. Count(w, b) = Cardinality(Places(w, b))
      BY DEF Count, Places
    <3>6. w = Cat(none, One(b))
      BY <2>1, <3>1
    <3>7. 0 + 1 = 1
      OBVIOUS
    <3> QED
      BY <3>3, <3>4, <3>5, <3>6, <3>7
  <2>3. n = 2 /\ Parts(w)[1] = <<>> /\ Parts(w)[2] = <<>>
    <3>1. /\ n = Count(w, b) + 1
          /\ Parts(w)[1] = <<>> <=> w[1] = b
          /\ Parts(w)[n] = <<>> <=> w[Len(w)] = b
      BY <2>1, WordParts
    <3>2. n = 2
      BY <2>2, <3>1
    <3> QED
      BY <2>1, <3>1, <3>2
  <2>4. Share(w, 1) = <<>>
    BY <1>2, <2>3 DEF Share
  <2>5. PutSoFar(acc.cmds, acc, w, 1)
    BY <2>4, FirstPut
  <2>6. PutSoFar(PutPart(Append(acc.cmds, <<>>), 0, Parts(w)[1 + 1]), acc, w, 1 + 1)
    <3>1. 1 + 1 <= n /\ 1 \in Nat \ {0}
      BY <2>3
    <3> QED
      BY <1>2, <2>5, <3>1, NextPut
  <2>7. PutSoFar(Append(acc.cmds, <<>>), acc, w, 2)
    <3>1. 1 + 1 = 2
      OBVIOUS
    <3> QED
      BY <2>3, <2>6, <3>1 DEF PutPart
  <2>8. CutToken(acc, w).cmds = Append(acc.cmds, <<>>) /\ CutToken(acc, w).argCount = 0
    BY <1>2 DEF CutToken
  <2> QED
    BY <1>2, <2>3, <2>7, <2>8
<1>3. CASE Has(w, "|") /\ w # <<"|">>
  <2> DEFINE parts == Parts(w)
             put == CHOOSE f : f = [k \in 1..Len(parts) |->
                        IF k = 1 THEN PutPart(acc.cmds, acc.argCount, parts[1])
                        ELSE PutPart(Append(f[k - 1], <<>>), 0, parts[k])]
  <2>1. CutToken(acc, w).cmds = put[n] /\ CutToken(acc, w).argCount = 0
    BY <1>3 DEF CutToken
  <2>2. Putting(put, acc, parts, n)
    <3> HIDE DEF parts
    <3>1. \E f : Putting(f, acc, parts, n)
      BY <1>0, PuttingExists
    <3>2. put = [k \in 1..Len(parts) |-> IF k = 1 THEN PutPart(acc.cmds, acc.argCount, parts[1])
                                         ELSE PutPart(Append(put[k - 1], <<>>), 0, parts[k])]
      BY <3>1 DEF Putting, parts
    <3> HIDE DEF put
    <3> QED
      BY <3>2 DEF Putting, parts
  <2> HIDE DEF put
  <2>3. n # 0 /\ 1 \in 1..n
    <3>1. Count(w, "|") \in Nat /\ n = Count(w, "|") + 1
      BY WordParts
    <3> QED
      BY <3>1
  <2> DEFINE P == {m \in Nat : m + 1 <= n => PutSoFar(put[m + 1], acc, w, m + 1)}
  <2>4. 0 \in P
    <3>1. put[1] = PutPart(acc.cmds, acc.argCount, parts[1])
      BY <2>2, <2>3 DEF Putting
    <3>2. Share(w, 1) = IF parts[1] = <<>> THEN <<>> ELSE One(parts[1])
      BY <1>3, <2>3 DEF Share
    <3>3. parts[1] \in Seq(Char)
      BY <1>0, <2>3, ElementOfSeq
    <3> HIDE DEF parts
    <3>4. \/ Share(w, 1) = <<>> /\ put[1] = acc.cmds
          \/ \E x \in Seq(Char) : Share(w, 1) = One(x) /\ put[1] = PutWord(acc.cmds, acc.argCount, x)
      BY <3>1, <3>2, <3>3 DEF PutPart
    <3>5. PutSoFar(put[1], acc, w, 1)
      BY <3>4, FirstPut
    <3>6. 0 + 1 = 1
      OBVIOUS
    <3> QED
      BY <3>5, <3>6
  <2>5. ASSUME NEW m \in P PROVE m + 1 \in P
    <3>0. m \in Nat /\ m + 1 \in Nat
      OBVIOUS
    <3>1. ASSUME (m + 1) + 1 <= n PROVE PutSoFar(put[(m + 1) + 1], acc, w, (m + 1) + 1)
      <4>1. /\ (m + 1) + 1 \in 1..n /\ (m + 1) + 1 # 1 /\ ((m + 1) + 1) - 1 = m + 1
            /\ m + 1 <= n /\ m + 1 \in Nat \ {0}
        BY <1>0, <3>0, <3>1
      <4>2. PutSoFar(put[m + 1], acc, w, m + 1)
        BY <4>1
      <4>3. put[(m + 1) + 1] = PutPart(Append(put[m + 1], <<>>), 0, parts[(m + 1) + 1])
        BY <2>2, <4>1 DEF Putting
      <4> DEFINE j == m + 1
      <4> HIDE DEF j
      <4>4. PutSoFar(PutPart(Append(put[j], <<>>), 0, Parts(w)[j + 1]), acc, w, j + 1)
        BY <1>3, <3>1, <4>1, <4>2, NextPut DEF j
      <4> QED
        BY <4>3, <4>4 DEF j
    <3> QED
      BY <3>0, <3>1
  <2>6. P = Nat
    <3>1. P \in SUBSET Nat
      OBVIOUS
    <3> HIDE DEF P
    <3> QED
      BY <2>4, <2>5, <3>1, NumberInduction
  <2>7. n - 1 \in P /\ (n - 1) + 1 = n /\ n <= n
    <3> HIDE DEF P, n
    <3>1. n - 1 \in Nat /\ (n - 1) + 1 = n /\ n <= n
      BY <1>0, <2>3
    <3> QED
      BY <2>6, <3>1
  <2>8. PutSoFar(put[n], acc, w, n)
    BY <2>7
  <2> QED
    BY <1>3, <2>1, <2>8
<1> QED
  BY <1>1, <1>2, <1>3

(* What a pipeline has of a command: all its words, or all but the first.   *)
Kept(c, whole) == c = whole \/ (Len(whole) >= 2 /\ c = Tail(whole))

(* The share of a token joins a command that has all its words, or all but  *)
(* the first: it is the same with the share, unless argCount stands on the  *)
(* only word, which the share replaces.                                     *)
LEMMA JoinedKept ==
  ASSUME NEW S, NEW whole \in Seq(S), NEW c, Kept(c, whole), NEW share \in Seq(S), NEW a,
         a = Len(c) \/ (a = 0 /\ Len(c) = 1 /\ c = whole)
  PROVE  /\ Kept(JoinedTo(c, a, share), Cat(whole, share))
         /\ c = whole /\ (share = <<>> \/ a = Len(c)) => JoinedTo(c, a, share) = Cat(whole, share)
<1>0. c \in Seq(S) /\ Len(c) \in Nat /\ Len(whole) \in Nat /\ Len(share) \in Nat
  <2>1. CASE c = whole
    BY <2>1, LenProperties
  <2>2. CASE Len(whole) >= 2 /\ c = Tail(whole)
    <3>1. whole # <<>>
      BY <2>2, EmptySeq
    <3>2. Tail(whole) \in Seq(S)
      BY <3>1, HeadAndTail
    <3> QED
      BY <2>2, <3>2, LenProperties
  <2> QED
    BY <2>1, <2>2 DEF Kept
<1>1. Cat(whole, <<>>) = whole /\ Cat(<<>>, share) = share
  BY CatEmpty
<1>2. Cat(whole, share) \in Seq(S) /\ Len(Cat(whole, share)) = Len(whole) + Len(share)
  BY CatType
<1>3. CASE share = <<>>
  BY <1>1, <1>3 DEF JoinedTo
<1>4. CASE share # <<>> /\ a # 0
  <2>1. JoinedTo(c, a, share) = Cat(c, share)
    BY <1>4 DEF JoinedTo
  <2>2. CASE c = whole
    BY <2>1, <2>2 DEF Kept
  <2>3. CASE Len(whole) >= 2 /\ c = Tail(whole)
    <3>1. whole # <<>>
      BY <2>3, EmptySeq
    <3>2. Tail(Cat(whole, share)) = Cat(Tail(whole), share)
      BY <3>1, TailOfCat
    <3>3. Len(Cat(whole, share)) >= 2
      BY <1>0, <1>2, <2>3
    <3>4. Len(Tail(whole)) = Len(whole) - 1
      BY <3>1, HeadAndTail
    <3>5. c # whole
      <4>1. Len(c) = Len(whole) - 1
        BY <2>3, <3>4
      <4>2. Len(c) # Len(whole)
        BY <1>0, <4>1
      <4> QED
        BY <4>2
    <3> QED
      BY <2>1, <2>3, <3>2, <3>3, <3>5 DEF Kept
  <2> QED
    BY <2>2, <2>3 DEF Kept
<1>5. CASE share # <<>> /\ a = 0
  <2>1. JoinedTo(c, a, share) = share
    BY <1>5 DEF JoinedTo
  <2>2. CASE Len(c) = 0
    <3>1. c = <<>>
      BY <1>0, <2>2, EmptySeq
    <3>2. whole = <<>>
      <4>1. CASE c = whole
        BY <3>1, <4>1
      <4>2. CASE Len(whole) >= 2 /\ c = Tail(whole)
        <5>1. whole # <<>>
          BY <4>2, EmptySeq
        <5>2. Len(Tail(whole)) = Len(whole) - 1
          BY <5>1, HeadAndTail
        <5> QED
          BY <1>0, <2>2, <4>2, <5>2
      <4> QED
        BY <4>1, <4>2 DEF Kept
    <3> QED
      BY <1>1, <2>1, <3>2 DEF Kept
  <2>3. CASE Len(c) # 0
    <3>1. a # Len(c) /\ Len(whole) = 1 /\ c = whole
      BY <1>5, <2>3
    <3>2. whole # <<>> /\ Tail(whole) \in Seq(S) /\ Len(Tail(whole)) = Len(whole) - 1
      BY <3>1, HeadAndTail, EmptySeq
    <3>3. Tail(whole) = <<>>
      <4>1. Len(Tail(whole)) = 0
        BY <3>1, <3>2
      <4> QED
        BY <3>2, <4>1, EmptySeq
    <3>4. Tail(Cat(whole, share)) = share
      <4>1. Tail(Cat(whole, share)) = Cat(Tail(whole), share)
        BY <3>2, TailOfCat
      <4> QED
        BY <1>1, <3>3, <4>1
    <3>5. Len(share) # 0
      BY <1>5, EmptySeq
    <3>6. Len(Cat(whole, share)) >= 2
      BY <1>0, <1>2, <3>1, <3>5
    <3> QED
      BY <1>5, <2>1, <3>1, <3>4, <3>6 DEF Kept
  <2> QED
    BY <2>2, <2>3
<1> QED
  BY <1>3, <1>4, <1>5
-----------------------------------------------------------------------------
(* Where argCount stands on a word that the next argument will replace: the *)
(* last token has bars, the last character is none.                         *)
Trailing(u) ==
    /\ u # <<>> /\ Len(u[Len(u)]) > 1 /\ Has(u[Len(u)], "|")
    /\ Last(u[Len(u)]) # "|"

\* No word joined to a bar has an argument behind it.
Apart(u) == \A k \in 1..Len(u) : ~JoinedBefore(u, k)

(* The commands are cut off the tokens u so far.                            *)
CutFits(acc, u) ==
    LET L == PipeCount(u) + 1
    IN /\ acc.cmds \in Seq(Seq(Seq(Char))) /\ Len(acc.cmds) = L
       /\ \A p \in Nat : p > L => CommandOf(u, p) = <<>>
       /\ \A p \in 1..L : Kept(acc.cmds[p], CommandOf(u, p))
       /\ \/ acc.argCount = Len(acc.cmds[L])
          \/ /\ acc.argCount = 0 /\ Len(acc.cmds[L]) = 1
             /\ acc.cmds[L] = CommandOf(u, L) /\ Trailing(u)
       /\ Apart(u) => \A p \in 1..L : acc.cmds[p] = CommandOf(u, p)

(* Nothing is cut off no tokens.                                            *)
LEMMA CutFitsFirst == CutFits([cmds |-> << <<>> >>, argCount |-> 0], <<>>)
<1> DEFINE none == <<>>
           b == "|"
           acc == [cmds |-> << <<>> >>, argCount |-> 0]
<1>1. none \in Seq(Seq(Char)) /\ none \in Seq(Char) /\ Len(none) = 0
  BY EmptySeq
<1>2. PipeCount(none) = 0
  <2>1. FlattenSeq(none) = none
    BY FlattenFew
  <2> HIDE DEF none, b
  <2>2. Cardinality(Places(none, b)) = 0 <=> \A i \in 1..Len(none) : none[i] # b
    BY <1>1, PlacesFinite
  <2>3. Cardinality(Places(none, b)) = 0
    BY <1>1, <2>2
  <2> QED
    BY <2>1, <2>3 DEF PipeCount, Count, Places, b
<1>3. ASSUME NEW p PROVE CommandOf(none, p) = none
  <2> DEFINE f == [k \in 1..Len(none) |->
                     IF p - PipeCount(SubSeq(none, 1, k - 1)) \notin 1..Len(Parts(none[k])) THEN <<>>
                     ELSE IF Has(none[k], "|") /\ Parts(none[k])[p - PipeCount(SubSeq(none, 1, k - 1))] = <<>>
                     THEN <<>> ELSE <<Parts(none[k])[p - PipeCount(SubSeq(none, 1, k - 1))]>>]
  <2>1. \A k : k \notin 1..Len(none)
    BY <1>1
  <2>2. f = <<>>
    <3> HIDE DEF none
    <3>1. DOMAIN f = {}
      BY <2>1
    <3>2. f = [k \in {} |-> 0]
      BY <3>1
    <3>3. <<>> = [k \in {} |-> 0]
      OBVIOUS
    <3> HIDE DEF f
    <3> QED
      BY <3>2, <3>3
  <2>3. CommandOf(none, p) = FlattenSeq(f)
    <3> HIDE DEF none
    <3> QED
      BY DEF CommandOf
  <2> QED
    BY <2>2, <2>3, FlattenFew
<1>4. acc.cmds = One(none) /\ acc.argCount = 0
  BY DEF One
<1> HIDE DEF none, acc
<1>5. One(none) \in Seq(Seq(Seq(Char))) /\ Len(One(none)) = 1 /\ One(none)[1] = none
  BY <1>1, OneType
<1>6. \A p \in 1..1 : p = 1
  OBVIOUS
<1>7. CutFits(acc, none)
  <2>1. \A p \in 1..1 : acc.cmds[p] = CommandOf(none, p)
    BY <1>3, <1>4, <1>5, <1>6
  <2>2. none = <<>>
    BY DEF none
  <2>3. 0 + 1 = 1
    OBVIOUS
  <2> QED
    BY <1>1, <1>2, <1>3, <1>4, <1>5, <2>1, <2>2, <2>3 DEF CutFits, Kept
<1> QED
  BY <1>7 DEF none, acc

(* Where no word is joined to a bar with an argument behind it, there is    *)
(* none without the last token either.                                      *)
LEMMA ApartBefore ==
  ASSUME NEW u \in Seq(Seq(Char)), NEW w \in Seq(Char), Apart(Cat(u, One(w)))
  PROVE  Apart(u)
<1> DEFINE v == Cat(u, One(w))
<1>1. /\ Len(v) = Len(u) + 1 /\ Len(u) \in Nat
      /\ \A k \in 1..Len(u) : v[k] = u[k]
  BY OneMore
<1>2. Apart(v)
  OBVIOUS
<1> HIDE DEF v
<1> SUFFICES ASSUME NEW k \in 1..Len(u), JoinedBefore(u, k) PROVE FALSE
  BY DEF Apart
<1>3. k < Len(u)
  BY DEF JoinedBefore
<1>4. k \in 1..Len(v) /\ k < Len(v) /\ k + 1 \in 1..Len(u)
  BY <1>1, <1>3
<1>5. v[k] = u[k] /\ v[k + 1] = u[k + 1]
  BY <1>1, <1>4
<1>6. JoinedBefore(v, k)
  BY <1>4, <1>5 DEF JoinedBefore
<1> QED
  BY <1>2, <1>4, <1>6 DEF Apart

(* What a further token w does to the command that is being read: its first *)
(* share joins it.                                                          *)
LEMMA OpenCommand ==
  ASSUME NEW u \in Seq(Seq(Char)), NEW w \in Seq(Char),
         NEW acc, CutFits(acc, u)
  PROVE  LET L == PipeCount(u) + 1
             c == JoinedTo(acc.cmds[L], acc.argCount, Share(w, 1))
             whole == CommandOf(Cat(u, One(w)), L)
         IN Kept(c, whole) /\ (Apart(Cat(u, One(w))) => c = whole)
<1> DEFINE L == PipeCount(u) + 1
           a == acc.argCount
           last == acc.cmds[L]
           old == CommandOf(u, L)
           share == Share(w, 1)
           v == Cat(u, One(w))
           c == JoinedTo(last, a, share)
           whole == CommandOf(v, L)
<1>0. PipeCount(u) \in Nat /\ L \in 1..L /\ L - PipeCount(u) = 1
  <2>1. PipeCount(u) \in Nat
    BY PipeCountOneMore
  <2> QED
    BY <2>1
<1>1. /\ v \in Seq(Seq(Char)) /\ v # <<>> /\ Len(v) = Len(u) + 1 /\ Len(u) \in Nat
      /\ \A k \in 1..Len(u) : v[k] = u[k]
      /\ v[Len(u) + 1] = w
  BY OneMore
<1>2. old \in Seq(Seq(Char)) /\ whole = Cat(old, share) /\ share \in Seq(Seq(Char))
  <2>1. /\ CommandOf(u, L) \in Seq(Seq(Char))
        /\ CommandOf(Cat(u, One(w)), L) = Cat(CommandOf(u, L), Share(w, L - PipeCount(u)))
    BY CommandOfNext
  <2>2. Share(w, L - PipeCount(u)) = share
    BY <1>0
  <2> QED
    BY <2>1, <2>2, ShareType
<1>3. /\ Kept(last, old)
      /\ a = Len(last) \/ (a = 0 /\ Len(last) = 1 /\ last = old /\ Trailing(u))
      /\ Apart(u) => last = old
  BY <1>0 DEF CutFits
<1>4. /\ Kept(c, whole)
      /\ last = old /\ (share = <<>> \/ a = Len(last)) => c = whole
  <2> HIDE DEF last, old, share, a
  <2> QED
    BY <1>2, <1>3, JoinedKept
<1>5. ASSUME Apart(v) PROVE c = whole
  <2>1. Apart(u)
    BY <1>5, ApartBefore
  <2>2. last = old
    BY <1>3, <2>1
  <2>3. CASE share = <<>> \/ a = Len(last)
    BY <1>4, <2>2, <2>3
  <2>4. CASE share # <<>> /\ a # Len(last)
    <3>1. Trailing(u)
      BY <1>3, <2>4
    <3> DEFINE k == Len(u)
    <3>2. k \in Nat \ {0} /\ k \in 1..Len(u) /\ k \in 1..Len(v) /\ k < Len(v)
      <4>1. k # 0
        BY <3>1, EmptySeq DEF Trailing
      <4> HIDE DEF v
      <4> QED
        BY <1>1, <4>1
    <3>3. v[k] = u[k] /\ v[k + 1] = w
      BY <1>1, <3>2
    <3>4. ~BeginsWith(w, "|")
      <4>1. 1 \in 1..Len(Parts(w)) /\ (Has(w, "|") => Parts(w)[1] # <<>>)
        BY <2>4 DEF Share
      <4>2. CASE Has(w, "|")
        BY <4>1, <4>2, WordParts DEF BeginsWith
      <4>3. CASE ~Has(w, "|")
        <5>1. Parts(w) = One(w) /\ One(w)[1] = w
          BY <4>3, WordParts, OneType
        <5>2. w # <<>> => w[1] # "|"
          BY <5>1, WordParts
        <5> QED
          BY <5>2 DEF BeginsWith
      <4> QED
        BY <4>2, <4>3
    <3> HIDE DEF v
    <3>5. JoinedBefore(v, k)
      BY <3>1, <3>2, <3>3, <3>4 DEF JoinedBefore, Trailing
    <3> QED
      BY <1>5, <3>2, <3>5 DEF Apart
  <2> QED
    BY <2>3, <2>4
<1> QED
  BY <1>4, <1>5

(* Where argCount stands behind the token.                                  *)
LEMMA ArgCountFits ==
  ASSUME NEW u \in Seq(Seq(Char)), NEW w \in Seq(Char), NEW last \in Seq(Seq(Char)),
         NEW a, a = Len(last) \/ a = 0
  PROVE  LET n == Len(Parts(w))
             share == Share(w, n)
             v == Cat(u, One(w))
         IN /\ Has(w, "|") /\ share # <<>> => Len(share) = 1 /\ Trailing(v)
            /\ ~Has(w, "|") => n = 1 /\ Len(JoinedTo(last, a, share)) = a + 1
<1> DEFINE n == Len(Parts(w))
           share == Share(w, n)
           v == Cat(u, One(w))
<1>1. /\ v \in Seq(Seq(Char)) /\ v # <<>> /\ Len(v) = Len(u) + 1 /\ Len(u) \in Nat
      /\ v[Len(u) + 1] = w
  BY OneMore
<1>2. Len(w) \in Nat /\ DOMAIN w = 1..Len(w) /\ Len(last) \in Nat
  BY LenProperties
<1>3. ASSUME Has(w, "|"), share # <<>> PROVE Len(share) = 1 /\ Trailing(v)
  <2>1. Len(share) = 1
    BY <1>3, ShareType
  <2>2. Parts(w)[n] # <<>>
    BY <1>3 DEF Share
  <2>3. w # <<>> /\ w[Len(w)] # "|"
    <3>1. w # <<>>
      BY <1>2, <1>3, EmptySeq DEF Has, ToSet
    <3> QED
      BY <2>2, <3>1, WordParts
  <2>4. Len(w) > 1
    <3>1. PICK i \in 1..Len(w) : w[i] = "|"
      BY <1>2, <1>3 DEF Has, ToSet
    <3>2. Len(w) # 1
      <4>1. Len(w) = 1 => i = Len(w)
        BY <1>2
      <4> QED
        BY <2>3, <3>1, <4>1
    <3> QED
      BY <1>2, <3>2
  <2>5. v[Len(v)] = w
    BY <1>1
  <2> HIDE DEF v
  <2> QED
    BY <1>1, <1>3, <2>1, <2>3, <2>4, <2>5 DEF Trailing, Last
<1>4. ASSUME ~Has(w, "|") PROVE n = 1 /\ Len(JoinedTo(last, a, share)) = a + 1
  <2>1. Parts(w) = One(w) /\ Len(One(w)) = 1 /\ One(w)[1] = w
    BY <1>4, WordParts, OneType
  <2>2. n = 1 /\ share = One(w)
    <3>1. 1 \in 1..1
      OBVIOUS
    <3> QED
      BY <1>4, <2>1, <3>1 DEF Share
  <2> DEFINE o == One(w)
  <2>3. o \in Seq(Seq(Char)) /\ Len(o) = 1 /\ o # <<>> /\ share = o
    BY <2>2, OneType
  <2>4. Len(Cat(last, o)) = Len(last) + 1
    BY OneMore
  <2> HIDE DEF o, share
  <2>5. Len(JoinedTo(last, a, share)) = a + 1
    <3>1. CASE a = 0
      BY <2>3, <3>1 DEF JoinedTo
    <3>2. CASE a # 0
      BY <2>3, <2>4, <3>2 DEF JoinedTo
    <3> QED
      BY <3>1, <3>2
  <2> QED
    BY <2>2, <2>5
<1> QED
  BY <1>3, <1>4

(* A further token is cut as it should be.                                  *)
LEMMA CutFitsNext ==
  ASSUME NEW u \in Seq(Seq(Char)), NEW w \in Seq(Char),
         NEW acc, CutFits(acc, u)
  PROVE  CutFits(CutToken(acc, w), Cat(u, One(w)))
<1> DEFINE B == PipeCount(u)
           L == B + 1
           n == Len(Parts(w))
           v == Cat(u, One(w))
           K == PipeCount(v) + 1
           next == CutToken(acc, w)
           cmds == next.cmds
           old == acc.cmds
           a == acc.argCount
<1>1. /\ B \in Nat /\ n \in Nat \ {0} /\ K = B + n /\ (L + n) - 1 = K
      /\ L \in Nat \ {0} /\ L \in 1..L /\ K \in 1..K /\ L \in 1..K
  <2>1. /\ PipeCount(v) = B + Count(w, "|") /\ B \in Nat
    BY PipeCountOneMore
  <2>2. Count(w, "|") \in Nat /\ n = Count(w, "|") + 1
    BY WordParts
  <2> DEFINE m == Count(w, "|")
  <2>3. m \in Nat /\ n = m + 1 /\ B \in Nat /\ PipeCount(v) = B + m
    BY <2>1, <2>2
  <2> HIDE DEF m, n, B, v
  <2> QED
    BY <2>3
<1>2. /\ old \in Seq(Seq(Seq(Char))) /\ Len(old) = L
      /\ \A p \in Nat : p > L => CommandOf(u, p) = <<>>
      /\ \A p \in 1..L : Kept(old[p], CommandOf(u, p))
      /\ \/ a = Len(old[L])
         \/ a = 0 /\ Len(old[L]) = 1
      /\ Apart(u) => \A p \in 1..L : old[p] = CommandOf(u, p)
  BY DEF CutFits
<1>3. old[L] \in Seq(Seq(Char)) /\ Len(old[L]) \in Nat
  <2>1. old[L] \in Seq(Seq(Char))
    BY <1>1, <1>2, ElementOfSeq
  <2> QED
    BY <2>1, LenProperties
<1>4. Cuttable(acc)
  <2>1. old # <<>>
    BY <1>1, <1>2, EmptySeq
  <2> QED
    BY <1>2, <1>3, <2>1 DEF Cuttable, ArgFits
<1>5. /\ cmds \in Seq(Seq(Seq(Char))) /\ Len(cmds) = K
      /\ \A p \in 1..K : cmds[p] = CutAt(acc, w, p)
      /\ next.argCount = IF Has(w, "|") THEN 0 ELSE a + 1
  <2>1. /\ PutSoFar(cmds, acc, w, n)
        /\ next.argCount = IF Has(w, "|") THEN 0 ELSE a + 1
    BY <1>4, TokenCut
  <2> QED
    BY <1>1, <1>2, <2>1 DEF PutSoFar
<1>6. ASSUME NEW p PROVE CommandOf(v, p) = Cat(CommandOf(u, p), Share(w, p - B)) /\ CommandOf(u, p) \in Seq(Seq(Char))
  BY CommandOfNext
<1>7. ASSUME NEW j \in Int, j < 1 \/ j > n PROVE Share(w, j) = <<>>
  <2>1. j \notin 1..n
    BY <1>1, <1>7
  <2> QED
    BY <2>1 DEF Share
<1>8. \A r \in Seq(Seq(Char)) : Cat(r, <<>>) = r /\ Cat(<<>>, r) = r
  BY CatEmpty
<1>9. \A j : Share(w, j) \in Seq(Seq(Char))
  BY ShareType
<1> HIDE DEF v, K, cmds, next
<1>10. ASSUME NEW p \in Nat, p > K PROVE CommandOf(v, p) = <<>>
  <2>1. p > L /\ p - B \in Int /\ p - B > n
    BY <1>1, <1>10
  <2>2. CommandOf(u, p) = <<>> /\ Share(w, p - B) = <<>>
    BY <1>2, <1>7, <2>1
  <2> QED
    BY <1>6, <1>8, <2>2
<1>11. ASSUME NEW p \in 1..K, p < L
       PROVE  p \in 1..L /\ cmds[p] = old[p] /\ CommandOf(v, p) = CommandOf(u, p)
  <2>1. p \in 1..L /\ p - B \in Int /\ p - B < 1
    BY <1>1, <1>11
  <2>2. Share(w, p - B) = <<>>
    BY <1>7, <2>1
  <2>3. cmds[p] = old[p]
    BY <1>2, <1>5, <1>11 DEF CutAt
  <2> QED
    BY <1>6, <1>8, <2>1, <2>2, <2>3
<1>12. ASSUME NEW p \in 1..K, p > L
       PROVE  cmds[p] = Share(w, p - B) /\ CommandOf(v, p) = cmds[p]
  <2>1. p \in Nat /\ ~(p < L) /\ p # L /\ (p - L) + 1 = p - B
    BY <1>1, <1>12
  <2>2. cmds[p] = Share(w, (p - L) + 1)
    BY <1>2, <1>5, <2>1 DEF CutAt
  <2>3. CommandOf(u, p) = <<>>
    BY <1>2, <1>12, <2>1
  <2> QED
    BY <1>6, <1>8, <1>9, <2>1, <2>2, <2>3
<1>13. /\ cmds[L] = JoinedTo(old[L], a, Share(w, 1))
       /\ Kept(cmds[L], CommandOf(v, L))
       /\ Apart(v) => cmds[L] = CommandOf(v, L)
  <2>1. cmds[L] = JoinedTo(old[L], a, Share(w, 1))
    <3>1. ~(L < L)
      BY <1>1
    <3> QED
      BY <1>1, <1>2, <1>5, <3>1 DEF CutAt
  <2> QED
    BY <2>1, OpenCommand DEF v
<1>14. ASSUME NEW p \in 1..K
       PROVE  Kept(cmds[p], CommandOf(v, p)) /\ (Apart(v) => cmds[p] = CommandOf(v, p))
  <2>1. p < L \/ p = L \/ p > L
    BY <1>1
  <2>2. CASE p < L
    <3>1. ASSUME Apart(v) PROVE Apart(u)
      BY <3>1, ApartBefore DEF v
    <3> QED
      BY <1>2, <1>11, <2>2, <3>1
  <2>3. CASE p = L
    BY <1>13, <2>3
  <2>4. CASE p > L
    BY <1>12, <2>4 DEF Kept
  <2> QED
    BY <2>1, <2>2, <2>3, <2>4
<1>15. \/ next.argCount = Len(cmds[K])
       \/ /\ next.argCount = 0 /\ Len(cmds[K]) = 1
          /\ cmds[K] = CommandOf(v, K) /\ Trailing(v)
  <2> DEFINE share == Share(w, n)
  <2>1. /\ Has(w, "|") /\ share # <<>> => Len(share) = 1 /\ Trailing(v)
        /\ ~Has(w, "|") => n = 1 /\ Len(JoinedTo(old[L], a, share)) = a + 1
    <3>1. old[L] \in Seq(Seq(Char)) /\ (a = Len(old[L]) \/ a = 0)
      BY <1>2, <1>3
    <3> DEFINE last == old[L]
    <3>2. last \in Seq(Seq(Char)) /\ (a = Len(last) \/ a = 0)
      BY <3>1
    <3> HIDE DEF last, a
    <3>3. /\ Has(w, "|") /\ Share(w, Len(Parts(w))) # <<>> =>
                Len(Share(w, Len(Parts(w)))) = 1 /\ Trailing(Cat(u, One(w)))
          /\ ~Has(w, "|") => Len(Parts(w)) = 1 /\ Len(JoinedTo(last, a, Share(w, Len(Parts(w))))) = a + 1
      BY <3>2, ArgCountFits
    <3> QED
      BY <3>3 DEF v, last
  <2>2. CASE ~Has(w, "|")
    <3>1. K = L /\ n = 1
      BY <1>1, <2>1, <2>2
    <3> QED
      BY <1>5, <1>13, <2>1, <2>2, <3>1
  <2>3. CASE Has(w, "|")
    <3>1. n # 1
      <4>1. Count(w, "|") \in Nat /\ Count(w, "|") # 0 /\ n = Count(w, "|") + 1
        BY <2>3, WordParts
      <4> QED
        BY <4>1
    <3>2. K > L /\ K - B = n
      <4>1. B \in Nat /\ n \in Nat \ {0} /\ K = B + n
        BY <1>1
      <4> HIDE DEF n, B
      <4> QED
        BY <3>1, <4>1
    <3>3. cmds[K] = share /\ CommandOf(v, K) = cmds[K]
      BY <1>1, <1>12, <3>2
    <3>4. share = <<>> => Len(share) = 0
      BY EmptySeq
    <3> QED
      BY <1>5, <2>1, <2>3, <3>3, <3>4
  <2> QED
    BY <2>2, <2>3
<1>16. CutFits(next, v)
  BY <1>5, <1>10, <1>14, <1>15 DEF CutFits, cmds, K
<1> QED
  BY <1>16 DEF next, v

(* So all the commands of a line are cut.                                   *)
LEMMA LineCut ==
  ASSUME NEW toks \in Seq(Seq(Char))
  PROVE  \E acc : CutFits(acc, toks) /\ CutAtBars(toks) = acc.cmds
<1> DEFINE n == Len(toks)
           cut == CHOOSE f : f = [k \in 0..n |->
                      IF k = 0 THEN [cmds |-> << <<>> >>, argCount |-> 0] ELSE CutToken(f[k - 1], toks[k])]
<1>0. n \in Nat
  BY LenProperties
<1>1. Cutting(cut, toks, n)
  <2> HIDE DEF n
  <2>1. \E f : Cutting(f, toks, n)
    BY <1>0, CuttingExists
  <2>2. cut = [k \in 0..n |-> IF k = 0 THEN [cmds |-> << <<>> >>, argCount |-> 0]
                              ELSE CutToken(cut[k - 1], toks[k])]
    BY <2>1 DEF Cutting
  <2> HIDE DEF cut
  <2> QED
    BY <2>2 DEF Cutting
<1>2. CutAtBars(toks) = cut[n].cmds
  BY DEF CutAtBars
<1> HIDE DEF cut, n
<1> DEFINE P == {m \in Nat : m <= n => CutFits(cut[m], SubSeq(toks, 1, m))}
<1>3. 0 \in P
  <2>1. cut[0] = [cmds |-> << <<>> >>, argCount |-> 0]
    <3>1. 0 \in 0..n
      BY <1>0
    <3> QED
      BY <1>1, <3>1 DEF Cutting
  <2>2. SubSeq(toks, 1, 0) = <<>>
    BY SubSeqEmpty
  <2> QED
    BY <2>1, <2>2, CutFitsFirst
<1>4. ASSUME NEW m \in P PROVE m + 1 \in P
  <2>0. m \in Nat /\ m + 1 \in Nat
    OBVIOUS
  <2>1. ASSUME m + 1 <= n PROVE CutFits(cut[m + 1], SubSeq(toks, 1, m + 1))
    <3>1. m <= n /\ m + 1 \in 0..n /\ m + 1 # 0 /\ (m + 1) - 1 = m /\ m + 1 <= Len(toks) /\ 0 <= m
      BY <1>0, <2>0, <2>1 DEF n
    <3>2. cut[m + 1] = CutToken(cut[m], toks[m + 1])
      BY <1>1, <3>1 DEF Cutting
    <3>3. /\ SubSeq(toks, 1, m) \in Seq(Seq(Char)) /\ toks[m + 1] \in Seq(Char)
          /\ SubSeq(toks, 1, m + 1) = Cat(SubSeq(toks, 1, m), One(toks[m + 1]))
      BY <2>0, <3>1, BeginGrows
    <3> DEFINE u == SubSeq(toks, 1, m)
               w == toks[m + 1]
    <3>5. CutFits(cut[m], u)
      BY <3>1
    <3>6. u \in Seq(Seq(Char)) /\ w \in Seq(Char) /\ SubSeq(toks, 1, m + 1) = Cat(u, One(w))
      BY <3>3
    <3> HIDE DEF u, w
    <3>7. CutFits(CutToken(cut[m], w), Cat(u, One(w)))
      BY <3>5, <3>6, CutFitsNext
    <3> QED
      BY <3>2, <3>6, <3>7 DEF w
  <2> QED
    BY <2>0, <2>1
<1>5. P = Nat
  <2>1. P \in SUBSET Nat
    OBVIOUS
  <2> HIDE DEF P
  <2> QED
    BY <1>3, <1>4, <2>1, NumberInduction
<1>6. CutFits(cut[n], SubSeq(toks, 1, n))
  <2>1. n \in P /\ n <= n
    <3> HIDE DEF P
    <3> QED
      BY <1>0, <1>5
  <2> QED
    BY <2>1
<1>7. SubSeq(toks, 1, n) = toks
  BY SubSeqFull DEF n
<1> QED
  BY <1>2, <1>6, <1>7

(* The inductive invariant of the cut: the tokens stay as they are while    *)
(* the commands run, which are those of the cut.                            *)
Laid == pc \in {"execute", "ran"} => tokens \in Seq(Seq(Char)) /\ tokens # <<>>
CutInv == LineInv /\ Laid /\ (PipelineCut => commands = CutAtBars(Words))

(* At first no pipeline is cut.                                             *)
LEMMA CutInit == Init => CutInv
<1>1. Init => Laid
  BY DEF Init, Laid
<1>2. Init => ~PipelineCut
  BY DEF Init, PipelineCut
<1> QED
  BY <1>1, <1>2, LineInit DEF CutInv

(* Only the cut of a pipeline gives it commands.                            *)
LEMMA CutStep == CutInv /\ [Next]_vars => CutInv'
<1> SUFFICES ASSUME CutInv, [Next]_vars PROVE CutInv'
  OBVIOUS
<1>0. LineInv /\ Laid /\ (PipelineCut => commands = CutAtBars(Words))
  BY DEF CutInv
<1>1. LineInv'
  BY <1>0, LineStep
<1>2. pc' # "ran" => ~PipelineCut'
  BY DEF PipelineCut
<1>3. ASSUME PipeCount(Words) = 0, tokens' = tokens PROVE ~PipelineCut'
  BY <1>3 DEF PipelineCut, Words, InBackground
<1>4. Laid' /\ (PipelineCut' => commands' = CutAtBars(Words)')
  <2>1. CASE TypeLine
    <3>1. pc' = "execute"
      BY <2>1 DEF TypeLine
    <3> QED
      BY <1>1, <1>2, <3>1 DEF Laid, LineInv, Typed
  <2>2. CASE ExitShell
    BY <1>2, <2>2 DEF ExitShell, Laid
  <2>3. CASE Assignment
    <3>1. PipeCount(Words) = 0 /\ pc = "execute" /\ tokens' = tokens
      BY <2>3 DEF Assignment, Foreground
    <3> QED
      BY <1>0, <1>3, <3>1 DEF Laid
  <2>4. CASE Command
    <3>1. PipeCount(Words) = 0 /\ pc = "execute" /\ tokens' = tokens
      BY <2>4 DEF Command, Foreground
    <3> QED
      BY <1>0, <1>3, <3>1 DEF Laid
  <2>5. CASE Background
    <3>1. PipeCount(Words) = 0 /\ pc = "execute" /\ tokens' = tokens
      BY <2>5 DEF Background
    <3> QED
      BY <1>0, <1>3, <3>1 DEF Laid
  <2>6. CASE Pipeline
    <3>1. pc = "execute" /\ tokens' = tokens
      BY <2>6 DEF Pipeline
    <3>2. PipelineCut' => ~BeginsWith(tokens[1], "|")
      BY <3>1 DEF PipelineCut
    <3>3. PipelineCut' => commands' = CutAtBars(Words)
      BY <2>6, <3>2 DEF Pipeline
    <3>4. Words' = Words
      BY <3>1 DEF Words, InBackground
    <3> QED
      BY <1>0, <3>1, <3>3, <3>4 DEF Laid
  <2>7. CASE Prompt
    BY <1>2, <2>7 DEF Prompt, Laid
  <2>8. CASE UNCHANGED vars
    <3>1. pc' = pc /\ tokens' = tokens /\ commands' = commands
      BY <2>8 DEF vars
    <3>2. Words' = Words
      BY <3>1 DEF Words, InBackground
    <3> QED
      BY <1>0, <3>1, <3>2 DEF Laid, PipelineCut
  <2> QED
    BY <2>1, <2>2, <2>3, <2>4, <2>5, <2>6, <2>7, <2>8 DEF Next
<1> QED
  BY <1>1, <1>4 DEF CutInv

(* The words of a pipeline.                                                 *)
LEMMA WordsTyped ==
  ASSUME Laid, PipelineCut
  PROVE  Words \in Seq(Seq(Char))
<1>1. tokens \in Seq(Seq(Char)) /\ tokens # <<>>
  BY DEF Laid, PipelineCut
<1>2. Front(tokens) \in Seq(Seq(Char))
  <2>1. Len(tokens) - 1 \in Nat /\ Len(tokens) - 1 <= Len(tokens)
    <3>1. Len(tokens) \in Nat \ {0}
      BY <1>1, LenProperties, EmptySeq
    <3> QED
      BY <3>1
  <2>2. SubSeq(tokens, 1, Len(tokens) - 1) \in Seq(Seq(Char))
    BY <1>1, <2>1, Cut
  <2> QED
    BY <2>2 DEF Front
<1> QED
  BY <1>1, <1>2 DEF Words

(* All words but the first of a command are some of its words, the last     *)
(* among them, and so are all of them.                                      *)
LEMMA KeptInPlace ==
  ASSUME NEW S, NEW whole \in Seq(S), whole # <<>>, NEW c, Kept(c, whole)
  PROVE  IsSubSequence(c, whole) /\ c # <<>> /\ Last(c) = Last(whole)
<1>0. Len(whole) \in Nat \ {0}
  BY LenProperties, EmptySeq
<1>1. CASE c = whole
  <2> DEFINE place == [i \in 1..Len(c) |-> i]
  <2>1. place \in [1..Len(c) -> 1..Len(whole)]
    BY <1>1
  <2>2. \A i, j \in 1..Len(c) : i < j => place[i] < place[j]
    OBVIOUS
  <2>3. \A i \in 1..Len(c) : c[i] = whole[place[i]]
    BY <1>1
  <2> HIDE DEF place
  <2>4. IsSubSequence(c, whole)
    BY <2>1, <2>2, <2>3 DEF IsSubSequence
  <2> QED
    BY <1>1, <2>4
<1>2. CASE Len(whole) >= 2 /\ c = Tail(whole)
  <2>1. c \in Seq(S) /\ Len(c) = Len(whole) - 1 /\ Len(c) \in Nat \ {0}
    <3>1. Tail(whole) \in Seq(S) /\ Len(Tail(whole)) = Len(whole) - 1
      BY HeadAndTail
    <3> QED
      BY <1>0, <1>2, <3>1
  <2>2. \A i \in 1..Len(c) : c[i] = whole[i + 1]
    BY <1>2, <2>1, HeadTailProperties
  <2> DEFINE place == [i \in 1..Len(c) |-> i + 1]
  <2>3. place \in [1..Len(c) -> 1..Len(whole)]
    <3>1. \A i \in 1..Len(c) : i + 1 \in 1..Len(whole)
      BY <1>0, <2>1
    <3> QED
      BY <3>1
  <2>4. \A i, j \in 1..Len(c) : i < j => place[i] < place[j]
    <3>1. \A i, j \in 1..Len(c) : i < j => i + 1 < j + 1
      BY <2>1
    <3> QED
      BY <3>1
  <2>5. \A i \in 1..Len(c) : c[i] = whole[place[i]]
    BY <2>2
  <2> HIDE DEF place
  <2>6. IsSubSequence(c, whole)
    BY <2>3, <2>4, <2>5 DEF IsSubSequence
  <2>7. c # <<>> /\ Last(c) = Last(whole)
    <3>1. Len(c) \in 1..Len(c) /\ Len(c) + 1 = Len(whole)
      BY <1>0, <2>1
    <3>2. c[Len(c)] = whole[Len(whole)]
      BY <2>2, <3>1
    <3> QED
      BY <2>1, <3>2, EmptySeq DEF Last
  <2> QED
    BY <2>6, <2>7
<1> QED
  BY <1>1, <1>2 DEF Kept

(* What the cut of a pipeline means, from the inductive invariant.          *)
LEMMA CutIsWhole == CutInv => CommandsAreWhole
<1> SUFFICES ASSUME CutInv, PipelineCut, ~(\E k \in 1..Len(Words) : JoinedBefore(Words, k))
             PROVE  commands = [p \in 1..PipeCount(Words) + 1 |-> CommandOf(Words, p)]
  BY DEF CommandsAreWhole
<1>1. Words \in Seq(Seq(Char)) /\ commands = CutAtBars(Words)
  BY WordsTyped DEF CutInv
<1>2. PICK acc : CutFits(acc, Words) /\ CutAtBars(Words) = acc.cmds
  BY <1>1, LineCut
<1>3. Apart(Words)
  BY DEF Apart
<1> DEFINE L == PipeCount(Words) + 1
<1>4. /\ commands \in Seq(Seq(Seq(Char))) /\ Len(commands) = L
      /\ \A p \in 1..L : commands[p] = CommandOf(Words, p)
  BY <1>1, <1>2, <1>3 DEF CutFits
<1>5. commands = [p \in 1..Len(commands) |-> commands[p]]
  BY <1>4, LenProperties
<1> HIDE DEF L
<1>6. commands = [p \in 1..L |-> CommandOf(Words, p)]
  BY <1>4, <1>5
<1> QED
  BY <1>6 DEF L

(* And of every command it has the last words, whatever the bars are joined to. *)
LEMMA CutIsInPlace == CutInv => CommandsAreInPlace
<1> SUFFICES ASSUME CutInv, PipelineCut
             PROVE  /\ Len(commands) = PipeCount(Words) + 1
                    /\ \A p \in 1..Len(commands) :
                         LET whole == CommandOf(Words, p)
                         IN IF whole = <<>> THEN commands[p] = <<>>
                            ELSE IsSubSequence(commands[p], whole) /\ commands[p] # <<>> /\ Last(commands[p]) = Last(whole)
  BY DEF CommandsAreInPlace
<1>1. Words \in Seq(Seq(Char)) /\ commands = CutAtBars(Words)
  BY WordsTyped DEF CutInv
<1>2. PICK acc : CutFits(acc, Words) /\ CutAtBars(Words) = acc.cmds
  BY <1>1, LineCut
<1>3. Len(commands) = PipeCount(Words) + 1
  BY <1>1, <1>2 DEF CutFits
<1>4. ASSUME NEW p \in 1..Len(commands)
      PROVE  LET whole == CommandOf(Words, p)
             IN IF whole = <<>> THEN commands[p] = <<>>
                ELSE IsSubSequence(commands[p], whole) /\ commands[p] # <<>> /\ Last(commands[p]) = Last(whole)
  <2> DEFINE whole == CommandOf(Words, p)
             c == commands[p]
  <2>1. Kept(c, whole)
    BY <1>1, <1>2, <1>3 DEF CutFits
  <2>2. whole \in Seq(Seq(Char))
    <3> DEFINE t == Words
    <3>1. t \in Seq(Seq(Char)) /\ <<>> \in Seq(Char)
      BY <1>1, EmptySeq
    <3> HIDE DEF t
    <3>2. CommandOf(t, p) \in Seq(Seq(Char))
      BY <3>1, CommandOfNext
    <3> QED
      BY <3>2 DEF t
  <2> HIDE DEF whole, c
  <2>3. CASE whole = <<>>
    <3>1. Len(whole) = 0
      BY <2>3, EmptySeq
    <3>2. c = whole
      BY <2>1, <3>1 DEF Kept
    <3> QED
      BY <2>3, <3>2 DEF whole, c
  <2>4. CASE whole # <<>>
    <3>1. IsSubSequence(c, whole) /\ c # <<>> /\ Last(c) = Last(whole)
      BY <2>1, <2>2, <2>4, KeptInPlace
    <3> QED
      BY <2>4, <3>1 DEF whole, c
  <2> QED
    BY <2>3, <2>4
<1> QED
  BY <1>3, <1>4

(* Every command of a pipeline gets all its words in order, for every line  *)
(* and every length of the text buffers, unless a word joined to a bar has  *)
(* an argument behind it; the splitting in execute_commands.                *)
THEOREM CommandsStayWhole == Spec => []CommandsAreWhole
<1> QED
  BY CutInit, CutStep, CutIsWhole, PTL DEF Spec

(* However the bars are joined, there is a command for each process that is *)
(* forked, and its words are words of that command in their order, the last *)
(* among them; the splitting in execute_commands.                           *)
THEOREM CommandsStayInPlace == Spec => []CommandsAreInPlace
<1> QED
  BY CutInit, CutStep, CutIsInPlace, PTL DEF Spec
=============================================================================
