----------------------------- MODULE ChatProofs -----------------------------
(* Theorems about Chat, for every number of connections, every division     *)
(* into senders and clients, lines of every length and buffers of every     *)
(* size.                                                                    *)
EXTENDS Chat, SequenceLemmas

-----------------------------------------------------------------------------
(* The inductive invariant.                                                 *)

Item == Seq(Unit)
Order == Conn \X Item
Entry == [item : Item, to : SUBSET Conn]

(* A stream for each connection, of its own units.                          *)
UnitOf(c) == {u \in Unit : u.from = c}
OwnStreams == {f \in [Conn -> Item] : \A c \in Conn : f[c] \in Seq(UnitOf(c))}

Streams ==
    /\ typed \in OwnStreams /\ keyboard \in OwnStreams /\ stdio \in OwnStreams
    /\ up \in OwnStreams /\ buf \in OwnStreams
    /\ shown \in [Conn -> Seq(Item)] /\ down \in [Conn -> Seq(Item)]
    /\ unwritten \in Seq(Order) /\ log \in Seq(Entry)

Controls ==
    /\ eof \in [Conn -> BOOLEAN]
    /\ place \in [Conn -> {"away", "close", "select", "stdin", "socket", "both", "done"}]
    /\ phase \in {"select", "scan"}
    /\ clients \in Seq(Conn) /\ backlog \in Seq(Conn) /\ listen_fds \in SUBSET Conn

Rooms == \A c \in Conn : /\ Len(up[c]) <= UpCapacity /\ Len(down[c]) <= DownCapacity
                         /\ Len(buf[c]) < BufUnits

(* No connection is listed twice, or listed and waiting; one that has not   *)
(* been made has left no trace; the scan is at a client of the list.        *)
Lists ==
    /\ \A i, j \in DOMAIN clients : clients[i] = clients[j] => i = j
    /\ \A i, j \in DOMAIN backlog : backlog[i] = backlog[j] => i = j
    /\ Joined \cap Waiting = {}
    /\ \A c \in Conn : place[c] = "away" =>
           c \in Senders /\ c \notin Joined \cup Waiting /\ typed[c] = <<>>
    /\ curr \in Joined \cup {NULL} /\ (phase = "select" <=> curr = NULL)

(* What an entry of the log is to a connection: its own units, or an item   *)
(* for it; and what a write that is still to be made is.                    *)
PostOf(c) == [e \in Entry |-> IF e.item[1].from = c THEN e.item ELSE <<>>]
HeardOf(c) == [e \in Entry |-> IF c \in e.to THEN One(e.item) ELSE <<>>]
OrderOf(c) == [w \in Order |-> IF w[1] = c THEN One(w[2]) ELSE <<>>]

(* The units of a connection, wherever they are, and the items for a client. *)
Way(c) == Cat(Cat(Cat(Cat(FlatMap(PostOf(c), log), buf[c]), up[c]), stdio[c]), keyboard[c])
Screen(c) == Cat(Cat(shown[c], down[c]), FlatMap(OrderOf(c), unwritten))

(* TypedIsPosted and SameConversation, in these terms.                      *)
Alive(c) == ~ClosedByServer(c) /\ place[c] # "done"
Posted == \A c \in Conn : Alive(c) => Way(c) = typed[c]
Heard == \A c \in Client : Alive(c) => Screen(c) = FlatMap(HeardOf(c), log)

ChatInv == Streams /\ Controls /\ Rooms /\ Lists /\ Posted /\ Heard

-----------------------------------------------------------------------------
(* Streams.                                                                 *)

(* What a family of own streams has for a connection.                       *)
LEMMA OwnHas ==
  ASSUME NEW f \in OwnStreams, NEW c \in Conn
  PROVE  f[c] \in Seq(UnitOf(c)) /\ f[c] \in Item
  BY DEF OwnStreams

(* Changing the stream of one connection.                                   *)
Put(f, c, x) == [f EXCEPT ![c] = x]

(* It becomes another family, which differs at that connection only.        *)
LEMMA OwnStep ==
  ASSUME NEW f \in OwnStreams, NEW c \in Conn, NEW x \in Seq(UnitOf(c)),
         NEW g, g = Put(f, c, x)
  PROVE  g \in OwnStreams /\ g[c] = x /\ \A d \in Conn \ {c} : g[d] = f[d]
<1>1. f \in [Conn -> Item] /\ \A d \in Conn : f[d] \in Seq(UnitOf(d))
  BY DEF OwnStreams
<1>2. x \in Item
  <2>1. UnitOf(c) \subseteq Unit
    BY DEF UnitOf
  <2> QED
    BY <2>1, SeqMonotonic DEF Item
<1>3. g \in [Conn -> Item] /\ g[c] = x /\ \A d \in Conn \ {c} : g[d] = f[d]
  BY <1>1, <1>2 DEF Put
<1>4. \A d \in Conn : g[d] \in Seq(UnitOf(d))
  <2> SUFFICES ASSUME NEW d \in Conn PROVE g[d] \in Seq(UnitOf(d))
    OBVIOUS
  <2>1. CASE d = c
    BY <1>3, <2>1
  <2>2. CASE d # c
    BY <1>1, <1>3, <2>2
  <2> QED
    BY <2>1, <2>2
<1> QED
  BY <1>3, <1>4 DEF OwnStreams

(* At the start every stream is empty.                                      *)
LEMMA OwnEmpty == [c \in Conn |-> <<>>] \in OwnStreams
<1> DEFINE f == [c \in Conn |-> <<>>]
<1>1. f \in [Conn -> Item]
  BY DEF Item
<1>2. \A c \in Conn : f[c] \in Seq(UnitOf(c))
  OBVIOUS
<1> HIDE DEF f
<1>3. f \in OwnStreams
  BY <1>1, <1>2 DEF OwnStreams
<1> QED
  BY <1>3 DEF f

(* The constants.                                                           *)
LEMMA Constants ==
  /\ MaxConns \in Nat \ {0} /\ Conn = 1..MaxConns /\ NULL \notin Conn /\ Client \subseteq Conn
  /\ IsFiniteSet(Conn) /\ IsFiniteSet(Client) /\ Senders \subseteq Conn
  /\ BufUnits \in Nat \ {0} /\ BufItems \in Nat \ {0}
  /\ UpCapacity \in Nat \ {0} /\ DownCapacity \in Nat \ {0} /\ MaxTyped \in Nat \ {0}
<1>1. MaxConns \in Nat \ {0} /\ Senders \subseteq 1..MaxConns
  BY ConnsAssumption
<1>2. Conn = 1..MaxConns /\ NULL \notin Conn /\ Client \subseteq Conn
  BY <1>1 DEF Conn, NULL, Client
<1>3. IsFiniteSet(Conn)
  BY <1>1, <1>2, FS_Interval
<1>4. IsFiniteSet(Client)
  BY <1>2, <1>3, FS_Subset
<1>5. /\ BufUnits \in Nat \ {0} /\ BufItems \in Nat \ {0}
      /\ UpCapacity \in Nat \ {0} /\ DownCapacity \in Nat \ {0}
  BY SizesAssumption
<1> QED
  BY <1>1, <1>2, <1>3, <1>4, <1>5, LinesAssumption

(* While a client may type, it has typed fewer than MaxTyped lines.         *)
LEMMA LinesCounted ==
  ASSUME typed \in OwnStreams, NEW c \in Client, LinesTyped < MaxTyped
  PROVE  LinesOf(c) + 1 \in 1..MaxTyped
<1> DEFINE T(d) == ToSet(typed[d])
           N(d) == {u.n : u \in T(d)}
           Pairs(d) == {<<d, u.n>> : u \in T(d)}
           All == {Pairs(d) : d \in Client}
<1>1. ASSUME NEW d \in Client PROVE IsFiniteSet(N(d)) /\ IsFiniteSet(Pairs(d))
  <2>1. IsFiniteSet(T(d))
    <3>1. typed[d] \in Item
      BY Constants, OwnHas
    <3>2. Len(typed[d]) \in Nat /\ DOMAIN typed[d] = 1..Len(typed[d])
      BY <3>1, LenProperties DEF Item
    <3>3. typed[d] \in Surjection(1..Len(typed[d]), T(d))
      <4>1. typed[d] \in [1..Len(typed[d]) -> Unit]
        BY <3>1, LenProperties DEF Item
      <4> QED
        BY <3>2, <4>1 DEF Surjection, ToSet
    <3>4. IsFiniteSet(1..Len(typed[d]))
      BY <3>2, FS_Interval
    <3> HIDE DEF T
    <3> QED
      BY <3>3, <3>4, FS_Surjection
  <2>2. [u \in T(d) |-> u.n] \in Surjection(T(d), N(d))
    BY DEF Surjection
  <2>3. [u \in T(d) |-> <<d, u.n>>] \in Surjection(T(d), Pairs(d))
    BY DEF Surjection
  <2> HIDE DEF T, N, Pairs
  <2> QED
    BY <2>1, <2>2, <2>3, FS_Surjection
<1>2. IsFiniteSet(UNION All)
  <2>1. [d \in Client |-> Pairs(d)] \in Surjection(Client, All)
    BY DEF Surjection
  <2>2. \A P \in All : IsFiniteSet(P)
    BY <1>1
  <2> HIDE DEF All
  <2>3. IsFiniteSet(All)
    BY <2>1, Constants, FS_Surjection
  <2> QED
    BY <2>2, <2>3, FS_UNION
<1>3. Cardinality(N(c)) <= Cardinality(Pairs(c))
  <2>1. [n \in N(c) |-> <<c, n>>] \in Injection(N(c), Pairs(c))
    <3>1. [n \in N(c) |-> <<c, n>>] \in [N(c) -> Pairs(c)]
      OBVIOUS
    <3>2. IsInjective([n \in N(c) |-> <<c, n>>])
      BY DEF IsInjective
    <3> QED
      BY <3>1, <3>2 DEF Injection
  <2>2. IsFiniteSet(Pairs(c))
    BY <1>1
  <2> HIDE DEF N, Pairs
  <2> QED
    BY <2>1, <2>2, FS_Injection
<1>4. Cardinality(Pairs(c)) <= Cardinality(UNION All)
  <2>1. Pairs(c) \in SUBSET UNION All
    OBVIOUS
  <2> HIDE DEF Pairs, All
  <2> QED
    BY <1>2, <2>1, FS_Subset
<1>5. /\ Cardinality(N(c)) \in Nat /\ Cardinality(Pairs(c)) \in Nat
      /\ Cardinality(UNION All) \in Nat
  <2>1. IsFiniteSet(N(c)) /\ IsFiniteSet(Pairs(c))
    BY <1>1
  <2> HIDE DEF N, Pairs, All
  <2> QED
    BY <1>2, <2>1, FS_CardinalityType
<1>6. LinesOf(c) = Cardinality(N(c)) /\ LinesTyped = Cardinality(UNION All)
  BY DEF LinesOf, LinesTyped
<1> HIDE DEF N, Pairs, All
<1> QED
  BY <1>3, <1>4, <1>5, <1>6, Constants

(* A typed line is a sequence of units of its client.                       *)
LEMMA LineTyped ==
  ASSUME typed \in OwnStreams, NEW c \in Client, LinesTyped < MaxTyped,
         NEW len \in LineUnits[c]
  PROVE  LineOf(c, len) \in Seq(UnitOf(c))
<1>1. LinesOf(c) + 1 \in 1..MaxTyped
  BY LinesCounted
<1>2. c \in Conn /\ len \in Nat
  BY Constants, LinesAssumption
<1> DEFINE n == LinesOf(c) + 1
           unit(i) == [from |-> c, n |-> n, i |-> i, last |-> i = len]
<1>3. \A i \in 1..len : unit(i) \in UnitOf(c)
  <2> HIDE DEF n
  <2> SUFFICES ASSUME NEW i \in 1..len PROVE unit(i) \in UnitOf(c)
    OBVIOUS
  <2>1. i \in Nat \ {0} /\ (i = len) \in BOOLEAN /\ n \in 1..MaxTyped
    BY <1>1, <1>2 DEF n
  <2> QED
    BY <1>2, <2>1 DEF UnitOf, Unit
<1>4. LineOf(c, len) = [i \in 1..len |-> unit(i)]
  BY DEF LineOf
<1> HIDE DEF unit
<1> QED
  BY <1>2, <1>3, <1>4

-----------------------------------------------------------------------------
(* The messages of a buffer.                                                *)

(* Where the newline before a place is; the one before the next place is    *)
(* this place, or the same.                                                 *)
LEMMA NewlineFound ==
  ASSUME NEW S, NEW b \in Seq(S), NEW k \in Nat
  PROVE  /\ NewlineBefore(b, k + 1) \in 0..k
         /\ k + 1 \in DOMAIN b =>
              NewlineBefore(b, k + 2) = IF b[k + 1].last THEN k + 1
                                        ELSE NewlineBefore(b, k + 1)
<1> DEFINE before(m) == {0} \cup {j \in Ends(b) : j < m}
<1>0. DOMAIN b = 1..Len(b) /\ Len(b) \in Nat /\ Ends(b) \subseteq 1..Len(b)
  BY LenProperties DEF Ends
<1>1. before(k + 1) \in SUBSET Nat /\ 0 \in before(k + 1) /\ \A x \in before(k + 1) : x <= k
  BY <1>0
<1>2. NewlineBefore(b, k + 1) = Max(before(k + 1))
  BY DEF NewlineBefore
<1>3. NewlineBefore(b, k + 1) \in 0..k
  <2> HIDE DEF before
  <2>1. Max(before(k + 1)) \in before(k + 1)
    BY <1>1, MaxIsGreatest
  <2> QED
    BY <1>1, <1>2, <2>1
<1>4. ASSUME k + 1 \in DOMAIN b, b[k + 1].last
      PROVE  NewlineBefore(b, k + 2) = k + 1
  <2>1. before(k + 2) \in SUBSET Nat /\ k + 1 \in before(k + 2) /\ \A x \in before(k + 2) : x <= k + 1
    BY <1>0, <1>4 DEF Ends
  <2>2. NewlineBefore(b, k + 2) = Max(before(k + 2))
    BY DEF NewlineBefore
  <2> HIDE DEF before
  <2>3. Max(before(k + 2)) \in before(k + 2) /\ \A y \in before(k + 2) : y <= Max(before(k + 2))
    BY <2>1, MaxIsGreatest
  <2>4. Max(before(k + 2)) \in Nat /\ Max(before(k + 2)) <= k + 1 /\ k + 1 <= Max(before(k + 2))
    BY <2>1, <2>3
  <2> QED
    BY <2>2, <2>4
<1>5. ASSUME k + 1 \in DOMAIN b, ~b[k + 1].last
      PROVE  NewlineBefore(b, k + 2) = NewlineBefore(b, k + 1)
  <2>1. k + 1 \notin Ends(b)
    BY <1>5 DEF Ends
  <2>2. {j \in Ends(b) : j < k + 2} = {j \in Ends(b) : j < k + 1}
    BY <1>0, <2>1
  <2> QED
    BY <2>2 DEF NewlineBefore
<1> QED
  BY <1>3, <1>4, <1>5

(* What the newline at k ends.                                              *)
Piece(b, k) == IF b[k].last THEN <<SubSeq(b, NewlineBefore(b, k) + 1, k)>> ELSE <<>>
FirstPieces(b, n) == [k \in 1..n |-> Piece(b, k)]

(* It is a message, which is not empty.                                     *)
LEMMA PieceTyped ==
  ASSUME NEW S, NEW b \in Seq(S), NEW k \in Nat, k + 1 \in 1..Len(b)
  PROVE  /\ SubSeq(b, NewlineBefore(b, k + 1) + 1, k + 1) \in Seq(S) \ {<<>>}
         /\ Piece(b, k + 1) \in Seq(Seq(S) \ {<<>>})
<1> DEFINE n == NewlineBefore(b, k + 1)
           m == SubSeq(b, n + 1, k + 1)
<1>1. n \in 0..k
  BY NewlineFound
<1>2. n \in Nat /\ n <= k /\ k + 1 <= Len(b)
  BY <1>1
<1>3. m \in Seq(S) \ {<<>>}
  <2> HIDE DEF n
  <2>1. /\ SubSeq(b, n + 1, k) \in Seq(S) /\ b[k + 1] \in S
        /\ m = Cat(SubSeq(b, n + 1, k), One(b[k + 1]))
    BY <1>2, PieceGrows
  <2>2. One(b[k + 1]) \in Seq(S) /\ One(b[k + 1]) # <<>>
    BY <2>1, OneType
  <2> HIDE DEF m
  <2> QED
    BY <2>1, <2>2, CatType, CatIsEmpty
<1> HIDE DEF m, n
<1>4. <<m>> \in Seq(Seq(S) \ {<<>>}) /\ <<>> \in Seq(Seq(S) \ {<<>>})
  <2>1. One(m) \in Seq(Seq(S) \ {<<>>})
    BY <1>3, OneType
  <2> QED
    BY <2>1, EmptySeq DEF One
<1> QED
  BY <1>3, <1>4 DEF Piece, m, n

(* One place more.                                                          *)
LEMMA PiecesGrow ==
  ASSUME NEW S, NEW b \in Seq(S), NEW n \in Nat, n <= Len(b)
  PROVE  /\ FirstPieces(b, n) \in Seq(Seq(Seq(S) \ {<<>>}))
         /\ n + 1 <= Len(b) =>
              FirstPieces(b, n + 1) = Cat(FirstPieces(b, n), One(Piece(b, n + 1)))
<1> DEFINE M == Seq(Seq(S) \ {<<>>})
<1>0. Len(b) \in Nat
  BY LenProperties
<1>1. \A k \in 1..Len(b) : Piece(b, k) \in M
  <2> SUFFICES ASSUME NEW k \in 1..Len(b) PROVE Piece(b, k) \in M
    OBVIOUS
  <2>1. k - 1 \in Nat /\ (k - 1) + 1 = k
    BY <1>0
  <2>2. Piece(b, (k - 1) + 1) \in M
    BY <2>1, PieceTyped
  <2> QED
    BY <2>1, <2>2
<1> HIDE DEF M
<1>2. FirstPieces(b, n) \in Seq(M) /\ Len(FirstPieces(b, n)) = n
  <2>1. \A k \in 1..n : Piece(b, k) \in M
    BY <1>0, <1>1
  <2> QED
    BY <2>1 DEF FirstPieces
<1>3. ASSUME n + 1 <= Len(b)
      PROVE  FirstPieces(b, n + 1) = Cat(FirstPieces(b, n), One(Piece(b, n + 1)))
  <2> DEFINE s == FirstPieces(b, n)
             t == FirstPieces(b, n + 1)
             x == Piece(b, n + 1)
  <2>1. x \in M /\ n + 1 \in 1..Len(b)
    BY <1>0, <1>1, <1>3
  <2>2. t \in Seq(M) /\ Len(t) = n + 1 /\ t[n + 1] = x /\ \A k \in 1..n : t[k] = s[k]
    <3>1. \A k \in 1..(n + 1) : Piece(b, k) \in M
      BY <1>0, <1>1, <1>3
    <3> QED
      BY <3>1 DEF FirstPieces
  <2>3. s \in Seq(M) /\ Len(s) = n
    BY <1>2
  <2> HIDE DEF s, t, x
  <2>4. One(x) \in Seq(M) /\ Len(One(x)) = 1 /\ One(x)[1] = x
    BY <2>1, OneType
  <2>5. /\ Cat(s, One(x)) \in Seq(M) /\ Len(Cat(s, One(x))) = n + 1
        /\ \A k \in 1..(n + 1) : Cat(s, One(x))[k] = IF k <= n THEN s[k] ELSE One(x)[k - n]
    <3>1. /\ Cat(s, One(x)) \in Seq(M) /\ Len(Cat(s, One(x))) = Len(s) + Len(One(x))
          /\ \A k \in 1..(Len(s) + Len(One(x))) :
                Cat(s, One(x))[k] = IF k <= Len(s) THEN s[k] ELSE One(x)[k - Len(s)]
      BY <2>3, <2>4, CatType
    <3> QED
      BY <2>3, <2>4, <3>1
  <2>6. ASSUME NEW k \in 1..(n + 1) PROVE t[k] = Cat(s, One(x))[k]
    <3>1. CASE k <= n
      <4>1. k \in 1..n
        BY <3>1
      <4> QED
        BY <2>2, <2>5, <3>1, <4>1
    <3>2. CASE ~(k <= n)
      <4>1. k = n + 1 /\ k - n = 1
        BY <3>2
      <4> QED
        BY <2>2, <2>4, <2>5, <3>2, <4>1
    <3> QED
      BY <3>1, <3>2
  <2>7. t = Cat(s, One(x))
    BY <2>2, <2>5, <2>6, SeqEqual
  <2> QED
    BY <2>7 DEF s, t, x
<1> QED
  BY <1>2, <1>3 DEF M

(* The messages of a buffer and the rest behind them are what is in it, and *)
(* none of them is empty.                                                   *)
LEMMA MessagesAreAll ==
  ASSUME NEW S, NEW b \in Seq(S)
  PROVE  /\ Messages(b) \in Seq(Seq(S) \ {<<>>}) /\ Messages(b) \in Seq(Seq(S))
         /\ RestOf(b) \in Seq(S) /\ Len(RestOf(b)) <= Len(b)
         /\ Cat(FlattenSeq(Messages(b)), RestOf(b)) = b
<1> DEFINE M == Seq(S) \ {<<>>}
           fl(n) == FlattenSeq(FirstPieces(b, n))
           rest(n) == SubSeq(b, NewlineBefore(b, n + 1) + 1, n)
           P == {n \in Nat : n <= Len(b) =>
                    Cat(FlattenSeq(fl(n)), rest(n)) = SubSeq(b, 1, n)}
<1>0. Len(b) \in Nat /\ DOMAIN b = 1..Len(b)
  BY LenProperties
<1>1. ASSUME NEW n \in Nat, n <= Len(b)
      PROVE  fl(n) \in Seq(M) /\ fl(n) \in Seq(Seq(S)) /\ FlattenSeq(fl(n)) \in Seq(S)
  <2>1. FirstPieces(b, n) \in Seq(Seq(M))
    BY <1>1, PiecesGrow
  <2>2. M \subseteq Seq(S)
    OBVIOUS
  <2> HIDE DEF M
  <2>3. fl(n) \in Seq(M)
    BY <2>1, FlattenAppend
  <2> HIDE DEF fl
  <2>4. fl(n) \in Seq(Seq(S))
    BY <2>2, <2>3, SeqMonotonic
  <2> QED
    BY <2>3, <2>4, FlattenAppend
<1>2. ASSUME NEW n \in Nat
      PROVE  NewlineBefore(b, n + 1) \in Nat /\ NewlineBefore(b, n + 1) <= n
  <2>1. NewlineBefore(b, n + 1) \in 0..n
    BY NewlineFound
  <2> QED
    BY <2>1
<1>3. 0 \in P
  <2>1. FirstPieces(b, 0) = <<>>
    BY DEF FirstPieces
  <2>2. fl(0) = <<>> /\ FlattenSeq(fl(0)) = <<>>
    BY <2>1, FlattenFew
  <2>3. NewlineBefore(b, 0 + 1) \in Nat
    BY <1>2
  <2>4. rest(0) = <<>> /\ SubSeq(b, 1, 0) = <<>>
    BY <2>3, SubSeqEmpty
  <2>5. Cat(<<>>, <<>>) = <<>>
    BY EmptySeq, CatEmpty
  <2> HIDE DEF fl, rest
  <2> QED
    BY <2>2, <2>4, <2>5
<1>4. ASSUME NEW n \in P PROVE n + 1 \in P
  <2>1. SUFFICES ASSUME n + 1 <= Len(b)
                 PROVE  Cat(FlattenSeq(fl(n + 1)), rest(n + 1)) = SubSeq(b, 1, n + 1)
    OBVIOUS
  <2> DEFINE nb == NewlineBefore(b, n + 1)
             r == rest(n)
             x == One(b[n + 1])
             F == FlattenSeq(fl(n))
  <2>2. n \in Nat /\ n <= Len(b) /\ n + 1 \in DOMAIN b /\ n + 1 \in 1..Len(b)
    BY <1>0, <2>1
  <2>3. nb \in Nat /\ nb <= n
    BY <1>2, <2>2
  <2>4. F \in Seq(S) /\ Cat(F, r) = SubSeq(b, 1, n)
    BY <1>1, <2>2
  <2>5. /\ r \in Seq(S) /\ b[n + 1] \in S
        /\ SubSeq(b, nb + 1, n + 1) = Cat(r, x)
    <3> HIDE DEF nb
    <3>1. /\ SubSeq(b, nb + 1, n) \in Seq(S) /\ b[n + 1] \in S
          /\ SubSeq(b, nb + 1, n + 1) = Cat(SubSeq(b, nb + 1, n), One(b[n + 1]))
      BY <2>1, <2>2, <2>3, PieceGrows
    <3> QED
      BY <3>1 DEF nb
  <2>6. x \in Seq(S)
    BY <2>5, OneType
  <2>7. SubSeq(b, 1, n + 1) = Cat(SubSeq(b, 1, n), x)
    <3>1. 0 \in Nat /\ 0 <= n /\ 0 + 1 = 1
      BY <2>2
    <3>2. SubSeq(b, 0 + 1, n + 1) = Cat(SubSeq(b, 0 + 1, n), One(b[n + 1]))
      BY <2>1, <2>2, <3>1, PieceGrows
    <3> QED
      BY <3>1, <3>2
  <2>8. fl(n + 1) = Cat(fl(n), Piece(b, n + 1))
    <3>1. /\ FirstPieces(b, n) \in Seq(Seq(M))
          /\ FirstPieces(b, n + 1) = Cat(FirstPieces(b, n), One(Piece(b, n + 1)))
      BY <2>1, <2>2, PiecesGrow
    <3>2. Piece(b, n + 1) \in Seq(M)
      BY <2>2, PieceTyped
    <3> HIDE DEF M
    <3> QED
      BY <3>1, <3>2, FlattenOne
  <2>9. Cat(F, Cat(r, x)) = SubSeq(b, 1, n + 1)
    <3> HIDE DEF F, r, x, P
    <3>1. Cat(Cat(F, r), x) = Cat(F, Cat(r, x))
      <4>1. F \in Seq(S) /\ r \in Seq(S) /\ x \in Seq(S)
        BY <2>4, <2>5, <2>6
      <4> QED
        BY <4>1, CatRegroup
    <3> QED
      BY <2>4, <2>7, <3>1
  <2>10. CASE b[n + 1].last
    <3>1. NewlineBefore(b, n + 2) = n + 1
      BY <2>2, <2>10, NewlineFound
    <3>2. rest(n + 1) = <<>>
      <4>1. (n + 1) + 1 = n + 2
        BY <2>2
      <4>2. rest(n + 1) = SubSeq(b, (n + 1) + 1, n + 1)
        BY <3>1, <4>1
      <4> HIDE DEF rest
      <4>3. (n + 1) + 1 \in Int /\ n + 1 \in Int /\ n + 1 < (n + 1) + 1
        BY <2>2
      <4> QED
        BY <4>2, <4>3, SubSeqEmpty
    <3>3. Piece(b, n + 1) = One(Cat(r, x))
      BY <2>5, <2>10 DEF Piece, One
    <3>4. Cat(r, x) \in Seq(S)
      BY <2>5, <2>6, CatType
    <3>5. fl(n) \in Seq(Seq(S))
      BY <1>1, <2>2
    <3>6. FlattenSeq(fl(n + 1)) = Cat(F, Cat(r, x))
      <4> HIDE DEF r, x, fl
      <4> QED
        BY <2>8, <3>3, <3>4, <3>5, FlattenOne
    <3>7. Cat(F, Cat(r, x)) \in Seq(S)
      <4> HIDE DEF F, r, x
      <4> QED
        BY <2>4, <3>4, CatType
    <3> HIDE DEF F, r, x, fl, rest
    <3>8. Cat(Cat(F, Cat(r, x)), <<>>) = Cat(F, Cat(r, x))
      BY <3>7, CatEmpty
    <3> QED
      BY <2>9, <3>2, <3>6, <3>8
  <2>11. CASE ~b[n + 1].last
    <3>1. NewlineBefore(b, n + 2) = nb
      BY <2>2, <2>11, NewlineFound
    <3>2. rest(n + 1) = Cat(r, x)
      <4>1. (n + 1) + 1 = n + 2
        BY <2>2
      <4> QED
        BY <2>5, <3>1, <4>1
    <3>3. Piece(b, n + 1) = <<>>
      BY <2>11 DEF Piece
    <3>4. fl(n + 1) = fl(n)
      <4>1. fl(n) \in Seq(M)
        BY <1>1, <2>2
      <4> HIDE DEF fl, M
      <4>2. Cat(fl(n), <<>>) = fl(n)
        BY <4>1, CatEmpty
      <4> QED
        BY <2>8, <3>3, <4>2
    <3> HIDE DEF r, x, fl, rest
    <3> QED
      BY <2>9, <3>2, <3>4
  <2> QED
    BY <2>10, <2>11
<1>5. P = Nat
  <2>1. P \in SUBSET Nat
    OBVIOUS
  <2> HIDE DEF P
  <2> QED
    BY <1>3, <1>4, <2>1, NumberInduction
<1>6. Messages(b) = fl(Len(b)) /\ RestOf(b) = rest(Len(b))
  <2>1. FirstPieces(b, Len(b)) = [k \in DOMAIN b |->
           IF b[k].last THEN <<SubSeq(b, NewlineBefore(b, k) + 1, k)>> ELSE <<>>]
    BY <1>0 DEF FirstPieces, Piece
  <2> QED
    BY <2>1 DEF Messages, RestOf
<1>7. Cat(FlattenSeq(fl(Len(b))), rest(Len(b))) = b
  <2>1. Len(b) \in P /\ Len(b) <= Len(b)
    BY <1>0, <1>5
  <2>2. Cat(FlattenSeq(fl(Len(b))), rest(Len(b))) = SubSeq(b, 1, Len(b))
    BY <2>1
  <2> QED
    BY <2>2, SubSeqFull
<1>8. RestOf(b) \in Seq(S) /\ Len(RestOf(b)) <= Len(b)
  <2> DEFINE nb == NewlineBefore(b, Len(b) + 1)
  <2>1. nb \in Nat /\ nb <= Len(b)
    BY <1>0, <1>2
  <2>2. RestOf(b) = SubSeq(b, nb + 1, Len(b))
    BY DEF RestOf
  <2> HIDE DEF nb
  <2>3. /\ SubSeq(b, nb + 1, Len(b)) \in Seq(S)
        /\ Len(SubSeq(b, nb + 1, Len(b))) = Len(b) - nb
    BY <2>1, Cut
  <2>4. Len(b) - nb <= Len(b)
    BY <1>0, <2>1
  <2> QED
    BY <2>2, <2>3, <2>4, Zenon
<1>9. fl(Len(b)) \in Seq(M) /\ fl(Len(b)) \in Seq(Seq(S))
  <2>1. Len(b) <= Len(b)
    BY <1>0
  <2> QED
    BY <1>0, <1>1, <2>1
<1> HIDE DEF fl, rest
<1> QED
  BY <1>6, <1>7, <1>8, <1>9

-----------------------------------------------------------------------------
(* Broadcasts.                                                              *)

(* These are functions.                                                     *)
LEMMA PartsTyped ==
  ASSUME NEW c
  PROVE  /\ Into(PostOf(c), Entry, Seq(Unit))
         /\ Into(HeardOf(c), Entry, Seq(Item))
         /\ Into(OrderOf(c), Order, Seq(Item))
         /\ \A e \in Entry : /\ PostOf(c)[e] = IF e.item[1].from = c THEN e.item ELSE <<>>
                             /\ HeardOf(c)[e] = IF c \in e.to THEN One(e.item) ELSE <<>>
         /\ \A w \in Order : OrderOf(c)[w] = IF w[1] = c THEN One(w[2]) ELSE <<>>
<1>1. \A e \in Entry : e.item \in Item
  BY DEF Entry
<1>2. \A w \in Order : w[2] \in Item
  BY DEF Order
<1>3. ASSUME NEW x \in Item PROVE One(x) \in Seq(Item)
  BY OneType
<1>4. <<>> \in Seq(Item) /\ <<>> \in Seq(Unit)
  BY EmptySeq
<1>5. Into(PostOf(c), Entry, Seq(Unit))
  <2>1. \A e \in Entry : (IF e.item[1].from = c THEN e.item ELSE <<>>) \in Seq(Unit)
    BY <1>1, <1>4 DEF Item
  <2> QED
    BY <2>1 DEF Into, PostOf
<1>6. Into(HeardOf(c), Entry, Seq(Item))
  <2>1. \A e \in Entry : (IF c \in e.to THEN One(e.item) ELSE <<>>) \in Seq(Item)
    BY <1>1, <1>3, <1>4
  <2> QED
    BY <2>1 DEF Into, HeardOf
<1>7. Into(OrderOf(c), Order, Seq(Item))
  <2>1. \A w \in Order : (IF w[1] = c THEN One(w[2]) ELSE <<>>) \in Seq(Item)
    BY <1>2, <1>3, <1>4
  <2> QED
    BY <2>1 DEF Into, OrderOf
<1> QED
  BY <1>5, <1>6, <1>7 DEF PostOf, HeardOf, OrderOf

(* The histories of a connection are made of these parts.                   *)
LEMMA HistoriesAreParts ==
  ASSUME NEW l \in Seq(Entry), NEW w \in Seq(Order), NEW c
  PROVE  /\ FlattenSeq([k \in DOMAIN l |-> IF l[k].item[1].from = c THEN l[k].item ELSE <<>>])
              = FlatMap(PostOf(c), l)
         /\ FlattenSeq([k \in DOMAIN l |-> IF c \in l[k].to THEN <<l[k].item>> ELSE <<>>])
              = FlatMap(HeardOf(c), l)
         /\ FlattenSeq([k \in DOMAIN w |-> IF w[k][1] = c THEN <<w[k][2]>> ELSE <<>>])
              = FlatMap(OrderOf(c), w)
         /\ FlatMap(PostOf(c), l) \in Item
         /\ FlatMap(HeardOf(c), l) \in Seq(Item) /\ FlatMap(OrderOf(c), w) \in Seq(Item)
<1>1. \A k \in DOMAIN l : l[k] \in Entry
  BY LenProperties, ElementOfSeq
<1>2. \A k \in DOMAIN w : w[k] \in Order
  BY LenProperties, ElementOfSeq
<1>3. [k \in DOMAIN l |-> IF l[k].item[1].from = c THEN l[k].item ELSE <<>>] = Mapped(PostOf(c), l)
  BY <1>1, PartsTyped DEF Mapped
<1>4. [k \in DOMAIN l |-> IF c \in l[k].to THEN <<l[k].item>> ELSE <<>>] = Mapped(HeardOf(c), l)
  BY <1>1, PartsTyped DEF Mapped, One
<1>5. [k \in DOMAIN w |-> IF w[k][1] = c THEN <<w[k][2]>> ELSE <<>>] = Mapped(OrderOf(c), w)
  BY <1>2, PartsTyped DEF Mapped, One
<1>6. FlatMap(PostOf(c), l) \in Seq(Unit)
  BY PartsTyped, FlatMapCat
<1>7. FlatMap(HeardOf(c), l) \in Seq(Item) /\ FlatMap(OrderOf(c), w) \in Seq(Item)
  BY PartsTyped, FlatMapCat
<1> QED
  BY <1>3, <1>4, <1>5, <1>6, <1>7 DEF FlatMap, Item

(* What a broadcast adds to the log.                                        *)
EntryOf(to) == [x \in Item |-> [item |-> x, to |-> to]]

(* To everyone it is addressed to, it adds its items, in their order.       *)
LEMMA EntriesHeard ==
  ASSUME NEW items \in Seq(Item), NEW to \in SUBSET Conn
  PROVE  /\ [k \in DOMAIN items |-> [item |-> items[k], to |-> to]] = Mapped(EntryOf(to), items)
         /\ Mapped(EntryOf(to), items) \in Seq(Entry)
         /\ \A c : FlatMap(HeardOf(c), Mapped(EntryOf(to), items))
                     = IF c \in to THEN items ELSE <<>>
<1>1. Into(EntryOf(to), Item, Entry) /\ \A x \in Item : EntryOf(to)[x] = [item |-> x, to |-> to]
  BY DEF Into, EntryOf, Entry
<1>2. \A k \in DOMAIN items : items[k] \in Item
  BY LenProperties, ElementOfSeq
<1>3. [k \in DOMAIN items |-> [item |-> items[k], to |-> to]] = Mapped(EntryOf(to), items)
  BY <1>1, <1>2 DEF Mapped
<1>4. Mapped(EntryOf(to), items) \in Seq(Entry)
  BY <1>1, MappedType
<1>5. ASSUME NEW c
      PROVE  FlatMap(HeardOf(c), Mapped(EntryOf(to), items)) = IF c \in to THEN items ELSE <<>>
  <2> DEFINE g == [x \in Item |-> IF c \in to THEN One(x) ELSE <<>>]
             id == [x \in Item |-> x]
  <2>1. Into(g, Item, Seq(Item)) /\ Into(id, Item, Item) /\ \A x \in Item : id[x] = x
    <3>1. \A x \in Item : One(x) \in Seq(Item)
      BY OneType
    <3> QED
      BY <3>1, EmptySeq DEF Into
  <2>2. \A x \in Item : g[x] = HeardOf(c)[EntryOf(to)[x]]
    <3> SUFFICES ASSUME NEW x \in Item PROVE g[x] = HeardOf(c)[EntryOf(to)[x]]
      OBVIOUS
    <3>1. EntryOf(to)[x] = [item |-> x, to |-> to] /\ EntryOf(to)[x] \in Entry
      BY <1>1 DEF Into
    <3>2. HeardOf(c)[EntryOf(to)[x]] = IF c \in EntryOf(to)[x].to THEN One(EntryOf(to)[x].item) ELSE <<>>
      BY <3>1, PartsTyped
    <3> QED
      BY <3>1, <3>2
  <2>3. Mapped(HeardOf(c), Mapped(EntryOf(to), items)) = Mapped(g, items)
    <3>1. Into(HeardOf(c), Entry, Seq(Item))
      BY PartsTyped
    <3> HIDE DEF g
    <3> QED
      BY <1>1, <2>1, <2>2, <3>1, MappedTwice
  <2>4. CASE c \in to
    <3>1. \A x \in Item : g[x] = One(id[x])
      BY <2>4
    <3> HIDE DEF g, id
    <3>2. FlatMap(g, items) = Mapped(id, items)
      BY <2>1, <3>1, FlatMapSingles
    <3>3. Mapped(id, items) = items
      BY <2>1, MappedSelf
    <3> QED
      BY <2>3, <2>4, <3>2, <3>3 DEF FlatMap
  <2>5. CASE c \notin to
    <3>1. \A k \in 1..Len(items) : g[items[k]] = <<>>
      <4>1. \A k \in 1..Len(items) : items[k] \in Item
        BY ElementOfSeq
      <4> QED
        BY <2>5, <4>1
    <3> HIDE DEF g
    <3>2. FlatMap(g, items) = <<>>
      BY <2>1, <3>1, FlatMapNone
    <3> QED
      BY <2>3, <2>5, <3>2 DEF FlatMap
  <2> QED
    BY <2>4, <2>5
<1> QED
  BY <1>3, <1>4, <1>5

(* To the posts of the client whose units they are, it adds all units of    *)
(* the items, and to no other's anything.                                   *)
LEMMA EntriesPosted ==
  ASSUME NEW x \in Conn, NEW items \in Seq(Seq(UnitOf(x)) \ {<<>>}), NEW to \in SUBSET Conn
  PROVE  \A c : FlatMap(PostOf(c), Mapped(EntryOf(to), items))
                  = IF c = x THEN FlattenSeq(items) ELSE <<>>
<1> DEFINE M == Seq(UnitOf(x)) \ {<<>>}
<1>1. M \subseteq Item
  <2>1. UnitOf(x) \subseteq Unit
    BY DEF UnitOf
  <2>2. \A m \in Seq(UnitOf(x)) : m \in Seq(Unit)
    BY <2>1, SeqMonotonic
  <2> QED
    BY <2>2 DEF Item
<1>2. ASSUME NEW m \in M PROVE m[1].from = x
  <2>1. m \in Seq(UnitOf(x)) /\ m # <<>>
    OBVIOUS
  <2>2. 1 \in 1..Len(m)
    BY <2>1, EmptySeq
  <2>3. m[1] \in UnitOf(x)
    BY <2>1, <2>2, ElementOfSeq
  <2> QED
    BY <2>3 DEF UnitOf
<1>3. items \in Seq(M)
  OBVIOUS
<1> HIDE DEF M
<1> SUFFICES ASSUME NEW c
             PROVE  FlatMap(PostOf(c), Mapped(EntryOf(to), items))
                      = IF c = x THEN FlattenSeq(items) ELSE <<>>
  OBVIOUS
<1> DEFINE e == [m \in M |-> [item |-> m, to |-> to]]
           g == [m \in M |-> IF c = x THEN m ELSE <<>>]
<1>4. Into(e, M, Entry) /\ Into(g, M, Seq(Unit)) /\ Into(PostOf(c), Entry, Seq(Unit))
  <2>1. Into(e, M, Entry)
    BY <1>1 DEF Into, Entry
  <2>2. Into(g, M, Seq(Unit))
    BY <1>1, EmptySeq DEF Into, Item
  <2> QED
    BY <2>1, <2>2, PartsTyped
<1>5. Mapped(EntryOf(to), items) = Mapped(e, items)
  <2>1. \A k \in DOMAIN items : items[k] \in M /\ items[k] \in Item
    BY <1>1, <1>3, LenProperties, ElementOfSeq
  <2> QED
    BY <2>1 DEF Mapped, EntryOf
<1>6. \A m \in M : g[m] = PostOf(c)[e[m]]
  <2> SUFFICES ASSUME NEW m \in M PROVE g[m] = PostOf(c)[e[m]]
    OBVIOUS
  <2>1. e[m] = [item |-> m, to |-> to] /\ e[m] \in Entry
    BY <1>1 DEF Entry
  <2>2. PostOf(c)[e[m]] = IF e[m].item[1].from = c THEN e[m].item ELSE <<>>
    BY <2>1, PartsTyped
  <2>3. e[m].item = m /\ m[1].from = x
    BY <1>2, <2>1
  <2> HIDE DEF e
  <2> QED
    BY <2>2, <2>3
<1>7. Mapped(PostOf(c), Mapped(e, items)) = Mapped(g, items)
  <2> HIDE DEF e, g
  <2> QED
    BY <1>3, <1>4, <1>6, MappedTwice
<1>8. CASE c = x
  <2>1. \A m \in M : g[m] = m
    BY <1>8
  <2>2. Into(g, M, M)
    BY <1>8 DEF Into
  <2> HIDE DEF g
  <2>3. Mapped(g, items) = items
    BY <1>3, <2>1, <2>2, MappedSelf
  <2> QED
    BY <1>5, <1>7, <1>8, <2>3 DEF FlatMap
<1>9. CASE c # x
  <2>1. \A k \in 1..Len(items) : g[items[k]] = <<>>
    <3>1. \A k \in 1..Len(items) : items[k] \in M
      BY <1>3, ElementOfSeq
    <3> QED
      BY <1>9, <3>1
  <2> HIDE DEF g
  <2>2. FlatMap(g, items) = <<>>
    BY <1>3, <1>4, <2>1, FlatMapNone
  <2> QED
    BY <1>5, <1>7, <1>9, <2>2 DEF FlatMap
<1> QED
  BY <1>8, <1>9

(* What a broadcast writes for one item: to each client of a list.          *)
RowOf(list) == [x \in Item |-> [j \in DOMAIN list |-> <<list[j], x>>]]

(* In the writes of one item each client of the list finds the item once.   *)
LEMMA RowAddressed ==
  ASSUME NEW list \in Seq(Conn), \A i, j \in DOMAIN list : list[i] = list[j] => i = j,
         NEW x \in Item
  PROVE  /\ RowOf(list)[x] \in Seq(Order)
         /\ \A c : FlatMap(OrderOf(c), RowOf(list)[x])
                     = IF c \in ToSet(list) THEN One(x) ELSE <<>>
<1> DEFINE r == [j \in DOMAIN list |-> <<list[j], x>>]
<1>0. Len(list) \in Nat /\ DOMAIN list = 1..Len(list) /\ \A j \in 1..Len(list) : list[j] \in Conn
  BY LenProperties, ElementOfSeq
<1>1. RowOf(list)[x] = r
  BY DEF RowOf
<1>2. r \in Seq(Order) /\ Len(r) = Len(list) /\ \A j \in 1..Len(list) : r[j] = <<list[j], x>>
  <2>1. \A j \in 1..Len(list) : <<list[j], x>> \in Order
    BY <1>0 DEF Order
  <2>2. r = [j \in 1..Len(list) |-> <<list[j], x>>]
    BY <1>0
  <2> QED
    BY <1>0, <2>1, <2>2
<1> HIDE DEF r
<1>3. ASSUME NEW c PROVE FlatMap(OrderOf(c), r) = IF c \in ToSet(list) THEN One(x) ELSE <<>>
  <2>1. Into(OrderOf(c), Order, Seq(Item))
    BY PartsTyped
  <2>2. \A j \in 1..Len(r) : OrderOf(c)[r[j]] = IF list[j] = c THEN One(x) ELSE <<>>
    <3> SUFFICES ASSUME NEW j \in 1..Len(r)
                 PROVE  OrderOf(c)[r[j]] = IF list[j] = c THEN One(x) ELSE <<>>
      OBVIOUS
    <3>1. r[j] = <<list[j], x>> /\ r[j] \in Order
      BY <1>2, ElementOfSeq
    <3>2. OrderOf(c)[r[j]] = IF r[j][1] = c THEN One(r[j][2]) ELSE <<>>
      BY <3>1, PartsTyped
    <3>3. r[j][1] = list[j] /\ r[j][2] = x
      BY <3>1
    <3> QED
      BY <3>2, <3>3
  <2>3. CASE c \in ToSet(list)
    <3>1. PICK i \in 1..Len(list) : list[i] = c
      BY <1>0, <2>3 DEF ToSet
    <3>2. i \in 1..Len(r) /\ \A k \in 1..Len(r) : k # i => OrderOf(c)[r[k]] = <<>>
      BY <1>0, <1>2, <2>2, <3>1
    <3>3. FlatMap(OrderOf(c), r) = OrderOf(c)[r[i]]
      BY <1>2, <2>1, <3>2, FlatMapOnce
    <3> QED
      BY <2>2, <2>3, <3>1, <3>2, <3>3
  <2>4. CASE c \notin ToSet(list)
    <3>1. \A k \in 1..Len(r) : OrderOf(c)[r[k]] = <<>>
      BY <1>0, <1>2, <2>2, <2>4 DEF ToSet
    <3>2. FlatMap(OrderOf(c), r) = <<>>
      BY <1>2, <2>1, <3>1, FlatMapNone
    <3> QED
      BY <2>4, <3>2
  <2> QED
    BY <2>3, <2>4
<1> QED
  BY <1>1, <1>2, <1>3

(* In the writes of a broadcast each client of the list finds the items, in *)
(* their order, and no other connection finds any.                          *)
LEMMA OrdersAddressed ==
  ASSUME NEW list \in Seq(Conn), \A i, j \in DOMAIN list : list[i] = list[j] => i = j,
         NEW items \in Seq(Item)
  PROVE  /\ [k \in DOMAIN items |-> [j \in DOMAIN list |-> <<list[j], items[k]>>]]
              = Mapped(RowOf(list), items)
         /\ FlatMap(RowOf(list), items) \in Seq(Order)
         /\ \A c : FlatMap(OrderOf(c), FlatMap(RowOf(list), items))
                     = IF c \in ToSet(list) THEN items ELSE <<>>
<1>1. Into(RowOf(list), Item, Seq(Order))
  <2>1. RowOf(list) = [x \in Item |-> RowOf(list)[x]]
    BY DEF RowOf
  <2>2. \A x \in Item : RowOf(list)[x] \in Seq(Order)
    BY RowAddressed
  <2> QED
    BY <2>1, <2>2 DEF Into
<1>2. [k \in DOMAIN items |-> [j \in DOMAIN list |-> <<list[j], items[k]>>]]
        = Mapped(RowOf(list), items)
  <2>1. \A k \in DOMAIN items : items[k] \in Item
    BY LenProperties, ElementOfSeq
  <2>2. \A x \in Item : RowOf(list)[x] = [j \in DOMAIN list |-> <<list[j], x>>]
    BY DEF RowOf
  <2> QED
    BY <2>1, <2>2 DEF Mapped
<1>3. FlatMap(RowOf(list), items) \in Seq(Order) /\ Mapped(RowOf(list), items) \in Seq(Seq(Order))
  BY <1>1, FlatMapCat, MappedType
<1>4. ASSUME NEW c
      PROVE  FlatMap(OrderOf(c), FlatMap(RowOf(list), items))
               = IF c \in ToSet(list) THEN items ELSE <<>>
  <2> DEFINE g == [r \in Seq(Order) |-> FlatMap(OrderOf(c), r)]
             h == [x \in Item |-> IF c \in ToSet(list) THEN One(x) ELSE <<>>]
             id == [x \in Item |-> x]
  <2>1. Into(OrderOf(c), Order, Seq(Item))
    BY PartsTyped
  <2>2. Into(g, Seq(Order), Seq(Item)) /\ \A r \in Seq(Order) : g[r] = FlatMap(OrderOf(c), r)
    <3>1. \A r \in Seq(Order) : FlatMap(OrderOf(c), r) \in Seq(Item)
      BY <2>1, FlatMapCat
    <3> QED
      BY <3>1 DEF Into
  <2>3. Into(h, Item, Seq(Item)) /\ Into(id, Item, Item) /\ \A x \in Item : id[x] = x
    <3>1. \A x \in Item : One(x) \in Seq(Item)
      BY OneType
    <3> QED
      BY <3>1, EmptySeq DEF Into
  <2>4. FlatMap(OrderOf(c), FlattenSeq(Mapped(RowOf(list), items)))
          = FlatMap(g, Mapped(RowOf(list), items))
    <3> DEFINE rows == Mapped(RowOf(list), items)
               f == OrderOf(c)
    <3>1. rows \in Seq(Seq(Order)) /\ Into(f, Order, Seq(Item))
      BY <1>3, <2>1
    <3>2. \A r \in Seq(Order) : g[r] = FlatMap(f, r)
      BY <2>2
    <3> HIDE DEF g, rows, f
    <3>3. FlatMap(f, FlattenSeq(rows)) = FlatMap(g, rows)
      BY <2>2, <3>1, <3>2, FlatMapFlatten
    <3> QED
      BY <3>3 DEF rows, f
  <2>5. \A x \in Item : h[x] = g[RowOf(list)[x]]
    <3> SUFFICES ASSUME NEW x \in Item PROVE h[x] = g[RowOf(list)[x]]
      OBVIOUS
    <3>1. RowOf(list)[x] \in Seq(Order)
      BY RowAddressed
    <3>2. FlatMap(OrderOf(c), RowOf(list)[x]) = IF c \in ToSet(list) THEN One(x) ELSE <<>>
      BY RowAddressed
    <3>3. g[RowOf(list)[x]] = FlatMap(OrderOf(c), RowOf(list)[x])
      BY <2>2, <3>1
    <3>4. h[x] = IF c \in ToSet(list) THEN One(x) ELSE <<>>
      OBVIOUS
    <3> HIDE DEF g, h
    <3> QED
      BY <3>2, <3>3, <3>4
  <2>6. Mapped(g, Mapped(RowOf(list), items)) = Mapped(h, items)
    <3> HIDE DEF g, h
    <3> QED
      BY <1>1, <2>2, <2>3, <2>5, MappedTwice
  <2>7. FlatMap(h, items) = IF c \in ToSet(list) THEN items ELSE <<>>
    <3>1. CASE c \in ToSet(list)
      <4>1. \A x \in Item : h[x] = One(id[x])
        BY <3>1
      <4> HIDE DEF h, id
      <4>2. FlatMap(h, items) = Mapped(id, items)
        BY <2>3, <4>1, FlatMapSingles
      <4>3. Mapped(id, items) = items
        BY <2>3, MappedSelf
      <4> QED
        BY <3>1, <4>2, <4>3
    <3>2. CASE c \notin ToSet(list)
      <4>1. \A k \in 1..Len(items) : h[items[k]] = <<>>
        <5>1. \A k \in 1..Len(items) : items[k] \in Item
          BY ElementOfSeq
        <5> QED
          BY <3>2, <5>1
      <4> HIDE DEF h
      <4>2. FlatMap(h, items) = <<>>
        BY <2>3, <4>1, FlatMapNone
      <4> QED
        BY <3>2, <4>2
    <3> QED
      BY <3>1, <3>2
  <2> HIDE DEF g, h
  <2> QED
    BY <2>4, <2>6, <2>7 DEF FlatMap
<1> QED
  BY <1>2, <1>3, <1>4

(* A write that is taken from the row goes to one connection.               *)
LEMMA OrderTaken ==
  ASSUME NEW w \in Seq(Order), w # <<>>, NEW c
  PROVE  /\ w[1] \in Order /\ Tail(w) \in Seq(Order)
         /\ FlatMap(OrderOf(c), w)
              = Cat(IF w[1][1] = c THEN One(w[1][2]) ELSE <<>>, FlatMap(OrderOf(c), Tail(w)))
<1>1. Len(w) \in Nat \ {0}
  BY EmptySeq
<1>2. w[1] \in Order
  BY <1>1, ElementOfSeq
<1>3. Tail(w) \in Seq(Order) /\ w = Cat(One(w[1]), Tail(w))
  <2>1. Tail(w) \in Seq(Order) /\ Tail(w) = SubSeq(w, 2, Len(w))
    BY HeadTailProperties, TailIsSubSeq
  <2>2. SubSeq(w, 1, Len(w)) = <<w[1]>> \o SubSeq(w, 1 + 1, Len(w))
    <3>1. 1 \in 1..Len(w) /\ Len(w) \in 1..Len(w)
      BY <1>1
    <3> QED
      BY <3>1, SubSeqRecursiveFirst
  <2>3. SubSeq(w, 1, Len(w)) = w
    BY SubSeqFull
  <2> QED
    BY <2>1, <2>2, <2>3 DEF Cat, One
<1>4. One(w[1]) \in Seq(Order)
  BY <1>2, OneType
<1>5. Into(OrderOf(c), Order, Seq(Item))
  BY PartsTyped
<1>6. FlatMap(OrderOf(c), Cat(One(w[1]), Tail(w)))
        = Cat(FlatMap(OrderOf(c), One(w[1])), FlatMap(OrderOf(c), Tail(w)))
  <2> DEFINE f == OrderOf(c)
             o == One(w[1])
             t == Tail(w)
  <2>1. o \in Seq(Order) /\ t \in Seq(Order) /\ Into(f, Order, Seq(Item))
    BY <1>3, <1>4, <1>5
  <2> HIDE DEF f, o, t
  <2>2. FlatMap(f, Cat(o, t)) = Cat(FlatMap(f, o), FlatMap(f, t))
    BY <2>1, FlatMapCat
  <2> QED
    BY <2>2 DEF f, o, t
<1>7. FlatMap(OrderOf(c), One(w[1])) = OrderOf(c)[w[1]]
  BY <1>2, <1>5, FlatMapFew
<1>8. OrderOf(c)[w[1]] = IF w[1][1] = c THEN One(w[1][2]) ELSE <<>>
  BY <1>2, PartsTyped
<1> QED
  BY <1>2, <1>3, <1>6, <1>7, <1>8

-----------------------------------------------------------------------------
(* What the invariant says of the properties.                               *)

LEMMA InvGivesProperties == ChatInv => TypeOK /\ TypedIsPosted /\ SameConversation
<1> SUFFICES ASSUME ChatInv PROVE TypeOK /\ TypedIsPosted /\ SameConversation
  OBVIOUS
<1>1. Streams /\ Controls /\ Rooms /\ Lists /\ Posted /\ Heard
  BY DEF ChatInv
<1>2. log \in Seq(Entry) /\ unwritten \in Seq(Order)
  BY <1>1 DEF Streams
<1>3. TypeOK
  <2>1. \A c \in Conn : {typed[c], keyboard[c], stdio[c], up[c], buf[c]} \subseteq Seq(Unit)
    <3>1. \A f \in OwnStreams : \A c \in Conn : f[c] \in Seq(Unit)
      BY OwnHas DEF Item
    <3> QED
      BY <1>1, <3>1 DEF Streams
  <2>2. \A c \in Conn : {shown[c], down[c]} \subseteq Seq(Seq(Unit))
    BY <1>1 DEF Streams, Item
  <2>3. {Joined, Waiting, listen_fds} \subseteq SUBSET Conn
    <3>1. \A s \in Seq(Conn) : ToSet(s) \subseteq Conn
      BY LenProperties, ElementOfSeq DEF ToSet
    <3> QED
      BY <1>1, <3>1 DEF Controls, Joined, Waiting
  <2>4. \A k \in DOMAIN unwritten : unwritten[k] \in Conn \X Seq(Unit)
    BY <1>2, LenProperties, ElementOfSeq DEF Order, Item
  <2>5. \A k \in DOMAIN log : log[k] \in [item : Seq(Unit), to : SUBSET Conn]
    BY <1>2, LenProperties, ElementOfSeq DEF Entry, Item
  <2>6. \A c \in Conn : Len(up[c]) <= UpCapacity /\ Len(down[c]) <= DownCapacity
    BY <1>1 DEF Rooms
  <2>7. \A c \in Conn : Len(buf[c]) < BufUnits
    BY <1>1 DEF Rooms
  <2>8. /\ eof \in [Conn -> BOOLEAN]
        /\ place \in [Conn -> {"away", "close", "select", "stdin", "socket", "both", "done"}]
        /\ phase \in {"select", "scan"}
    BY <1>1 DEF Controls
  <2>9. curr \in Joined \cup {NULL} /\ (phase = "select" <=> curr = NULL)
    BY <1>1 DEF Lists
  <2> QED
    BY <2>1, <2>2, <2>3, <2>4, <2>5, <2>6, <2>7, <2>8, <2>9 DEF TypeOK
<1>4. TypedIsPosted
  <2> SUFFICES ASSUME NEW c \in Conn, ~ClosedByServer(c), place[c] # "done"
               PROVE  UnitsFrom(c) \o buf[c] \o up[c] \o stdio[c] \o keyboard[c] = typed[c]
    BY DEF TypedIsPosted
  <2>1. Way(c) = typed[c]
    BY <1>1 DEF Posted, Alive
  <2>2. UnitsFrom(c) = FlatMap(PostOf(c), log)
    BY <1>2, HistoriesAreParts DEF UnitsFrom
  <2> QED
    BY <2>1, <2>2, Zenon DEF Way, Cat
<1>5. SameConversation
  <2> SUFFICES ASSUME NEW c \in Client, Running(c)
               PROVE  shown[c] \o down[c] \o PendingFor(c) = ItemsFor(c)
    BY DEF SameConversation
  <2>1. Screen(c) = FlatMap(HeardOf(c), log)
    BY <1>1 DEF Heard, Alive, Running
  <2>2. ItemsFor(c) = FlatMap(HeardOf(c), log) /\ PendingFor(c) = FlatMap(OrderOf(c), unwritten)
    BY <1>2, HistoriesAreParts DEF ItemsFor, PendingFor
  <2> QED
    BY <2>1, <2>2, Zenon DEF Screen, Cat
<1> QED
  BY <1>3, <1>4, <1>5

-----------------------------------------------------------------------------
(* Steps that move no unit and no item.                                     *)

(* While the places only go on, and no list changes, nobody comes to life.  *)
PlacesGoOn == \A d \in Conn : /\ place'[d] = "away" => place[d] = "away"
                              /\ place'[d] # "done" => place[d] # "done"

LEMMA AliveBefore ==
  ASSUME PlacesGoOn, UNCHANGED <<clients, backlog>>, NEW d \in Conn, Alive(d)'
  PROVE  Alive(d)
  BY DEF PlacesGoOn, Alive, ClosedByServer, Joined, Waiting

LEMMA ListsKept ==
  ASSUME Lists, PlacesGoOn, UNCHANGED <<clients, backlog, curr, phase>>,
         \A d \in Conn : place[d] = "away" => typed'[d] = typed[d]
  PROVE  Lists'
  BY DEF Lists, PlacesGoOn, Joined, Waiting

(* A stream that does not move keeps what is known of it.                   *)
LEMMA NothingMoves ==
  ASSUME ChatInv,
         UNCHANGED <<typed, keyboard, stdio, shown, up, down, buf, unwritten, log>>,
         \A d \in Conn : Alive(d)' => Alive(d)
  PROVE  Streams' /\ Rooms' /\ Posted' /\ Heard'
<1>1. Streams'
  BY DEF ChatInv, Streams
<1>2. Rooms'
  BY DEF ChatInv, Rooms
<1>3. Posted'
  BY DEF ChatInv, Posted, Way
<1>4. Heard'
  BY Constants DEF ChatInv, Heard, Screen
<1> QED
  BY <1>1, <1>2, <1>3, <1>4

(* The user ends the input.                                                 *)
LEMMA EndInputKeeps == ASSUME ChatInv, NEW c \in Conn, EndInput(c) PROVE ChatInv'
<1>1. PlacesGoOn /\ UNCHANGED <<clients, backlog, curr, phase>>
  BY DEF EndInput, PlacesGoOn, local, server
<1>2. Streams' /\ Rooms' /\ Posted' /\ Heard'
  BY <1>1, AliveBefore, NothingMoves DEF EndInput, local, server
<1>3. Lists'
  BY <1>1, ListsKept DEF ChatInv, EndInput
<1>4. Controls'
  BY DEF ChatInv, Controls, EndInput, local, server
<1> QED
  BY <1>2, <1>3, <1>4 DEF ChatInv

(* A client finds what select reports, or send closes its connection.       *)
LEMMA PlaceKeeps ==
  ASSUME ChatInv, NEW c \in Conn, ClientSelect(c) \/ SendCloses(c)
  PROVE  ChatInv'
<1>1. /\ \E p \in {"stdin", "socket", "both", "done"} : place' = [place EXCEPT ![c] = p]
      /\ place[c] # "done"
      /\ UNCHANGED <<user, stdio, shown, up, down, server>>
  BY DEF ClientSelect, SendCloses
<1>2. PlacesGoOn /\ UNCHANGED <<clients, backlog, curr, phase>>
  BY <1>1 DEF PlacesGoOn, server, ChatInv, Controls
<1>3. Streams' /\ Rooms' /\ Posted' /\ Heard'
  BY <1>1, <1>2, AliveBefore, NothingMoves DEF user, server
<1>4. Lists'
  BY <1>1, <1>2, ListsKept DEF ChatInv, user
<1>5. Controls'
  BY <1>1 DEF ChatInv, Controls, user, server
<1> QED
  BY <1>3, <1>4, <1>5 DEF ChatInv

-----------------------------------------------------------------------------
(* The initial states.                                                      *)

(* There the server knows nobody, and everyone who runs start-client waits. *)
LEMMA InitInv == Init => ChatInv
<1> SUFFICES ASSUME Init PROVE ChatInv
  OBVIOUS
<1> DEFINE none == [c \in Conn |-> <<>>]
<1>0. /\ typed = none /\ keyboard = none /\ stdio = none /\ up = none /\ buf = none
      /\ shown = none /\ down = none /\ unwritten = <<>> /\ log = <<>> /\ clients = <<>>
      /\ backlog = SetToSeq(Client) /\ curr = NULL /\ phase = "select" /\ listen_fds = {}
      /\ eof = [c \in Conn |-> FALSE]
      /\ place = [c \in Conn |-> IF c \in Senders THEN "away" ELSE "select"]
  BY DEF Init
<1>1. \A c \in Conn : none[c] = <<>>
  OBVIOUS
<1>2. none \in OwnStreams
  BY OwnEmpty
<1>3. none \in [Conn -> Seq(Item)]
  BY EmptySeq
<1>4. Streams
  <2> HIDE DEF none
  <2> QED
    BY <1>0, <1>2, <1>3, EmptySeq DEF Streams
<1>5. backlog \in Seq(Client) /\ \A i, j \in DOMAIN backlog : backlog[i] = backlog[j] => i = j
  BY <1>0, Constants, ListOfSet
<1>6. Controls
  <2>1. backlog \in Seq(Conn)
    BY <1>5, Constants, SeqMonotonic
  <2> QED
    BY <1>0, <2>1, EmptySeq DEF Controls
<1>7. Rooms
  <2>1. Len(<<>>) = 0
    BY EmptySeq
  <2>2. /\ \A c \in Conn : up[c] = <<>> /\ down[c] = <<>> /\ buf[c] = <<>>
        /\ 0 <= UpCapacity /\ 0 <= DownCapacity /\ 0 < BufUnits
    BY <1>0, Constants
  <2> QED
    BY <2>1, <2>2 DEF Rooms
<1>8. Waiting \subseteq Client /\ Joined = {}
  <2>1. \A i \in DOMAIN backlog : backlog[i] \in Client
    BY <1>5, LenProperties, ElementOfSeq
  <2>2. DOMAIN clients = {}
    BY <1>0
  <2> QED
    BY <2>1, <2>2 DEF Waiting, Joined, ToSet
<1>9. Lists
  <2>1. DOMAIN clients = {}
    BY <1>0
  <2>2. \A c \in Conn : place[c] = "away" => c \in Senders /\ typed[c] = <<>>
    BY <1>0
  <2>3. Senders \cap Client = {}
    BY DEF Client
  <2> QED
    BY <1>0, <1>5, <1>8, <2>1, <2>2, <2>3 DEF Lists
<1>10. Posted /\ Heard
  <2> SUFFICES ASSUME NEW c \in Conn
               PROVE  Way(c) = typed[c] /\ Screen(c) = FlatMap(HeardOf(c), log)
    BY Constants DEF Posted, Heard
  <2>1. Cat(<<>>, <<>>) = <<>>
    BY EmptySeq, CatEmpty
  <2>2. /\ FlatMap(PostOf(c), <<>>) = <<>> /\ FlatMap(HeardOf(c), <<>>) = <<>>
        /\ FlatMap(OrderOf(c), <<>>) = <<>>
    BY PartsTyped, FlatMapFew
  <2>3. /\ typed[c] = <<>> /\ keyboard[c] = <<>> /\ stdio[c] = <<>> /\ up[c] = <<>>
        /\ buf[c] = <<>> /\ shown[c] = <<>> /\ down[c] = <<>>
    BY <1>0, <1>1
  <2>4. Way(c) = <<>>
    BY <1>0, <2>1, <2>2, <2>3 DEF Way
  <2>5. Screen(c) = <<>>
    BY <1>0, <2>1, <2>2, <2>3 DEF Screen
  <2> QED
    BY <1>0, <2>2, <2>3, <2>4, <2>5
<1> QED
  BY <1>4, <1>6, <1>7, <1>9, <1>10 DEF ChatInv

-----------------------------------------------------------------------------
(* Steps of one client, which move nothing of the others.                   *)

MovesOnlyAt(c) ==
    /\ \A d \in Conn \ {c} :
          /\ typed'[d] = typed[d] /\ keyboard'[d] = keyboard[d] /\ stdio'[d] = stdio[d]
          /\ up'[d] = up[d] /\ shown'[d] = shown[d] /\ down'[d] = down[d]
    /\ UNCHANGED <<buf, unwritten, log>>

(* What is said of the others remains true.                                 *)
LEMMA OthersKeep ==
  ASSUME Posted, Heard, NEW c \in Conn, MovesOnlyAt(c),
         \A d \in Conn \ {c} : Alive(d)' => Alive(d),
         Alive(c)' => Way(c)' = typed'[c],
         c \in Client /\ Alive(c)' => Screen(c)' = FlatMap(HeardOf(c), log')
  PROVE  Posted' /\ Heard'
<1>1. ASSUME NEW d \in Conn, Alive(d)' PROVE Way(d)' = typed'[d]
  <2>1. CASE d = c
    BY <1>1, <2>1
  <2>2. CASE d # c
    <3>1. Way(d) = typed[d]
      BY <1>1, <2>2 DEF Posted
    <3> QED
      BY <2>2, <3>1 DEF MovesOnlyAt, Way
  <2> QED
    BY <2>1, <2>2
<1>2. ASSUME NEW d \in Client, Alive(d)' PROVE Screen(d)' = FlatMap(HeardOf(d), log')
  <2>1. CASE d = c
    BY <1>2, <2>1
  <2>2. CASE d # c
    <3>1. d \in Conn \ {c}
      BY <2>2, Constants
    <3>2. Screen(d) = FlatMap(HeardOf(d), log)
      BY <1>2, <3>1 DEF Heard
    <3> QED
      BY <3>1, <3>2 DEF MovesOnlyAt, Screen
  <2> QED
    BY <2>1, <2>2
<1> QED
  BY <1>1, <1>2 DEF Posted, Heard

(* The invariant, for a connection: the types of its streams.               *)
LEMMA StreamsHave ==
  ASSUME Streams, NEW c \in Conn
  PROVE  /\ FlatMap(PostOf(c), log) \in Item /\ typed[c] \in Item /\ keyboard[c] \in Item
         /\ stdio[c] \in Item /\ up[c] \in Item /\ buf[c] \in Item
         /\ typed[c] \in Seq(UnitOf(c)) /\ keyboard[c] \in Seq(UnitOf(c))
         /\ stdio[c] \in Seq(UnitOf(c)) /\ up[c] \in Seq(UnitOf(c)) /\ buf[c] \in Seq(UnitOf(c))
         /\ shown[c] \in Seq(Item) /\ down[c] \in Seq(Item)
         /\ FlatMap(OrderOf(c), unwritten) \in Seq(Item)
         /\ FlatMap(HeardOf(c), log) \in Seq(Item)
  BY OwnHas, HistoriesAreParts DEF Streams

(* A line is typed.                                                         *)
LEMMA TypeKeeps ==
  ASSUME ChatInv, NEW c \in Conn, NEW len \in LineUnits[c], Type(c, len)
  PROVE  ChatInv'
<1>0. Streams /\ Controls /\ Rooms /\ Lists /\ Posted /\ Heard
  BY DEF ChatInv
<1> DEFINE line == LineOf(c, len)
<1>1. /\ c \in Client /\ place[c] # "done" /\ LinesTyped < MaxTyped
      /\ typed' = [typed EXCEPT ![c] = @ \o line]
      /\ keyboard' = [keyboard EXCEPT ![c] = @ \o line]
      /\ UNCHANGED <<eof, place, stdio, shown, up, down, phase, backlog, clients, curr,
                     listen_fds, buf, unwritten, log>>
  BY DEF Type, local, server
<1>2. line \in Seq(UnitOf(c)) /\ line \in Item
  <2>1. line \in Seq(UnitOf(c))
    BY <1>0, <1>1, LineTyped DEF Streams
  <2>2. UnitOf(c) \subseteq Unit
    BY DEF UnitOf
  <2> HIDE DEF line
  <2> QED
    BY <2>1, <2>2, SeqMonotonic DEF Item
<1> HIDE DEF line
<1>3. /\ Cat(typed[c], line) \in Seq(UnitOf(c)) /\ typed' = [typed EXCEPT ![c] = Cat(typed[c], line)]
      /\ Cat(keyboard[c], line) \in Seq(UnitOf(c))
      /\ keyboard' = [keyboard EXCEPT ![c] = Cat(keyboard[c], line)]
  <2>1. typed[c] \in Seq(UnitOf(c)) /\ keyboard[c] \in Seq(UnitOf(c))
    BY <1>0, StreamsHave
  <2> QED
    BY <1>1, <1>2, <2>1, CatType DEF Cat
<1>4. /\ typed' \in OwnStreams /\ typed'[c] = Cat(typed[c], line)
      /\ \A d \in Conn \ {c} : typed'[d] = typed[d]
  <2> DEFINE x == Cat(typed[c], line)
  <2>1. typed \in OwnStreams /\ x \in Seq(UnitOf(c)) /\ typed' = Put(typed, c, x)
    BY <1>0, <1>3 DEF Streams, Put
  <2> HIDE DEF x
  <2>2. typed' \in OwnStreams /\ typed'[c] = x /\ \A d \in Conn \ {c} : typed'[d] = typed[d]
    BY <2>1, OwnStep
  <2> QED
    BY <2>2 DEF x
<1>5. /\ keyboard' \in OwnStreams /\ keyboard'[c] = Cat(keyboard[c], line)
      /\ \A d \in Conn \ {c} : keyboard'[d] = keyboard[d]
  <2> DEFINE x == Cat(keyboard[c], line)
  <2>1. keyboard \in OwnStreams /\ x \in Seq(UnitOf(c)) /\ keyboard' = Put(keyboard, c, x)
    BY <1>0, <1>3 DEF Streams, Put
  <2> HIDE DEF x
  <2>2. keyboard' \in OwnStreams /\ keyboard'[c] = x /\ \A d \in Conn \ {c} : keyboard'[d] = keyboard[d]
    BY <2>1, OwnStep
  <2> QED
    BY <2>2 DEF x
<1>6. Streams'
  BY <1>0, <1>1, <1>4, <1>5 DEF Streams
<1>7. Controls' /\ Rooms'
  BY <1>0, <1>1 DEF Controls, Rooms
<1>8. Lists'
  <2>1. \A d \in Conn : place[d] = "away" => d # c
    BY <1>0, <1>1 DEF Lists, Client
  <2>2. PlacesGoOn
    BY <1>1 DEF PlacesGoOn
  <2> QED
    BY <1>0, <1>1, <1>4, <2>1, <2>2, ListsKept
<1>9. Posted' /\ Heard'
  <2>1. MovesOnlyAt(c)
    BY <1>1, <1>4, <1>5 DEF MovesOnlyAt
  <2>2. \A d \in Conn : Alive(d)' => Alive(d)
    BY <1>1 DEF Alive, ClosedByServer, Joined, Waiting
  <2>3. ASSUME Alive(c) PROVE Way(c)' = typed'[c]
    <3> DEFINE p == FlatMap(PostOf(c), log)
               x == Cat(Cat(Cat(p, buf[c]), up[c]), stdio[c])
               k == keyboard[c]
    <3>1. x \in Item /\ k \in Item
      <4>1. /\ p \in Item /\ keyboard[c] \in Item
            /\ stdio[c] \in Item /\ up[c] \in Item /\ buf[c] \in Item
        BY <1>0, StreamsHave
      <4> HIDE DEF p
      <4> QED
        BY <4>1, CatType DEF Item
    <3>2. Cat(x, k) = typed[c]
      BY <1>0, <2>3 DEF Posted, Way
    <3>3. Way(c)' = Cat(x, Cat(k, line))
      BY <1>1, <1>5 DEF Way
    <3> HIDE DEF x, k
    <3>4. Cat(Cat(x, k), line) = Cat(x, Cat(k, line))
      BY <1>2, <3>1, CatRegroup DEF Item
    <3> QED
      BY <1>4, <3>2, <3>3, <3>4
  <2>4. c \in Client /\ Alive(c) => Screen(c)' = FlatMap(HeardOf(c), log')
    BY <1>0, <1>1 DEF Heard, Screen
  <2> QED
    BY <1>0, <2>1, <2>2, <2>3, <2>4, OthersKeep
<1> QED
  BY <1>6, <1>7, <1>8, <1>9 DEF ChatInv

(* The client leaves.                                                       *)
LEMMA LeaveKeeps ==
  ASSUME ChatInv, NEW c \in Conn, Leave(c), place[c] # "away"
  PROVE  ChatInv'
<1>0. Streams /\ Controls /\ Rooms /\ Lists /\ Posted /\ Heard
  BY DEF ChatInv
<1>1. /\ place' = [place EXCEPT ![c] = "done"]
      /\ keyboard' = [keyboard EXCEPT ![c] = <<>>] /\ stdio' = [stdio EXCEPT ![c] = <<>>]
      /\ down' = [down EXCEPT ![c] = <<>>] /\ shown' = [shown EXCEPT ![c] = <<>>]
      /\ UNCHANGED <<typed, eof, up, phase, backlog, clients, curr, listen_fds, buf,
                     unwritten, log>>
  BY DEF Leave, server
<1>2. <<>> \in Seq(UnitOf(c)) /\ <<>> \in Seq(Item) /\ Len(<<>>) = 0
  BY EmptySeq
<1>3. keyboard' \in OwnStreams /\ \A d \in Conn \ {c} : keyboard'[d] = keyboard[d]
  <2> DEFINE x == <<>>
  <2>1. keyboard \in OwnStreams /\ x \in Seq(UnitOf(c)) /\ keyboard' = Put(keyboard, c, x)
    BY <1>0, <1>1, <1>2 DEF Streams, Put
  <2> HIDE DEF x
  <2> QED
    BY <2>1, OwnStep
<1>4. stdio' \in OwnStreams /\ \A d \in Conn \ {c} : stdio'[d] = stdio[d]
  <2> DEFINE x == <<>>
  <2>1. stdio \in OwnStreams /\ x \in Seq(UnitOf(c)) /\ stdio' = Put(stdio, c, x)
    BY <1>0, <1>1, <1>2 DEF Streams, Put
  <2> HIDE DEF x
  <2> QED
    BY <2>1, OwnStep
<1>5. /\ down' \in [Conn -> Seq(Item)] /\ shown' \in [Conn -> Seq(Item)]
      /\ down'[c] = <<>> /\ \A d \in Conn \ {c} : down'[d] = down[d] /\ shown'[d] = shown[d]
  BY <1>0, <1>1, <1>2 DEF Streams
<1>6. /\ place' \in [Conn -> {"away", "close", "select", "stdin", "socket", "both", "done"}]
      /\ place'[c] = "done" /\ \A d \in Conn \ {c} : place'[d] = place[d]
  BY <1>0, <1>1 DEF Controls
<1>7. Streams'
  BY <1>0, <1>1, <1>3, <1>4, <1>5 DEF Streams
<1>8. Controls'
  BY <1>0, <1>1, <1>6 DEF Controls
<1>9. Rooms'
  <2> SUFFICES ASSUME NEW d \in Conn
               PROVE  Len(up[d]) <= UpCapacity /\ Len(down'[d]) <= DownCapacity
                        /\ Len(buf[d]) < BufUnits
    BY <1>1 DEF Rooms
  <2>1. CASE d = c
    <3>1. Len(up[d]) <= UpCapacity /\ Len(buf[d]) < BufUnits
      BY <1>0 DEF Rooms
    <3>2. Len(down'[d]) = 0
      BY <1>2, <1>5, <2>1
    <3> QED
      BY <3>1, <3>2, Constants
  <2>2. CASE d # c
    BY <1>0, <1>5, <2>2 DEF Rooms
  <2> QED
    BY <2>1, <2>2
<1>10. Lists'
  <2>1. PlacesGoOn
    BY <1>6 DEF PlacesGoOn
  <2> QED
    BY <1>0, <1>1, <2>1, ListsKept
<1>11. Posted' /\ Heard'
  <2>1. MovesOnlyAt(c)
    BY <1>1, <1>3, <1>4, <1>5 DEF MovesOnlyAt
  <2>2. \A d \in Conn \ {c} : Alive(d)' => Alive(d)
    BY <1>1, <1>6 DEF Alive, ClosedByServer, Joined, Waiting
  <2>3. ~Alive(c)'
    BY <1>6 DEF Alive
  <2> QED
    BY <1>0, <2>1, <2>2, <2>3, OthersKeep
<1> QED
  BY <1>7, <1>8, <1>9, <1>10, <1>11 DEF ChatInv

(* So it does at SIGPIPE, at the end of the input, when the items fill its  *)
(* buffer, and when the server has closed.                                  *)
LEMMA LeavingKeeps ==
  ASSUME ChatInv, NEW c \in Conn,
         Killed(c) \/ InputEnds(c) \/ ReceiveOverflow(c) \/ ReceiveEnd(c)
  PROVE  ChatInv'
<1>1. Leave(c) /\ place[c] # "away"
  BY DEF Killed, InputEnds, ReceiveOverflow, ReceiveEnd, AtInput
<1> QED
  BY <1>1, LeaveKeeps

(* The client displays what has arrived.                                    *)
LEMMA ReceiveKeeps == ASSUME ChatInv, NEW c \in Conn, Receive(c) PROVE ChatInv'
<1>0. Streams /\ Controls /\ Rooms /\ Lists /\ Posted /\ Heard
  BY DEF ChatInv
<1>1. /\ place[c] = "socket" /\ place' = [place EXCEPT ![c] = "select"]
      /\ shown' = [shown EXCEPT ![c] = Cat(shown[c], down[c])]
      /\ down' = [down EXCEPT ![c] = <<>>]
      /\ UNCHANGED <<typed, keyboard, eof, stdio, up, phase, backlog, clients, curr,
                     listen_fds, buf, unwritten, log>>
  BY DEF Receive, user, server, Cat
<1>2. shown[c] \in Seq(Item) /\ down[c] \in Seq(Item) /\ Cat(shown[c], down[c]) \in Seq(Item)
  BY <1>0, StreamsHave, CatType
<1>3. /\ down' \in [Conn -> Seq(Item)] /\ down'[c] = <<>>
      /\ \A d \in Conn \ {c} : down'[d] = down[d]
  BY <1>0, <1>1, EmptySeq DEF Streams
<1>4. /\ shown' \in [Conn -> Seq(Item)] /\ shown'[c] = Cat(shown[c], down[c])
      /\ \A d \in Conn \ {c} : shown'[d] = shown[d]
  BY <1>0, <1>1, <1>2 DEF Streams
<1>5. /\ place' \in [Conn -> {"away", "close", "select", "stdin", "socket", "both", "done"}]
      /\ place'[c] = "select" /\ \A d \in Conn \ {c} : place'[d] = place[d]
  BY <1>0, <1>1 DEF Controls
<1>6. Streams' /\ Controls'
  BY <1>0, <1>1, <1>3, <1>4, <1>5 DEF Streams, Controls
<1>7. Rooms'
  <2> SUFFICES ASSUME NEW d \in Conn
               PROVE  Len(up[d]) <= UpCapacity /\ Len(down'[d]) <= DownCapacity
                        /\ Len(buf[d]) < BufUnits
    BY <1>1 DEF Rooms
  <2>1. CASE d = c
    BY <1>0, <1>3, <2>1, Constants, EmptySeq DEF Rooms
  <2>2. CASE d # c
    BY <1>0, <1>3, <2>2 DEF Rooms
  <2> QED
    BY <2>1, <2>2
<1>8. PlacesGoOn /\ Lists'
  <2>1. PlacesGoOn
    BY <1>1, <1>5 DEF PlacesGoOn
  <2> QED
    BY <1>0, <1>1, <2>1, ListsKept
<1>9. Posted' /\ Heard'
  <2>1. MovesOnlyAt(c)
    BY <1>1, <1>3, <1>4 DEF MovesOnlyAt
  <2>2. \A d \in Conn : Alive(d)' => Alive(d)
    BY <1>1, <1>8, AliveBefore
  <2>3. Alive(c) => Way(c)' = typed'[c]
    BY <1>0, <1>1 DEF Posted, Way
  <2>4. ASSUME c \in Client, Alive(c) PROVE Screen(c)' = FlatMap(HeardOf(c), log')
    <3> DEFINE s == Cat(shown[c], down[c])
               r == FlatMap(OrderOf(c), unwritten)
    <3>1. Cat(s, r) = FlatMap(HeardOf(c), log)
      BY <1>0, <2>4 DEF Heard, Screen
    <3>2. Screen(c)' = Cat(Cat(s, <<>>), r)
      BY <1>1, <1>3, <1>4 DEF Screen
    <3>3. Cat(s, <<>>) = s
      BY <1>2, CatEmpty
    <3> HIDE DEF s, r
    <3> QED
      BY <1>1, <3>1, <3>2, <3>3
  <2> QED
    BY <1>0, <2>1, <2>2, <2>3, <2>4, OthersKeep
<1> QED
  BY <1>6, <1>7, <1>8, <1>9 DEF ChatInv

(* fgets takes no more from the keyboard than there is.                     *)
LEMMA RefillFits ==
  ASSUME NEW c \in Conn, keyboard[c] \in Item
  PROVE  Refill(c) \in Nat /\ Refill(c) <= Len(keyboard[c])
<1> DEFINE k == keyboard[c]
           Found == {i \in 1..Len(k) : k[i].last}
<1>1. Len(k) \in Nat
  BY LenProperties DEF Item
<1>2. SelectInSeq(k, LAMBDA u : u.last) = IF Found # {} THEN Min(Found) ELSE 0
  BY DEF SelectInSeq
<1>3. CASE Found = {}
  <2> HIDE DEF Found
  <2>1. SelectInSeq(k, LAMBDA u : u.last) = 0
    BY <1>2, <1>3
  <2>2. Refill(c) = 0
    BY <2>1 DEF Refill
  <2> QED
    BY <1>1, <2>2
<1>4. CASE Found # {}
  <2>1. Found \in SUBSET Nat /\ Found \subseteq 1..Len(k)
    BY <1>1
  <2> HIDE DEF Found
  <2>2. Min(Found) \in Found
    BY <1>4, <2>1, MinIsLeast
  <2>3. SelectInSeq(k, LAMBDA u : u.last) \in 1..Len(k)
    BY <1>2, <1>4, <2>1, <2>2
  <2>4. Refill(c) \in 0..Len(k)
    BY <1>1, <2>3 DEF Refill
  <2> QED
    BY <1>1, <2>4
<1> QED
  BY <1>3, <1>4

(* The client sends a unit: the units stay in their order, whatever has     *)
(* been read ahead.                                                         *)
LEMMA SendUnitKeeps == ASSUME ChatInv, NEW c \in Conn, SendUnit(c) PROVE ChatInv'
<1>0. Streams /\ Controls /\ Rooms /\ Lists /\ Posted /\ Heard
  BY DEF ChatInv
<1> DEFINE read == Refill(c)
           k == keyboard[c]
           k1 == SubSeq(k, 1, read)
           k2 == SubSeq(k, read + 1, Len(k))
           buffered == Buffered(c, read)
           U == Seq(UnitOf(c))
<1>1. /\ place[c] \in {"stdin", "both"} /\ buffered # <<>>
      /\ stdio' = Put(stdio, c, Tail(buffered)) /\ keyboard' = Put(keyboard, c, k2)
      /\ \/ /\ Len(up[c]) < UpCapacity /\ up' = Put(up, c, Append(up[c], Head(buffered)))
         \/ ClosedByServer(c) /\ UNCHANGED up
      /\ \E p \in {"socket", "select"} : place' = [place EXCEPT ![c] = p]
      /\ UNCHANGED <<typed, eof, shown, down, phase, backlog, clients, curr, listen_fds, buf,
                     unwritten, log>>
  <2>1. /\ place[c] \in {"stdin", "both"} /\ buffered # <<>>
        /\ stdio' = [stdio EXCEPT ![c] = Tail(buffered)]
        /\ keyboard' = [keyboard EXCEPT ![c] = SubSeq(@, read + 1, Len(@))]
        /\ \/ /\ ~ClosedByServer(c) /\ Len(up[c]) < UpCapacity
              /\ up' = [up EXCEPT ![c] = Append(@, Head(buffered))]
           \/ ClosedByServer(c) /\ UNCHANGED up
        /\ place' = [place EXCEPT ![c] = IF @ = "both" THEN "socket" ELSE "select"]
        /\ UNCHANGED <<typed, eof, shown, down, server>>
    BY DEF SendUnit, AtInput
  <2> HIDE DEF buffered, read
  <2>2. keyboard' = Put(keyboard, c, k2)
    BY <2>1 DEF Put
  <2>3. stdio' = Put(stdio, c, Tail(buffered))
    BY <2>1 DEF Put
  <2>4. \/ /\ Len(up[c]) < UpCapacity /\ up' = Put(up, c, Append(up[c], Head(buffered)))
        \/ ClosedByServer(c) /\ UNCHANGED up
    BY <2>1 DEF Put
  <2>5. \E p \in {"socket", "select"} : place' = [place EXCEPT ![c] = p]
    BY <2>1
  <2> QED
    BY <2>1, <2>2, <2>3, <2>4, <2>5 DEF server
<1>2. k \in U /\ stdio[c] \in U /\ up[c] \in U
  BY <1>0, StreamsHave
<1>3. k1 \in U /\ k2 \in U /\ Cat(k1, k2) = k
  <2>1. read \in Nat /\ read <= Len(k)
    BY <1>0, RefillFits, StreamsHave
  <2> HIDE DEF read, k
  <2> QED
    BY <1>2, <2>1, Cut
<1>4. buffered = Cat(stdio[c], k1) /\ buffered \in U
  <2>1. buffered = Cat(stdio[c], k1)
    BY DEF Buffered, Cat
  <2> HIDE DEF buffered, k1
  <2> QED
    BY <1>2, <1>3, <2>1, CatType
<1> HIDE DEF buffered, k1, k2, k, read
<1> DEFINE h == Head(buffered)
           t == Tail(buffered)
           u == Append(up[c], h)
<1>5. h \in UnitOf(c) /\ t \in U /\ buffered = Cat(One(h), t) /\ One(h) \in U
  BY <1>1, <1>4, HeadAndTail, OneType
<1>6. u = Cat(up[c], One(h)) /\ u \in U /\ Len(u) = Len(up[c]) + 1
  <2> HIDE DEF h
  <2> DEFINE o == One(h)
             v == up[c]
  <2>1. u = Cat(v, o) /\ Len(o) = 1 /\ o \in U /\ v \in U
    BY <1>2, <1>5, OneType
  <2> HIDE DEF u, o, v, U
  <2>2. Cat(v, o) \in U /\ Len(Cat(v, o)) = Len(v) + Len(o)
    BY <2>1, CatType DEF U
  <2> QED
    BY <2>1, <2>2 DEF v, o
<1> HIDE DEF h, t, u
<1>7. stdio' \in OwnStreams /\ stdio'[c] = t /\ \A d \in Conn \ {c} : stdio'[d] = stdio[d]
  <2>1. stdio \in OwnStreams /\ stdio' = Put(stdio, c, t)
    BY <1>0, <1>1 DEF Streams, t
  <2> QED
    BY <1>5, <2>1, OwnStep
<1>8. /\ keyboard' \in OwnStreams /\ keyboard'[c] = k2
      /\ \A d \in Conn \ {c} : keyboard'[d] = keyboard[d]
  <2>1. keyboard \in OwnStreams /\ keyboard' = Put(keyboard, c, k2)
    BY <1>0, <1>1 DEF Streams
  <2> QED
    BY <1>3, <2>1, OwnStep
<1>9. /\ up' \in OwnStreams /\ Len(up'[c]) <= UpCapacity /\ \A d \in Conn \ {c} : up'[d] = up[d]
      /\ ClosedByServer(c) \/ up'[c] = u
  <2>1. CASE Len(up[c]) < UpCapacity /\ up' = Put(up, c, Append(up[c], Head(buffered)))
    <3>1. up \in OwnStreams /\ up' = Put(up, c, u)
      BY <1>0, <2>1 DEF Streams, u, h
    <3>2. up' \in OwnStreams /\ up'[c] = u /\ \A d \in Conn \ {c} : up'[d] = up[d]
      BY <1>6, <3>1, OwnStep
    <3>3. Len(up[c]) \in Nat
      BY <1>2, LenProperties
    <3> QED
      BY <1>6, <2>1, <3>2, <3>3, Constants
  <2>2. CASE ClosedByServer(c) /\ UNCHANGED up
    BY <1>0, <2>2 DEF Streams, Rooms
  <2> QED
    BY <1>1, <2>1, <2>2
<1>10. /\ place' \in [Conn -> {"away", "close", "select", "stdin", "socket", "both", "done"}]
       /\ place'[c] \in {"socket", "select"} /\ \A d \in Conn \ {c} : place'[d] = place[d]
  BY <1>0, <1>1 DEF Controls
<1>11. Streams'
  BY <1>0, <1>1, <1>7, <1>8, <1>9 DEF Streams
<1>12. Controls'
  BY <1>0, <1>1, <1>10 DEF Controls
<1>13. Rooms'
  <2> SUFFICES ASSUME NEW d \in Conn
               PROVE  Len(up'[d]) <= UpCapacity /\ Len(down[d]) <= DownCapacity
                        /\ Len(buf[d]) < BufUnits
    BY <1>1 DEF Rooms
  <2>1. Len(up'[d]) <= UpCapacity
    BY <1>0, <1>9 DEF Rooms
  <2> QED
    BY <1>0, <2>1 DEF Rooms
<1>14. PlacesGoOn
  BY <1>1, <1>10 DEF PlacesGoOn
<1>15. Lists'
  BY <1>0, <1>1, <1>14, ListsKept
<1>16. Posted' /\ Heard'
  <2>1. MovesOnlyAt(c)
    BY <1>1, <1>7, <1>8, <1>9 DEF MovesOnlyAt
  <2>2. \A d \in Conn : Alive(d)' => Alive(d)
    BY <1>1, <1>14, AliveBefore
  <2>3. ASSUME Alive(c) PROVE Way(c)' = typed'[c]
    <3> DEFINE x == Cat(FlatMap(PostOf(c), log), buf[c])
    <3>1. /\ x \in Item /\ up[c] \in Item /\ stdio[c] \in Item
          /\ One(h) \in Item /\ t \in Item /\ k1 \in Item /\ k2 \in Item
      <4>1. FlatMap(PostOf(c), log) \in Item /\ buf[c] \in Item /\ up[c] \in Item /\ stdio[c] \in Item
        BY <1>0, StreamsHave
      <4>2. x \in Item
        BY <4>1, CatType DEF Item
      <4>3. UnitOf(c) \subseteq Unit
        BY DEF UnitOf
      <4> HIDE DEF x
      <4> QED
        BY <1>3, <1>5, <4>1, <4>2, <4>3, SeqMonotonic DEF Item
    <3>2. Way(c) = Cat(Cat(Cat(x, up[c]), stdio[c]), k)
      BY DEF Way, k
    <3>3. Way(c)' = Cat(Cat(Cat(x, Cat(up[c], One(h))), t), k2)
      <4>1. up'[c] = Cat(up[c], One(h))
        BY <1>6, <1>9, <2>3 DEF Alive
      <4> QED
        BY <1>1, <1>7, <1>8, <4>1 DEF Way
    <3> HIDE DEF x
    <3>4. Cat(One(h), t) = Cat(stdio[c], k1)
      BY <1>4, <1>5
    <3>5. Cat(Cat(Cat(x, Cat(up[c], One(h))), t), k2)
            = Cat(Cat(Cat(x, up[c]), stdio[c]), Cat(k1, k2))
      <4> DEFINE o == One(h)
                 v == up[c]
                 s == stdio[c]
      <4>1. /\ x \in Seq(Unit) /\ v \in Seq(Unit) /\ s \in Seq(Unit) /\ o \in Seq(Unit)
            /\ t \in Seq(Unit) /\ k1 \in Seq(Unit) /\ k2 \in Seq(Unit)
            /\ Cat(o, t) = Cat(s, k1)
        BY <3>1, <3>4 DEF Item
      <4> HIDE DEF o, v, s
      <4> DEFINE y == Cat(x, v)
                 m == Cat(o, t)
      <4>2. y \in Seq(Unit) /\ Cat(x, Cat(v, o)) = Cat(y, o) /\ m = Cat(s, k1)
        BY <4>1, CatType, CatRegroup
      <4> HIDE DEF y
      <4>3. Cat(Cat(Cat(y, o), t), k2) = Cat(y, Cat(m, k2))
        BY <4>1, <4>2, CatChain
      <4> HIDE DEF m
      <4>4. Cat(Cat(y, s), Cat(k1, k2)) = Cat(y, Cat(m, k2))
        BY <4>1, <4>2, CatFour
      <4> QED
        BY <4>2, <4>3, <4>4 DEF o, v, s, y
    <3> QED
      BY <1>0, <1>1, <1>3, <2>3, <3>2, <3>3, <3>5 DEF Posted
  <2>4. c \in Client /\ Alive(c) => Screen(c)' = FlatMap(HeardOf(c), log')
    BY <1>0, <1>1 DEF Heard, Screen
  <2> QED
    BY <1>0, <2>1, <2>2, <2>3, <2>4, OthersKeep
<1> QED
  BY <1>11, <1>12, <1>13, <1>15, <1>16 DEF ChatInv

(* send writes its line on a connection that has left no trace before.      *)
LEMMA SendLineKeeps ==
  ASSUME ChatInv, NEW c \in Conn, NEW whole \in BOOLEAN, SendLine(c, whole)
  PROVE  ChatInv'
<1>0. Streams /\ Controls /\ Rooms /\ Lists /\ Posted /\ Heard
  BY DEF ChatInv
<1> DEFINE u == [from |-> c, n |-> 1, i |-> 1, last |-> whole]
           x == One(u)
<1>1. /\ c \in Senders /\ place[c] = "away"
      /\ backlog' = Append(backlog, c)
      /\ typed' = Put(typed, c, x) /\ up' = Put(up, c, x)
      /\ place' = [place EXCEPT ![c] = "close"]
      /\ UNCHANGED <<keyboard, eof, stdio, shown, down, phase, clients, curr,
                     listen_fds, buf, unwritten, log>>
  BY DEF SendLine, Put, One
<1>2. x \in Seq(UnitOf(c)) /\ x \in Item /\ Len(x) = 1
  <2>1. u \in UnitOf(c) /\ u \in Unit
    BY Constants DEF UnitOf, Unit
  <2> HIDE DEF u
  <2> QED
    BY <2>1, OneType DEF Item
<1> HIDE DEF x, u
<1>3. typed' \in OwnStreams /\ typed'[c] = x /\ \A d \in Conn \ {c} : typed'[d] = typed[d]
  <2>1. typed \in OwnStreams
    BY <1>0 DEF Streams
  <2> QED
    BY <1>1, <1>2, <2>1, OwnStep
<1>4. up' \in OwnStreams /\ up'[c] = x /\ \A d \in Conn \ {c} : up'[d] = up[d]
  <2>1. up \in OwnStreams
    BY <1>0 DEF Streams
  <2> QED
    BY <1>1, <1>2, <2>1, OwnStep
<1>5. /\ place' \in [Conn -> {"away", "close", "select", "stdin", "socket", "both", "done"}]
      /\ place'[c] = "close" /\ \A d \in Conn \ {c} : place'[d] = place[d]
  BY <1>0, <1>1 DEF Controls
<1>6. c \notin Joined \cup Waiting /\ typed[c] = <<>>
  BY <1>0, <1>1 DEF Lists
<1>7. /\ backlog' \in Seq(Conn) /\ Waiting' = Waiting \cup {c}
      /\ \A i, j \in DOMAIN backlog' : backlog'[i] = backlog'[j] => i = j
  <2>1. /\ backlog \in Seq(Conn) /\ c \notin ToSet(backlog)
        /\ \A i, j \in DOMAIN backlog : backlog[i] = backlog[j] => i = j
    BY <1>0, <1>6 DEF Controls, Lists, Waiting
  <2>2. backlog' = Cat(backlog, One(c))
    BY <1>1, <2>1, OneType
  <2> QED
    BY <2>1, <2>2, AppendedOnce DEF Waiting
<1>8. Streams'
  BY <1>0, <1>1, <1>3, <1>4 DEF Streams
<1>9. Controls'
  BY <1>0, <1>1, <1>5, <1>7 DEF Controls
<1>10. Rooms'
  <2> SUFFICES ASSUME NEW d \in Conn
               PROVE  Len(up'[d]) <= UpCapacity /\ Len(down[d]) <= DownCapacity
                        /\ Len(buf[d]) < BufUnits
    BY <1>1 DEF Rooms
  <2>1. Len(up'[d]) <= UpCapacity
    <3>1. CASE d = c
      <4>1. Len(up'[d]) = 1
        BY <1>2, <1>4, <3>1
      <4> QED
        BY <4>1, Constants
    <3>2. CASE d # c
      BY <1>0, <1>4, <3>2 DEF Rooms
    <3> QED
      BY <3>1, <3>2
  <2> QED
    BY <1>0, <2>1 DEF Rooms
<1>11. Lists'
  <2>1. Joined' = Joined
    BY <1>1 DEF Joined
  <2>2. Joined' \cap Waiting' = {}
    BY <1>0, <1>6, <1>7, <2>1 DEF Lists
  <2>3. \A d \in Conn : place'[d] = "away" =>
           d \in Senders /\ d \notin Joined' \cup Waiting' /\ typed'[d] = <<>>
    BY <1>0, <1>3, <1>5, <1>7, <2>1 DEF Lists
  <2> QED
    BY <1>0, <1>1, <1>7, <2>1, <2>2, <2>3 DEF Lists
<1>12. Posted' /\ Heard'
  <2>1. MovesOnlyAt(c)
    BY <1>1, <1>3, <1>4 DEF MovesOnlyAt
  <2>2. \A d \in Conn \ {c} : Alive(d)' => Alive(d)
    BY <1>1, <1>5, <1>7 DEF Alive, ClosedByServer, Joined
  <2>3. Way(c)' = typed'[c]
    <3> DEFINE p == FlatMap(PostOf(c), log)
               b == buf[c]
               v == up[c]
               s == stdio[c]
               k == keyboard[c]
    <3>1. Cat(Cat(Cat(Cat(p, b), v), s), k) = <<>>
      BY <1>0, <1>1, <1>6 DEF Posted, Way, Alive, ClosedByServer
    <3>2. p \in Item /\ b \in Item /\ v \in Item /\ s \in Item /\ k \in Item
      BY <1>0, StreamsHave
    <3>3. Way(c)' = Cat(Cat(Cat(Cat(p, b), x), s), k)
      BY <1>1, <1>4 DEF Way
    <3> HIDE DEF p, b, v, s, k
    <3>4. Cat(p, b) = <<>> /\ s = <<>> /\ k = <<>>
      <4>1. Cat(p, b) \in Item /\ Cat(Cat(p, b), v) \in Item /\ Cat(Cat(Cat(p, b), v), s) \in Item
        BY <3>2, CatType DEF Item
      <4>2. Cat(Cat(Cat(p, b), v), s) = <<>> /\ k = <<>>
        BY <3>1, <3>2, <4>1, CatIsEmpty DEF Item
      <4>3. Cat(Cat(p, b), v) = <<>> /\ s = <<>>
        BY <3>2, <4>1, <4>2, CatIsEmpty DEF Item
      <4>4. Cat(p, b) = <<>>
        BY <3>2, <4>1, <4>3, CatIsEmpty DEF Item
      <4> QED
        BY <4>2, <4>3, <4>4
    <3>5. Cat(x, <<>>) = x /\ Cat(<<>>, x) = x
      BY <1>2, CatEmpty DEF Item
    <3> QED
      BY <1>3, <3>3, <3>4, <3>5
  <2>4. ~(c \in Client)
    BY <1>1 DEF Client
  <2> QED
    BY <1>0, <2>1, <2>2, <2>3, <2>4, OthersKeep
<1> QED
  BY <1>8, <1>9, <1>10, <1>11, <1>12 DEF ChatInv

-----------------------------------------------------------------------------
(* The server's steps that write nothing.                                   *)

(* select returns: the connection that is accepted goes from one list to    *)
(* the other.                                                               *)
LEMMA SelectKeeps == ASSUME ChatInv, Select PROVE ChatInv'
<1>0. Streams /\ Controls /\ Rooms /\ Lists /\ Posted /\ Heard
  BY DEF ChatInv
<1>1. /\ backlog # <<>> \/ \E c \in Joined : Readable(c)
      /\ listen_fds' = {c \in Joined : Readable(c)}
      /\ \/ backlog = <<>> /\ UNCHANGED <<backlog, clients>>
         \/ /\ backlog # <<>>
            /\ backlog' = Tail(backlog) /\ clients' = Append(clients, Head(backlog))
      /\ phase' = "scan" /\ curr' = clients'[1]
      /\ UNCHANGED <<typed, keyboard, eof, place, stdio, shown, up, down, buf, unwritten, log>>
  BY DEF Select, user, local
<1>2. /\ clients \in Seq(Conn) /\ backlog \in Seq(Conn) /\ Joined \subseteq Conn
      /\ \A i, j \in DOMAIN clients : clients[i] = clients[j] => i = j
      /\ \A i, j \in DOMAIN backlog : backlog[i] = backlog[j] => i = j
      /\ Joined \cap Waiting = {}
  <2>1. clients \in Seq(Conn)
    BY <1>0 DEF Controls
  <2>2. Joined \subseteq Conn
    BY <2>1, LenProperties, ElementOfSeq DEF Joined, ToSet
  <2> QED
    BY <1>0, <2>2 DEF Controls, Lists
<1>3. /\ clients' \in Seq(Conn) /\ backlog' \in Seq(Conn) /\ clients' # <<>>
      /\ \A i, j \in DOMAIN clients' : clients'[i] = clients'[j] => i = j
      /\ \A i, j \in DOMAIN backlog' : backlog'[i] = backlog'[j] => i = j
      /\ Joined' \cap Waiting' = {} /\ Joined' \cup Waiting' = Joined \cup Waiting
  <2>1. CASE backlog = <<>> /\ UNCHANGED <<backlog, clients>>
    <3>1. Joined # {}
      BY <1>1, <2>1
    <3>2. clients # <<>>
      <4>1. DOMAIN <<>> = {}
        OBVIOUS
      <4> QED
        BY <3>1, <4>1 DEF Joined, ToSet
    <3> QED
      BY <1>2, <2>1, <3>2 DEF Joined, Waiting
  <2>2. CASE /\ backlog # <<>>
             /\ backlog' = Tail(backlog) /\ clients' = Append(clients, Head(backlog))
    <3> DEFINE h == Head(backlog)
    <3>1. /\ backlog' \in Seq(Conn) /\ h \in Conn
          /\ \A i, j \in DOMAIN backlog' : backlog'[i] = backlog'[j] => i = j
          /\ Waiting' = Waiting \ {h} /\ h \in Waiting
      <4>1. h \in Conn /\ backlog' \in Seq(Conn) /\ backlog = Cat(One(h), backlog')
        BY <1>2, <2>2, HeadAndTail
      <4> HIDE DEF h
      <4> QED
        BY <1>2, <4>1, TailOnce DEF Waiting
    <3> HIDE DEF h
    <3>2. h \notin ToSet(clients) /\ clients' = Cat(clients, One(h))
      <4>1. clients' = Append(clients, h)
        BY <2>2 DEF h
      <4> QED
        BY <1>2, <3>1, <4>1, OneType DEF Joined
    <3>3. /\ clients' \in Seq(Conn) /\ clients' # <<>>
          /\ \A i, j \in DOMAIN clients' : clients'[i] = clients'[j] => i = j
          /\ Joined' = Joined \cup {h}
      BY <1>2, <3>1, <3>2, AppendedOnce DEF Joined
    <3>4. Joined' \cap Waiting' = {} /\ Joined' \cup Waiting' = Joined \cup Waiting
      BY <1>2, <3>1, <3>3
    <3> QED
      BY <3>1, <3>3, <3>4
  <2> QED
    BY <1>1, <2>1, <2>2
<1>4. curr' \in Joined' /\ curr' # NULL
  <2>1. Len(clients') \in Nat \ {0} /\ DOMAIN clients' = 1..Len(clients')
    BY <1>3, EmptySeq, LenProperties
  <2>2. curr' = clients'[1] /\ 1 \in DOMAIN clients' /\ clients' \in Seq(Conn)
    <3>1. curr' = clients'[1]
      BY <1>1, Zenon
    <3> QED
      BY <1>3, <2>1, <3>1
  <2>3. curr' \in Joined'
    <3>1. clients'[1] \in ToSet(clients')
      BY <2>2 DEF ToSet
    <3> QED
      BY <2>2, <3>1 DEF Joined
  <2>4. clients'[1] \in Conn
    BY <2>1, <2>2, ElementOfSeq
  <2> QED
    BY <2>2, <2>3, <2>4, Constants
<1>5. Controls'
  BY <1>0, <1>1, <1>2, <1>3 DEF Controls
<1>6. Lists'
  <2>1. \A d \in Conn : place'[d] = "away" =>
           d \in Senders /\ d \notin Joined' \cup Waiting' /\ typed'[d] = <<>>
    BY <1>0, <1>1, <1>3 DEF Lists
  <2> QED
    BY <1>1, <1>3, <1>4, <2>1 DEF Lists
<1>7. Streams' /\ Rooms' /\ Posted' /\ Heard'
  <2>1. \A d \in Conn : Alive(d)' => Alive(d)
    BY <1>1, <1>3 DEF Alive, ClosedByServer
  <2> QED
    BY <1>1, <2>1, NothingMoves
<1> QED
  BY <1>5, <1>6, <1>7 DEF ChatInv

(* The scan goes on to a client of the list, or ends.                       *)
LEMMA AdvanceStays ==
  ASSUME ChatInv, curr # NULL, Advance, UNCHANGED clients
  PROVE  /\ curr' \in Joined' \cup {NULL} /\ (phase' = "select" <=> curr' = NULL)
         /\ phase' \in {"select", "scan"} /\ listen_fds' \in SUBSET Conn
<1>1. clients \in Seq(Conn) /\ curr \in Joined /\ listen_fds \in SUBSET Conn
  BY DEF ChatInv, Controls, Lists
<1>2. Len(clients) \in Nat /\ DOMAIN clients = 1..Len(clients)
  BY <1>1, LenProperties
<1>3. Position(curr) \in 1..Len(clients)
  <2>1. \E k \in DOMAIN clients : clients[k] = curr
    BY <1>1 DEF Joined, ToSet
  <2> QED
    BY <1>2, <2>1 DEF Position
<1>4. Successor(curr) \in Joined \cup {NULL}
  <2>1. CASE Position(curr) = Len(clients)
    BY <2>1 DEF Successor
  <2>2. CASE Position(curr) # Len(clients)
    <3>1. Position(curr) + 1 \in DOMAIN clients
      BY <1>2, <1>3, <2>2
    <3> QED
      BY <2>2, <3>1 DEF Successor, Joined, ToSet
  <2> QED
    BY <2>1, <2>2
<1> QED
  BY <1>1, <1>4 DEF Advance, Joined

(* The client the scan is at has nothing to read.                           *)
LEMMA SkipKeeps == ASSUME ChatInv, Skip PROVE ChatInv'
<1>1. /\ phase = "scan" /\ Advance
      /\ UNCHANGED <<typed, keyboard, eof, place, stdio, shown, up, down, backlog, clients,
                     buf, unwritten, log>>
  BY DEF Skip, At, user, local
<1>2. curr # NULL
  BY <1>1 DEF ChatInv, Lists
<1>3. /\ curr' \in Joined' \cup {NULL} /\ (phase' = "select" <=> curr' = NULL)
      /\ phase' \in {"select", "scan"} /\ listen_fds' \in SUBSET Conn
  BY <1>1, <1>2, AdvanceStays
<1>4. Lists' /\ Controls'
  BY <1>1, <1>3 DEF ChatInv, Lists, Controls, Joined, Waiting
<1>5. \A d \in Conn : Alive(d)' => Alive(d)
  BY <1>1 DEF Alive, ClosedByServer, Joined, Waiting
<1> QED
  BY <1>1, <1>4, <1>5, NothingMoves DEF ChatInv

(* While the server scans, the client it is at is connected.                *)
LEMMA CurrIsThere ==
  ASSUME Controls, Lists, phase = "scan"
  PROVE  curr \in Conn /\ curr \in Joined
<1>1. curr \in Joined
  BY DEF Lists
<1>2. Joined \subseteq Conn
  BY LenProperties, ElementOfSeq DEF Controls, Joined, ToSet
<1> QED
  BY <1>1, <1>2

(* remove_client: the client is gone, and the round has ended.              *)
LEMMA DropTakes ==
  ASSUME ChatInv, NEW c \in Conn, c = curr, Drop(curr), UNCHANGED <<place, typed>>
  PROVE  /\ clients' \in Seq(Conn) /\ Lists'
         /\ ~Alive(c)' /\ \A d \in Conn : Alive(d)' => Alive(d)
<1>1. /\ clients' = RemoveAt(clients, Position(c))
      /\ curr' = NULL /\ phase' = "select" /\ UNCHANGED backlog
  BY DEF Drop
<1>2. /\ clients \in Seq(Conn) /\ c \in Joined /\ Lists
      /\ \A i, j \in DOMAIN clients : clients[i] = clients[j] => i = j
  BY Constants DEF ChatInv, Controls, Lists
<1>3. Len(clients) \in Nat /\ DOMAIN clients = 1..Len(clients)
  BY <1>2, LenProperties
<1>4. Position(c) \in 1..Len(clients) /\ clients[Position(c)] = c
  <2>1. \E k \in DOMAIN clients : clients[k] = c
    BY <1>2 DEF Joined, ToSet
  <2> QED
    BY <1>3, <2>1 DEF Position
<1>5. /\ clients' \in Seq(Conn)
      /\ \A i, j \in DOMAIN clients' : clients'[i] = clients'[j] => i = j
      /\ Joined' = Joined \ {c}
  <2> DEFINE p == Position(c)
  <2>1. p \in 1..Len(clients) /\ clients' = RemoveAt(clients, p) /\ clients[p] = c
    BY <1>1, <1>4
  <2> HIDE DEF p
  <2>2. /\ RemoveAt(clients, p) \in Seq(Conn)
        /\ \A i, j \in DOMAIN RemoveAt(clients, p) :
             RemoveAt(clients, p)[i] = RemoveAt(clients, p)[j] => i = j
        /\ ToSet(RemoveAt(clients, p)) = ToSet(clients) \ {clients[p]}
    BY <1>2, <2>1, RemovedOnce
  <2> QED
    BY <2>1, <2>2 DEF Joined
<1>7. Lists'
  <2>1. Joined' \cap Waiting' = {} /\ Waiting' = Waiting
    BY <1>1, <1>2, <1>5 DEF Lists, Waiting
  <2>2. \A d \in Conn : place'[d] = "away" =>
           d \in Senders /\ d \notin Joined' \cup Waiting' /\ typed'[d] = <<>>
    BY <1>2, <1>5, <2>1 DEF Lists
  <2>3. \A i, j \in DOMAIN backlog' : backlog'[i] = backlog'[j] => i = j
    BY <1>1, <1>2 DEF Lists
  <2> QED
    BY <1>1, <1>5, <2>1, <2>2, <2>3 DEF Lists
<1>8. ~Alive(c)'
  <2>1. place[c] # "away" /\ c \notin Waiting
    BY <1>2 DEF Lists
  <2>2. place'[c] # "away" /\ c \notin Joined' \cup Waiting'
    BY <1>1, <1>5, <2>1 DEF Waiting
  <2> QED
    BY <2>2 DEF Alive, ClosedByServer
<1>9. \A d \in Conn : Alive(d)' => Alive(d)
  BY <1>1, <1>5 DEF Alive, ClosedByServer, Waiting
<1> QED
  BY <1>5, <1>7, <1>8, <1>9

(* The client has closed and is removed.                                    *)
LEMMA ReadEndKeeps == ASSUME ChatInv, ReadEnd PROVE ChatInv'
<1>1. /\ phase = "scan" /\ Drop(curr)
      /\ UNCHANGED <<typed, keyboard, eof, place, stdio, shown, up, down, buf, unwritten, log>>
      /\ phase' = "select" /\ listen_fds' = {} /\ UNCHANGED backlog
  BY DEF ReadEnd, At, Drop, user, local
<1>2. PICK c \in Conn : c = curr
  BY <1>1, CurrIsThere DEF ChatInv
<1>3. clients' \in Seq(Conn) /\ Lists' /\ \A d \in Conn : Alive(d)' => Alive(d)
  BY <1>1, <1>2, DropTakes
<1>4. Controls'
  BY <1>1, <1>3 DEF ChatInv, Controls
<1> QED
  BY <1>1, <1>3, <1>4, NothingMoves DEF ChatInv

-----------------------------------------------------------------------------
(* What read takes.                                                         *)

Left(c) == SubSeq(up[c], ReadLen(c) + 1, Len(up[c]))

(* It is put behind what buf holds, and does not overflow buf; it is        *)
(* something, when there is something.                                      *)
LEMMA ReadTakes ==
  ASSUME ChatInv, NEW c \in Conn, up[c] # <<>>
  PROVE  /\ Filled(c) \in Seq(UnitOf(c)) \ {<<>>} /\ Left(c) \in Seq(UnitOf(c))
         /\ Len(Filled(c)) <= BufUnits /\ Len(Left(c)) <= Len(up[c])
         /\ Cat(Filled(c), Left(c)) = Cat(buf[c], up[c])
<1> DEFINE U == Seq(UnitOf(c))
           n == ReadLen(c)
           u == up[c]
           b == buf[c]
           first == SubSeq(u, 1, n)
           left == SubSeq(u, n + 1, Len(u))
           both == {Len(u), BufUnits - Len(b)}
<1>1. u \in U /\ b \in U /\ Len(b) < BufUnits
  BY StreamsHave DEF ChatInv, Rooms
<1>2. Len(u) \in Nat \ {0} /\ Len(b) \in Nat
  <2>1. u # <<>>
    OBVIOUS
  <2> HIDE DEF u, b
  <2> QED
    BY <1>1, <2>1, EmptySeq, LenProperties
<1>3. n \in Nat \ {0} /\ n <= Len(u) /\ Len(b) + n <= BufUnits
  <2>1. both \in SUBSET Nat /\ Len(u) \in both /\ BufUnits - Len(b) \in both
        /\ \A y \in both : y # 0
    BY <1>1, <1>2, Constants
  <2>2. n = Min(both)
    BY DEF ReadLen
  <2> HIDE DEF both, n
  <2>3. Min(both) \in both /\ \A y \in both : Min(both) <= y
    BY <2>1, MinIsLeast
  <2>4. n \in Nat \ {0} /\ n <= Len(u) /\ n <= BufUnits - Len(b)
    BY <2>1, <2>2, <2>3
  <2> QED
    BY <1>2, <2>4, Constants
<1>4. /\ first \in U /\ Len(first) = n /\ left \in U /\ Len(left) = Len(u) - n
      /\ Cat(first, left) = u
  <2> HIDE DEF n, u
  <2> QED
    BY <1>1, <1>3, Cut
<1>5. Filled(c) = Cat(b, first) /\ Left(c) = left
  BY DEF Filled, Left, Cat
<1> HIDE DEF n, u, b, first, left, U
<1>6. Cat(b, first) \in U /\ Len(Cat(b, first)) = Len(b) + Len(first)
  BY <1>1, <1>4, CatType DEF U
<1>7. Cat(b, first) # <<>>
  <2>1. Len(Cat(b, first)) # 0
    BY <1>2, <1>3, <1>4, <1>6
  <2> QED
    BY <2>1, EmptySeq
<1>8. Cat(Cat(b, first), left) = Cat(b, u)
  BY <1>1, <1>4, CatRegroup DEF U
<1>9. Len(Cat(b, first)) <= BufUnits /\ Len(left) <= Len(u)
  BY <1>2, <1>3, <1>4, <1>6
<1> QED
  BY <1>4, <1>5, <1>6, <1>7, <1>8, <1>9 DEF u, b, U

(* What is left of the units on the way to the server.                      *)
LEMMA UpLeft ==
  ASSUME ChatInv, NEW c \in Conn, up[c] # <<>>, up' = Put(up, c, Left(c))
  PROVE  /\ up' \in OwnStreams /\ up'[c] = Left(c) /\ Len(up'[c]) <= UpCapacity
         /\ \A d \in Conn \ {c} : up'[d] = up[d]
<1> DEFINE left == Left(c)
<1>1. left \in Seq(UnitOf(c)) /\ Len(left) <= Len(up[c]) /\ up \in OwnStreams
  BY ReadTakes DEF ChatInv, Streams
<1>2. up' = Put(up, c, left)
  OBVIOUS
<1> HIDE DEF left
<1>3. up' \in OwnStreams /\ up'[c] = left /\ \A d \in Conn \ {c} : up'[d] = up[d]
  BY <1>1, <1>2, OwnStep
<1>4. Len(left) \in Nat /\ Len(up[c]) \in Nat /\ Len(up[c]) <= UpCapacity
  BY <1>1, StreamsHave, LenProperties DEF ChatInv, Rooms
<1> QED
  BY <1>1, <1>3, <1>4, Constants DEF left

(* buf is full: the client is removed.                                      *)
LEMMA ReadOverflowKeeps == ASSUME ChatInv, NEW b, ReadOverflow(b) PROVE ChatInv'
<1>0. Streams /\ Controls /\ Rooms /\ Lists /\ Posted /\ Heard
  BY DEF ChatInv
<1>1. /\ phase = "scan" /\ up[curr] # <<>> /\ Drop(curr)
      /\ up' = Put(up, curr, Left(curr))
      /\ phase' = "select" /\ listen_fds' = {}
      /\ UNCHANGED <<typed, keyboard, eof, place, stdio, shown, down, buf, unwritten, log, backlog>>
  BY DEF ReadOverflow, Read, At, Drop, user, local, Put, Left
<1>2. PICK c \in Conn : c = curr
  BY <1>0, <1>1, CurrIsThere
<1>3. /\ clients' \in Seq(Conn) /\ Lists'
      /\ ~Alive(c)' /\ \A d \in Conn : Alive(d)' => Alive(d)
  BY <1>1, <1>2, DropTakes
<1>4. /\ up' \in OwnStreams /\ Len(up'[c]) <= UpCapacity
      /\ \A d \in Conn \ {c} : up'[d] = up[d]
  BY <1>1, <1>2, UpLeft
<1>5. Streams' /\ Controls'
  BY <1>0, <1>1, <1>3, <1>4 DEF Streams, Controls
<1>6. Rooms'
  BY <1>0, <1>1, <1>4 DEF Rooms
<1>7. Posted' /\ Heard'
  <2>1. MovesOnlyAt(c)
    BY <1>1, <1>4 DEF MovesOnlyAt
  <2> QED
    BY <1>0, <1>3, <2>1, OthersKeep
<1> QED
  BY <1>3, <1>5, <1>6, <1>7 DEF ChatInv

-----------------------------------------------------------------------------
(* Broadcasts.                                                              *)

(* A broadcast posts the units of the client it comes from, and gives the   *)
(* items to everyone who is connected.                                      *)
LEMMA BroadcastReaches ==
  ASSUME ChatInv, unwritten = <<>>, NEW x \in Conn,
         NEW items \in Seq(Seq(UnitOf(x)) \ {<<>>}), Broadcast(items)
  PROVE  /\ log' \in Seq(Entry) /\ unwritten' \in Seq(Order) /\ items \in Seq(Item)
         /\ FlattenSeq(items) \in Item
         /\ \A c : /\ FlatMap(PostOf(c), log')
                        = Cat(FlatMap(PostOf(c), log), IF c = x THEN FlattenSeq(items) ELSE <<>>)
                   /\ FlatMap(HeardOf(c), log')
                        = Cat(FlatMap(HeardOf(c), log), IF c \in Joined THEN items ELSE <<>>)
                   /\ FlatMap(OrderOf(c), unwritten) = <<>>
                   /\ FlatMap(OrderOf(c), unwritten') = IF c \in Joined THEN items ELSE <<>>
<1> DEFINE M == Seq(UnitOf(x)) \ {<<>>}
           more == Mapped(EntryOf(Joined), items)
           orders == FlatMap(RowOf(clients), items)
<1>1. M \subseteq Item
  <2>1. UnitOf(x) \subseteq Unit
    BY DEF UnitOf
  <2>2. \A m \in Seq(UnitOf(x)) : m \in Seq(Unit)
    BY <2>1, SeqMonotonic
  <2> QED
    BY <2>2 DEF Item
<1>2. items \in Seq(Item)
  <2>1. items \in Seq(M)
    OBVIOUS
  <2> HIDE DEF M
  <2> QED
    BY <1>1, <2>1, SeqMonotonic
<1>3. FlattenSeq(items) \in Item
  BY <1>2, FlattenAppend DEF Item
<1>4. /\ log \in Seq(Entry) /\ clients \in Seq(Conn) /\ Joined = ToSet(clients)
      /\ Joined \in SUBSET Conn
      /\ \A i, j \in DOMAIN clients : clients[i] = clients[j] => i = j
  <2>1. clients \in Seq(Conn)
    BY DEF ChatInv, Controls
  <2>2. Joined \in SUBSET Conn
    BY <2>1, LenProperties, ElementOfSeq DEF Joined, ToSet
  <2> QED
    BY <2>1, <2>2 DEF ChatInv, Streams, Lists, Joined
<1>5. log' = Cat(log, more) /\ more \in Seq(Entry)
  <2>1. /\ [k \in DOMAIN items |-> [item |-> items[k], to |-> Joined]] = more
        /\ more \in Seq(Entry)
    BY <1>2, <1>4, EntriesHeard
  <2>2. log' = log \o [k \in DOMAIN items |-> [item |-> items[k], to |-> Joined]]
    BY DEF Broadcast
  <2> HIDE DEF more
  <2> QED
    BY <2>1, <2>2 DEF Cat
<1>6. unwritten' = orders /\ orders \in Seq(Order)
  <2>1. [k \in DOMAIN items |-> [j \in DOMAIN clients |-> <<clients[j], items[k]>>]]
          = Mapped(RowOf(clients), items)
    BY <1>2, <1>4, OrdersAddressed
  <2>2. unwritten' = FlattenSeq([k \in DOMAIN items |->
                         [j \in DOMAIN clients |-> <<clients[j], items[k]>>]])
    BY DEF Broadcast
  <2>3. unwritten' = FlattenSeq(Mapped(RowOf(clients), items))
    BY <2>1, <2>2
  <2>4. orders \in Seq(Order)
    BY <1>2, <1>4, OrdersAddressed
  <2> QED
    BY <2>3, <2>4 DEF FlatMap
<1>7. ASSUME NEW c
      PROVE  FlatMap(PostOf(c), log')
               = Cat(FlatMap(PostOf(c), log), IF c = x THEN FlattenSeq(items) ELSE <<>>)
  <2>1. FlatMap(PostOf(c), more) = IF c = x THEN FlattenSeq(items) ELSE <<>>
    <3>1. items \in Seq(Seq(UnitOf(x)) \ {<<>>}) /\ Joined \in SUBSET Conn
      BY <1>4
    <3> QED
      BY <3>1, EntriesPosted, Zenon
  <2> DEFINE f == PostOf(c)
  <2>2. Into(f, Entry, Seq(Unit))
    BY PartsTyped
  <2> HIDE DEF more, f
  <2>3. FlatMap(f, Cat(log, more)) = Cat(FlatMap(f, log), FlatMap(f, more))
    BY <1>4, <1>5, <2>2, FlatMapCat
  <2> QED
    BY <1>5, <2>1, <2>3 DEF f
<1>8. ASSUME NEW c
      PROVE  FlatMap(HeardOf(c), log')
               = Cat(FlatMap(HeardOf(c), log), IF c \in Joined THEN items ELSE <<>>)
  <2>1. FlatMap(HeardOf(c), more) = IF c \in Joined THEN items ELSE <<>>
    BY <1>2, <1>4, EntriesHeard
  <2> DEFINE f == HeardOf(c)
  <2>2. Into(f, Entry, Seq(Item))
    BY PartsTyped
  <2> HIDE DEF more, f
  <2>3. FlatMap(f, Cat(log, more)) = Cat(FlatMap(f, log), FlatMap(f, more))
    BY <1>4, <1>5, <2>2, FlatMapCat
  <2> QED
    BY <1>5, <2>1, <2>3 DEF f
<1>9. ASSUME NEW c
      PROVE  /\ FlatMap(OrderOf(c), unwritten) = <<>>
             /\ FlatMap(OrderOf(c), unwritten') = IF c \in Joined THEN items ELSE <<>>
  <2>1. FlatMap(OrderOf(c), <<>>) = <<>>
    BY PartsTyped, FlatMapFew
  <2>2. FlatMap(OrderOf(c), orders) = IF c \in ToSet(clients) THEN items ELSE <<>>
    BY <1>2, <1>4, OrdersAddressed
  <2> HIDE DEF orders
  <2> QED
    BY <1>4, <1>6, <2>1, <2>2
<1>10. log' \in Seq(Entry)
  <2> HIDE DEF more
  <2> QED
    BY <1>4, <1>5, CatType
<1> QED
  BY <1>2, <1>3, <1>6, <1>7, <1>8, <1>9, <1>10

(* The server broadcasts units of one client, and keeps and leaves the      *)
(* others: nothing is lost between them, and all hear the same.             *)
LEMMA BroadcastKeeps ==
  ASSUME ChatInv, unwritten = <<>>, NEW x \in Conn,
         NEW items \in Seq(Seq(UnitOf(x)) \ {<<>>}), Broadcast(items),
         UNCHANGED <<typed, keyboard, place, stdio, shown, down, clients, backlog>>,
         buf' \in OwnStreams, Len(buf'[x]) < BufUnits,
         \A d \in Conn \ {x} : buf'[d] = buf[d],
         up' \in OwnStreams, Len(up'[x]) <= UpCapacity,
         \A d \in Conn \ {x} : up'[d] = up[d],
         Cat(Cat(FlattenSeq(items), buf'[x]), up'[x]) = Cat(buf[x], up[x])
  PROVE  Streams' /\ Rooms' /\ Posted' /\ Heard'
<1>0. Streams /\ Rooms /\ Posted /\ Heard
  BY DEF ChatInv
<1>1. /\ log' \in Seq(Entry) /\ unwritten' \in Seq(Order) /\ items \in Seq(Item)
      /\ FlattenSeq(items) \in Item
      /\ \A c : /\ FlatMap(PostOf(c), log')
                     = Cat(FlatMap(PostOf(c), log), IF c = x THEN FlattenSeq(items) ELSE <<>>)
                /\ FlatMap(HeardOf(c), log')
                     = Cat(FlatMap(HeardOf(c), log), IF c \in Joined THEN items ELSE <<>>)
                /\ FlatMap(OrderOf(c), unwritten) = <<>>
                /\ FlatMap(OrderOf(c), unwritten') = IF c \in Joined THEN items ELSE <<>>
  BY BroadcastReaches
<1>2. Streams'
  BY <1>0, <1>1 DEF Streams
<1>3. Rooms'
  BY <1>0 DEF Rooms
<1>4. ASSUME NEW d \in Conn PROVE Alive(d)' => Alive(d)
  BY DEF Alive, ClosedByServer, Joined, Waiting
<1>5. Posted'
  <2> SUFFICES ASSUME NEW d \in Conn, Alive(d)' PROVE Way(d)' = typed'[d]
    BY DEF Posted
  <2> DEFINE p == FlatMap(PostOf(d), log)
             F == FlattenSeq(items)
             s == stdio[d]
             k == keyboard[d]
             b == buf[d]
             u == up[d]
             b1 == buf'[d]
             u1 == up'[d]
  <2>1. Cat(Cat(Cat(Cat(p, b), u), s), k) = typed[d]
    BY <1>0, <1>4 DEF Posted, Way
  <2>2. /\ p \in Item /\ b \in Item /\ u \in Item /\ s \in Item /\ k \in Item
        /\ b1 \in Item /\ u1 \in Item /\ F \in Item
    BY <1>0, <1>1, StreamsHave, OwnHas
  <2>3. FlatMap(PostOf(d), log') = Cat(p, IF d = x THEN F ELSE <<>>)
    BY <1>1
  <2>4. Way(d)' = Cat(Cat(Cat(Cat(FlatMap(PostOf(d), log'), b1), u1), s), k)
    BY DEF Way
  <2>5. CASE d = x
    <3>1. Cat(Cat(F, b1), u1) = Cat(b, u)
      BY <2>5
    <3> HIDE DEF p, F, s, k, b, u, b1, u1
    <3>2. Cat(Cat(Cat(p, F), b1), u1) = Cat(p, Cat(Cat(F, b1), u1))
      BY <2>2, CatChain DEF Item
    <3>3. Cat(Cat(p, b), u) = Cat(p, Cat(b, u))
      BY <2>2, CatRegroup DEF Item
    <3> QED
      BY <2>1, <2>3, <2>4, <2>5, <3>1, <3>2, <3>3
  <2>6. CASE d # x
    <3>1. b1 = b /\ u1 = u
      BY <2>6
    <3> HIDE DEF p, F, s, k, b, u, b1, u1
    <3>2. Cat(p, <<>>) = p
      BY <2>2, CatEmpty DEF Item
    <3> QED
      BY <2>1, <2>3, <2>4, <2>6, <3>1, <3>2
  <2> QED
    BY <2>5, <2>6
<1>6. Heard'
  <2> SUFFICES ASSUME NEW d \in Client, Alive(d)'
               PROVE  Screen(d)' = FlatMap(HeardOf(d), log')
    BY DEF Heard
  <2> DEFINE s == Cat(shown[d], down[d])
             h == FlatMap(HeardOf(d), log)
             i == IF d \in Joined THEN items ELSE <<>>
  <2>1. Cat(s, <<>>) = h
    <3>1. d \in Conn
      BY Constants
    <3>2. Screen(d) = h
      BY <1>0, <1>4, <3>1 DEF Heard
    <3> QED
      BY <1>1, <3>2 DEF Screen
  <2>2. s \in Seq(Item)
    <3>1. shown[d] \in Seq(Item) /\ down[d] \in Seq(Item)
      BY <1>0, Constants, StreamsHave
    <3> QED
      BY <3>1, CatType
  <2>3. Screen(d)' = Cat(s, i)
    BY <1>1 DEF Screen
  <2>4. FlatMap(HeardOf(d), log') = Cat(h, i)
    BY <1>1
  <2> HIDE DEF s, h, i
  <2>5. Cat(s, <<>>) = s
    BY <2>2, CatEmpty
  <2> QED
    BY <2>1, <2>3, <2>4, <2>5
<1> QED
  BY <1>2, <1>3, <1>5, <1>6

(* No newline has come: what there is is broadcast as it is.                *)
LEMMA ChunkKeeps ==
  ASSUME ChatInv, At("scan"), NEW x \in Conn, x = curr,
         NEW b \in Seq(UnitOf(x)) \ {<<>>}, Chunk(b),
         UNCHANGED <<typed, keyboard, eof, place, stdio, shown, down>>,
         up' \in OwnStreams, Len(up'[x]) <= UpCapacity,
         \A d \in Conn \ {x} : up'[d] = up[d],
         Cat(b, up'[x]) = Cat(buf[x], up[x])
  PROVE  ChatInv'
<1>1. /\ Broadcast(<<b>>) /\ buf' = Put(buf, x, <<>>) /\ unwritten = <<>>
      /\ UNCHANGED <<phase, curr, backlog, clients, listen_fds>>
  BY DEF Chunk, Put, At
<1> DEFINE items == One(b)
           M == Seq(UnitOf(x)) \ {<<>>}
<1>2. items \in Seq(Seq(UnitOf(x)) \ {<<>>}) /\ Broadcast(items)
  <2>1. b \in M
    OBVIOUS
  <2> HIDE DEF M
  <2>2. One(b) \in Seq(M)
    BY <2>1, OneType
  <2> QED
    BY <1>1, <2>2 DEF M, One
<1>3. /\ buf' \in OwnStreams /\ buf'[x] = <<>> /\ Len(buf'[x]) < BufUnits
      /\ \A d \in Conn \ {x} : buf'[d] = buf[d]
  <2> DEFINE e == <<>>
  <2>1. buf \in OwnStreams /\ e \in Seq(UnitOf(x)) /\ buf' = Put(buf, x, e)
    BY <1>1, EmptySeq DEF ChatInv, Streams
  <2> HIDE DEF e
  <2>2. buf' \in OwnStreams /\ buf'[x] = e /\ \A d \in Conn \ {x} : buf'[d] = buf[d]
    BY <2>1, OwnStep
  <2>3. Len(e) = 0
    BY EmptySeq DEF e
  <2>4. Len(buf'[x]) < BufUnits
    BY <2>2, <2>3, Constants
  <2> QED
    BY <2>2, <2>4 DEF e
<1>4. Cat(Cat(FlattenSeq(items), buf'[x]), up'[x]) = Cat(buf[x], up[x])
  <2>1. FlattenSeq(items) = b
    BY FlattenFew
  <2>2. Cat(b, <<>>) = b
    BY CatEmpty
  <2> HIDE DEF items
  <2> QED
    BY <1>3, <2>1, <2>2
<1> HIDE DEF items
<1>5. Streams' /\ Rooms' /\ Posted' /\ Heard'
  BY <1>1, <1>2, <1>3, <1>4, BroadcastKeeps
<1>6. Controls' /\ Lists'
  BY <1>1 DEF ChatInv, Controls, Lists, Joined, Waiting
<1> QED
  BY <1>5, <1>6 DEF ChatInv

(* So it is when read has returned units without a newline.                 *)
LEMMA ReadChunkKeeps ==
  ASSUME ChatInv, NEW b, b \in {Filled(curr) : y \in {curr} \ {NULL}}, ReadChunk(b)
  PROVE  ChatInv'
<1>1. /\ At("scan") /\ up[curr] # <<>> /\ b = Filled(curr) /\ Chunk(b)
      /\ up' = Put(up, curr, Left(curr))
      /\ UNCHANGED <<typed, keyboard, eof, place, stdio, shown, down>>
  BY DEF ReadChunk, Read, user, local, Put, Left
<1>2. PICK x \in Conn : x = curr
  BY <1>1, CurrIsThere DEF ChatInv, At
<1>3. /\ b \in Seq(UnitOf(x)) \ {<<>>} /\ Cat(b, Left(x)) = Cat(buf[x], up[x])
  BY <1>1, <1>2, ReadTakes
<1>4. /\ up' \in OwnStreams /\ up'[x] = Left(x) /\ Len(up'[x]) <= UpCapacity
      /\ \A d \in Conn \ {x} : up'[d] = up[d]
  BY <1>1, <1>2, UpLeft
<1> QED
  BY <1>1, <1>2, <1>3, <1>4, ChunkKeeps

(* And when the client has closed and buf still holds something.            *)
LEMMA ReadEndChunkKeeps == ASSUME ChatInv, ReadEndChunk PROVE ChatInv'
<1>1. /\ At("scan") /\ up[curr] = <<>> /\ buf[curr] # <<>> /\ Chunk(buf[curr])
      /\ UNCHANGED <<typed, keyboard, eof, place, stdio, shown, up, down>>
  BY DEF ReadEndChunk, user, local
<1>2. PICK x \in Conn : x = curr
  BY <1>1, CurrIsThere DEF ChatInv, At
<1>3. buf[x] \in Seq(UnitOf(x)) \ {<<>>}
  BY <1>1, <1>2, StreamsHave DEF ChatInv
<1>4. /\ up' \in OwnStreams /\ up'[x] = up[x] /\ Len(up'[x]) <= UpCapacity
      /\ \A d \in Conn \ {x} : up'[d] = up[d]
  BY <1>1 DEF ChatInv, Streams, Rooms
<1> QED
  BY <1>1, <1>2, <1>3, <1>4, ChunkKeeps

(* The messages in buf are broadcast, and the rest is kept.                 *)
LEMMA ReadLinesKeeps ==
  ASSUME ChatInv, NEW b, b \in {Filled(curr) : y \in {curr} \ {NULL}}, ReadLines(b)
  PROVE  ChatInv'
<1>1. /\ At("scan") /\ unwritten = <<>> /\ up[curr] # <<>> /\ b = Filled(curr)
      /\ ~Overflows(b) /\ Broadcast(Messages(b)) /\ Advance
      /\ up' = Put(up, curr, Left(curr)) /\ buf' = Put(buf, curr, RestOf(b))
      /\ UNCHANGED <<typed, keyboard, eof, place, stdio, shown, down, clients, backlog>>
  BY DEF ReadLines, Read, At, user, local, Put, Left
<1>2. PICK x \in Conn : x = curr
  BY <1>1, CurrIsThere DEF ChatInv, At
<1>3. /\ b \in Seq(UnitOf(x)) /\ Cat(b, Left(x)) = Cat(buf[x], up[x]) /\ Len(b) <= BufUnits
      /\ Left(x) \in Seq(UnitOf(x))
  BY <1>1, <1>2, ReadTakes
<1>4. /\ up' \in OwnStreams /\ up'[x] = Left(x) /\ Len(up'[x]) <= UpCapacity
      /\ \A d \in Conn \ {x} : up'[d] = up[d]
  BY <1>1, <1>2, UpLeft
<1> DEFINE items == Messages(b)
           rest == RestOf(b)
<1>5. /\ items \in Seq(Seq(UnitOf(x)) \ {<<>>}) /\ rest \in Seq(UnitOf(x))
      /\ Len(rest) <= Len(b) /\ Cat(FlattenSeq(items), rest) = b
  BY <1>3, MessagesAreAll
<1>6. buf \in OwnStreams /\ buf' = Put(buf, x, rest) /\ Broadcast(items)
  BY <1>1, <1>2 DEF ChatInv, Streams
<1> HIDE DEF items, rest
<1>7. /\ buf' \in OwnStreams /\ buf'[x] = rest /\ \A d \in Conn \ {x} : buf'[d] = buf[d]
  BY <1>5, <1>6, OwnStep
<1>8. Len(buf'[x]) < BufUnits
  <2>1. Len(b) \in Nat /\ Len(rest) \in Nat
    BY <1>3, <1>5, LenProperties
  <2>2. Len(b) < BufUnits
    BY <1>1, <2>1, Constants DEF Overflows
  <2> QED
    BY <1>5, <1>7, <2>1, <2>2, Constants
<1>9. Cat(Cat(FlattenSeq(items), buf'[x]), up'[x]) = Cat(buf[x], up[x])
  BY <1>3, <1>4, <1>5, <1>7
<1>10. Streams' /\ Rooms' /\ Posted' /\ Heard'
  BY <1>1, <1>4, <1>5, <1>6, <1>7, <1>8, <1>9, BroadcastKeeps
<1>11. Controls' /\ Lists'
  <2>1. /\ curr' \in Joined' \cup {NULL} /\ (phase' = "select" <=> curr' = NULL)
        /\ phase' \in {"select", "scan"} /\ listen_fds' \in SUBSET Conn
    BY <1>1, <1>2, Constants, AdvanceStays
  <2> QED
    BY <1>1, <2>1 DEF ChatInv, Controls, Lists, Joined, Waiting
<1> QED
  BY <1>10, <1>11 DEF ChatInv

(* One write of a broadcast is made: the item goes behind what is on its    *)
(* way to that client, and to no other.                                     *)
LEMMA WriteKeeps == ASSUME ChatInv, Write PROVE ChatInv'
<1>0. Streams /\ Controls /\ Rooms /\ Lists /\ Posted /\ Heard
  BY DEF ChatInv
<1> DEFINE w == unwritten
           rest == Tail(unwritten)
<1>1. /\ unwritten # <<>> /\ HasRoom(unwritten[1][1])
      /\ down' = [down EXCEPT ![unwritten[1][1]] =
                     Delivered(unwritten[1][1], unwritten[1][2])]
      /\ unwritten' = rest
      /\ UNCHANGED <<typed, keyboard, eof, place, stdio, shown, up, phase, backlog, clients,
                     curr, listen_fds, buf, log>>
  BY DEF Write, user, local
<1>2. /\ unwritten \in Seq(Order) /\ unwritten[1] \in Order /\ rest \in Seq(Order)
      /\ \A c : FlatMap(OrderOf(c), unwritten)
                  = Cat(IF unwritten[1][1] = c THEN One(unwritten[1][2]) ELSE <<>>,
                        FlatMap(OrderOf(c), rest))
  <2>1. unwritten \in Seq(Order)
    BY <1>0 DEF Streams
  <2>2. w \in Seq(Order) /\ w # <<>>
    BY <1>1, <2>1
  <2> HIDE DEF w
  <2>3. /\ w[1] \in Order /\ Tail(w) \in Seq(Order)
        /\ \A c : FlatMap(OrderOf(c), w)
                    = Cat(IF w[1][1] = c THEN One(w[1][2]) ELSE <<>>, FlatMap(OrderOf(c), Tail(w)))
    BY <2>2, OrderTaken
  <2> QED
    BY <2>1, <2>3 DEF w
<1> HIDE DEF rest
<1>3. PICK x \in Conn, i \in Item : x = unwritten[1][1] /\ i = unwritten[1][2]
  BY <1>2 DEF Order
<1>4. One(i) \in Seq(Item) /\ down[x] \in Seq(Item) /\ Len(down[x]) \in Nat
  BY <1>0, OneType, StreamsHave, LenProperties
<1>5. /\ Cat(down[x], One(i)) \in Seq(Item) /\ Append(down[x], i) = Cat(down[x], One(i))
      /\ Len(Cat(down[x], One(i))) = Len(down[x]) + 1
  <2> DEFINE o == One(i)
             v == down[x]
  <2>1. o \in Seq(Item) /\ v \in Seq(Item) /\ Len(o) = 1
    BY <1>4, OneType
  <2>2. Append(v, i) = Cat(v, o)
    BY <2>1, OneType
  <2> HIDE DEF o, v
  <2>3. Cat(v, o) \in Seq(Item) /\ Len(Cat(v, o)) = Len(v) + Len(o)
    BY <2>1, CatType
  <2> QED
    BY <2>1, <2>2, <2>3 DEF o, v
<1>6. \/ Delivered(x, i) = down[x]
      \/ Len(down[x]) # DownCapacity /\ Delivered(x, i) = Cat(down[x], One(i))
  BY <1>5 DEF Delivered
<1>7. place[x] # "done" => Delivered(x, i) = Cat(down[x], One(i))
  <2> SUFFICES ASSUME place[x] # "done" PROVE Delivered(x, i) = Cat(down[x], One(i))
    OBVIOUS
  <2>1. Len(down[x]) < DownCapacity /\ ~Closed(x)
    BY <1>1, <1>3 DEF HasRoom, Closed
  <2>2. Len(down[x]) # DownCapacity
    BY <1>4, <2>1, Constants
  <2> QED
    BY <1>5, <2>1, <2>2 DEF Delivered
<1>8. Delivered(x, i) \in Seq(Item) /\ Len(Delivered(x, i)) <= DownCapacity
  <2>1. CASE Delivered(x, i) = down[x]
    BY <1>0, <1>4, <2>1 DEF Rooms
  <2>2. CASE Len(down[x]) # DownCapacity /\ Delivered(x, i) = Cat(down[x], One(i))
    <3>1. Len(down[x]) <= DownCapacity
      BY <1>0 DEF Rooms
    <3> QED
      BY <1>4, <1>5, <2>2, <3>1, Constants
  <2> QED
    BY <1>6, <2>1, <2>2
<1>9. /\ down' \in [Conn -> Seq(Item)] /\ down'[x] = Delivered(x, i)
      /\ \A d \in Conn \ {x} : down'[d] = down[d]
  <2>1. down' = [down EXCEPT ![x] = Delivered(x, i)]
    BY <1>1, <1>3
  <2>2. down \in [Conn -> Seq(Item)]
    BY <1>0 DEF Streams
  <2> QED
    BY <1>8, <2>1, <2>2
<1>10. Streams'
  BY <1>0, <1>1, <1>2, <1>9 DEF Streams
<1>11. Controls' /\ Lists'
  BY <1>0, <1>1 DEF Controls, Lists, Joined, Waiting
<1>12. Rooms'
  <2> SUFFICES ASSUME NEW d \in Conn
               PROVE  Len(up[d]) <= UpCapacity /\ Len(down'[d]) <= DownCapacity
                        /\ Len(buf[d]) < BufUnits
    BY <1>1 DEF Rooms
  <2>1. Len(down'[d]) <= DownCapacity
    BY <1>0, <1>8, <1>9 DEF Rooms
  <2> QED
    BY <1>0, <2>1 DEF Rooms
<1>13. \A d \in Conn : Alive(d)' => Alive(d)
  BY <1>1 DEF Alive, ClosedByServer, Joined, Waiting
<1>14. Posted'
  BY <1>0, <1>1, <1>13 DEF Posted, Way
<1>15. Heard'
  <2> SUFFICES ASSUME NEW d \in Client, Alive(d)'
               PROVE  Screen(d)' = FlatMap(HeardOf(d), log')
    BY DEF Heard
  <2> DEFINE s == shown[d]
             v == down[d]
             r == FlatMap(OrderOf(d), rest)
             o == One(i)
             h == FlatMap(HeardOf(d), log)
  <2>1. d \in Conn /\ Alive(d) /\ place[d] # "done"
    <3>1. d \in Conn
      BY Constants
    <3>2. Alive(d)
      BY <1>13, <3>1
    <3> QED
      BY <3>1, <3>2 DEF Alive
  <2>2. /\ s \in Seq(Item) /\ v \in Seq(Item) /\ r \in Seq(Item) /\ o \in Seq(Item)
        /\ Cat(s, v) \in Seq(Item)
    <3>1. s \in Seq(Item) /\ v \in Seq(Item)
      BY <1>0, <2>1, StreamsHave
    <3>2. r \in Seq(Item)
      BY <1>2, PartsTyped, FlatMapCat
    <3> HIDE DEF s, v
    <3> QED
      BY <1>4, <3>1, <3>2, CatType
  <2>3. Screen(d) = h /\ Screen(d) = Cat(Cat(s, v), FlatMap(OrderOf(d), unwritten))
    BY <1>0, <2>1 DEF Heard, Screen
  <2>4. Screen(d)' = Cat(Cat(s, down'[d]), r)
    BY <1>1 DEF Screen
  <2>5. CASE d = x
    <3>1. FlatMap(OrderOf(d), unwritten) = Cat(o, r)
      BY <1>2, <1>3, <2>5
    <3>2. down'[d] = Cat(v, o)
      BY <1>7, <1>9, <2>1, <2>5
    <3> HIDE DEF s, v, r, o, h
    <3>3. Cat(Cat(s, v), Cat(o, r)) = Cat(s, Cat(Cat(v, o), r))
      BY <2>2, CatFour
    <3>4. Cat(Cat(s, Cat(v, o)), r) = Cat(s, Cat(Cat(v, o), r))
      <4> DEFINE m == Cat(v, o)
      <4>1. m \in Seq(Item)
        BY <2>2, CatType
      <4> HIDE DEF m
      <4>2. Cat(Cat(s, m), r) = Cat(s, Cat(m, r))
        BY <2>2, <4>1, CatRegroup
      <4> QED
        BY <4>2 DEF m
    <3>5. Screen(d)' = h
      BY <2>3, <2>4, <3>1, <3>2, <3>3, <3>4
    <3> QED
      BY <1>1, <3>5 DEF h
  <2>6. CASE d # x
    <3>1. FlatMap(OrderOf(d), unwritten) = Cat(<<>>, r)
      BY <1>2, <1>3, <2>6
    <3>2. down'[d] = v
      BY <1>9, <2>1, <2>6
    <3> HIDE DEF s, v, r, o, h
    <3>3. Cat(<<>>, r) = r
      BY <2>2, CatEmpty
    <3>4. Screen(d)' = h
      BY <2>3, <2>4, <3>1, <3>2, <3>3
    <3> QED
      BY <1>1, <3>4 DEF h
  <2> QED
    BY <2>5, <2>6
<1> QED
  BY <1>10, <1>11, <1>12, <1>14, <1>15 DEF ChatInv

-----------------------------------------------------------------------------
(* The theorems.                                                            *)

(* Every step keeps the invariant.                                          *)
LEMMA StepKeeps == ChatInv /\ [Next]_vars => ChatInv'
<1> SUFFICES ASSUME ChatInv, [Next]_vars PROVE ChatInv'
  OBVIOUS
<1>1. ASSUME UserStep PROVE ChatInv'
  BY <1>1, EndInputKeeps, TypeKeeps, SendLineKeeps DEF UserStep
<1>2. ASSUME ServerStep PROVE ChatInv'
  <2>1. \/ Select \/ Skip \/ ReadEndChunk \/ ReadEnd \/ Write
        \/ \E b \in {Filled(curr) : y \in {curr} \ {NULL}} :
              ReadOverflow(b) \/ ReadLines(b) \/ ReadChunk(b)
    BY <1>2 DEF ServerStep
  <2>2. CASE Select
    BY <2>2, SelectKeeps
  <2>3. CASE Skip
    BY <2>3, SkipKeeps
  <2>4. CASE ReadEndChunk
    BY <2>4, ReadEndChunkKeeps
  <2>5. CASE ReadEnd
    BY <2>5, ReadEndKeeps
  <2>6. CASE Write
    BY <2>6, WriteKeeps
  <2>7. ASSUME NEW b \in {Filled(curr) : y \in {curr} \ {NULL}},
               ReadOverflow(b) \/ ReadLines(b) \/ ReadChunk(b)
        PROVE  ChatInv'
    BY <2>7, ReadOverflowKeeps, ReadLinesKeeps, ReadChunkKeeps
  <2> QED
    BY <2>1, <2>2, <2>3, <2>4, <2>5, <2>6, <2>7
<1>3. ASSUME NEW c \in Conn, ClientStep(c) PROVE ChatInv'
  BY <1>3, PlaceKeeps, SendUnitKeeps, LeavingKeeps, ReceiveKeeps DEF ClientStep
<1>4. ASSUME UNCHANGED vars PROVE ChatInv'
  <2>1. UNCHANGED <<typed, keyboard, eof, place, stdio, shown, up, down, phase, backlog,
                    clients, curr, listen_fds, buf, unwritten, log>>
    BY <1>4 DEF vars, user, local, server
  <2>2. PlacesGoOn
    BY <2>1 DEF PlacesGoOn
  <2>3. Streams' /\ Rooms' /\ Posted' /\ Heard'
    BY <2>1, <2>2, AliveBefore, NothingMoves
  <2>4. Controls' /\ Lists'
    BY <2>1, <2>2, ListsKept DEF ChatInv, Controls
  <2> QED
    BY <2>3, <2>4 DEF ChatInv
<1> QED
  BY <1>1, <1>2, <1>3, <1>4 DEF Next

(* It is an invariant.                                                      *)
THEOREM ChatInvariant == Spec => []ChatInv
<1>1. Init => ChatInv
  BY InitInv
<1>2. ChatInv /\ [Next]_vars => ChatInv'
  BY StepKeeps
<1> QED
  BY <1>1, <1>2, PTL DEF Spec

(* The variables keep their types: no connection ever holds more than it    *)
(* can, buf is never full between two reads, and the scan of start_server   *)
(* is never at a client that remove_client has freed.                       *)
THEOREM ChatTypeCorrect == Spec => []TypeOK
<1>1. ChatInv => TypeOK
  BY InvGivesProperties
<1> QED
  BY <1>1, ChatInvariant, PTL

(* Nothing that a client sends is lost, doubled or reordered on its way     *)
(* through stdio, the connection and the server's buf to the broadcasts,    *)
(* until the client ends or the server drops it.                            *)
THEOREM TypedArePosted == Spec => []TypedIsPosted
<1>1. ChatInv => TypedIsPosted
  BY InvGivesProperties
<1> QED
  BY <1>1, ChatInvariant, PTL

(* Every client that runs is shown the broadcasts since it joined, all of   *)
(* them and in the server's order, whatever write is blocked meanwhile.     *)
THEOREM ConversationIsShared == Spec => []SameConversation
<1>1. ChatInv => SameConversation
  BY InvGivesProperties
<1> QED
  BY <1>1, ChatInvariant, PTL
=============================================================================
