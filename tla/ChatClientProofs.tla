-------------------------- MODULE ChatClientProofs --------------------------
(* Theorems about ChatClient, for every number and length of lines, every   *)
(* size of the two buffers, and however stdio and the reads cut the streams.*)
EXTENDS ChatClient, SequenceLemmas

-----------------------------------------------------------------------------
(* Facts about the operators.                                               *)

(* Where the first unit of a kind is, 0 when there is none.                 *)
IsFirst(k, s, part) ==
    /\ k \in 0..Len(s)
    /\ k # 0 => s[k].part = part /\ \A i \in 1..(k - 1) : s[i].part # part
    /\ k = 0 => \A i \in 1..Len(s) : s[i].part # part

NewlineAt(s) == SelectInSeq(s, LAMBDA u : u.part = "lf")

(* SelectInSeq finds the first newline, NUL or CR LF.                       *)
LEMMA FirstFound ==
  ASSUME NEW s, Len(s) \in Nat
  PROVE  /\ IsFirst(NewlineAt(s), s, "lf") /\ StrLen(s) \in 0..Len(s)
         /\ \/ IsFirst(StrLen(s) + 1, s, "nul")
            \/ StrLen(s) = Len(s) /\ \A i \in 1..Len(s) : s[i].part # "nul"
<1> DEFINE at(part) == {i \in 1..Len(s) : s[i].part = part}
           first(part) == IF at(part) # {} THEN Min(at(part)) ELSE 0
<1>1. ASSUME NEW part PROVE IsFirst(first(part), s, part)
  <2>1. at(part) \in SUBSET Nat
    OBVIOUS
  <2>2. at(part) # {} => /\ Min(at(part)) \in at(part)
                         /\ \A i \in at(part) : Min(at(part)) <= i
    BY <2>1, MinIsLeast
  <2>3. CASE at(part) # {}
    <3>1. first(part) = Min(at(part))
      BY <2>3
    <3>2. first(part) \in 1..Len(s) /\ s[first(part)].part = part
      BY <2>2, <2>3, <3>1
    <3>3. \A i \in 1..(first(part) - 1) : s[i].part # part
      <4> SUFFICES ASSUME NEW i \in 1..(first(part) - 1), s[i].part = part
                   PROVE  FALSE
        OBVIOUS
      <4>1. i \in at(part) /\ ~(first(part) <= i)
        BY <3>2
      <4> QED
        BY <2>2, <2>3, <3>1, <4>1
    <3> QED
      BY <3>2, <3>3 DEF IsFirst
  <2>4. CASE at(part) = {}
    BY <2>4 DEF IsFirst
  <2> QED
    BY <2>3, <2>4
<1>2. NewlineAt(s) = first("lf")
  BY DEF NewlineAt, SelectInSeq
<1>3. StrLen(s) = IF first("nul") = 0 THEN Len(s) ELSE first("nul") - 1
  BY DEF StrLen, SelectInSeq
<1> HIDE DEF first
<1>4. IsFirst(first("lf"), s, "lf") /\ IsFirst(first("nul"), s, "nul")
  BY <1>1
<1>5. IsFirst(NewlineAt(s), s, "lf")
  BY <1>2, <1>4, Zenon
<1>6. CASE first("nul") = 0
  BY <1>3, <1>4, <1>5, <1>6 DEF IsFirst
<1>7. CASE first("nul") # 0
  <2>1. StrLen(s) + 1 = first("nul")
    BY <1>3, <1>4, <1>7 DEF IsFirst
  <2>2. IsFirst(StrLen(s) + 1, s, "nul")
    BY <1>4, <2>1, Zenon
  <2>3. StrLen(s) \in 0..Len(s)
    BY <1>3, <1>4, <1>7 DEF IsFirst
  <2> QED
    BY <1>5, <2>2, <2>3
<1> QED
  BY <1>6, <1>7

(* What the operators of ChatClient say in these terms.                     *)
LEMMA PieceTerms ==
  /\ HasPiece <=> NewlineAt(stdio) # 0 \/ Len(stdio) >= UserUnits \/ stdio_ended
  /\ PieceLen = LET len == IF NewlineAt(stdio) = 0 THEN Len(stdio)
                           ELSE NewlineAt(stdio)
                IN  IF len > UserUnits THEN UserUnits ELSE len
  /\ FillStdio => \E k \in {Len(input), NewlineAt(input)} :
                    /\ stdio' = stdio \o SubSeq(input, 1, k)
                    /\ input' = SubSeq(input, k + 1, Len(input))
                    /\ stdio_ended' = (k = 0)
  BY DEF HasPiece, PieceLen, FillStdio, NewlineAt

-----------------------------------------------------------------------------
(* From the server to the screen.                                           *)

(* The i-th unit of what the server sends, and how many it has sent.        *)
SentUnit(i) == UnitOf((i + 1) \div 2, IF i % 2 = 1 THEN "text" ELSE "crlf")
SentUnits == 2 * server_sent - IF server_rest THEN 1 ELSE 0

(* The first m units of the stream.                                         *)
Stream(m) == [i \in 1..m |-> SentUnit(i)]

(* Line n + 1 is the units 2n + 1 and 2n + 2.                               *)
LEMMA LineUnitsSent ==
  ASSUME NEW n \in Nat
  PROVE  /\ SentUnit(2 * n + 1) = UnitOf(n + 1, "text")
         /\ SentUnit(2 * n + 2) = UnitOf(n + 1, "crlf")
<1>1. (2 * n + 1) % 2 = 1 /\ (2 * n + 2) % 2 = 0
  OBVIOUS
<1>2. ((2 * n + 1) + 1) \div 2 = n + 1 /\ ((2 * n + 2) + 1) \div 2 = n + 1
  OBVIOUS
<1> QED
  BY <1>1, <1>2 DEF SentUnit

(* The units of the stream; a sequence of these units is the stream.        *)
LEMMA StreamUnits ==
  ASSUME NEW m \in Nat, NEW s \in Seq(Unit)
  PROVE  s = Stream(m) <=> Len(s) = m /\ \A j \in 1..m : s[j] = SentUnit(j)
<1>0. Len(s) \in Nat
  BY LenProperties
<1>1. s \in [1..Len(s) -> Unit] /\ DOMAIN s = 1..Len(s)
  BY LenProperties
<1>2. ASSUME s = Stream(m)
      PROVE  Len(s) = m /\ \A j \in 1..m : s[j] = SentUnit(j)
  <2>1. DOMAIN s = 1..m /\ \A j \in 1..m : s[j] = SentUnit(j)
    BY <1>2 DEF Stream
  <2>2. Len(s) = m
    <3>1. 1..m = 1..Len(s)
      BY <1>1, <2>1, Zenon
    <3> QED
      BY ONLY <1>0, <3>1, m \in Nat
  <2> QED
    BY <2>1, <2>2, Zenon
<1>3. ASSUME Len(s) = m, \A j \in 1..m : s[j] = SentUnit(j)
      PROVE  s = Stream(m)
  <2>1. s = [j \in 1..m |-> s[j]]
    BY <1>0, <1>1, <1>3
  <2> HIDE DEF SentUnit
  <2> QED
    BY <1>3, <2>1 DEF Stream
<1> QED
  BY <1>2, <1>3

(* The stream goes on.                                                      *)
LEMMA StreamGoesOn ==
  ASSUME NEW m \in Nat, NEW s \in Seq(Unit), NEW t \in Seq(Unit), s = Stream(m),
         \A j \in 1..Len(t) : t[j] = SentUnit(m + j)
  PROVE  Cat(s, t) = Stream(m + Len(t))
<1>1. Len(s) = m /\ \A j \in 1..m : s[j] = SentUnit(j)
  BY StreamUnits
<1>2. Len(t) \in Nat
  BY LenProperties
<1>3. /\ Cat(s, t) \in Seq(Unit) /\ Len(Cat(s, t)) = Len(s) + Len(t)
      /\ \A i \in 1..(Len(s) + Len(t)) :
           Cat(s, t)[i] = IF i <= Len(s) THEN s[i] ELSE t[i - Len(s)]
  BY CatType
<1>4. ASSUME NEW i \in 1..(m + Len(t)) PROVE Cat(s, t)[i] = SentUnit(i)
  <2>1. CASE i <= m
    <3>1. i \in 1..m
      BY <1>2, <2>1
    <3> QED
      BY <1>1, <1>3, <2>1, <3>1
  <2>2. CASE ~(i <= m)
    <3>1. i - m \in 1..Len(t) /\ m + (i - m) = i
      BY <1>2, <2>2
    <3>2. Cat(s, t)[i] = t[i - m]
      BY <1>1, <1>3, <2>2
    <3> QED
      BY <3>1, <3>2
  <2> QED
    BY <2>1, <2>2
<1>5. m + Len(t) \in Nat
  BY <1>2
<1>6. Len(Cat(s, t)) = m + Len(t)
  BY <1>1, <1>3
<1>7. Cat(s, t) = Stream(m + Len(t))
     <=> Len(Cat(s, t)) = m + Len(t) /\ \A j \in 1..(m + Len(t)) : Cat(s, t)[j] = SentUnit(j)
  BY <1>3, <1>5, StreamUnits
<1> QED
  BY <1>4, <1>6, <1>7, Zenon

(* What is displayed is whole lines of the server, and with what is in buf  *)
(* and on the way it is all that was sent.                                  *)
Flow ==
    /\ \A i \in 1..Len(shown) : shown[i] = <<UnitOf(i, "text"), UnitOf(i, "crlf")>>
    /\ Len(FlattenSeq(shown)) = 2 * Len(shown)
    /\ Cat(FlattenSeq(shown), Cat(buf, net)) = Stream(SentUnits)

DownInv ==
    /\ server_sent \in 0..MaxSent /\ server_rest \in BOOLEAN
    /\ server_rest => server_sent > 0
    /\ net \in Seq(Unit) /\ buf \in Seq(Unit) /\ Len(buf) < BufUnits
    /\ shown \in Seq(Seq(Unit))
    /\ Flow

(* The sequences of the invariant, and how long they are.                   *)
LEMMA DownTypes ==
  ASSUME DownInv
  PROVE  /\ net \in Seq(Unit) /\ buf \in Seq(Unit) /\ shown \in Seq(Seq(Unit))
         /\ FlattenSeq(shown) \in Seq(Unit) /\ Cat(buf, net) \in Seq(Unit)
         /\ Cat(FlattenSeq(shown), Cat(buf, net)) \in Seq(Unit)
         /\ Len(net) \in Nat /\ Len(buf) \in Nat /\ Len(shown) \in Nat
         /\ SentUnits \in Nat
<1>1. net \in Seq(Unit) /\ buf \in Seq(Unit) /\ shown \in Seq(Seq(Unit))
  BY DEF DownInv
<1>2. FlattenSeq(shown) \in Seq(Unit) /\ Cat(buf, net) \in Seq(Unit)
  BY <1>1, CatFlatten, CatType
<1>3. Cat(FlattenSeq(shown), Cat(buf, net)) \in Seq(Unit)
  BY <1>2, CatType
<1>4. Len(net) \in Nat /\ Len(buf) \in Nat /\ Len(shown) \in Nat
  BY <1>1, LenProperties
<1>5. SentUnits \in Nat
  BY LinesAssumption DEF DownInv, SentUnits
<1> QED
  BY <1>1, <1>2, <1>3, <1>4, <1>5, Zenon

(* The units of the server are units.                                       *)
LEMMA ServerUnits ==
  ASSUME NEW n \in 0..MaxSent, NEW part \in {"text", "crlf"}
  PROVE  UnitOf(n, part) \in Unit
  BY LinesAssumption DEF UnitOf, Unit

(* What the server sends next goes on with the stream.                      *)
LEMMA SendingFlows ==
  ASSUME DownInv, NEW units \in Seq(Unit),
         net' = Cat(net, units), UNCHANGED <<buf, shown>>,
         server_sent' \in 0..MaxSent, server_rest' \in BOOLEAN,
         server_rest' => server_sent' > 0,
         SentUnits' = SentUnits + Len(units),
         \A j \in 1..Len(units) : units[j] = SentUnit(SentUnits + j)
  PROVE  DownInv'
<1> DEFINE F == FlattenSeq(shown)
<1>1. /\ net \in Seq(Unit) /\ buf \in Seq(Unit) /\ F \in Seq(Unit)
      /\ Cat(buf, net) \in Seq(Unit) /\ Cat(F, Cat(buf, net)) \in Seq(Unit)
      /\ SentUnits \in Nat
  BY DownTypes
<1>2. Cat(net, units) \in Seq(Unit)
  BY <1>1, CatType
<1>3. Cat(F, Cat(buf, net)) = Stream(SentUnits)
  BY DEF DownInv, Flow
<1> HIDE DEF F
<1>4. Cat(Cat(F, Cat(buf, net)), units) = Stream(SentUnits + Len(units))
  BY <1>1, <1>3, StreamGoesOn
<1>5. Cat(Cat(F, Cat(buf, net)), units) = Cat(F, Cat(Cat(buf, net), units))
  BY <1>1, CatRegroup
<1>6. Cat(Cat(buf, net), units) = Cat(buf, Cat(net, units))
  BY <1>1, CatRegroup
<1>7. Cat(F, Cat(buf, net')) = Stream(SentUnits')
  BY <1>4, <1>5, <1>6, Zenon
<1>8. Flow'
  BY <1>7 DEF DownInv, Flow, F
<1> QED
  BY <1>2, <1>8 DEF DownInv

(* The first message in buf is its first two units, the next line.          *)
LEMMA MessageIsLine ==
  ASSUME DownInv, MessageLen # 0
  PROVE  /\ MessageLen = 2 /\ Len(buf) >= 2
         /\ buf[1] = UnitOf(Len(shown) + 1, "text")
         /\ buf[2] = UnitOf(Len(shown) + 1, "crlf")
<1> DEFINE L == Len(shown)
           F == FlattenSeq(shown)
           ends == {i \in 1..Len(buf) : buf[i].part = "crlf"}
<1>1. /\ net \in Seq(Unit) /\ buf \in Seq(Unit) /\ F \in Seq(Unit)
      /\ Cat(buf, net) \in Seq(Unit) /\ Cat(F, Cat(buf, net)) \in Seq(Unit)
      /\ SentUnits \in Nat /\ Len(net) \in Nat /\ Len(buf) \in Nat /\ L \in Nat
  BY DownTypes
<1>2. MessageLen = IF ends # {} THEN Min(ends) ELSE 0
  BY DEF MessageLen, SelectInSeq
<1>3. Min(ends) \in ends /\ \A i \in ends : Min(ends) <= i
  <2>1. ends # {} /\ ends \in SUBSET Nat
    BY <1>2
  <2> HIDE DEF ends
  <2> QED
    BY <2>1, MinIsLeast
<1>4. ASSUME NEW i \in 1..Len(buf) PROVE buf[i] = SentUnit(2 * L + i)
  <2>1. Len(F) = 2 * L /\ Cat(F, Cat(buf, net)) = Stream(SentUnits)
    BY DEF DownInv, Flow
  <2> HIDE DEF F, L, ends
  <2>2. /\ Len(Cat(buf, net)) = Len(buf) + Len(net)
        /\ \A j \in 1..(Len(buf) + Len(net)) :
             Cat(buf, net)[j] = IF j <= Len(buf) THEN buf[j] ELSE net[j - Len(buf)]
    BY <1>1, CatType
  <2>3. /\ Len(Cat(F, Cat(buf, net))) = Len(F) + Len(Cat(buf, net))
        /\ \A j \in 1..(Len(F) + Len(Cat(buf, net))) :
             Cat(F, Cat(buf, net))[j] = IF j <= Len(F) THEN F[j] ELSE Cat(buf, net)[j - Len(F)]
    BY <1>1, CatType
  <2>4. /\ Len(Cat(F, Cat(buf, net))) = SentUnits
        /\ \A j \in 1..SentUnits : Cat(F, Cat(buf, net))[j] = SentUnit(j)
    BY <1>1, <2>1, StreamUnits
  <2>5. /\ i \in 1..(Len(buf) + Len(net)) /\ i <= Len(buf)
        /\ 2 * L + i \in 1..(2 * L + (Len(buf) + Len(net)))
        /\ ~(2 * L + i <= 2 * L) /\ (2 * L + i) - 2 * L = i
    BY <1>1
  <2>6. Cat(buf, net)[i] = buf[i]
    BY <2>2, <2>5
  <2>7. 2 * L + i \in 1..SentUnits
    BY <2>1, <2>2, <2>3, <2>4, <2>5
  <2>8. Cat(F, Cat(buf, net))[2 * L + i] = Cat(buf, net)[i]
    BY <2>1, <2>2, <2>3, <2>5
  <2> QED
    BY <2>4, <2>6, <2>7, <2>8
<1>5. /\ SentUnit(2 * L + 1) = UnitOf(L + 1, "text")
      /\ SentUnit(2 * L + 2) = UnitOf(L + 1, "crlf")
  BY <1>1, LineUnitsSent
<1>6. 1 \in 1..Len(buf) /\ buf[1] = UnitOf(L + 1, "text")
  BY <1>1, <1>3, <1>4, <1>5
<1>7. 1 \notin ends
  BY <1>6 DEF UnitOf
<1>8. 2 \in 1..Len(buf) /\ buf[2] = UnitOf(L + 1, "crlf")
  BY <1>1, <1>3, <1>4, <1>5, <1>7, SMTT(30)
<1>9. 2 \in ends
  BY <1>8 DEF UnitOf
<1>10. MessageLen = 2
  BY <1>2, <1>3, <1>7, <1>9
<1> QED
  BY <1>6, <1>8, <1>10

(* A message that is displayed leaves buf.                                  *)
LEMMA ShowingFlows ==
  ASSUME DownInv, ShowMessage
  PROVE  DownInv'
<1> DEFINE F == FlattenSeq(shown)
           L == Len(shown)
           m == SubSeq(buf, 1, 2)
           b == SubSeq(buf, 3, Len(buf))
<1>1. /\ MessageLen = 2 /\ Len(buf) >= 2
      /\ buf[1] = UnitOf(L + 1, "text") /\ buf[2] = UnitOf(L + 1, "crlf")
  BY MessageIsLine DEF ShowMessage
<1>2. /\ shown' = Append(shown, m) /\ buf' = b
      /\ UNCHANGED <<server_sent, server_rest, net>>
  BY <1>1 DEF ShowMessage, remote
<1>3. /\ net \in Seq(Unit) /\ buf \in Seq(Unit) /\ F \in Seq(Unit)
      /\ shown \in Seq(Seq(Unit)) /\ Len(buf) \in Nat /\ L \in Nat
  BY DownTypes
<1>4. /\ m \in Seq(Unit) /\ Len(m) = 2 /\ m[1] = buf[1] /\ m[2] = buf[2]
      /\ b \in Seq(Unit) /\ Len(b) = Len(buf) - 2 /\ Cat(m, b) = buf
  <2>1. 2 \in Nat /\ 2 <= Len(buf) /\ 2 + 1 = 3 /\ 1 \in 1..2 /\ 2 \in 1..2
    BY <1>1, <1>3
  <2>2. /\ SubSeq(buf, 1, 2) \in Seq(Unit) /\ Len(SubSeq(buf, 1, 2)) = 2
        /\ \A i \in 1..2 : SubSeq(buf, 1, 2)[i] = buf[i]
        /\ SubSeq(buf, 2 + 1, Len(buf)) \in Seq(Unit)
        /\ Len(SubSeq(buf, 2 + 1, Len(buf))) = Len(buf) - 2
        /\ Cat(SubSeq(buf, 1, 2), SubSeq(buf, 2 + 1, Len(buf))) = buf
    BY <1>3, <2>1, Cut
  <2> QED
    BY <2>1, <2>2
<1>5. m = <<UnitOf(L + 1, "text"), UnitOf(L + 1, "crlf")>>
  <2> HIDE DEF m, L
  <2> QED
    BY <1>1, <1>4
<1> HIDE DEF m, b
<1>6. /\ shown' \in Seq(Seq(Unit)) /\ Len(shown') = L + 1
      /\ \A i \in 1..L : shown'[i] = shown[i]
      /\ shown'[L + 1] = m
  BY <1>2, <1>3, <1>4, AppendProperties
<1>7. \A i \in 1..Len(shown') :
        shown'[i] = <<UnitOf(i, "text"), UnitOf(i, "crlf")>>
  <2>1. \A i \in 1..L : shown[i] = <<UnitOf(i, "text"), UnitOf(i, "crlf")>>
    BY DEF DownInv, Flow
  <2>2. ASSUME NEW i \in 1..(L + 1)
        PROVE  shown'[i] = <<UnitOf(i, "text"), UnitOf(i, "crlf")>>
    <3>1. CASE i = L + 1
      BY <1>5, <1>6, <3>1, Zenon
    <3>2. CASE i # L + 1
      <4>1. i \in 1..L
        BY <1>3, <3>2
      <4> QED
        BY <1>6, <2>1, <4>1, Zenon
    <3> QED
      BY <3>1, <3>2
  <2> QED
    BY <1>6, <2>2, Zenon
<1>8. FlattenSeq(shown') = Cat(F, m)
  BY <1>2, <1>3, <1>4, CatFlatten
<1>9. Len(FlattenSeq(shown')) = 2 * Len(shown')
  <2>1. Len(F) = 2 * L
    BY DEF DownInv, Flow
  <2> HIDE DEF F
  <2>2. Len(Cat(F, m)) = Len(F) + Len(m)
    BY <1>3, <1>4, CatType
  <2> QED
    BY <1>3, <1>4, <1>6, <1>8, <2>1, <2>2
<1>10. Cat(FlattenSeq(shown'), Cat(buf', net')) = Cat(F, Cat(buf, net))
  <2>1. Cat(Cat(F, m), Cat(b, net)) = Cat(F, Cat(Cat(m, b), net))
    BY <1>3, <1>4, CatFour
  <2> QED
    BY <1>2, <1>4, <1>8, <2>1, Zenon
<1>11. SentUnits' = SentUnits
  BY <1>2 DEF SentUnits
<1>12. Cat(F, Cat(buf, net)) = Stream(SentUnits)
  BY DEF DownInv, Flow
<1>13. Flow'
  BY <1>7, <1>9, <1>10, <1>11, <1>12 DEF Flow
<1>14. Len(buf') < BufUnits
  BY <1>2, <1>3, <1>4, BuffersAssumption DEF DownInv
<1> QED
  BY <1>2, <1>4, <1>6, <1>13, <1>14 DEF DownInv

(* A read moves units from the connection to buf.                           *)
LEMMA ReadingFlows ==
  ASSUME DownInv, NEW k \in 1..BufUnits, ReadSocket(k)
  PROVE  DownInv'
<1> DEFINE c == SubSeq(net, 1, k)
           n == SubSeq(net, k + 1, Len(net))
<1>1. CASE UNCHANGED <<net, buf>>
  BY <1>1 DEF DownInv, Flow, SentUnits, ReadSocket, remote
<1>2. CASE ~Overflows(k) /\ buf' = Cat(buf, c) /\ net' = n
  <2>1. /\ net \in Seq(Unit) /\ buf \in Seq(Unit) /\ Len(net) \in Nat
        /\ Len(buf) \in Nat /\ k \in Nat /\ k <= Len(net)
    BY DownTypes, BuffersAssumption DEF ReadSocket
  <2>2. c \in Seq(Unit) /\ Len(c) = k /\ n \in Seq(Unit) /\ Cat(c, n) = net
    BY <2>1, Cut
  <2>3. UNCHANGED <<server_sent, server_rest, shown>>
    BY DEF ReadSocket, remote
  <2> HIDE DEF c, n
  <2>4. Cat(Cat(buf, c), n) = Cat(buf, Cat(c, n))
    BY <2>1, <2>2, CatRegroup
  <2>5. Cat(buf', net') = Cat(buf, net)
    BY <1>2, <2>2, <2>4, Zenon
  <2>6. Cat(buf, c) \in Seq(Unit) /\ Len(Cat(buf, c)) = Len(buf) + Len(c)
    BY <2>1, <2>2, CatType
  <2>7. Len(buf') < BufUnits
    BY <1>2, <2>1, <2>2, <2>6, BuffersAssumption DEF Overflows
  <2>8. Flow'
    BY <2>3, <2>5 DEF DownInv, Flow, SentUnits
  <2> QED
    BY <1>2, <2>2, <2>3, <2>6, <2>7, <2>8 DEF DownInv
<1> QED
  BY <1>1, <1>2 DEF ReadSocket, Cat

-----------------------------------------------------------------------------
(* From the keyboard to the socket.                                         *)

(* What a user can type: units of text, and newlines.                       *)
Typable == {u \in Unit : u.part = "text" \/ u = UnitOf(u.n, "lf")}

(* What was typed for each write.                                           *)
Pieces == [i \in DOMAIN outbox |-> outbox[i].typed]

(* What was typed is what was taken for the writes, what stdio holds and    *)
(* what waits; user_buf keeps its size, whatever is left in it; and what a  *)
(* write took has gone out as it should.                                    *)
UpInv ==
    /\ typed \in Seq(Typable) /\ rest \in Seq(Typable)
    /\ input \in Seq(Typable) /\ stdio \in Seq(Typable)
    /\ user_buf \in Seq(Unit) /\ Len(user_buf) = UserUnits + 3
    /\ outbox \in Seq([typed : Seq(Typable), sent : Seq(Unit)])
    /\ Cat(Cat(FlattenSeq(Pieces), stdio), input) = typed
    /\ \A i \in 1..Len(outbox) : ~IsConnected(outbox[i].typed)
                                   => outbox[i].sent = Wire(outbox[i].typed)

Flags ==
    /\ input_ended \in BOOLEAN /\ server_closed \in BOOLEAN /\ stdio_ended \in BOOLEAN
    /\ phase \in {"select", "stdin", "socket", "messages", "ended", "killed"}
    /\ ready \subseteq {"stdin", "socket"}

ClientInv == UpInv /\ DownInv /\ Flags

(* The pieces are sequences of typable units.                               *)
LEMMA PiecesType ==
  ASSUME UpInv
  PROVE  /\ Pieces \in Seq(Seq(Typable)) /\ Len(Pieces) = Len(outbox)
         /\ FlattenSeq(Pieces) \in Seq(Typable)
<1> DEFINE R == [typed : Seq(Typable), sent : Seq(Unit)]
<1>1. outbox \in [1..Len(outbox) -> R] /\ Len(outbox) \in Nat
      /\ DOMAIN outbox = 1..Len(outbox)
  BY LenProperties DEF UpInv
<1>2. Pieces \in [1..Len(outbox) -> Seq(Typable)]
  BY <1>1 DEF Pieces
<1>3. Pieces \in Seq(Seq(Typable)) /\ Len(Pieces) = Len(outbox)
  BY <1>1, <1>2
<1> QED
  BY <1>3, FlattenAppend

(* A write adds what was typed for it.                                      *)
LEMMA PiecesAppend ==
  ASSUME UpInv, NEW w \in [typed : Seq(Typable), sent : Seq(Unit)],
         outbox' = Append(outbox, w)
  PROVE  /\ Pieces' = Append(Pieces, w.typed)
         /\ outbox' \in Seq([typed : Seq(Typable), sent : Seq(Unit)])
         /\ Len(outbox') = Len(outbox) + 1
         /\ \A i \in 1..Len(outbox) : outbox'[i] = outbox[i]
         /\ outbox'[Len(outbox) + 1] = w
<1> DEFINE R == [typed : Seq(Typable), sent : Seq(Unit)]
           n == Len(outbox)
<1>1. outbox \in Seq(R) /\ n \in Nat /\ DOMAIN outbox = 1..n
  BY LenProperties DEF UpInv
<1>2. /\ outbox' \in Seq(R) /\ Len(outbox') = n + 1
      /\ \A i \in 1..n : outbox'[i] = outbox[i]
      /\ outbox'[n + 1] = w
  <2> HIDE DEF R
  <2>1. w \in R
    BY DEF R
  <2> QED
    BY <1>1, <2>1, AppendProperties
<1>3. DOMAIN outbox' = 1..(n + 1)
  BY <1>2, LenProperties
<1>4. Pieces \in Seq(Seq(Typable)) /\ Len(Pieces) = n
  BY PiecesType
<1>5. w.typed \in Seq(Typable)
  OBVIOUS
<1>6. /\ Append(Pieces, w.typed) \in Seq(Seq(Typable))
      /\ Len(Append(Pieces, w.typed)) = n + 1
      /\ \A i \in 1..n : Append(Pieces, w.typed)[i] = Pieces[i]
      /\ Append(Pieces, w.typed)[n + 1] = w.typed
  BY <1>4, <1>5, AppendProperties
<1>7. Append(Pieces, w.typed) \in [1..(n + 1) -> Seq(Typable)]
  BY <1>6, LenProperties
<1>8. Pieces' = [i \in 1..(n + 1) |-> outbox'[i].typed]
  BY <1>3 DEF Pieces
<1>9. \A i \in 1..n : Pieces[i] = outbox[i].typed
  BY <1>1 DEF Pieces
<1>10. \A i \in 1..(n + 1) : Append(Pieces, w.typed)[i] = outbox'[i].typed
  <2> SUFFICES ASSUME NEW i \in 1..(n + 1)
               PROVE  Append(Pieces, w.typed)[i] = outbox'[i].typed
    OBVIOUS
  <2>1. CASE i = n + 1
    BY <1>2, <1>6, <2>1, Zenon
  <2>2. CASE i # n + 1
    <3>1. i \in 1..n
      BY <1>1, <2>2
    <3> QED
      BY <1>2, <1>6, <1>9, <3>1, Zenon
  <2> QED
    BY <2>1, <2>2
<1>11. Pieces' = Append(Pieces, w.typed)
  <2>1. Append(Pieces, w.typed) = [i \in 1..(n + 1) |-> Append(Pieces, w.typed)[i]]
    BY <1>7
  <2> QED
    BY <1>8, <1>10, <2>1
<1> QED
  BY <1>2, <1>11

(* What the user types is typable, and goes to the end of both.             *)
LEMMA TypingFlows ==
  ASSUME UpInv, NEW units \in Seq(Typable), TypeUnits(units), rest' \in Seq(Typable)
  PROVE  UpInv'
<1> DEFINE F == FlattenSeq(Pieces)
<1>1. /\ typed' = Cat(typed, units) /\ input' = Cat(input, units)
      /\ UNCHANGED <<stdio, user_buf, outbox>>
  BY DEF TypeUnits, Cat, client
<1>2. /\ typed \in Seq(Typable) /\ input \in Seq(Typable) /\ stdio \in Seq(Typable)
      /\ F \in Seq(Typable) /\ Cat(Cat(F, stdio), input) = typed
  BY PiecesType DEF UpInv
<1>3. Pieces' = Pieces
  BY <1>1 DEF Pieces
<1> HIDE DEF F
<1>4. Cat(F, stdio) \in Seq(Typable)
  BY <1>2, CatType
<1>5. Cat(Cat(F, stdio), Cat(input, units)) = Cat(Cat(Cat(F, stdio), input), units)
  BY <1>2, <1>4, CatRegroup
<1>6. Cat(Cat(F, stdio'), input') = typed'
  BY <1>1, <1>2, <1>5, Zenon
<1>7. typed' \in Seq(Typable) /\ input' \in Seq(Typable)
  BY <1>1, <1>2, CatType
<1> QED
  BY <1>1, <1>3, <1>6, <1>7 DEF UpInv, F, IsConnected, Wire

(* A line the user types, or its text.                                      *)
LEMMA TypeFlows ==
  ASSUME UpInv, NEW len \in LineUnits, NEW what \in Whats, Type(len, what)
  PROVE  UpInv'
<1> DEFINE n == LinesTyped + 1
           text == TextOf(n, len, what)
           newline == <<UnitOf(n, "lf")>>
<1>1. n \in 0..(MaxTyped + MaxSent)
  <2>1. typed # <<>> => Last(typed) \in Typable
    <3>1. typed # <<>> => Len(typed) \in 1..Len(typed)
      BY EmptySeq, LenProperties DEF UpInv
    <3> QED
      BY <3>1, ElementOfSeq DEF UpInv, Last
  <2>2. LinesTyped \in Nat
    BY <2>1, LinesAssumption DEF LinesTyped, Typable, Unit
  <2> QED
    BY <2>2, LinesAssumption DEF Type
<1> HIDE DEF n
<1>2. text \in Seq(Typable)
  <2>1. len \in Nat
    BY LinesAssumption
  <2>2. \A i \in 1..len : [n |-> n, part |-> "text",
                           what |-> IF i = 1 THEN what ELSE "text"] \in Typable
    BY <1>1, WhatsAssumption DEF Typable, Unit
  <2>3. text \in [1..len -> Typable]
    BY <2>2 DEF TextOf
  <2> QED
    BY <2>1, <2>3
<1>3. newline \in Seq(Typable)
  <2>1. UnitOf(n, "lf") \in Typable
    BY <1>1 DEF Typable, Unit, UnitOf
  <2> QED
    BY <2>1
<1>4. <<>> \in Seq(Typable)
  OBVIOUS
<1>5. Cat(text, newline) \in Seq(Typable)
  BY <1>2, <1>3, CatType
<1>6. \/ TypeUnits(Cat(text, newline)) /\ rest' = <<>>
      \/ TypeUnits(text) /\ rest' = newline
  BY DEF Type, Cat, n
<1> HIDE DEF text, newline
<1> QED
  BY <1>2, <1>3, <1>4, <1>5, <1>6, TypingFlows

(* stdio takes the beginning of what waits.                                 *)
LEMMA FillingFlows ==
  ASSUME UpInv, FillStdio
  PROVE  UpInv' /\ stdio_ended' \in BOOLEAN
<1> DEFINE F == FlattenSeq(Pieces)
<1>1. PICK k \in {Len(input), NewlineAt(input)} :
        /\ stdio' = Cat(stdio, SubSeq(input, 1, k))
        /\ input' = SubSeq(input, k + 1, Len(input))
        /\ stdio_ended' = (k = 0)
  BY PieceTerms DEF Cat
<1> DEFINE c == SubSeq(input, 1, k)
           n == SubSeq(input, k + 1, Len(input))
<1>2. UNCHANGED <<typed, rest, user_buf, outbox>>
  BY DEF FillStdio, user
<1>3. /\ input \in Seq(Typable) /\ stdio \in Seq(Typable)
      /\ F \in Seq(Typable) /\ Cat(Cat(F, stdio), input) = typed
  BY PiecesType DEF UpInv
<1>4. k \in Nat /\ k <= Len(input)
  <2>1. Len(input) \in Nat
    BY <1>3, LenProperties
  <2>2. NewlineAt(input) \in 0..Len(input)
    BY <2>1, FirstFound DEF IsFirst
  <2> QED
    BY <2>1, <2>2
<1>5. c \in Seq(Typable) /\ n \in Seq(Typable) /\ Cat(c, n) = input
  BY <1>3, <1>4, Cut
<1>6. Pieces' = Pieces
  BY <1>2 DEF Pieces
<1> HIDE DEF F, c, n
<1>7. Cat(stdio, c) \in Seq(Typable) /\ Cat(F, stdio) \in Seq(Typable)
  BY <1>3, <1>5, CatType
<1>8. Cat(F, Cat(stdio, c)) = Cat(Cat(F, stdio), c)
  BY <1>3, <1>5, CatRegroup
<1>9. Cat(Cat(Cat(F, stdio), c), n) = Cat(Cat(F, stdio), Cat(c, n))
  BY <1>5, <1>7, CatRegroup
<1>10. stdio' = Cat(stdio, c) /\ input' = n
  BY <1>1 DEF c, n
<1>11. Cat(Cat(F, stdio'), input') = typed'
  BY <1>2, <1>3, <1>5, <1>8, <1>9, <1>10, Zenon
<1>12. UpInv'
  BY <1>2, <1>5, <1>6, <1>7, <1>10, <1>11 DEF UpInv, F, IsConnected, Wire
<1> QED
  BY <1>1, <1>12

(* What is stored in user_buf for a piece: its units, a NUL, what was there.*)
LEMMA StoredUnits ==
  ASSUME user_buf \in Seq(Unit), Len(user_buf) = UserUnits + 3,
         NEW piece \in Seq(Typable), Len(piece) <= UserUnits
  PROVE  /\ Stored(piece) \in Seq(Unit) /\ Len(Stored(piece)) = UserUnits + 3
         /\ \A i \in 1..Len(piece) : Stored(piece)[i] = piece[i]
         /\ Stored(piece)[Len(piece) + 1] = Nul
<1> DEFINE n == Len(piece)
           front == Append(piece, Nul)
           old == SubSeq(user_buf, n + 2, Len(user_buf))
<1>1. n \in Nat /\ UserUnits \in Nat /\ n <= UserUnits
  BY LenProperties, BuffersAssumption
<1>2. piece \in Seq(Unit)
  BY SeqMonotonic DEF Typable
<1>3. Nul \in Unit
  BY LinesAssumption DEF Nul, UnitOf, Unit
<1>4. /\ front \in Seq(Unit) /\ Len(front) = n + 1
      /\ \A i \in 1..n : front[i] = piece[i]
      /\ front[n + 1] = Nul
  BY <1>2, <1>3, AppendProperties
<1>5. old \in Seq(Unit) /\ Len(old) = (UserUnits + 1 - n) + 1
  <2>1. \A i \in (n + 2)..Len(user_buf) : user_buf[i] \in Unit
    <3> SUFFICES ASSUME NEW i \in (n + 2)..Len(user_buf)
                 PROVE  user_buf[i] \in Unit
      OBVIOUS
    <3>1. i \in 1..Len(user_buf)
      BY <1>1
    <3> QED
      BY <3>1, ElementOfSeq
  <2>2. n + 2 \in Int /\ Len(user_buf) \in Int
    BY <1>1
  <2>3. /\ old \in Seq(Unit)
        /\ Len(old) = IF n + 2 <= Len(user_buf) THEN (Len(user_buf) - (n + 2)) + 1
                      ELSE 0
    BY <2>1, <2>2, SubSeqProperties
  <2>4. n + 2 <= Len(user_buf) /\ (Len(user_buf) - (n + 2)) + 1 = (UserUnits + 1 - n) + 1
    BY <1>1
  <2> QED
    BY <2>3, <2>4
<1>6. Stored(piece) = Cat(front, old)
  BY DEF Stored, Cat
<1> HIDE DEF front, old
<1>7. /\ Cat(front, old) \in Seq(Unit) /\ Len(Cat(front, old)) = Len(front) + Len(old)
      /\ \A i \in 1..(Len(front) + Len(old)) :
           Cat(front, old)[i] = IF i <= Len(front) THEN front[i] ELSE old[i - Len(front)]
  BY <1>4, <1>5, CatType
<1>8. Len(front) + Len(old) = UserUnits + 3
  BY <1>1, <1>4, <1>5
<1>9. ASSUME NEW i \in 1..(n + 1) PROVE Cat(front, old)[i] = front[i]
  <2>1. i \in 1..(Len(front) + Len(old)) /\ i <= Len(front)
    BY <1>1, <1>4, <1>8
  <2> QED
    BY <1>7, <2>1
<1>10. n + 1 \in 1..(n + 1) /\ \A i \in 1..n : i \in 1..(n + 1)
  BY <1>1
<1> QED
  BY <1>4, <1>6, <1>7, <1>8, <1>9, <1>10

(* The two places of CR and LF are set, the others are kept.                *)
LEMMA CrLfUnits ==
  ASSUME NEW b \in Seq(Unit), NEW len \in Nat, 1 <= len, len + 2 <= Len(b)
  PROVE  LET c == WithCrLf(b, len)
             t == TextLine(b, len)
         IN  /\ c \in Seq(Unit) /\ Len(c) = Len(b)
             /\ t \in Seq(Unit) /\ Len(t) = Len(b)
             /\ \A i \in 1..(len - 1) : t[i] = b[i]
             /\ t[len] = UnitOf(b[len].n, "cr") /\ t[len + 1] = UnitOf(b[len].n, "lf")
             /\ t[len + 2] = Nul
<1> DEFINE cr == UnitOf(b[len].n, "cr")
           lf == UnitOf(b[len].n, "lf")
           d == [b EXCEPT ![len] = cr]
           c == [d EXCEPT ![len + 1] = lf]
           t == [c EXCEPT ![len + 2] = Nul]
<1>1. /\ Len(b) \in Nat /\ len \in 1..Len(b) /\ len + 1 \in 1..Len(b)
      /\ len + 2 \in 1..Len(b) /\ len # len + 1 /\ len # len + 2 /\ len + 1 # len + 2
      /\ \A i \in 1..(len - 1) : i \in 1..Len(b) /\ i # len /\ i # len + 1 /\ i # len + 2
  BY LenProperties
<1>2. cr \in Unit /\ lf \in Unit /\ Nul \in Unit
  <2>1. b[len] \in Unit
    BY <1>1, ElementOfSeq
  <2> QED
    BY <2>1, LinesAssumption DEF Unit, UnitOf, Nul
<1>3. WithCrLf(b, len) = c /\ TextLine(b, len) = t
  BY DEF WithCrLf, TextLine
<1> HIDE DEF cr, lf
<1>4. /\ d \in Seq(Unit) /\ Len(d) = Len(b)
      /\ \A j \in 1..Len(b) : d[j] = IF j = len THEN cr ELSE b[j]
  BY <1>1, <1>2, ExceptSeq
<1> HIDE DEF d
<1>5. /\ c \in Seq(Unit) /\ Len(c) = Len(b)
      /\ \A j \in 1..Len(b) : c[j] = IF j = len + 1 THEN lf ELSE d[j]
  BY <1>1, <1>2, <1>4, ExceptSeq
<1> HIDE DEF c
<1>6. /\ t \in Seq(Unit) /\ Len(t) = Len(b)
      /\ \A j \in 1..Len(b) : t[j] = IF j = len + 2 THEN Nul ELSE c[j]
  BY <1>1, <1>2, <1>5, ExceptSeq
<1> HIDE DEF t
<1>7. t[len] = cr /\ t[len + 1] = lf /\ t[len + 2] = Nul
  BY <1>1, <1>4, <1>5, <1>6
<1>8. \A i \in 1..(len - 1) : t[i] = b[i]
  BY <1>1, <1>4, <1>5, <1>6
<1> QED
  BY <1>3, <1>5, <1>6, <1>7, <1>8 DEF cr, lf

(* A string ends at its first NUL.                                          *)
LEMMA StrLenIs ==
  ASSUME NEW b \in Seq(Unit), NEW m \in Nat, m + 1 <= Len(b), b[m + 1] = Nul,
         \A i \in 1..m : b[i].part # "nul"
  PROVE  StrLen(b) = m
<1>1. Len(b) \in Nat /\ m + 1 \in 1..Len(b)
  BY LenProperties
<1>2. b[m + 1].part = "nul"
  BY DEF Nul, UnitOf
<1>3. IsFirst(StrLen(b) + 1, b, "nul")
  BY <1>1, <1>2, FirstFound
<1>4. StrLen(b) + 1 \in 0..Len(b) /\ StrLen(b) + 1 # 0
  BY <1>1, <1>2, <1>3 DEF IsFirst
<1>5. b[StrLen(b) + 1].part = "nul"
  BY <1>3, <1>4 DEF IsFirst
<1>6. \A i \in 1..((StrLen(b) + 1) - 1) : b[i].part # "nul"
  BY <1>3, <1>4 DEF IsFirst
<1> DEFINE k == StrLen(b) + 1
<1>7. k \in 1..Len(b) /\ StrLen(b) = k - 1
  <2>1. StrLen(b) \in 0..Len(b)
    BY <1>1, FirstFound
  <2> QED
    BY <1>1, <1>4, <2>1
<1> HIDE DEF k
<1> QED
  BY <1>1, <1>2, <1>5, <1>6, <1>7 DEF k

(* A piece that is not "\connected" goes out as it was typed, its newline   *)
(* as CR LF; of any piece only what user_buf holds goes out.                *)
LEMMA PieceGoesOut ==
  ASSUME user_buf \in Seq(Unit), Len(user_buf) = UserUnits + 3,
         NEW piece \in Seq(Typable), 1 <= Len(piece), Len(piece) <= UserUnits
  PROVE  LET b == Rewritten(piece)
             sent == SubSeq(b, 1, StrLen(b))
         IN  /\ b \in Seq(Unit) /\ Len(b) = UserUnits + 3
             /\ sent \in Seq(Unit)
             /\ ~IsConnected(piece) => sent = Wire(piece)
<1> DEFINE n == Len(piece)
           b0 == Stored(piece)
           b == Rewritten(piece)
           sent == SubSeq(b, 1, StrLen(b))
<1>1. n \in Nat /\ UserUnits \in Nat /\ n \in 1..n /\ 1 <= n /\ n <= UserUnits
  BY LenProperties, BuffersAssumption
<1>2. /\ b0 \in Seq(Unit) /\ Len(b0) = UserUnits + 3
      /\ \A i \in 1..n : b0[i] = piece[i]
      /\ b0[n + 1] = Nul
  BY StoredUnits
<1>3. \A i \in 1..n : piece[i] \in Typable
  BY ElementOfSeq
<1>4. \A i \in 1..n : piece[i].part # "nul"
  BY <1>3 DEF Typable, UnitOf
<1>5. Last(piece) = piece[n]
  BY DEF Last
<1>6. piece \in Seq(Unit)
  BY SeqMonotonic DEF Typable
<1> DEFINE c == WithCrLf(b0, n)
           t == TextLine(b0, n)
<1>7. /\ c \in Seq(Unit) /\ Len(c) = UserUnits + 3
      /\ t \in Seq(Unit) /\ Len(t) = UserUnits + 3
      /\ \A i \in 1..(n - 1) : t[i] = b0[i]
      /\ t[n] = UnitOf(b0[n].n, "cr") /\ t[n + 1] = UnitOf(b0[n].n, "lf")
      /\ t[n + 2] = Nul
  <2>1. n + 2 <= Len(b0)
    BY <1>1, <1>2
  <2> HIDE DEF b0, n
  <2> QED
    BY <1>1, <1>2, <2>1, CrLfUnits
<1>8. b = IF IsConnected(piece) THEN ConnectedLine(b0, n)
          ELSE IF piece[n].part = "lf" THEN t ELSE b0
  BY <1>5 DEF Rewritten
<1> HIDE DEF b0, n, c, t
<1>9. b \in Seq(Unit) /\ Len(b) = UserUnits + 3
  <2>1. CASE IsConnected(piece)
    <3>1. b = [c EXCEPT ![StrLen(c) + 2] = Nul]
      BY <1>8, <2>1 DEF ConnectedLine, c
    <3>2. Nul \in Unit
      BY LinesAssumption DEF Nul, UnitOf, Unit
    <3>3. c \in [1..(UserUnits + 3) -> Unit]
      BY <1>7, LenProperties
    <3>4. b \in [1..(UserUnits + 3) -> Unit]
      BY <3>1, <3>2, <3>3
    <3> QED
      BY <1>1, <3>4
  <2>2. CASE ~IsConnected(piece)
    BY <1>2, <1>7, <1>8, <2>2
  <2> QED
    BY <2>1, <2>2
<1> HIDE DEF b
<1>10. StrLen(b) \in Nat /\ StrLen(b) <= Len(b)
  <2>1. Len(b) \in Nat
    BY <1>1, <1>9
  <2> QED
    BY <2>1, FirstFound
<1>11. /\ sent \in Seq(Unit) /\ Len(sent) = StrLen(b)
       /\ \A i \in 1..StrLen(b) : sent[i] = b[i]
  BY <1>9, <1>10, Cut
<1>12. ASSUME ~IsConnected(piece), piece[n].part # "lf"
       PROVE  sent = Wire(piece)
  <2>1. b = b0
    BY <1>8, <1>12
  <2>2. StrLen(b) = n
    <3>1. \A i \in 1..n : b[i].part # "nul"
      BY <1>2, <1>4, <2>1
    <3>2. n \in Nat /\ n + 1 <= Len(b) /\ b[n + 1] = Nul
      BY <1>1, <1>2, <1>9, <2>1
    <3> QED
      BY <1>9, <3>1, <3>2, StrLenIs
  <2>3. Wire(piece) = piece
    BY <1>5, <1>12 DEF Wire
  <2>4. Len(sent) = Len(piece) /\ \A i \in 1..Len(sent) : sent[i] = piece[i]
    BY <1>2, <1>11, <2>1, <2>2 DEF n
  <2> QED
    BY <1>6, <1>11, <2>3, <2>4, SeqEqual
<1>13. ASSUME ~IsConnected(piece), piece[n].part = "lf"
       PROVE  sent = Wire(piece)
  <2>1. b = t
    BY <1>8, <1>13
  <2>2. b0[n] = piece[n] /\ piece[n] = UnitOf(piece[n].n, "lf")
    BY <1>1, <1>2, <1>3, <1>13 DEF Typable
  <2>3. /\ \A i \in 1..(n - 1) : b[i] = piece[i]
        /\ b[n] = UnitOf(piece[n].n, "cr") /\ b[n + 1] = piece[n] /\ b[n + 2] = Nul
    <3>1. \A i \in 1..(n - 1) : i \in 1..n
      BY <1>1
    <3> QED
      BY <1>2, <1>7, <2>1, <2>2, <3>1
  <2>4. StrLen(b) = n + 1
    <3>1. \A i \in 1..(n + 1) : i \in 1..(n - 1) \/ i = n \/ i = n + 1
      BY <1>1
    <3>2. \A i \in 1..(n + 1) : b[i].part # "nul"
      <4>1. \A i \in 1..(n - 1) : i \in 1..n
        BY <1>1
      <4>2. \A i \in 1..(n - 1) : b[i].part # "nul"
        BY <1>4, <2>3, <4>1
      <4>3. b[n].part # "nul" /\ b[n + 1].part # "nul"
        BY <1>1, <1>4, <2>3 DEF UnitOf
      <4> QED
        BY <3>1, <4>2, <4>3
    <3>3. n + 1 \in Nat /\ (n + 1) + 1 <= Len(b) /\ (n + 1) + 1 = n + 2
      BY <1>1, <1>9
    <3> QED
      BY <1>9, <2>3, <3>2, <3>3, StrLenIs
  <2> DEFINE ends == <<UnitOf(piece[n].n, "cr"), piece[n]>>
             front == SubSeq(piece, 1, n - 1)
  <2>5. Wire(piece) = Cat(front, ends)
    BY <1>5, <1>13 DEF Wire, Front, Cat, n
  <2>6. /\ front \in Seq(Unit) /\ Len(front) = n - 1
        /\ \A i \in 1..(n - 1) : front[i] = piece[i]
    <3>1. n - 1 \in Nat /\ n - 1 <= Len(piece)
      BY <1>1 DEF n
    <3> QED
      BY <1>6, <3>1, Cut
  <2>7. ends \in Seq(Unit) /\ Len(ends) = 2 /\ ends[1] = b[n] /\ ends[2] = b[n + 1]
    <3>1. UnitOf(piece[n].n, "cr") \in Unit /\ piece[n] \in Unit
      BY <1>1, <1>3 DEF Typable, Unit, UnitOf
    <3> QED
      BY <2>3, <3>1
  <2> HIDE DEF ends, front
  <2>8. /\ Cat(front, ends) \in Seq(Unit) /\ Len(Cat(front, ends)) = Len(front) + Len(ends)
        /\ \A i \in 1..(Len(front) + Len(ends)) :
             Cat(front, ends)[i] = IF i <= Len(front) THEN front[i] ELSE ends[i - Len(front)]
    BY <2>6, <2>7, CatType
  <2>9. Len(front) + Len(ends) = n + 1
    BY <1>1, <2>6, <2>7
  <2>10. ASSUME NEW i \in 1..(n + 1) PROVE sent[i] = Cat(front, ends)[i]
    <3>1. sent[i] = b[i]
      BY <1>11, <2>4
    <3>2. CASE i <= n - 1
      <4>1. i \in 1..(n - 1) /\ i <= Len(front)
        BY <1>1, <2>6, <3>2
      <4> QED
        BY <2>3, <2>6, <2>8, <2>9, <3>1, <4>1
    <3>3. CASE i = n
      <4>1. ~(i <= Len(front)) /\ i - Len(front) = 1
        BY <1>1, <2>6, <3>3
      <4> QED
        BY <2>7, <2>8, <2>9, <3>1, <3>3, <4>1
    <3>4. CASE i = n + 1
      <4>1. ~(i <= Len(front)) /\ i - Len(front) = 2
        BY <1>1, <2>6, <3>4
      <4> QED
        BY <1>1, <2>7, <2>8, <2>9, <3>1, <3>4, <4>1
    <3>5. i <= n - 1 \/ i = n \/ i = n + 1
      BY <1>1
    <3> QED
      BY <3>2, <3>3, <3>4, <3>5, Zenon
  <2>11. Len(sent) = Len(Cat(front, ends)) /\ Len(sent) = n + 1
    BY <1>11, <2>4, <2>8, <2>9
  <2> QED
    BY <1>11, <2>5, <2>8, <2>10, <2>11, SeqEqual
<1> QED
  BY <1>9, <1>11, <1>12, <1>13 DEF b

(* A piece leaves stdio and becomes a write.                                *)
LEMMA SendingPieceFlows ==
  ASSUME UpInv, SendPiece
  PROVE  UpInv'
<1> DEFINE F == FlattenSeq(Pieces)
           k == PieceLen
           p == SubSeq(stdio, 1, k)
           n == SubSeq(stdio, k + 1, Len(stdio))
           b == Rewritten(p)
           w == [typed |-> p, sent |-> SubSeq(b, 1, StrLen(b))]
<1>1. /\ stdio # <<>> /\ stdio' = n /\ user_buf' = b /\ outbox' = Append(outbox, w)
      /\ UNCHANGED <<typed, rest, input>>
  BY DEF SendPiece, Piece, user
<1>2. /\ stdio \in Seq(Typable) /\ input \in Seq(Typable) /\ F \in Seq(Typable)
      /\ Cat(Cat(F, stdio), input) = typed
  BY PiecesType DEF UpInv
<1>3. k \in Nat /\ 1 <= k /\ k <= Len(stdio) /\ k <= UserUnits
  <2>1. Len(stdio) \in Nat \ {0}
    BY <1>1, <1>2, EmptySeq
  <2>2. NewlineAt(stdio) \in 0..Len(stdio)
    BY <2>1, FirstFound DEF IsFirst
  <2>3. UserUnits \in Nat \ {0}
    BY BuffersAssumption
  <2> QED
    BY <2>1, <2>2, <2>3, PieceTerms
<1> HIDE DEF k
<1>4. p \in Seq(Typable) /\ Len(p) = k /\ n \in Seq(Typable) /\ Cat(p, n) = stdio
  BY <1>2, <1>3, Cut
<1> HIDE DEF p, n, F
<1>5. /\ b \in Seq(Unit) /\ Len(b) = UserUnits + 3
      /\ SubSeq(b, 1, StrLen(b)) \in Seq(Unit)
      /\ ~IsConnected(p) => SubSeq(b, 1, StrLen(b)) = Wire(p)
  <2>1. user_buf \in Seq(Unit) /\ Len(user_buf) = UserUnits + 3
    BY DEF UpInv
  <2> QED
    BY <1>3, <1>4, <2>1, PieceGoesOut
<1> HIDE DEF b
<1>6. w \in [typed : Seq(Typable), sent : Seq(Unit)] /\ w.typed = p
  BY <1>4, <1>5
<1>7. ~IsConnected(w.typed) => w.sent = Wire(w.typed)
  BY <1>5
<1> HIDE DEF w
<1>8. /\ Pieces' = Append(Pieces, p)
      /\ outbox' \in Seq([typed : Seq(Typable), sent : Seq(Unit)])
      /\ Len(outbox') = Len(outbox) + 1
      /\ \A i \in 1..Len(outbox) : outbox'[i] = outbox[i]
      /\ outbox'[Len(outbox) + 1] = w
  BY <1>1, <1>6, PiecesAppend
<1>9. FlattenSeq(Pieces') = Cat(F, p)
  BY <1>4, <1>8, PiecesType, CatFlatten DEF F
<1>10. Cat(Cat(F, p), n) = Cat(F, Cat(p, n))
  BY <1>2, <1>4, CatRegroup
<1>11. Cat(Cat(FlattenSeq(Pieces'), stdio'), input') = typed'
  BY <1>1, <1>2, <1>4, <1>9, <1>10, Zenon
<1>12. ASSUME NEW i \in 1..Len(outbox'), ~IsConnected(outbox'[i].typed)
       PROVE  outbox'[i].sent = Wire(outbox'[i].typed)
  <2>1. CASE i = Len(outbox) + 1
    BY <1>7, <1>8, <1>12, <2>1, Zenon
  <2>2. CASE i # Len(outbox) + 1
    <3>1. Len(outbox) \in Nat
      BY LenProperties DEF UpInv
    <3>2. i \in 1..Len(outbox)
      BY <1>8, <2>2, <3>1
    <3>3. outbox'[i] = outbox[i]
      BY <1>8, <3>2, Zenon
    <3>4. ~IsConnected(outbox[i].typed) => outbox[i].sent = Wire(outbox[i].typed)
      BY <3>2 DEF UpInv
    <3> QED
      BY <1>12, <3>3, <3>4, Zenon
  <2> QED
    BY <2>1, <2>2
<1>13. \A i \in 1..Len(outbox') : ~IsConnected(outbox'[i].typed)
                                   => outbox'[i].sent = Wire(outbox'[i].typed)
  BY <1>12
<1> QED
  BY <1>1, <1>4, <1>5, <1>8, <1>11, <1>13 DEF UpInv, IsConnected, Wire

-----------------------------------------------------------------------------
(* Every step.                                                              *)

(* The server sends a line, or its text.                                    *)
LEMMA ServerSendsFlows ==
  ASSUME DownInv, NEW whole \in BOOLEAN, ServerSends(whole)
  PROVE  DownInv'
<1> DEFINE n == server_sent + 1
           text == UnitOf(n, "text")
           crlf == UnitOf(n, "crlf")
           units == IF whole THEN <<text, crlf>> ELSE <<text>>
<1>1. /\ server_sent \in Nat /\ server_sent < MaxSent /\ MaxSent \in Nat
      /\ server_rest = FALSE
  BY LinesAssumption DEF DownInv, ServerSends
<1>2. /\ server_sent' = n /\ server_rest' = ~whole /\ net' = Cat(net, units)
      /\ UNCHANGED <<buf, shown>>
  BY DEF ServerSends, client, Cat
<1>3. text \in Unit /\ crlf \in Unit
  BY <1>1, ServerUnits
<1>4. /\ text = SentUnit(2 * server_sent + 1)
      /\ crlf = SentUnit(2 * server_sent + 2)
  BY <1>1, LineUnitsSent
<1> HIDE DEF text, crlf
<1>5. SentUnits = 2 * server_sent
  BY <1>1 DEF SentUnits
<1>6. CASE whole
  <2>1. units = <<text, crlf>>
    BY <1>6
  <2>2. units \in Seq(Unit) /\ Len(units) = 2 /\ units[1] = text /\ units[2] = crlf
    BY <1>3, <2>1
  <2>3. SentUnits' = SentUnits + 2
    <3>1. server_rest' = FALSE
      BY <1>2, <1>6
    <3>2. SentUnits' = 2 * (server_sent + 1) - 0
      BY <1>1, <1>2, <3>1 DEF SentUnits
    <3> QED
      BY <1>1, <1>5, <3>2
  <2> HIDE DEF units
  <2>4. \A j \in 1..Len(units) : units[j] = SentUnit(SentUnits + j)
    BY <1>4, <1>5, <2>2
  <2>5. server_sent' \in 0..MaxSent /\ server_rest' \in BOOLEAN /\ server_sent' > 0
    BY <1>1, <1>2
  <2> QED
    BY <1>2, <2>2, <2>3, <2>4, <2>5, SendingFlows
<1>7. CASE ~whole
  <2>1. units = <<text>>
    BY <1>7
  <2>2. units \in Seq(Unit) /\ Len(units) = 1 /\ units[1] = text
    BY <1>3, <2>1
  <2>3. SentUnits' = SentUnits + 1
    <3>1. server_rest' = TRUE
      BY <1>2, <1>7
    <3>2. SentUnits' = 2 * (server_sent + 1) - 1
      BY <1>1, <1>2, <3>1 DEF SentUnits
    <3> QED
      BY <1>1, <1>5, <3>2
  <2> HIDE DEF units
  <2>4. \A j \in 1..Len(units) : units[j] = SentUnit(SentUnits + j)
    BY <1>4, <1>5, <2>2
  <2>5. server_sent' \in 0..MaxSent /\ server_rest' \in BOOLEAN /\ server_sent' > 0
    BY <1>1, <1>2
  <2> QED
    BY <1>2, <2>2, <2>3, <2>4, <2>5, SendingFlows
<1> QED
  BY <1>6, <1>7

(* The server sends the newline of a line.                                  *)
LEMMA ServerSendsRestFlows ==
  ASSUME DownInv, ServerSendsRest
  PROVE  DownInv'
<1> DEFINE crlf == UnitOf(server_sent, "crlf")
           units == <<crlf>>
<1>1. /\ server_sent \in Nat /\ server_sent > 0 /\ server_sent <= MaxSent
      /\ MaxSent \in Nat /\ server_rest = TRUE
  BY LinesAssumption DEF DownInv, ServerSendsRest
<1>2. crlf \in Unit
  BY <1>1, ServerUnits
<1>3. units \in Seq(Unit) /\ Len(units) = 1 /\ units[1] = crlf
  <2> HIDE DEF crlf
  <2> QED
    BY <1>2
<1>4. /\ UNCHANGED server_sent /\ server_rest' = FALSE /\ net' = Cat(net, units)
      /\ UNCHANGED <<buf, shown>>
  <2>1. net \in Seq(Unit)
    BY DEF DownInv
  <2>2. net' = Append(net, crlf)
    BY DEF ServerSendsRest
  <2> HIDE DEF crlf
  <2>3. net' = Cat(net, units)
    BY <1>2, <2>1, <2>2, AppendIsConcat DEF Cat
  <2> QED
    BY <2>3 DEF ServerSendsRest, client
<1>5. crlf = SentUnit(SentUnits + 1)
  <2>1. server_sent - 1 \in Nat /\ (server_sent - 1) + 1 = server_sent
    BY <1>1
  <2>2. SentUnit(2 * (server_sent - 1) + 2) = crlf
    BY <2>1, LineUnitsSent
  <2>3. SentUnits + 1 = 2 * (server_sent - 1) + 2
    BY <1>1 DEF SentUnits
  <2> QED
    BY <2>2, <2>3
<1>6. SentUnits' = SentUnits + 1
  BY <1>1, <1>4 DEF SentUnits
<1> HIDE DEF units, crlf
<1>7. \A j \in 1..Len(units) : units[j] = SentUnit(SentUnits + j)
  BY <1>3, <1>5
<1>8. server_sent' \in 0..MaxSent /\ server_sent' > 0
  BY <1>1, <1>4
<1>9. server_rest' \in BOOLEAN
  BY <1>4
<1> QED
  BY <1>3, <1>4, <1>6, <1>7, <1>8, <1>9, SendingFlows

(* Steps that leave one of the two directions alone.                        *)
LEMMA DownKept ==
  ASSUME DownInv, UNCHANGED <<server_sent, server_rest, net, buf, shown>>
  PROVE  DownInv'
  BY DEF DownInv, Flow, SentUnits

LEMMA UpKept ==
  ASSUME UpInv, UNCHANGED <<typed, rest, input, stdio, user_buf, outbox>>
  PROVE  UpInv'
  BY DEF UpInv, Pieces, IsConnected, Wire

(* Nothing has been typed, sent or displayed at first.                      *)
LEMMA InitInv == Init => ClientInv
<1> SUFFICES ASSUME Init PROVE ClientInv
  OBVIOUS
<1>1. /\ typed = <<>> /\ rest = <<>> /\ input = <<>> /\ stdio = <<>>
      /\ net = <<>> /\ buf = <<>> /\ outbox = <<>> /\ shown = <<>>
      /\ server_sent = 0 /\ server_rest = FALSE
  BY DEF Init
<1>2. /\ <<>> \in Seq(Typable) /\ <<>> \in Seq(Unit)
      /\ <<>> \in Seq([typed : Seq(Typable), sent : Seq(Unit)])
      /\ <<>> \in Seq(Seq(Unit)) /\ <<>> \in Seq(Seq(Typable)) /\ Len(<<>>) = 0
  OBVIOUS
<1>3. user_buf \in Seq(Unit) /\ Len(user_buf) = UserUnits + 3
  <2>1. Nul \in Unit /\ Junk \in Unit
    BY LinesAssumption DEF Nul, Junk, UnitOf, Unit
  <2>2. user_buf \in [1..(UserUnits + 3) -> Unit]
    BY <2>1 DEF Init
  <2>3. UserUnits + 3 \in Nat
    BY BuffersAssumption
  <2> QED
    BY <2>2, <2>3
<1>4. Pieces = <<>>
  BY <1>1 DEF Pieces
<1>5. FlattenSeq(Pieces) = <<>> /\ FlattenSeq(shown) = <<>>
  BY <1>1, <1>2, <1>4, FlattenAppend
<1>6. Cat(<<>>, <<>>) = <<>>
  BY DEF Cat
<1>7. UpInv
  BY <1>1, <1>2, <1>3, <1>5, <1>6 DEF UpInv
<1>8. Flow
  <2>1. SentUnits = 0
    <3>1. SentUnits = 2 * 0 - 0
      BY <1>1, Zenon DEF SentUnits
    <3> QED
      BY <3>1
  <2>2. Stream(0) = <<>>
    <3>1. 0 \in Nat /\ \A j \in 1..0 : <<>>[j] = SentUnit(j)
      OBVIOUS
    <3> QED
      BY <1>2, <3>1, StreamUnits
  <2> QED
    BY <1>1, <1>2, <1>5, <1>6, <2>1, <2>2 DEF Flow
<1>9. DownInv
  <2>1. /\ server_sent \in 0..MaxSent /\ server_rest \in BOOLEAN
        /\ server_rest => server_sent > 0
    <3>1. server_rest \in BOOLEAN /\ (server_rest => server_sent > 0)
      BY <1>1, Zenon
    <3>2. server_sent \in 0..MaxSent
      BY <1>1, LinesAssumption
    <3> QED
      BY <3>1, <3>2
  <2>2. Len(buf) < BufUnits
    BY <1>1, <1>2, BuffersAssumption
  <2> QED
    BY <1>1, <1>2, <1>8, <2>1, <2>2, Zenon DEF DownInv
<1>10. Flags
  BY DEF Init, Flags
<1> QED
  BY <1>7, <1>9, <1>10 DEF ClientInv

(* Every action preserves the invariant.                                    *)
LEMMA NextInv == ClientInv /\ [Next]_vars => ClientInv'
<1> SUFFICES ASSUME ClientInv, [Next]_vars PROVE ClientInv'
  OBVIOUS
<1>0. UpInv /\ DownInv /\ Flags
  BY DEF ClientInv
<1> USE DEF ClientInv
<1>1. ASSUME NEW len \in LineUnits, NEW what \in Whats, Type(len, what)
      PROVE  ClientInv'
  <2>1. UpInv'
    BY <1>0, <1>1, TypeFlows
  <2>2. DownInv'
    BY <1>0, <1>1, DownKept DEF Type, TypeUnits, remote, client
  <2>3. Flags'
    BY <1>0, <1>1 DEF Type, TypeUnits, remote, client, Flags
  <2> QED
    BY <2>1, <2>2, <2>3
<1>2. ASSUME TypeRest PROVE ClientInv'
  <2>1. UpInv'
    <3>1. rest \in Seq(Typable) /\ <<>> \in Seq(Typable)
      BY <1>0 DEF UpInv
    <3> QED
      BY <1>0, <1>2, <3>1, TypingFlows DEF TypeRest
  <2>2. DownInv'
    BY <1>0, <1>2, DownKept DEF TypeRest, TypeUnits, remote, client
  <2>3. Flags'
    BY <1>0, <1>2 DEF TypeRest, TypeUnits, remote, client, Flags
  <2> QED
    BY <2>1, <2>2, <2>3
<1>3. ASSUME EndInput PROVE ClientInv'
  <2>1. UpInv'
    BY <1>0, <1>3, UpKept DEF EndInput, client
  <2>2. DownInv'
    BY <1>0, <1>3, DownKept DEF EndInput, remote, client
  <2>3. Flags'
    BY <1>0, <1>3 DEF EndInput, remote, client, Flags
  <2> QED
    BY <2>1, <2>2, <2>3
<1>4. ASSUME NEW whole \in BOOLEAN, ServerSends(whole) PROVE ClientInv'
  <2>1. UpInv'
    BY <1>0, <1>4, UpKept DEF ServerSends, user, client
  <2>2. DownInv'
    BY <1>0, <1>4, ServerSendsFlows
  <2>3. Flags'
    BY <1>0, <1>4 DEF ServerSends, user, client, Flags
  <2> QED
    BY <2>1, <2>2, <2>3
<1>5. ASSUME ServerSendsRest PROVE ClientInv'
  <2>1. UpInv'
    BY <1>0, <1>5, UpKept DEF ServerSendsRest, user, client
  <2>2. DownInv'
    BY <1>0, <1>5, ServerSendsRestFlows
  <2>3. Flags'
    BY <1>0, <1>5 DEF ServerSendsRest, user, client, Flags
  <2> QED
    BY <2>1, <2>2, <2>3
<1>6. ASSUME ServerCloses PROVE ClientInv'
  <2>1. UpInv'
    BY <1>0, <1>6, UpKept DEF ServerCloses, user, client
  <2>2. DownInv'
    BY <1>0, <1>6, DownKept DEF ServerCloses, client
  <2>3. Flags'
    BY <1>0, <1>6 DEF ServerCloses, user, client, Flags
  <2> QED
    BY <2>1, <2>2, <2>3
<1>7. ASSUME FillStdio PROVE ClientInv'
  <2>1. UpInv' /\ stdio_ended' \in BOOLEAN
    BY <1>0, <1>7, FillingFlows
  <2>2. DownInv'
    BY <1>0, <1>7, DownKept DEF FillStdio, remote
  <2>3. Flags'
    BY <1>0, <1>7, <2>1 DEF FillStdio, user, remote, Flags
  <2> QED
    BY <2>1, <2>2, <2>3
<1>8. ASSUME SendPiece PROVE ClientInv'
  <2>1. UpInv'
    BY <1>0, <1>8, SendingPieceFlows
  <2>2. DownInv'
    BY <1>0, <1>8, DownKept DEF SendPiece, remote
  <2>3. Flags'
    BY <1>0, <1>8 DEF SendPiece, user, remote, Flags
  <2> QED
    BY <2>1, <2>2, <2>3
<1>9. ASSUME NEW k \in 1..BufUnits, ReadSocket(k) PROVE ClientInv'
  <2>1. UpInv'
    BY <1>0, <1>9, UpKept DEF ReadSocket, user
  <2>2. DownInv'
    BY <1>0, <1>9, ReadingFlows
  <2>3. Flags'
    BY <1>0, <1>9 DEF ReadSocket, user, remote, Flags
  <2> QED
    BY <2>1, <2>2, <2>3
<1>10. ASSUME ShowMessage PROVE ClientInv'
  <2>1. UpInv'
    BY <1>0, <1>10, UpKept DEF ShowMessage, user
  <2>2. DownInv'
    BY <1>0, <1>10, ShowingFlows
  <2>3. Flags'
    BY <1>0, <1>10 DEF ShowMessage, user, remote, Flags
  <2> QED
    BY <2>1, <2>2, <2>3
<1>11. ASSUME \/ Select \/ InputNotReady \/ Killed \/ InputEnds \/ SocketNotReady
              \/ ReadEnd \/ ReadFails \/ EndMessages \/ Interrupted
       PROVE  ClientInv'
  <2>1. UNCHANGED <<typed, rest, input, input_ended, server_sent, server_rest, net,
                    server_closed, stdio, stdio_ended, user_buf, buf, outbox, shown>>
    BY <1>11 DEF Select, InputNotReady, Killed, InputEnds, SocketNotReady, ReadEnd,
                 ReadFails, EndMessages, Interrupted, user, remote
  <2>2. /\ phase' \in {"select", "stdin", "socket", "messages", "ended", "killed"}
        /\ ready' \subseteq {"stdin", "socket"}
    BY <1>0, <1>11
       DEF Select, InputNotReady, Killed, InputEnds, SocketNotReady, ReadEnd,
           ReadFails, EndMessages, Interrupted, Flags, EndPhase
  <2>3. UpInv'
    BY <1>0, <2>1, UpKept
  <2>4. DownInv'
    BY <1>0, <2>1, DownKept
  <2>5. Flags'
    BY <1>0, <2>1, <2>2 DEF Flags
  <2> QED
    BY <2>3, <2>4, <2>5
<1>12. ASSUME UNCHANGED vars PROVE ClientInv'
  <2>1. UpInv'
    BY <1>0, <1>12, UpKept DEF vars, user, client
  <2>2. DownInv'
    BY <1>0, <1>12, DownKept DEF vars, remote, client
  <2>3. Flags'
    BY <1>0, <1>12 DEF vars, user, remote, client, Flags
  <2> QED
    BY <2>1, <2>2, <2>3
<1> QED
  BY <1>1, <1>2, <1>3, <1>4, <1>5, <1>6, <1>7, <1>8, <1>9, <1>10, <1>11, <1>12
     DEF Next, Environment, ClientStep

(* The invariant holds in every state.                                      *)
LEMMA InvHolds == Spec => []ClientInv
  BY InitInv, NextInv, PTL DEF Spec

-----------------------------------------------------------------------------
(* The theorems.                                                            *)

(* The state has its type; in particular buf never fills up, so that there  *)
(* is always room for the next read, and user_buf never changes its size.   *)
THEOREM ClientTypeCorrect == Spec => []TypeOK
<1>1. ClientInv => TypeOK
  <2> SUFFICES ASSUME ClientInv PROVE TypeOK
    OBVIOUS
  <2>1. UpInv /\ DownInv /\ Flags
    BY DEF ClientInv
  <2>2. \A s : s \in Seq(Typable) => s \in Seq(Unit)
    BY SeqMonotonic DEF Typable
  <2>3. {typed, rest, input, net, stdio, buf} \subseteq Seq(Unit)
    BY <2>1, <2>2 DEF UpInv, DownInv
  <2>4. \A i \in DOMAIN outbox : {outbox[i].typed, outbox[i].sent} \subseteq Seq(Unit)
    <3>1. \A i \in DOMAIN outbox : outbox[i] \in [typed : Seq(Typable), sent : Seq(Unit)]
      BY <2>1, LenProperties, ElementOfSeq DEF UpInv
    <3> QED
      BY <2>2, <3>1
  <2>5. \A i \in DOMAIN shown : shown[i] \in Seq(Unit)
    BY <2>1, LenProperties, ElementOfSeq DEF DownInv
  <2> QED
    BY <2>1, <2>3, <2>4, <2>5 DEF TypeOK, UpInv, DownInv, Flags
<1> QED
  BY <1>1, InvHolds, PTL

(* What the user types goes out in order, nothing skipped and nothing twice,*)
(* however long the lines are and however stdio cuts them; and of a line    *)
(* that is not "\connected" exactly its text and CR LF go out, whatever     *)
(* earlier lines have left in user_buf.                                     *)
THEOREM TypedIsSent == Spec => []SentIsTyped
<1>1. ClientInv => SentIsTyped
  <2> SUFFICES ASSUME ClientInv PROVE SentIsTyped
    OBVIOUS
  <2>1. DOMAIN outbox = 1..Len(outbox)
    BY LenProperties DEF ClientInv, UpInv
  <2> QED
    BY <2>1 DEF ClientInv, UpInv, SentIsTyped, Pieces, Cat
<1> QED
  BY <1>1, InvHolds, PTL

(* What the server sends is displayed in order, one line at a time, however *)
(* the reads cut and join it.                                               *)
THEOREM SentIsShown == Spec => []ShownIsSent
<1>1. ClientInv => ShownIsSent
  <2> SUFFICES ASSUME ClientInv PROVE ShownIsSent
    OBVIOUS
  <2>1. DownInv
    BY DEF ClientInv
  <2>2. DOMAIN shown = 1..Len(shown)
    BY <2>1, LenProperties DEF DownInv
  <2>3. Cat(Cat(FlattenSeq(shown), buf), net) = Stream(SentUnits)
    <3>1. /\ FlattenSeq(shown) \in Seq(Unit) /\ buf \in Seq(Unit) /\ net \in Seq(Unit)
      BY <2>1, DownTypes
    <3>2. Cat(Cat(FlattenSeq(shown), buf), net) = Cat(FlattenSeq(shown), Cat(buf, net))
      BY <3>1, CatRegroup
    <3> QED
      BY <2>1, <3>2 DEF DownInv, Flow
  <2>4. FlattenSeq(shown) \o buf \o net = Stream(SentUnits)
    BY <2>3 DEF Cat
  <2>5. Stream(SentUnits) = [i \in 1..SentUnits |->
                               UnitOf((i + 1) \div 2, IF i % 2 = 1 THEN "text" ELSE "crlf")]
    BY DEF Stream, SentUnit
  <2> QED
    BY <2>1, <2>2, <2>4, <2>5, Zenon DEF ShownIsSent, DownInv, Flow, SentUnits
<1> QED
  BY <1>1, InvHolds, PTL
=============================================================================
