--------------------------- MODULE ChatServerProofs ---------------------------
(* Theorems about ChatServer, for every number of connections and lines,    *)
(* every size of the buffer and of a message, and however the streams are   *)
(* cut.                                                                     *)
EXTENDS ChatServer, SequenceTheorems, FiniteSetTheorems, TLAPS

-----------------------------------------------------------------------------
(* Facts about the operators.                                               *)

(* A set of numbers that is not empty has a least element.                  *)
LEMMA LeastIsLeast ==
  ASSUME NEW S \in SUBSET Nat, S # {}
  PROVE  Least(S) \in S /\ \A y \in S : Least(S) <= y
<1> DEFINE less == {ss \in Nat \X Nat : ss[1] < ss[2]}
<1>1. IsWellFoundedOn(less, Nat)
  BY NatLessThanWellFounded DEF OpToRel
<1>2. PICK x \in S : \A y \in S : ~(<<y, x>> \in less)
  BY <1>1, WFMin
<1>3. ASSUME NEW y \in S PROVE x <= y
  <2>1. ~(y < x)
    <3>1. <<y, x>> \in Nat \X Nat /\ <<y, x>> \notin less
      BY <1>2
    <3> QED
      BY <3>1
  <2> QED
    BY <2>1
<1> QED
  BY <1>3 DEF Least

(* While a connection has no descriptor, accept finds a free one.           *)
LEMMA FreeFdExists ==
  ASSUME fd \in [Conn -> 0..MaxConns], NEW c \in Conn, fd[c] = 0
  PROVE  FreeFd \in 1..MaxConns /\ \A d \in Conn : fd[d] # FreeFd
<1> DEFINE used == {fd[d] : d \in Conn}
           free == 1..MaxConns \ used
<1>1. MaxConns \in Nat
  BY BoundsAssumption
<1>2. IsFiniteSet(Conn) /\ Cardinality(Conn) = MaxConns
  BY <1>1, FS_Interval DEF Conn
<1>3. IsFiniteSet(used) /\ Cardinality(used) <= MaxConns
  <2>1. fd \in Surjection(Conn, used)
    BY DEF Surjection
  <2> QED
    BY <1>2, <2>1, FS_Surjection
<1>4. IsFiniteSet(0..MaxConns) /\ Cardinality(0..MaxConns) = MaxConns + 1
  BY <1>1, FS_Interval
<1>5. ASSUME free = {} PROVE FALSE
  <2>1. 0..MaxConns \subseteq used
    BY <1>1, <1>5
  <2> QED
    BY <2>1, <1>1, <1>3, <1>4, FS_Subset, FS_CardinalityType
<1>6. free \in SUBSET Nat
  BY <1>1
<1>7. Least(free) \in free
  BY <1>5, <1>6, LeastIsLeast
<1> QED
  BY <1>7 DEF FreeFd

(* Taking one place out of a list keeps the others, in their order.         *)
LEMMA RemoveAtProperties ==
  ASSUME NEW S, NEW s \in Seq(S), NEW i \in 1..Len(s)
  PROVE  /\ RemoveAt(s, i) \in Seq(S)
         /\ Len(RemoveAt(s, i)) = Len(s) - 1
         /\ \A k \in 1..Len(s) - 1 :
               RemoveAt(s, i)[k] = IF k < i THEN s[k] ELSE s[k + 1]
<1> DEFINE a == SubSeq(s, 1, i - 1)
           b == SubSeq(s, i + 1, Len(s))
<1>1. Len(s) \in Nat /\ \A k \in 1..Len(s) : s[k] \in S
  BY LenProperties, ElementOfSeq
<1>2. a \in Seq(S) /\ Len(a) = i - 1 /\ \A k \in 1..i - 1 : a[k] = s[k]
  <2>1. \A k \in 1..i - 1 : s[k] \in S
    BY <1>1
  <2> QED
    BY <1>1, <2>1, SubSeqProperties, 1 \in Int, i - 1 \in Int
<1>3. b \in Seq(S) /\ Len(b) = Len(s) - i /\ \A k \in 1..Len(s) - i : b[k] = s[i + k]
  <2>1. \A k \in i + 1..Len(s) : s[k] \in S
    BY <1>1
  <2> QED
    BY <1>1, <2>1, SubSeqProperties, i + 1 \in Int, Len(s) \in Int
<1>4. /\ a \o b \in Seq(S) /\ Len(a \o b) = Len(a) + Len(b)
      /\ \A k \in 1..Len(a) + Len(b) :
            (a \o b)[k] = IF k <= Len(a) THEN a[k] ELSE b[k - Len(a)]
  BY <1>2, <1>3, ConcatProperties
<1> HIDE DEF a, b
<1>5. RemoveAt(s, i) = a \o b
  BY DEF RemoveAt, a, b
<1>6. Len(a) + Len(b) = Len(s) - 1
  BY <1>1, <1>2, <1>3
<1>7. ASSUME NEW k \in 1..Len(s) - 1
      PROVE  (a \o b)[k] = IF k < i THEN s[k] ELSE s[k + 1]
  <2>1. CASE k < i
    BY <2>1, <1>1, <1>2, <1>4, <1>6
  <2>2. CASE ~(k < i)
    <3>1. k - Len(a) \in 1..Len(s) - i /\ i + (k - Len(a)) = k + 1
      BY <2>2, <1>1, <1>2
    <3>2. b[k - Len(a)] = s[k + 1]
      BY <3>1, <1>3
    <3>3. k \in 1..Len(a) + Len(b) /\ ~(k <= Len(a))
      BY <2>2, <1>1, <1>2, <1>6
    <3>4. (a \o b)[k] = b[k - Len(a)]
      BY <3>3, <1>4
    <3> QED
      BY <2>2, <3>2, <3>4
  <2> QED
    BY <2>1, <2>2
<1> QED
  BY <1>4, <1>5, <1>6, <1>7

-----------------------------------------------------------------------------
(* The inductive invariant.                                                 *)

(* The connections that wait for accept wait once, and have no descriptor   *)
(* yet; when select has reported the listener, there is one.                *)
Queued ==
    /\ \A i \in DOMAIN backlog : life[backlog[i]] = "pending"
    /\ \A i, j \in DOMAIN backlog : backlog[i] = backlog[j] => i = j
    /\ phase = "accept" /\ Listener \in listen_fds => backlog # <<>>
    /\ \A c \in Conn : fd[c] # 0 <=> life[c] = "open"

(* WatchedAreListed, with the length of the list said by its members: none  *)
(* is listed twice.                                                         *)
Listed ==
    /\ \A c \in Conn : fd[c] # 0 <=> \E i \in DOMAIN clients : clients[i] = c
    /\ \A i, j \in DOMAIN clients : clients[i] = clients[j] => i = j
    /\ \A c, d \in Open : fd[c] = fd[d] => c = d
    /\ all_fds = {Listener} \cup {fd[c] : c \in Open}
    /\ \A f \in all_fds : f <= max_fd
    /\ phase \in {"scan", "messages"} => curr \in Open
    /\ phase # "exited"

ServerInv == TypeOK /\ Queued /\ Listed

(* The client that the scan is at has a place in the list.                  *)
LEMMA PositionFound ==
  ASSUME ServerInv, phase \in {"scan", "messages"}
  PROVE  /\ curr \in Conn /\ fd[curr] \in 1..MaxConns
         /\ Position(curr) \in 1..Len(clients) /\ clients[Position(curr)] = curr
<1>1. curr \in Conn /\ fd[curr] # 0
  BY DEF ServerInv, Listed, Open
<1>2. \E i \in DOMAIN clients : clients[i] = curr
  BY <1>1 DEF ServerInv, Listed
<1>3. Position(curr) \in DOMAIN clients /\ clients[Position(curr)] = curr
  BY <1>2 DEF Position
<1>4. DOMAIN clients = 1..Len(clients)
  BY LenProperties DEF ServerInv, TypeOK
<1>5. fd[curr] \in 1..MaxConns
  BY <1>1, BoundsAssumption DEF ServerInv, TypeOK
<1> QED
  BY <1>1, <1>3, <1>4, <1>5

(* What accept takes and returns.                                           *)
LEMMA AcceptFacts ==
  ASSUME ServerInv, phase = "accept", Listener \in listen_fds
  PROVE  /\ backlog # <<>> /\ 1 \in DOMAIN backlog /\ backlog[1] \in Conn
         /\ life[backlog[1]] = "pending" /\ fd[backlog[1]] = 0
         /\ FreeFd \in 1..MaxConns /\ \A d \in Conn : fd[d] # FreeFd
         /\ SubSeq(backlog, 2, Len(backlog)) \in Seq(Conn)
         /\ DOMAIN SubSeq(backlog, 2, Len(backlog)) = 1..Len(backlog) - 1
         /\ DOMAIN backlog = 1..Len(backlog)
         /\ \A i \in 1..Len(backlog) - 1 :
               SubSeq(backlog, 2, Len(backlog))[i] = backlog[i + 1]
<1>1. backlog \in Seq(Conn) /\ backlog # <<>>
  BY DEF ServerInv, TypeOK, Queued
<1>2. /\ Len(backlog) \in Nat \ {0} /\ DOMAIN backlog = 1..Len(backlog)
      /\ \A i \in 1..Len(backlog) : backlog[i] \in Conn
  BY <1>1, EmptySeq, LenProperties, ElementOfSeq
<1>3. life[backlog[1]] = "pending" /\ fd[backlog[1]] = 0
  BY <1>2 DEF ServerInv, Queued
<1>4. FreeFd \in 1..MaxConns /\ \A d \in Conn : fd[d] # FreeFd
  <2>1. fd \in [Conn -> 0..MaxConns]
    BY DEF ServerInv, TypeOK
  <2> QED
    BY <1>2, <1>3, <2>1, FreeFdExists
<1>5. \A i \in 2..Len(backlog) : backlog[i] \in Conn
  BY <1>2
<1>6. /\ SubSeq(backlog, 2, Len(backlog)) \in Seq(Conn)
      /\ Len(SubSeq(backlog, 2, Len(backlog))) = Len(backlog) - 1
      /\ \A i \in 1..Len(backlog) - 1 :
            SubSeq(backlog, 2, Len(backlog))[i] = backlog[i + 1]
  BY <1>2, <1>5, SubSeqProperties, 2 \in Int, Len(backlog) \in Int
<1>7. DOMAIN SubSeq(backlog, 2, Len(backlog)) = 1..Len(backlog) - 1
  BY <1>6, LenProperties
<1> QED
  BY <1>1, <1>2, <1>3, <1>4, <1>6, <1>7

(* A list without one of its clients: the others are in it, once each.      *)
LEMMA ListWithout ==
  ASSUME ServerInv, phase \in {"scan", "messages"},
         NEW list, list = RemoveAt(clients, Position(curr))
  PROVE  /\ list \in Seq(Conn)
         /\ \A i, j \in DOMAIN list : list[i] = list[j] => i = j
         /\ \A d \in Conn : (\E i \in DOMAIN list : list[i] = d)
              <=> d # curr /\ \E i \in DOMAIN clients : clients[i] = d
<1> DEFINE p == Position(curr)
<1>1. /\ clients \in Seq(Conn) /\ p \in 1..Len(clients) /\ clients[p] = curr
      /\ \A i, j \in DOMAIN clients : clients[i] = clients[j] => i = j
  BY PositionFound DEF ServerInv, TypeOK, Listed
<1>2. Len(clients) \in Nat /\ DOMAIN clients = 1..Len(clients)
  BY <1>1, LenProperties
<1>3. /\ list \in Seq(Conn) /\ Len(list) = Len(clients) - 1
      /\ \A k \in 1..Len(clients) - 1 :
            list[k] = IF k < p THEN clients[k] ELSE clients[k + 1]
  BY <1>1, RemoveAtProperties
<1>4. DOMAIN list = 1..Len(clients) - 1
  BY <1>3, LenProperties
<1> HIDE DEF p
<1> DEFINE from(k) == IF k < p THEN k ELSE k + 1
<1>5. ASSUME NEW k \in DOMAIN list
      PROVE  from(k) \in DOMAIN clients /\ from(k) # p /\ list[k] = clients[from(k)]
  BY <1>1, <1>2, <1>3, <1>4
<1>6. ASSUME NEW k \in DOMAIN list, NEW j \in DOMAIN list, from(k) = from(j)
      PROVE  k = j
  BY <1>1, <1>2, <1>4, <1>6
<1>7. p \in DOMAIN clients
  BY <1>1, <1>2
<1> HIDE DEF from
<1>8. \A i, j \in DOMAIN list : list[i] = list[j] => i = j
  BY <1>1, <1>5, <1>6
<1>9. ASSUME NEW i \in DOMAIN list
      PROVE  list[i] # curr /\ \E k \in DOMAIN clients : clients[k] = list[i]
  BY <1>1, <1>5, <1>7
<1>10. ASSUME NEW k \in DOMAIN clients, clients[k] # curr
      PROVE  \E i \in DOMAIN list : list[i] = clients[k]
  <2>1. CASE k < p
    <3>1. k \in DOMAIN list /\ list[k] = clients[k]
      BY <2>1, <1>1, <1>2, <1>3, <1>4
    <3> QED
      BY <3>1
  <2>2. CASE k > p
    <3>1. k - 1 \in DOMAIN list /\ ~(k - 1 < p) /\ k - 1 + 1 = k
      BY <2>2, <1>1, <1>2, <1>4
    <3>2. list[k - 1] = clients[k]
      BY <3>1, <1>3, <1>4
    <3> QED
      BY <3>1, <3>2
  <2> QED
    BY <2>1, <2>2, <1>1, <1>2, <1>10
<1> QED
  BY <1>3, <1>8, <1>9, <1>10

(* The initial state.                                                       *)
LEMMA InitInv == Init => ServerInv
<1> SUFFICES ASSUME Init PROVE ServerInv
  OBVIOUS
<1> USE BoundsAssumption DEF Init
<1>1. /\ <<>> \in Seq(Unit) /\ <<>> \in Seq(Conn) /\ Nul \in Unit
      /\ DOMAIN <<>> = {}
  BY EmptySeq DEF Unit
<1>2. TypeOK
  BY <1>1 DEF TypeOK, Listener, NULL
<1>3. Queued
  BY <1>1 DEF Queued
<1>4. Listed
  BY <1>1 DEF Listed, Open, Listener
<1> QED
  BY <1>2, <1>3, <1>4 DEF ServerInv

-----------------------------------------------------------------------------
(* Type correctness.                                                        *)

(* Units that lines are made of.                                            *)
LEMMA UnitsTyped ==
  /\ Nul \in Unit
  /\ \A n \in Nat \ {0}, what \in Whats :
        TextUnit(n, what) \in Unit /\ EndUnit(n, what) \in Unit
  /\ \A u \in Unit : u.part = "head" => [u EXCEPT !.part = "tail"] \in Unit
  BY WhatsAssumption DEF Unit, TextUnit, EndUnit, Nul

(* A client numbers its lines.                                              *)
LEMMA LinesCounted ==
  ASSUME TypeOK, NEW c \in Conn
  PROVE  LinesSent(c) \in Nat
<1> DEFINE ns == {sent[c][i].n : i \in DOMAIN sent[c]}
           f == [i \in DOMAIN sent[c] |-> sent[c][i].n]
<1>1. DOMAIN sent[c] = 1..Len(sent[c]) /\ Len(sent[c]) \in Nat
  BY LenProperties DEF TypeOK
<1>2. IsFiniteSet(DOMAIN sent[c])
  BY <1>1, FS_Interval
<1>3. f \in Surjection(DOMAIN sent[c], ns)
  BY DEF Surjection
<1>4. IsFiniteSet(ns)
  BY <1>2, <1>3, FS_Surjection
<1> QED
  BY <1>4, FS_CardinalityType DEF LinesSent

(* What a client writes are units, and they arrive behind the others.       *)
LEMMA TransmitTyped ==
  ASSUME TypeOK, NEW c \in Conn, NEW units \in Seq(Unit), Transmit(c, units)
  PROVE  TypeOK'
<1>1. sent[c] \o units \in Seq(Unit) /\ net[c] \o units \in Seq(Unit)
  BY ConcatProperties DEF TypeOK
<1>2. sent' \in [Conn -> Seq(Unit)] /\ net' \in [Conn -> Seq(Unit)]
  BY <1>1 DEF TypeOK, Transmit
<1> QED
  BY <1>2 DEF TypeOK, Transmit, serverVars, buffers, watch, histories

(* The places that a read leaves behind, in the stream and in the buffer.   *)
LEMMA ReadTyped ==
  ASSUME TypeOK, curr \in Conn, NEW k \in 1..BufUnits, Read(k)
  PROVE  /\ net' \in [Conn -> Seq(Unit)]
         /\ Filled(curr, k) \in [1..BufUnits -> Unit]
         /\ inbuf[curr] + k \in 1..BufUnits
         /\ ~Overflows(k) => inbuf[curr] + k \in 1..(BufUnits - 1)
<1>1. /\ net[curr] \in Seq(Unit) /\ inbuf[curr] \in 0..(BufUnits - 1)
      /\ mem[curr] \in [1..BufUnits -> Unit]
      /\ k <= Len(net[curr]) /\ k <= BufUnits - inbuf[curr]
      /\ net' = [net EXCEPT ![curr] = SubSeq(net[curr], k + 1, Len(net[curr]))]
      /\ BufUnits \in Nat
  BY BoundsAssumption DEF TypeOK, Read, Room
<1>2. Len(net[curr]) \in Nat /\ \A i \in 1..Len(net[curr]) : net[curr][i] \in Unit
  BY <1>1, LenProperties, ElementOfSeq
<1>3. SubSeq(net[curr], k + 1, Len(net[curr])) \in Seq(Unit)
  <2>1. \A i \in k + 1..Len(net[curr]) : net[curr][i] \in Unit
    BY <1>2
  <2> QED
    BY <1>2, <2>1, SubSeqProperties, k + 1 \in Int, Len(net[curr]) \in Int
<1>4. net' \in [Conn -> Seq(Unit)]
  BY <1>1, <1>3 DEF TypeOK
<1>5. ASSUME NEW i \in 1..BufUnits
      PROVE  (IF inbuf[curr] < i /\ i <= inbuf[curr] + k THEN net[curr][i - inbuf[curr]]
              ELSE mem[curr][i]) \in Unit
  BY <1>1, <1>2, SMTT(30)
<1>6. Filled(curr, k) \in [1..BufUnits -> Unit]
  BY <1>5 DEF Filled
<1>7. inbuf[curr] + k \in 1..BufUnits
  BY <1>1
<1>8. ~Overflows(k) => inbuf[curr] + k \in 1..(BufUnits - 1)
  BY <1>1 DEF Overflows
<1> QED
  BY <1>4, <1>6, <1>7, <1>8

(* Removing a client keeps the types.                                       *)
LEMMA DropTyped ==
  ASSUME ServerInv, phase = "scan", Drop(curr),
         net' \in [Conn -> Seq(Unit)], UNCHANGED <<buffers, histories>>
  PROVE  TypeOK'
<1>1. curr \in Conn
  BY PositionFound
<1>2. clients' \in Seq(Conn)
  BY ListWithout DEF Drop
<1>3. /\ life' \in [Conn -> {"new", "pending", "open", "gone"}]
      /\ fd' \in [Conn -> 0..MaxConns] /\ all_fds' \subseteq 0..MaxConns
      /\ curr' = NULL /\ phase' = "select"
  BY <1>1, BoundsAssumption DEF Drop, ServerInv, TypeOK
<1> QED
  BY <1>2, <1>3, SMTT(30) DEF Drop, ServerInv, TypeOK, buffers, histories

(* The first part of the buffer, as it is taken, is a sequence of units.    *)
LEMMA TakenTyped ==
  ASSUME NEW m \in [1..BufUnits -> Unit], NEW k \in 0..BufUnits
  PROVE  SubSeq(m, 1, k) \in Seq(Unit)
<1>1. \A i \in 1..k : m[i] \in Unit
  BY BoundsAssumption
<1> QED
  BY <1>1, SubSeqProperties, 1 \in Int, k \in Int, BoundsAssumption

(* A chunk keeps the types.                                                 *)
LEMMA ChunkTyped ==
  ASSUME TypeOK, curr \in Conn, NEW m \in [1..BufUnits -> Unit],
         NEW k \in 0..BufUnits, net' \in [Conn -> Seq(Unit)], Chunk(m, k)
  PROVE  TypeOK'
<1>1. handled[curr] \o SubSeq(m, 1, k) \in Seq(Unit)
  BY TakenTyped, ConcatProperties DEF TypeOK
<1>2. handled' \in [Conn -> Seq(Unit)]
  BY <1>1 DEF TypeOK, Chunk
<1>3. [Cut(m) EXCEPT ![1] = Nul] \in [1..BufUnits -> Unit]
  BY UnitsTyped DEF Cut
<1>4. mem' \in [Conn -> [1..BufUnits -> Unit]] /\ inbuf' \in [Conn -> 0..(BufUnits - 1)]
  BY <1>3, BoundsAssumption DEF TypeOK, Chunk
<1> QED
  BY <1>2, <1>4, SMTT(30) DEF TypeOK, Chunk, watch

(* Cutting a message out of the buffer keeps the types.                     *)
LEMMA TakeMessageTyped ==
  ASSUME ServerInv, HasMessage, TakeMessage(curr)
  PROVE  /\ TypeOK'
         /\ MessageUnits(curr) \in 1..inbuf[curr]
<1>1. curr \in Conn /\ inbuf[curr] \in 0..(BufUnits - 1) /\ BufUnits \in Nat
  BY PositionFound, BoundsAssumption DEF HasMessage, ServerInv, TypeOK
<1>2. MessageUnits(curr) \in 1..inbuf[curr]
  <2>1. Newlines(mem[curr], inbuf[curr]) \in SUBSET Nat
    BY <1>1 DEF Newlines
  <2> QED
    BY <2>1, LeastIsLeast DEF HasMessage, MessageUnits, Newlines
<1> DEFINE k == MessageUnits(curr)
<1>3. handled[curr] \o SubSeq(mem[curr], 1, k) \in Seq(Unit)
  <2>1. SubSeq(mem[curr], 1, k) \in Seq(Unit)
    BY <1>1, <1>2, TakenTyped DEF ServerInv, TypeOK
  <2> QED
    BY <1>1, <2>1, ConcatProperties DEF ServerInv, TypeOK
<1>4. [i \in 1..BufUnits |-> IF i <= inbuf[curr] - k THEN mem[curr][i + k] ELSE mem[curr][i]]
        \in [1..BufUnits -> Unit]
  BY <1>1, <1>2, SMTT(30) DEF ServerInv, TypeOK
<1>5. /\ mem' = [mem EXCEPT ![curr] = [i \in 1..BufUnits |->
                    IF i <= inbuf[curr] - k THEN mem[curr][i + k] ELSE mem[curr][i]]]
      /\ inbuf' = [inbuf EXCEPT ![curr] = inbuf[curr] - k]
      /\ handled' = [handled EXCEPT ![curr] = handled[curr] \o SubSeq(mem[curr], 1, k)]
  BY <1>1 DEF TakeMessage, ServerInv, TypeOK
<1>6. k \in 1..inbuf[curr]
  BY <1>2
<1> HIDE DEF k
<1>7. inbuf[curr] - k \in 0..(BufUnits - 1)
  BY <1>1, <1>6
<1>8. /\ handled' \in [Conn -> Seq(Unit)] /\ mem' \in [Conn -> [1..BufUnits -> Unit]]
      /\ inbuf' \in [Conn -> 0..(BufUnits - 1)]
  BY <1>3, <1>4, <1>5, <1>7 DEF ServerInv, TypeOK
<1>9. TypeOK'
  BY <1>8, SMTT(30) DEF ServerInv, TypeOK, TakeMessage, network, watch
<1> QED
  BY <1>2, <1>9

(* Every step keeps the types.                                              *)
LEMMA TypeStep == ServerInv /\ [Next]_vars => TypeOK'
<1> SUFFICES ASSUME ServerInv, [Next]_vars PROVE TypeOK'
  OBVIOUS
<1>0. TypeOK
  BY DEF ServerInv
<1>1. ASSUME NEW c \in Conn, Connect(c) PROVE TypeOK'
  <2>1. Append(backlog, c) \in Seq(Conn)
    BY <1>0, AppendProperties DEF TypeOK
  <2> QED
    BY <1>0, <1>1, <2>1 DEF Connect, TypeOK, buffers, watch, histories
<1>2. ASSUME NEW c \in Conn, NEW what \in Whats, SendLine(c, what) PROVE TypeOK'
  <2> DEFINE n == LinesSent(c) + 1
  <2>1. n \in Nat \ {0}
    BY <1>0, LinesCounted
  <2>2. TextUnit(n, what) \in Unit /\ EndUnit(n, what) \in Unit
    BY <2>1, UnitsTyped
  <2>3. /\ <<TextUnit(n, what), EndUnit(n, what)>> \in Seq(Unit)
        /\ <<TextUnit(n, what)>> \in Seq(Unit)
    BY <2>2
  <2>4. \/ Transmit(c, <<TextUnit(n, what), EndUnit(n, what)>>)
        \/ Transmit(c, <<TextUnit(n, what)>>)
    BY <1>2 DEF SendLine
  <2> QED
    BY <1>0, <2>3, <2>4, TransmitTyped
<1>3. ASSUME NEW c \in Conn, SendRest(c) PROVE TypeOK'
  <2>1. sent[c] \in Seq(Unit) /\ sent[c] # <<>>
    BY <1>0, <1>3 DEF TypeOK, SendRest, InLine
  <2>2. Last(sent[c]) \in Unit
    BY <2>1, EmptySeq, ElementOfSeq DEF Last
  <2>3. <<[Last(sent[c]) EXCEPT !.part = "tail"]>> \in Seq(Unit)
    BY <1>3, <2>2, UnitsTyped DEF SendRest, InLine
  <2> QED
    BY <1>0, <1>3, <2>3, TransmitTyped DEF SendRest
<1>4. ASSUME NEW c \in Conn, Close(c) PROVE TypeOK'
  BY <1>0, <1>4 DEF Close, TypeOK, serverVars, buffers, watch, histories
<1>5. CASE Select
  <2>1. listen_fds' \subseteq 0..MaxConns /\ phase' \in {"accept", "exited"}
    BY <1>0, <1>5 DEF Select, ReadyFds, TypeOK
  <2> QED
    BY <1>0, <1>5, <2>1 DEF Select, TypeOK, network, buffers, histories
<1>6. CASE NoAccept
  <2>1. clients # <<>> => clients[1] \in Conn
    BY <1>0, EmptySeq, ElementOfSeq DEF TypeOK
  <2> QED
    BY <1>0, <1>6, <2>1 DEF NoAccept, StartScan, TypeOK, network, buffers, watch, histories
<1>7. CASE Accept
  <2> DEFINE c == backlog[1]
  <2>1. /\ c \in Conn /\ FreeFd \in 1..MaxConns
        /\ SubSeq(backlog, 2, Len(backlog)) \in Seq(Conn)
    BY <1>7, AcceptFacts DEF Accept
  <2>2. Append(clients, c) \in Seq(Conn) /\ Append(clients, c)[1] \in Conn
        /\ Append(clients, c) # <<>>
    <3>1. clients \in Seq(Conn) /\ Len(clients) \in Nat
      BY <1>0, LenProperties DEF TypeOK
    <3>2. /\ Append(clients, c) \in Seq(Conn) /\ Append(clients, c) # <<>>
          /\ Len(Append(clients, c)) = Len(clients) + 1
      BY <2>1, <3>1, AppendProperties
    <3>3. 1 \in 1..Len(Append(clients, c))
      BY <3>1, <3>2
    <3> QED
      BY <3>2, <3>3, ElementOfSeq
  <2>3. [i \in 1..BufUnits |-> Nul] \in [1..BufUnits -> Unit] /\ 0 \in 0..(BufUnits - 1)
    BY UnitsTyped, BoundsAssumption
  <2> HIDE DEF c
  <2>4. /\ backlog' = SubSeq(backlog, 2, Len(backlog))
        /\ life' = [life EXCEPT ![c] = "open"]
        /\ fd' = [fd EXCEPT ![c] = FreeFd]
        /\ mem' = [mem EXCEPT ![c] = [i \in 1..BufUnits |-> Nul]]
        /\ inbuf' = [inbuf EXCEPT ![c] = 0]
        /\ clients' = Append(clients, c)
        /\ all_fds' = all_fds \cup {FreeFd}
        /\ max_fd' = (IF FreeFd > max_fd THEN FreeFd ELSE max_fd)
        /\ phase' = "scan" /\ curr' = Append(clients, c)[1]
        /\ UNCHANGED <<host, sent, net, closed, listen_fds, histories>>
    BY <1>7, <2>2 DEF Accept, StartScan, c
  <2>5. max_fd' \in 0..MaxConns /\ all_fds' \subseteq 0..MaxConns
    <3>1. /\ all_fds \subseteq 0..MaxConns /\ max_fd \in 0..MaxConns
          /\ FreeFd \in 0..MaxConns
      BY <1>0, <2>1, BoundsAssumption DEF TypeOK
    <3> QED
      BY <2>4, <3>1
  <2> QED
    BY <1>0, <2>1, <2>2, <2>3, <2>4, <2>5, BoundsAssumption DEF TypeOK, histories
<1>8. CASE Refuse
  <2>1. backlog[1] \in Conn /\ SubSeq(backlog, 2, Len(backlog)) \in Seq(Conn)
    BY <1>8, AcceptFacts DEF Refuse
  <2> QED
    BY <1>0, <1>8, <2>1 DEF Refuse, TypeOK, buffers, watch, histories
<1>9. ASSUME phase \in {"scan", "messages"}, Advance,
             UNCHANGED <<network, backlog, clients, fd, buffers, watch, histories>>
      PROVE  TypeOK'
  <2>1. curr' \in Conn \cup {NULL}
    <3>1. /\ Position(curr) \in 1..Len(clients) /\ Len(clients) \in Nat
          /\ \A i \in 1..Len(clients) : clients[i] \in Conn
      BY <1>0, <1>9, PositionFound, LenProperties, ElementOfSeq DEF TypeOK
    <3> QED
      BY <1>9, <3>1 DEF Advance, Successor
  <2>2. phase' \in {"select", "scan"}
    BY <1>9 DEF Advance
  <2> QED
    BY <1>0, <1>9, <2>1, <2>2 DEF TypeOK, network, buffers, watch, histories
<1>10. CASE Skip
  BY <1>9, <1>10 DEF Skip
<1>11. CASE EndMessages
  BY <1>9, <1>11 DEF EndMessages
<1>12. Reading => phase = "scan" /\ curr \in Conn
  BY PositionFound DEF Reading
<1>13. CASE ReadFails \/ ReadEnd
  BY <1>0, <1>12, <1>13, DropTyped DEF ReadFails, ReadEnd, TypeOK
<1>14. CASE ReadEndChunk
  <2>1. inbuf[curr] \in 0..BufUnits /\ mem[curr] \in [1..BufUnits -> Unit]
        /\ net' \in [Conn -> Seq(Unit)]
    BY <1>0, <1>12, <1>14, BoundsAssumption DEF TypeOK, ReadEndChunk
  <2> QED
    BY <1>0, <1>12, <1>14, <2>1, ChunkTyped DEF ReadEndChunk
<1>15. ASSUME NEW k \in 1..BufUnits, ReadOverflow(k) PROVE TypeOK'
  BY <1>0, <1>12, <1>15, ReadTyped, DropTyped DEF ReadOverflow, Read
<1>16. ASSUME NEW k \in 1..BufUnits, ReadLines(k) PROVE TypeOK'
  <2>1. /\ net' \in [Conn -> Seq(Unit)]
        /\ Filled(curr, k) \in [1..BufUnits -> Unit]
        /\ inbuf[curr] + k \in 1..(BufUnits - 1) /\ curr \in Conn
    BY <1>0, <1>12, <1>16, ReadTyped DEF ReadLines, Read
  <2>2. mem' \in [Conn -> [1..BufUnits -> Unit]] /\ inbuf' \in [Conn -> 0..(BufUnits - 1)]
    BY <1>0, <1>16, <2>1, BoundsAssumption DEF TypeOK, ReadLines
  <2> QED
    BY <1>0, <1>16, <2>1, <2>2, SMTT(30) DEF TypeOK, ReadLines, watch, histories
<1>17. ASSUME NEW k \in 1..BufUnits, ReadChunk(k) PROVE TypeOK'
  <2>1. /\ net' \in [Conn -> Seq(Unit)]
        /\ Filled(curr, k) \in [1..BufUnits -> Unit]
        /\ inbuf[curr] + k \in 0..BufUnits /\ curr \in Conn
    <3>1. Read(k) /\ Reading /\ curr \in Conn
      BY <1>12, <1>17 DEF ReadChunk, Read
    <3>2. inbuf[curr] + k \in 1..BufUnits
      BY <1>0, <3>1, ReadTyped
    <3> QED
      BY <1>0, <3>1, <3>2, ReadTyped
  <2> QED
    BY <1>0, <1>17, <2>1, ChunkTyped DEF ReadChunk
<1>18. CASE BroadcastMessage \/ AnswerConnected
  BY <1>18, TakeMessageTyped DEF BroadcastMessage, AnswerConnected
<1>19. CASE UNCHANGED vars
  BY <1>0, <1>19 DEF vars, TypeOK, network, buffers, watch, histories
<1> QED
  BY <1>1, <1>2, <1>3, <1>4, <1>5, <1>6, <1>7, <1>8, <1>10, <1>11, <1>13, <1>14,
     <1>15, <1>16, <1>17, <1>18, <1>19 DEF Next, ClientStep, ServerStep

-----------------------------------------------------------------------------
(* The queue of connections, the list, and what select watches.             *)

(* The steps that leave the server's records of its clients as they are:    *)
(* what a client does to an open connection, and what the server does with  *)
(* the text of a client.                                                    *)
RecordsKept ==
    /\ UNCHANGED <<life, backlog, clients, fd, all_fds, max_fd, listen_fds>>
    /\ \/ UNCHANGED <<phase, curr>>
       \/ phase \in {"scan", "messages"} /\ phase' = "messages" /\ curr' = curr
       \/ phase # "exited" /\ phase' = "select"
       \/ phase # "exited" /\ phase' = "scan" /\ curr' \in Open

(* The steps that are neither about a connection that comes nor one that    *)
(* goes keep the records.                                                   *)
LEMMA OtherStepsKeepRecords ==
  ASSUME ServerInv, [Next]_vars,
         ~(\E c \in Conn : Connect(c)), ~Select, ~Accept, ~Refuse,
         ~(phase = "scan" /\ Drop(curr))
  PROVE  RecordsKept
<1>1. ASSUME NEW c \in Conn, NEW units, Transmit(c, units) PROVE RecordsKept
  BY <1>1 DEF Transmit, serverVars, watch, RecordsKept
<1>2. ASSUME NEW c \in Conn, NEW what \in Whats, SendLine(c, what) PROVE RecordsKept
  BY <1>1, <1>2 DEF SendLine
<1>3. ASSUME NEW c \in Conn, SendRest(c) PROVE RecordsKept
  BY <1>1, <1>3 DEF SendRest
<1>4. ASSUME NEW c \in Conn, Close(c) PROVE RecordsKept
  BY <1>4 DEF Close, serverVars, watch, RecordsKept
<1>5. \A c \in Conn : fd[c] # 0 <=> \E i \in DOMAIN clients : clients[i] = c
  BY DEF ServerInv, Listed
<1>6. /\ DOMAIN clients = 1..Len(clients) /\ Len(clients) \in Nat
      /\ \A i \in DOMAIN clients : clients[i] \in Open
  BY <1>5, LenProperties, ElementOfSeq DEF ServerInv, TypeOK, Open
<1>7. CASE NoAccept
  <2>1. clients # <<>> => clients[1] \in Open
    <3>1. clients \in Seq(Conn)
      BY DEF ServerInv, TypeOK
    <3>2. clients # <<>> => 1 \in DOMAIN clients
      BY <1>6, <3>1, EmptySeq
    <3> QED
      BY <1>6, <3>2
  <2> QED
    BY <1>7, <2>1 DEF NoAccept, StartScan, RecordsKept, network, watch
<1>8. ASSUME phase \in {"scan", "messages"}, Advance,
             UNCHANGED <<network, backlog, clients, fd, buffers, watch, histories>>
      PROVE  RecordsKept
  <2>1. /\ Position(curr) \in 1..Len(clients)
        /\ curr' = Successor(curr)
        /\ phase' = (IF curr' = NULL THEN "select" ELSE "scan")
    BY <1>8, PositionFound DEF Advance
  <2>2. CASE Position(curr) = Len(clients)
    BY <1>8, <2>1, <2>2 DEF Successor, RecordsKept, network, watch
  <2>3. CASE Position(curr) # Len(clients)
    <3>1. Position(curr) + 1 \in DOMAIN clients /\ curr' = clients[Position(curr) + 1]
      BY <1>6, <2>1, <2>3 DEF Successor
    <3>2. curr' \in Open /\ curr' # NULL
      BY <1>6, <3>1 DEF Open, Conn, NULL
    <3> QED
      BY <1>8, <2>1, <3>2 DEF RecordsKept, network, watch
  <2> QED
    BY <2>2, <2>3
<1>9. CASE Skip
  BY <1>8, <1>9 DEF Skip
<1>10. CASE EndMessages
  BY <1>8, <1>10 DEF EndMessages
<1>11. ASSUME ReadFails \/ ReadEnd \/ \E k \in 1..BufUnits : ReadOverflow(k) PROVE FALSE
  BY <1>11 DEF ReadFails, ReadEnd, ReadOverflow, Read, Reading
<1>12. ASSUME NEW m, NEW k, Chunk(m, k) PROVE RecordsKept
  BY <1>12 DEF Chunk, watch, RecordsKept
<1>13. CASE ReadEndChunk
  BY <1>12, <1>13 DEF ReadEndChunk
<1>14. ASSUME NEW k \in 1..BufUnits, ReadLines(k) PROVE RecordsKept
  BY <1>14 DEF ReadLines, Read, Reading, watch, RecordsKept
<1>15. ASSUME NEW k \in 1..BufUnits, ReadChunk(k) PROVE RecordsKept
  BY <1>12, <1>15 DEF ReadChunk
<1>16. CASE BroadcastMessage \/ AnswerConnected
  BY <1>16 DEF BroadcastMessage, AnswerConnected, TakeMessage, network, watch, RecordsKept
<1>17. CASE UNCHANGED vars
  BY <1>17 DEF vars, network, watch, RecordsKept
<1> QED
  BY <1>2, <1>3, <1>4, <1>7, <1>9, <1>10, <1>11, <1>13, <1>14, <1>15, <1>16, <1>17
     DEF Next, ClientStep, ServerStep

(* A step that keeps the records keeps them in order.                       *)
LEMMA RecordsKeptInv ==
  ASSUME ServerInv, RecordsKept, TypeOK'
  PROVE  Queued' /\ Listed'
<1>1. Queued /\ Listed
  BY DEF ServerInv
<1>2. Open' = Open
  BY DEF RecordsKept, Open
<1>3. Queued'
  BY <1>1 DEF RecordsKept, Queued
<1>4. Listed'
  BY <1>1, <1>2 DEF RecordsKept, Listed
<1> QED
  BY <1>3, <1>4

(* A new connection goes to the end of the queue.                           *)
LEMMA ConnectKeeps ==
  ASSUME ServerInv, NEW c \in Conn, Connect(c)
  PROVE  Queued' /\ Listed'
<1>1. /\ backlog \in Seq(Conn) /\ life \in [Conn -> {"new", "pending", "open", "gone"}]
      /\ backlog' = Append(backlog, c) /\ life[c] = "new"
      /\ life' = [life EXCEPT ![c] = "pending"]
      /\ UNCHANGED <<phase, listen_fds, fd, clients, curr, all_fds, max_fd>>
  BY DEF ServerInv, TypeOK, Connect, watch
<1>2. /\ Len(backlog) \in Nat /\ DOMAIN backlog = 1..Len(backlog)
      /\ backlog' \in Seq(Conn) /\ backlog' # <<>> /\ Len(backlog') = Len(backlog) + 1
      /\ \A i \in 1..Len(backlog) : backlog'[i] = backlog[i]
      /\ backlog'[Len(backlog) + 1] = c
  BY <1>1, LenProperties, AppendProperties
<1>3. DOMAIN backlog' = 1..Len(backlog) + 1
  BY <1>2, LenProperties
<1>4. \A i \in DOMAIN backlog : backlog[i] # c /\ backlog[i] \in Conn
  BY <1>1, <1>2, ElementOfSeq DEF ServerInv, Queued
<1>5. \A i \in DOMAIN backlog' : life'[backlog'[i]] = "pending"
  <2>1. \A i \in DOMAIN backlog : life'[backlog'[i]] = "pending"
    BY <1>1, <1>2, <1>4 DEF ServerInv, Queued
  <2>2. life'[c] = "pending"
    BY <1>1
  <2> QED
    BY <1>2, <1>3, <2>1, <2>2
<1>6. \A i, j \in DOMAIN backlog' : backlog'[i] = backlog'[j] => i = j
  BY <1>2, <1>3, <1>4 DEF ServerInv, Queued
<1>7. \A d \in Conn : fd'[d] # 0 <=> life'[d] = "open"
  BY <1>1 DEF ServerInv, Queued
<1>8. Listed'
  BY <1>1 DEF ServerInv, Listed, Open
<1> QED
  BY <1>2, <1>5, <1>6, <1>7, <1>8 DEF Queued

(* What is left of the queue when its first connection has been taken.      *)
LEMMA QueueTaken ==
  ASSUME ServerInv, phase = "accept", Listener \in listen_fds,
         backlog' = SubSeq(backlog, 2, Len(backlog)),
         NEW state \in {"open", "gone"}, life' = [life EXCEPT ![backlog[1]] = state],
         phase' # "accept", \A c \in Conn : fd'[c] # 0 <=> life'[c] = "open"
  PROVE  Queued'
<1>1. /\ DOMAIN backlog' = 1..Len(backlog) - 1 /\ DOMAIN backlog = 1..Len(backlog)
      /\ Len(backlog) \in Nat
      /\ \A i \in 1..Len(backlog) - 1 : backlog'[i] = backlog[i + 1]
      /\ 1 \in DOMAIN backlog
  BY AcceptFacts, LenProperties DEF ServerInv, TypeOK
<1>2. /\ \A i, j \in DOMAIN backlog : backlog[i] = backlog[j] => i = j
      /\ \A i \in DOMAIN backlog : life[backlog[i]] = "pending" /\ backlog[i] \in Conn
      /\ life \in [Conn -> {"new", "pending", "open", "gone"}]
  BY <1>1, ElementOfSeq DEF ServerInv, TypeOK, Queued
<1>3. \A i \in DOMAIN backlog' : i + 1 \in DOMAIN backlog /\ i + 1 # 1
  BY <1>1
<1>4. \A i \in DOMAIN backlog' : life'[backlog'[i]] = "pending"
  BY <1>1, <1>2, <1>3
<1>5. \A i, j \in DOMAIN backlog' : backlog'[i] = backlog'[j] => i = j
  <2> SUFFICES ASSUME NEW i \in DOMAIN backlog', NEW j \in DOMAIN backlog',
                      backlog'[i] = backlog'[j]
               PROVE  i = j
    OBVIOUS
  <2>1. i + 1 = j + 1
    BY <1>1, <1>2, <1>3
  <2> QED
    BY <1>1, <2>1
<1> QED
  BY <1>4, <1>5 DEF Queued

(* select finds no closed descriptor, and reports the listener only when a  *)
(* connection waits.                                                        *)
LEMMA SelectKeeps ==
  ASSUME ServerInv, Select
  PROVE  Queued' /\ Listed'
<1>1. /\ phase' = (IF BadFds = {} THEN "accept" ELSE "exited")
      /\ listen_fds' = {f \in ReadyFds : f <= max_fd}
      /\ UNCHANGED <<life, backlog, clients, curr, fd, all_fds, max_fd>>
  BY DEF Select, network
<1>2. BadFds = {}
  BY DEF BadFds, ServerInv, Listed
<1>3. Listener \in listen_fds' => backlog # <<>>
  BY <1>1 DEF ReadyFds, Open, Listener
<1>4. Queued'
  BY <1>1, <1>3 DEF ServerInv, Queued
<1>5. Listed'
  BY <1>1, <1>2 DEF ServerInv, Listed, Open
<1> QED
  BY <1>4, <1>5

(* A refused connection leaves the queue and never gets a descriptor.       *)
LEMMA RefuseKeeps ==
  ASSUME ServerInv, Refuse
  PROVE  Queued' /\ Listed'
<1>1. /\ phase = "accept" /\ Listener \in listen_fds /\ phase' = "select"
      /\ backlog' = SubSeq(backlog, 2, Len(backlog))
      /\ life' = [life EXCEPT ![backlog[1]] = "gone"]
      /\ UNCHANGED <<clients, curr, fd, all_fds, max_fd>>
  BY DEF Refuse, watch
<1>2. life[backlog[1]] = "pending" /\ life \in [Conn -> {"new", "pending", "open", "gone"}]
  BY <1>1, AcceptFacts DEF ServerInv, TypeOK
<1>3. \A c \in Conn : fd'[c] # 0 <=> life'[c] = "open"
  BY <1>1, <1>2 DEF ServerInv, Queued
<1>4. Queued'
  BY <1>1, <1>3, QueueTaken
<1>5. Listed'
  BY <1>1 DEF ServerInv, Listed, Open
<1> QED
  BY <1>4, <1>5

(* An accepted connection gets a descriptor that no client has, goes to the *)
(* end of the list and is watched.                                          *)
LEMMA AcceptKeeps ==
  ASSUME ServerInv, Accept
  PROVE  Queued' /\ Listed'
<1> DEFINE c == backlog[1]
<1>1. /\ c \in Conn /\ life[c] = "pending" /\ fd[c] = 0
      /\ FreeFd \in 1..MaxConns /\ \A d \in Conn : fd[d] # FreeFd
  BY AcceptFacts DEF Accept
<1>2. /\ clients \in Seq(Conn) /\ max_fd \in 0..MaxConns /\ all_fds \subseteq 0..MaxConns
      /\ fd \in [Conn -> 0..MaxConns] /\ life \in [Conn -> {"new", "pending", "open", "gone"}]
  BY DEF ServerInv, TypeOK
<1> HIDE DEF c
<1>3. /\ Len(clients) \in Nat /\ DOMAIN clients = 1..Len(clients)
      /\ Append(clients, c) \in Seq(Conn) /\ Append(clients, c) # <<>>
      /\ Len(Append(clients, c)) = Len(clients) + 1
      /\ \A i \in 1..Len(clients) : Append(clients, c)[i] = clients[i]
      /\ Append(clients, c)[Len(clients) + 1] = c
  BY <1>1, <1>2, LenProperties, AppendProperties
<1>4. /\ phase = "accept" /\ Listener \in listen_fds
      /\ backlog' = SubSeq(backlog, 2, Len(backlog))
      /\ life' = [life EXCEPT ![c] = "open"] /\ fd' = [fd EXCEPT ![c] = FreeFd]
      /\ clients' = Append(clients, c) /\ all_fds' = all_fds \cup {FreeFd}
      /\ max_fd' = (IF FreeFd > max_fd THEN FreeFd ELSE max_fd)
      /\ phase' = "scan" /\ curr' = Append(clients, c)[1]
  BY <1>3 DEF Accept, StartScan, c
<1>5. DOMAIN clients' = 1..Len(clients) + 1
  BY <1>3, <1>4, LenProperties
<1>6. \A d \in Conn : fd'[d] # 0 <=> life'[d] = "open"
  BY <1>1, <1>2, <1>4 DEF ServerInv, Queued
<1>7. Queued'
  BY <1>4, <1>6, QueueTaken DEF c
<1>8. Open' = Open \cup {c} /\ c \notin Open
  BY <1>1, <1>2, <1>4 DEF Open
<1>9. \A d \in Conn : fd[d] # 0 <=> \E i \in DOMAIN clients : clients[i] = d
  BY DEF ServerInv, Listed
<1>10. \A d \in Conn : fd'[d] # 0 <=> \E i \in DOMAIN clients' : clients'[i] = d
  <2>1. ASSUME NEW d \in Conn, d # c
        PROVE  fd'[d] # 0 <=> \E i \in DOMAIN clients' : clients'[i] = d
    <3>1. (\E i \in DOMAIN clients' : clients'[i] = d)
            <=> \E i \in DOMAIN clients : clients[i] = d
      BY <1>3, <1>4, <1>5, <2>1
    <3>2. fd'[d] = fd[d]
      BY <1>2, <1>4, <2>1
    <3> QED
      BY <1>9, <3>1, <3>2
  <2>2. fd'[c] # 0 /\ \E i \in DOMAIN clients' : clients'[i] = c
    <3>1. fd'[c] # 0
      BY <1>1, <1>2, <1>4, BoundsAssumption
    <3>2. Len(clients) + 1 \in DOMAIN clients' /\ clients'[Len(clients) + 1] = c
      BY <1>3, <1>4, <1>5
    <3> QED
      BY <3>1, <3>2
  <2> QED
    BY <1>1, <2>1, <2>2
<1>11. \A i, j \in DOMAIN clients' : clients'[i] = clients'[j] => i = j
  <2>1. \A i \in DOMAIN clients : clients[i] # c
    BY <1>1, <1>9
  <2>2. \A i, j \in DOMAIN clients : clients[i] = clients[j] => i = j
    BY DEF ServerInv, Listed
  <2> QED
    BY <1>3, <1>4, <1>5, <2>1, <2>2
<1>12. \A d, e \in Open' : fd'[d] = fd'[e] => d = e
  <2>1. \A d, e \in Open : fd[d] = fd[e] => d = e
    BY DEF ServerInv, Listed
  <2> QED
    BY <1>1, <1>2, <1>4, <1>8, <2>1 DEF Open
<1>13. all_fds' = {Listener} \cup {fd'[d] : d \in Open'}
  <2>1. all_fds = {Listener} \cup {fd[d] : d \in Open}
    BY DEF ServerInv, Listed
  <2>2. fd'[c] = FreeFd /\ \A d \in Open : fd'[d] = fd[d]
    BY <1>1, <1>2, <1>4, <1>8 DEF Open
  <2> QED
    BY <1>4, <1>8, <2>1, <2>2
<1>14. \A f \in all_fds' : f <= max_fd'
  <2>1. \A f \in all_fds : f <= max_fd /\ f \in Int
    BY <1>2 DEF ServerInv, Listed
  <2>2. FreeFd \in Int /\ max_fd \in Int
    BY <1>1, <1>2
  <2> QED
    BY <1>4, <2>1, <2>2
<1>15. curr' \in Open'
  <2>1. 1 \in DOMAIN clients' /\ curr' = clients'[1]
    BY <1>3, <1>4, <1>5
  <2>2. clients'[1] \in Conn
    BY <1>3, <1>4, <2>1, LenProperties, ElementOfSeq
  <2> QED
    BY <1>10, <2>1, <2>2 DEF Open
<1>16. phase' # "exited"
  BY <1>4
<1> QED
  BY <1>7, <1>10, <1>11, <1>12, <1>13, <1>14, <1>15, <1>16 DEF Listed

(* A client that is removed is in none of the records any more.             *)
LEMMA DropKeeps ==
  ASSUME ServerInv, phase = "scan", Drop(curr)
  PROVE  Queued' /\ Listed'
<1>1. /\ curr \in Conn /\ fd[curr] # 0 /\ fd[curr] \in 1..MaxConns
      /\ fd \in [Conn -> 0..MaxConns] /\ life \in [Conn -> {"new", "pending", "open", "gone"}]
  <2>1. curr \in Conn /\ fd[curr] \in 1..MaxConns
    BY PositionFound
  <2>2. fd[curr] # 0
    BY <2>1, BoundsAssumption
  <2> QED
    BY <2>1, <2>2 DEF ServerInv, TypeOK
<1>2. /\ clients' = RemoveAt(clients, Position(curr))
      /\ all_fds' = all_fds \ {fd[curr]}
      /\ fd' = [fd EXCEPT ![curr] = 0] /\ life' = [life EXCEPT ![curr] = "gone"]
      /\ phase' = "select" /\ UNCHANGED <<backlog, max_fd>>
  BY DEF Drop
<1>3. /\ \A i, j \in DOMAIN clients' : clients'[i] = clients'[j] => i = j
      /\ \A d \in Conn : (\E i \in DOMAIN clients' : clients'[i] = d)
           <=> d # curr /\ \E i \in DOMAIN clients : clients[i] = d
  BY <1>2, ListWithout
<1>4. \A d \in Conn : fd'[d] = IF d = curr THEN 0 ELSE fd[d]
  BY <1>1, <1>2
<1>5. \A d \in Conn : life'[d] = IF d = curr THEN "gone" ELSE life[d]
  BY <1>1, <1>2
<1>6. life[curr] = "open"
  BY <1>1 DEF ServerInv, Queued
<1>7. Queued'
  <2>1. \A i \in DOMAIN backlog : backlog[i] \in Conn
    BY LenProperties, ElementOfSeq DEF ServerInv, TypeOK
  <2>2. \A i \in DOMAIN backlog' : life'[backlog'[i]] = "pending"
    BY <1>2, <1>5, <1>6, <2>1 DEF ServerInv, Queued
  <2> QED
    BY <1>2, <1>4, <1>5, <2>2 DEF ServerInv, Queued
<1>8. Open' = Open \ {curr}
  BY <1>4 DEF Open
<1>9. \A d \in Conn : fd'[d] # 0 <=> \E i \in DOMAIN clients' : clients'[i] = d
  BY <1>3, <1>4 DEF ServerInv, Listed
<1>10. \A d, e \in Open : fd[d] = fd[e] => d = e
  BY DEF ServerInv, Listed
<1>11. \A d, e \in Open' : fd'[d] = fd'[e] => d = e
  BY <1>4, <1>8, <1>10 DEF Open
<1>12. all_fds' = {Listener} \cup {fd'[d] : d \in Open'}
  <2>1. \A d \in Open' : fd'[d] = fd[d] /\ fd[d] # fd[curr]
    BY <1>1, <1>4, <1>8, <1>10 DEF Open
  <2>2. Listener # fd[curr]
    BY <1>1 DEF Listener
  <2>3. all_fds = {Listener} \cup {fd[d] : d \in Open}
    BY DEF ServerInv, Listed
  <2> QED
    BY <1>2, <1>8, <2>1, <2>2, <2>3
<1>13. \A f \in all_fds' : f <= max_fd'
  BY <1>2 DEF ServerInv, Listed
<1> QED
  BY <1>2, <1>3, <1>7, <1>9, <1>11, <1>12, <1>13 DEF Listed

(* Every step keeps the invariant.                                          *)
LEMMA InvStep == ServerInv /\ [Next]_vars => ServerInv'
<1> SUFFICES ASSUME ServerInv, [Next]_vars PROVE ServerInv'
  OBVIOUS
<1>1. TypeOK'
  BY TypeStep
<1>2. CASE RecordsKept
  BY <1>1, <1>2, RecordsKeptInv DEF ServerInv
<1>3. CASE \E c \in Conn : Connect(c)
  BY <1>1, <1>3, ConnectKeeps DEF ServerInv
<1>4. CASE Select
  BY <1>1, <1>4, SelectKeeps DEF ServerInv
<1>5. CASE Accept
  BY <1>1, <1>5, AcceptKeeps DEF ServerInv
<1>6. CASE Refuse
  BY <1>1, <1>6, RefuseKeeps DEF ServerInv
<1>7. CASE phase = "scan" /\ Drop(curr)
  BY <1>1, <1>7, DropKeeps DEF ServerInv
<1> QED
  BY <1>2, <1>3, <1>4, <1>5, <1>6, <1>7, OtherStepsKeepRecords

(* The types, the queue and the records are right in every behaviour.       *)
LEMMA InvHolds == Spec => []ServerInv
  BY InitInv, InvStep, PTL DEF Spec

(* Every variable of the server keeps its type, whatever is read: in        *)
(* particular no read fills buf, since a full buffer ends the client.       *)
THEOREM ServerTypeCorrect == Spec => []TypeOK
<1>1. ServerInv => TypeOK
  BY DEF ServerInv
<1> QED
  BY <1>1, InvHolds, PTL

(* The list of clients, their descriptors, the set that select watches and  *)
(* max_fd agree at every point of a round, for any number of clients that   *)
(* come, are refused, leave and are dropped.                                *)
THEOREM WatchedClientsAreListed == Spec => []WatchedAreListed
<1>1. ASSUME ServerInv PROVE WatchedAreListed
  <2>1. DOMAIN clients = 1..Len(clients) /\ Len(clients) \in Nat
        /\ \A i \in DOMAIN clients : clients[i] \in Conn
    BY <1>1, LenProperties, ElementOfSeq DEF ServerInv, TypeOK
  <2>2. ToSet(clients) = Open
    BY <1>1, <2>1 DEF ToSet, ServerInv, Listed, Open
  <2>3. clients \in Bijection(1..Len(clients), Open)
    <3>1. clients \in [1..Len(clients) -> Open]
      BY <1>1, <2>1, <2>2, LenProperties DEF ToSet, ServerInv, TypeOK
    <3>2. clients \in Injection(1..Len(clients), Open)
      BY <1>1, <2>1, <3>1 DEF Injection, IsInjective, ServerInv, Listed
    <3>3. clients \in Surjection(1..Len(clients), Open)
      BY <2>1, <2>2, <3>1 DEF Surjection, ToSet
    <3> QED
      BY <3>2, <3>3 DEF Bijection
  <2>4. Len(clients) = Cardinality(Open)
    <3>1. IsFiniteSet(1..Len(clients)) /\ Cardinality(1..Len(clients)) = Len(clients)
      BY <2>1, FS_Interval
    <3> QED
      BY <2>3, <3>1, FS_Bijection DEF ExistsBijection
  <2> QED
    BY <1>1, <2>2, <2>4 DEF WatchedAreListed, ServerInv, Listed
<1> QED
  BY <1>1, InvHolds, PTL

-----------------------------------------------------------------------------
(* The streams.                                                             *)

(* Three parts of a stream, joined from the left or from the right.         *)
LEMMA Joined ==
  ASSUME NEW r \in Seq(Unit), NEW s \in Seq(Unit), NEW t \in Seq(Unit)
  PROVE  (r \o s) \o t = r \o (s \o t)
  BY ConcatAssociative

(* A read moves the front of the stream behind what is in the buffer: both  *)
(* together hold the same units, in the same order.                         *)
LEMMA FillJoins ==
  ASSUME NEW m \in [1..BufUnits -> Unit], NEW n \in Seq(Unit),
         NEW i \in 0..BufUnits, NEW k \in 1..Len(n), i + k <= BufUnits,
         NEW g, g = [j \in 1..BufUnits |->
                       IF i < j /\ j <= i + k THEN n[j - i] ELSE m[j]]
  PROVE  SubSeq(g, 1, i + k) \o SubSeq(n, k + 1, Len(n)) = SubSeq(m, 1, i) \o n
<1> DEFINE old == SubSeq(m, 1, i)
           new == SubSeq(n, 1, k)
           rest == SubSeq(n, k + 1, Len(n))
           both == SubSeq(g, 1, i + k)
<1>1. /\ BufUnits \in Nat /\ Len(n) \in Nat /\ i \in Nat /\ k \in Nat
      /\ \A j \in 1..Len(n) : n[j] \in Unit
  BY BoundsAssumption, LenProperties, ElementOfSeq
<1>2. old \in Seq(Unit) /\ Len(old) = i /\ \A j \in 1..i : old[j] = m[j]
  <2>1. \A j \in 1..i : m[j] \in Unit
    BY <1>1
  <2> QED
    BY <1>1, <2>1, SubSeqProperties, 1 \in Int, i \in Int
<1>3. new \in Seq(Unit) /\ Len(new) = k /\ \A j \in 1..k : new[j] = n[j]
  <2>1. \A j \in 1..k : n[j] \in Unit
    BY <1>1
  <2> QED
    BY <1>1, <2>1, SubSeqProperties, 1 \in Int, k \in Int
<1>4. rest \in Seq(Unit)
  <2>1. \A j \in k + 1..Len(n) : n[j] \in Unit
    BY <1>1
  <2> QED
    BY <1>1, <2>1, SubSeqProperties, k + 1 \in Int, Len(n) \in Int
<1>5. both \in Seq(Unit) /\ Len(both) = i + k /\ \A j \in 1..i + k : both[j] = g[j]
  <2>1. \A j \in 1..i + k : g[j] \in Unit
    BY <1>1
  <2> QED
    BY <1>1, <2>1, SubSeqProperties, 1 \in Int, i + k \in Int
<1>6. new \o rest = n
  <2>1. new \o rest = SubSeq(n, 1, Len(n))
    <3>1. 1 \in 1..Len(n) + 1 /\ k \in 1 - 1..Len(n) /\ Len(n) \in k..Len(n)
      BY <1>1
    <3> QED
      BY <3>1, ConcatAdjacentSubSeq
  <2> QED
    BY <2>1, SubSeqFull
<1>7. \A j \in 1..i + k : g[j] = IF j <= i THEN m[j] ELSE n[j - i]
  BY <1>1
<1> HIDE DEF old, new, rest, both
<1>8. both = old \o new
  <2> DEFINE cat == old \o new
  <2>1. /\ cat \in Seq(Unit) /\ Len(cat) = i + k
        /\ \A j \in 1..i + k : cat[j] = IF j <= i THEN old[j] ELSE new[j - i]
    BY <1>2, <1>3, ConcatProperties, ZenonT(60)
  <2> HIDE DEF cat
  <2>2. ASSUME NEW j \in 1..i + k PROVE both[j] = cat[j]
    <3>1. both[j] = IF j <= i THEN m[j] ELSE n[j - i]
      BY <1>5, <1>7
    <3>2. CASE j <= i
      <4>1. j \in 1..i
        BY <3>2, <1>1
      <4>2. old[j] = m[j]
        BY <4>1, <1>2
      <4> QED
        BY <3>1, <3>2, <4>2, <2>1
    <3>3. CASE ~(j <= i)
      <4>1. j - i \in 1..k
        BY <3>3, <1>1
      <4>2. new[j - i] = n[j - i]
        BY <4>1, <1>3
      <4> QED
        BY <3>1, <3>3, <4>2, <2>1
    <3> QED
      BY <3>2, <3>3
  <2>3. both = cat
    BY <1>5, <2>1, <2>2, SeqEqual
  <2> QED
    BY <2>3 DEF cat
<1>9. both \o rest = old \o n
  <2>1. old \in Seq(Unit) /\ new \in Seq(Unit) /\ rest \in Seq(Unit)
    BY <1>2, <1>3, <1>4
  <2>2. (old \o new) \o rest = old \o (new \o rest)
    BY <2>1, Joined, SMTT(30)
  <2> QED
    BY <1>6, <1>8, <2>2
<1> QED
  BY <1>9 DEF both, rest, old

(* Cutting a message out of the buffer moves the rest to its front: both    *)
(* together are what was in the buffer.                                     *)
LEMMA ShiftJoins ==
  ASSUME NEW m \in [1..BufUnits -> Unit], NEW i \in 0..BufUnits, NEW k \in 1..i,
         NEW g, g = [j \in 1..BufUnits |-> IF j <= i - k THEN m[j + k] ELSE m[j]]
  PROVE  SubSeq(m, 1, k) \o SubSeq(g, 1, i - k) = SubSeq(m, 1, i)
<1>1. BufUnits \in Nat /\ i \in Nat /\ k \in Nat /\ k <= i /\ i <= BufUnits
  BY BoundsAssumption
<1>2. m \in Seq(Unit) /\ Len(m) = BufUnits
  BY <1>1, LenProperties
<1> DEFINE left == SubSeq(g, 1, i - k)
           tail == SubSeq(m, k + 1, i)
<1>3. left \in Seq(Unit) /\ Len(left) = i - k /\ \A j \in 1..i - k : left[j] = g[j]
  <2>1. \A j \in 1..i - k : g[j] \in Unit
    BY <1>1
  <2>2. /\ left \in Seq(Unit)
        /\ Len(left) = (IF 1 <= i - k THEN i - k - 1 + 1 ELSE 0)
        /\ \A j \in 1..i - k - 1 + 1 : left[j] = g[1 + j - 1]
    BY <1>1, <2>1, SubSeqProperties, 1 \in Int, i - k \in Int
  <2> QED
    BY <1>1, <2>2
<1>4. tail \in Seq(Unit) /\ Len(tail) = i - k /\ \A j \in 1..i - k : tail[j] = m[k + j]
  <2>1. \A j \in k + 1..i : m[j] \in Unit
    BY <1>1
  <2>2. /\ tail \in Seq(Unit)
        /\ Len(tail) = (IF k + 1 <= i THEN i - (k + 1) + 1 ELSE 0)
        /\ \A j \in 1..i - (k + 1) + 1 : tail[j] = m[k + 1 + j - 1]
    BY <1>1, <2>1, SubSeqProperties, k + 1 \in Int, i \in Int
  <2> QED
    BY <1>1, <2>2
<1>5. \A j \in 1..i - k : g[j] = m[k + j]
  BY <1>1
<1> HIDE DEF left, tail
<1>6. left = tail
  BY <1>3, <1>4, <1>5, SeqEqual
<1>7. SubSeq(m, 1, k) \o tail = SubSeq(m, 1, i)
  <2>1. 1 \in 1..Len(m) + 1 /\ k \in 1 - 1..Len(m) /\ i \in k..Len(m)
    BY <1>1, <1>2
  <2> QED
    BY <1>2, <2>1, ConcatAdjacentSubSeq DEF tail
<1> QED
  BY <1>6, <1>7 DEF left

(* What holds of the stream of each client: it is whole, and until the      *)
(* connection is accepted, nothing of it has been read.                     *)
Followed(c) ==
    /\ fd[c] # 0 => handled[c] \o SubSeq(mem[c], 1, inbuf[c]) \o net[c] = sent[c]
    /\ life[c] \in {"new", "pending"} => handled[c] = <<>> /\ net[c] = sent[c]

StreamInv == ServerInv /\ \A c \in Conn : Followed(c)

(* A step that does not touch the stream of a client, and does not make it  *)
(* an open or a new one.                                                    *)
StreamKept(c) ==
    /\ handled'[c] = handled[c] /\ mem'[c] = mem[c] /\ inbuf'[c] = inbuf[c]
    /\ net'[c] = net[c] /\ sent'[c] = sent[c]
    /\ fd'[c] # 0 => fd[c] # 0
    /\ life'[c] \in {"new", "pending"} => life[c] \in {"new", "pending"}

(* Such a step keeps what holds of the stream.                              *)
LEMMA KeptIsFollowed ==
  ASSUME NEW c \in Conn, Followed(c), StreamKept(c)
  PROVE  Followed(c)'
  BY DEF Followed, StreamKept

(* The parts of an open client's stream.                                    *)
LEMMA StreamParts ==
  ASSUME ServerInv, NEW c \in Conn
  PROVE  /\ handled[c] \in Seq(Unit) /\ net[c] \in Seq(Unit) /\ sent[c] \in Seq(Unit)
         /\ mem[c] \in [1..BufUnits -> Unit] /\ inbuf[c] \in 0..BufUnits
         /\ SubSeq(mem[c], 1, inbuf[c]) \in Seq(Unit)
         /\ fd[c] # 0 <=> life[c] = "open"
<1>1. /\ handled[c] \in Seq(Unit) /\ net[c] \in Seq(Unit) /\ sent[c] \in Seq(Unit)
      /\ mem[c] \in [1..BufUnits -> Unit] /\ inbuf[c] \in 0..BufUnits
  BY BoundsAssumption, SMTT(30) DEF ServerInv, TypeOK
<1>2. SubSeq(mem[c], 1, inbuf[c]) \in Seq(Unit)
  BY <1>1, TakenTyped
<1> QED
  BY <1>1, <1>2 DEF ServerInv, Queued

(* What a client writes goes to the end of its stream.                      *)
LEMMA TransmitFollowed ==
  ASSUME StreamInv, NEW c \in Conn, NEW units \in Seq(Unit), Transmit(c, units),
         NEW d \in Conn
  PROVE  Followed(d)'
<1>1. /\ sent' = [sent EXCEPT ![c] = sent[c] \o units]
      /\ net' = [net EXCEPT ![c] = net[c] \o units]
      /\ UNCHANGED <<life, fd, mem, inbuf, handled>>
      /\ sent \in [Conn -> Seq(Unit)] /\ net \in [Conn -> Seq(Unit)]
  BY DEF Transmit, serverVars, buffers, histories, StreamInv, ServerInv, TypeOK
<1>2. CASE d # c
  BY <1>1, <1>2, KeptIsFollowed DEF StreamInv, StreamKept
<1>3. CASE d = c
  <2> DEFINE front == handled[c] \o SubSeq(mem[c], 1, inbuf[c])
  <2>1. net'[c] = net[c] \o units /\ sent'[c] = sent[c] \o units
    BY <1>1
  <2>2. front \in Seq(Unit) /\ net[c] \in Seq(Unit)
    BY StreamParts, ConcatProperties DEF StreamInv
  <2> HIDE DEF front
  <2>3. (front \o net[c]) \o units = front \o (net[c] \o units)
    BY <2>2, Joined
  <2>4. fd[c] # 0 => front \o net[c] = sent[c]
    BY DEF StreamInv, Followed, front
  <2>5. fd[c] # 0 => front \o net'[c] = sent'[c]
    BY <2>1, <2>3, <2>4
  <2>6. life[c] \in {"new", "pending"} => handled[c] = <<>> /\ net'[c] = sent'[c]
    BY <2>1 DEF StreamInv, Followed
  <2> QED
    BY <1>1, <1>3, <2>5, <2>6 DEF Followed, front
<1> QED
  BY <1>2, <1>3

(* What a read takes from the network, what it leaves there and what is     *)
(* then in the buffer.                                                      *)
LEMMA ReadFollowed ==
  ASSUME StreamInv, NEW k \in 1..BufUnits, Read(k)
  PROVE  /\ curr \in Conn /\ fd[curr] # 0 /\ life[curr] = "open"
         /\ net'[curr] \in Seq(Unit) /\ \A d \in Conn : d # curr => net'[d] = net[d]
         /\ SubSeq(Filled(curr, k), 1, inbuf[curr] + k) \in Seq(Unit)
         /\ handled[curr] \o SubSeq(Filled(curr, k), 1, inbuf[curr] + k) \o net'[curr]
              = sent[curr]
<1>0. ServerInv /\ TypeOK
  BY DEF StreamInv, ServerInv
<1>1. curr \in Conn /\ fd[curr] # 0
  <2>1. curr \in Conn /\ fd[curr] \in 1..MaxConns
    BY <1>0, PositionFound DEF Read, Reading
  <2> QED
    BY <2>1, BoundsAssumption
<1> DEFINE h == handled[curr]
           n == net[curr]
           i == inbuf[curr]
           rest == SubSeq(n, k + 1, Len(n))
           old == SubSeq(mem[curr], 1, i)
           buf == SubSeq(Filled(curr, k), 1, i + k)
<1>2. /\ h \in Seq(Unit) /\ n \in Seq(Unit) /\ old \in Seq(Unit)
      /\ mem[curr] \in [1..BufUnits -> Unit] /\ i \in 0..BufUnits
      /\ life[curr] = "open"
  BY <1>0, <1>1, StreamParts
<1>3. net' = [net EXCEPT ![curr] = rest] /\ k <= Len(n) /\ k <= BufUnits - i
  BY DEF Read, Room
<1>4. net'[curr] = rest /\ \A d \in Conn : d # curr => net'[d] = net[d]
  BY <1>0, <1>1, <1>3 DEF TypeOK
<1>5. net'[curr] \in Seq(Unit) /\ Filled(curr, k) \in [1..BufUnits -> Unit]
      /\ i + k \in 1..BufUnits
  BY <1>0, <1>1, ReadTyped
<1>6. buf \in Seq(Unit)
  <2>1. i + k \in 0..BufUnits
    BY <1>5
  <2> QED
    BY <1>5, <2>1, TakenTyped
<1>7. buf \o rest = old \o n
  <2>1. k \in 1..Len(n) /\ i + k <= BufUnits
    BY <1>2, <1>3, LenProperties, BoundsAssumption
  <2>2. Filled(curr, k) = [j \in 1..BufUnits |->
          IF i < j /\ j <= i + k THEN n[j - i] ELSE mem[curr][j]]
    BY DEF Filled
  <2>3. n \in Seq(Unit) /\ mem[curr] \in [1..BufUnits -> Unit] /\ i \in 0..BufUnits
    BY <1>2
  <2> DEFINE g == Filled(curr, k)
             m == mem[curr]
  <2>4. g = [j \in 1..BufUnits |-> IF i < j /\ j <= i + k THEN n[j - i] ELSE m[j]]
    BY <2>2
  <2>5. m \in [1..BufUnits -> Unit]
    BY <1>2
  <2> HIDE DEF g, m, n, i
  <2>6. SubSeq(g, 1, i + k) \o SubSeq(n, k + 1, Len(n)) = SubSeq(m, 1, i) \o n
    BY <2>1, <2>3, <2>4, <2>5, FillJoins, ZenonT(60)
  <2> QED
    BY <2>6 DEF g, m
<1>8. h \o old \o n = sent[curr]
  BY <1>1 DEF StreamInv, Followed
<1> HIDE DEF h, n, i, rest, old, buf
<1>9. (h \o buf) \o rest = h \o (buf \o rest) /\ (h \o old) \o n = h \o (old \o n)
  <2>1. h \in Seq(Unit) /\ buf \in Seq(Unit) /\ rest \in Seq(Unit)
    BY <1>2, <1>4, <1>5, <1>6
  <2>2. (h \o buf) \o rest = h \o (buf \o rest)
    BY <2>1, Joined
  <2>3. h \in Seq(Unit) /\ old \in Seq(Unit) /\ n \in Seq(Unit)
    BY <1>2
  <2>4. (h \o old) \o n = h \o (old \o n)
    BY <2>3, Joined
  <2> QED
    BY <2>2, <2>4
<1>10. h \o buf \o rest = sent[curr]
  BY <1>7, <1>8, <1>9
<1> QED
  BY <1>1, <1>2, <1>4, <1>5, <1>6, <1>10 DEF h, buf, i

(* A chunk takes all that is in the buffer: the stream goes on with what    *)
(* the network still has.                                                   *)
LEMMA ChunkFollowed ==
  ASSUME StreamInv, curr \in Conn, fd[curr] # 0,
         NEW m, NEW k \in Nat, SubSeq(m, 1, k) \in Seq(Unit), Chunk(m, k),
         net'[curr] \in Seq(Unit), \A d \in Conn : d # curr => net'[d] = net[d],
         handled[curr] \o SubSeq(m, 1, k) \o net'[curr] = sent[curr],
         NEW d \in Conn
  PROVE  Followed(d)'
<1>0. ServerInv /\ TypeOK
  BY DEF StreamInv, ServerInv
<1>1. /\ handled' = [handled EXCEPT ![curr] = handled[curr] \o SubSeq(m, 1, k)]
      /\ mem' = [mem EXCEPT ![curr] = [Cut(m) EXCEPT ![1] = Nul]]
      /\ inbuf' = [inbuf EXCEPT ![curr] = 0]
      /\ UNCHANGED <<life, sent, fd>>
  BY DEF Chunk
<1>2. CASE d # curr
  BY <1>0, <1>1, <1>2, KeptIsFollowed DEF StreamInv, StreamKept, TypeOK
<1>3. CASE d = curr
  <2> DEFINE taken == handled[curr] \o SubSeq(m, 1, k)
  <2>1. taken \in Seq(Unit)
    BY <1>0, StreamParts, ConcatProperties
  <2>2. handled'[curr] = taken /\ inbuf'[curr] = 0 /\ taken \o net'[curr] = sent'[curr]
    BY <1>0, <1>1 DEF TypeOK
  <2> HIDE DEF taken
  <2>3. SubSeq(mem'[curr], 1, inbuf'[curr]) = <<>>
    BY <2>2, SubSeqEmpty
  <2>4. taken \o <<>> = taken
    BY <2>1, ConcatEmptySeq
  <2>5. life'[curr] = "open"
    BY <1>0, <1>1, StreamParts
  <2> QED
    BY <1>3, <2>2, <2>3, <2>4, <2>5 DEF Followed
<1> QED
  BY <1>2, <1>3

(* Taking a message moves it from the buffer to what has been handled.      *)
LEMMA TakeMessageFollowed ==
  ASSUME StreamInv, HasMessage, TakeMessage(curr), NEW d \in Conn
  PROVE  Followed(d)'
<1>0. ServerInv /\ TypeOK
  BY DEF StreamInv, ServerInv
<1>1. curr \in Conn /\ fd[curr] # 0
  <2>1. curr \in Conn /\ fd[curr] \in 1..MaxConns
    BY <1>0, PositionFound DEF HasMessage
  <2> QED
    BY <2>1, BoundsAssumption
<1>2. MessageUnits(curr) \in 1..inbuf[curr]
  BY <1>0, TakeMessageTyped
<1> DEFINE k == MessageUnits(curr)
           i == inbuf[curr]
           m == mem[curr]
           g == [j \in 1..BufUnits |-> IF j <= i - k THEN m[j + k] ELSE m[j]]
           h == handled[curr]
           a == SubSeq(m, 1, k)
           b == SubSeq(g, 1, i - k)
           all == SubSeq(m, 1, i)
<1>3. /\ mem' = [mem EXCEPT ![curr] = g] /\ inbuf' = [inbuf EXCEPT ![curr] = i - k]
      /\ handled' = [handled EXCEPT ![curr] = h \o a]
      /\ UNCHANGED <<life, sent, net, fd>>
  BY DEF TakeMessage, network
<1>4. CASE d # curr
  BY <1>0, <1>3, <1>4, KeptIsFollowed DEF StreamInv, StreamKept, TypeOK
<1>5. CASE d = curr
  <2>1. /\ h \in Seq(Unit) /\ m \in [1..BufUnits -> Unit] /\ i \in 0..BufUnits
        /\ all \in Seq(Unit) /\ life[curr] = "open"
    BY <1>0, <1>1, StreamParts
  <2>2. k \in 1..i
    BY <1>2
  <2>3. g \in [1..BufUnits -> Unit] /\ k \in 0..BufUnits /\ i - k \in 0..BufUnits
    <3> HIDE DEF k, i, m
    <3>1. BufUnits \in Nat
      BY BoundsAssumption
    <3> QED
      BY <2>1, <2>2, <3>1
  <2>4. a \in Seq(Unit) /\ b \in Seq(Unit)
    <3> HIDE DEF g, k, i, m
    <3> QED
      BY <2>1, <2>3, TakenTyped
  <2>5. a \o b = all
    <3> HIDE DEF k, i, m
    <3> QED
      BY <2>1, <2>2, ShiftJoins
  <2>6. /\ mem'[curr] = g /\ inbuf'[curr] = i - k /\ handled'[curr] = h \o a
        /\ net'[curr] = net[curr] /\ sent'[curr] = sent[curr] /\ life'[curr] = "open"
    BY <1>0, <1>1, <1>3, <2>1 DEF TypeOK
  <2>7. h \o all \o net[curr] = sent[curr]
    BY <1>1 DEF StreamInv, Followed
  <2> HIDE DEF a, b, all, h, g, k, i
  <2>8. (h \o a) \o b = h \o (a \o b)
    <3>1. h \in Seq(Unit) /\ a \in Seq(Unit) /\ b \in Seq(Unit)
      BY <2>1, <2>4
    <3> QED
      BY <3>1, Joined
  <2>9. (h \o a) \o b \o net[curr] = sent[curr]
    BY <2>5, <2>7, <2>8
  <2>10. SubSeq(mem'[curr], 1, inbuf'[curr]) = b
    BY <2>6 DEF b
  <2> QED
    BY <1>5, <2>6, <2>9, <2>10 DEF Followed
<1> QED
  BY <1>4, <1>5

(* A connection that is accepted starts with an empty buffer, and all that  *)
(* its client has sent by then is still to be read.                         *)
LEMMA AcceptFollowed ==
  ASSUME StreamInv, Accept, NEW d \in Conn
  PROVE  Followed(d)'
<1>0. ServerInv /\ TypeOK
  BY DEF StreamInv, ServerInv
<1> DEFINE c == backlog[1]
<1>1. /\ c \in Conn /\ life[c] = "pending"
  BY <1>0, AcceptFacts DEF Accept
<1>2. /\ life' = [life EXCEPT ![c] = "open"] /\ fd' = [fd EXCEPT ![c] = FreeFd]
      /\ mem' = [mem EXCEPT ![c] = [i \in 1..BufUnits |-> Nul]]
      /\ inbuf' = [inbuf EXCEPT ![c] = 0]
      /\ UNCHANGED <<sent, net, handled>>
  BY DEF Accept, histories
<1> HIDE DEF c
<1>3. CASE d # c
  BY <1>0, <1>2, <1>3, KeptIsFollowed DEF StreamInv, StreamKept, TypeOK
<1>4. CASE d = c
  <2>1. handled[c] = <<>> /\ net[c] = sent[c]
    BY <1>1 DEF StreamInv, Followed
  <2>2. inbuf'[c] = 0 /\ life'[c] = "open"
    BY <1>0, <1>1, <1>2 DEF TypeOK
  <2>3. SubSeq(mem'[c], 1, inbuf'[c]) = <<>>
    BY <2>2, SubSeqEmpty
  <2>4. net[c] \in Seq(Unit)
    BY <1>0, <1>1, StreamParts
  <2>5. <<>> \o <<>> = <<>> /\ <<>> \o net[c] = net[c]
    BY <2>4, EmptySeq, ConcatEmptySeq
  <2> QED
    BY <1>2, <1>4, <2>1, <2>2, <2>3, <2>5 DEF Followed
<1> QED
  BY <1>3, <1>4

(* A client that is dropped has no stream any more, the others keep theirs. *)
LEMMA DropFollowed ==
  ASSUME StreamInv, Drop(curr), UNCHANGED <<buffers, histories>>,
         \A d \in Conn : d # curr => net'[d] = net[d], NEW d \in Conn
  PROVE  Followed(d)'
<1>1. /\ fd' = [fd EXCEPT ![curr] = 0] /\ life' = [life EXCEPT ![curr] = "gone"]
      /\ UNCHANGED <<sent, mem, inbuf, handled>>
      /\ fd \in [Conn -> 0..MaxConns]
      /\ life \in [Conn -> {"new", "pending", "open", "gone"}]
  BY DEF Drop, buffers, histories, StreamInv, ServerInv, TypeOK
<1>2. CASE d # curr
  BY <1>1, <1>2, KeptIsFollowed DEF StreamInv, StreamKept
<1>3. CASE d = curr
  BY <1>1, <1>3 DEF Followed
<1> QED
  BY <1>2, <1>3

(* Every step keeps every stream whole.                                     *)
LEMMA StreamStep ==
  ASSUME StreamInv, [Next]_vars, NEW d \in Conn
  PROVE  Followed(d)'
<1>0. ServerInv /\ TypeOK
  BY DEF StreamInv, ServerInv
<1>1. ASSUME UNCHANGED <<sent, net, buffers, handled>>, fd'[d] # 0 => fd[d] # 0,
             life'[d] \in {"new", "pending"} => life[d] \in {"new", "pending"}
      PROVE  Followed(d)'
  BY <1>1, KeptIsFollowed DEF StreamInv, StreamKept, buffers
<1>2. ASSUME NEW c \in Conn, Connect(c) PROVE Followed(d)'
  BY <1>0, <1>1, <1>2 DEF Connect, histories, TypeOK
<1>3. ASSUME NEW c \in Conn, NEW what \in Whats, SendLine(c, what) PROVE Followed(d)'
  <2> DEFINE n == LinesSent(c) + 1
  <2>1. n \in Nat \ {0}
    BY <1>0, LinesCounted
  <2>2. TextUnit(n, what) \in Unit /\ EndUnit(n, what) \in Unit
    BY <2>1, UnitsTyped
  <2>3. /\ <<TextUnit(n, what), EndUnit(n, what)>> \in Seq(Unit)
        /\ <<TextUnit(n, what)>> \in Seq(Unit)
    BY <2>2
  <2>4. \/ Transmit(c, <<TextUnit(n, what), EndUnit(n, what)>>)
        \/ Transmit(c, <<TextUnit(n, what)>>)
    BY <1>3 DEF SendLine
  <2> QED
    BY <2>3, <2>4, TransmitFollowed
<1>4. ASSUME NEW c \in Conn, SendRest(c) PROVE Followed(d)'
  <2>1. sent[c] \in Seq(Unit) /\ sent[c] # <<>>
    BY <1>0, <1>4 DEF TypeOK, SendRest, InLine
  <2>2. Last(sent[c]) \in Unit
    BY <2>1, EmptySeq, ElementOfSeq DEF Last
  <2>3. <<[Last(sent[c]) EXCEPT !.part = "tail"]>> \in Seq(Unit)
    BY <1>4, <2>2, UnitsTyped DEF SendRest, InLine
  <2> QED
    BY <1>4, <2>3, TransmitFollowed DEF SendRest
<1>5. ASSUME NEW c \in Conn, Close(c) PROVE Followed(d)'
  BY <1>1, <1>5 DEF Close, serverVars, histories
<1>6. CASE Select \/ NoAccept \/ Skip \/ EndMessages
  BY <1>1, <1>6 DEF Select, NoAccept, Skip, EndMessages, network, histories
<1>7. CASE Accept
  BY <1>7, AcceptFollowed
<1>8. CASE Refuse
  <2>1. life' = [life EXCEPT ![backlog[1]] = "gone"] /\ life \in [Conn -> {"new", "pending", "open", "gone"}]
    BY <1>0, <1>8 DEF Refuse, TypeOK
  <2> QED
    BY <1>1, <1>8, <2>1 DEF Refuse, histories
<1>9. ASSUME Reading PROVE curr \in Conn /\ fd[curr] # 0
  <2>1. curr \in Conn /\ fd[curr] \in 1..MaxConns
    BY <1>0, <1>9, PositionFound DEF Reading
  <2> QED
    BY <2>1, BoundsAssumption
<1>10. CASE ReadFails \/ ReadEnd
  BY <1>10, DropFollowed DEF ReadFails, ReadEnd
<1>11. CASE ReadEndChunk
  <2> DEFINE m == mem[curr]
             k == inbuf[curr]
  <2>1. curr \in Conn /\ fd[curr] # 0 /\ net' = net
    BY <1>9, <1>11 DEF ReadEndChunk
  <2>2. k \in Nat /\ SubSeq(m, 1, k) \in Seq(Unit) /\ net[curr] \in Seq(Unit)
    BY <1>0, <2>1, StreamParts, BoundsAssumption
  <2>3. handled[curr] \o SubSeq(m, 1, k) \o net'[curr] = sent[curr]
    BY <2>1 DEF StreamInv, Followed
  <2>4. Chunk(m, k)
    BY <1>11 DEF ReadEndChunk
  <2> HIDE DEF m, k
  <2> QED
    BY <2>1, <2>2, <2>3, <2>4, ChunkFollowed
<1>12. ASSUME NEW k \in 1..BufUnits, ReadOverflow(k) PROVE Followed(d)'
  BY <1>12, ReadFollowed, DropFollowed DEF ReadOverflow
<1>13. ASSUME NEW k \in 1..BufUnits, ReadLines(k) PROVE Followed(d)'
  <2>1. /\ mem' = [mem EXCEPT ![curr] = Filled(curr, k)]
        /\ inbuf' = [inbuf EXCEPT ![curr] = inbuf[curr] + k]
        /\ UNCHANGED <<life, sent, fd, handled>>
    BY <1>13 DEF ReadLines, histories
  <2>2. /\ curr \in Conn /\ fd[curr] # 0 /\ life[curr] = "open"
        /\ \A e \in Conn : e # curr => net'[e] = net[e]
        /\ handled[curr] \o SubSeq(Filled(curr, k), 1, inbuf[curr] + k) \o net'[curr]
             = sent[curr]
    BY <1>13, ReadFollowed DEF ReadLines
  <2>3. mem'[curr] = Filled(curr, k) /\ inbuf'[curr] = inbuf[curr] + k
    BY <1>0, <2>1, <2>2 DEF TypeOK
  <2>4. CASE d # curr
    BY <1>0, <2>1, <2>2, <2>4, KeptIsFollowed DEF StreamInv, StreamKept, TypeOK
  <2>5. CASE d = curr
    BY <2>1, <2>2, <2>3, <2>5 DEF Followed
  <2> QED
    BY <2>4, <2>5
<1>14. ASSUME NEW k \in 1..BufUnits, ReadChunk(k) PROVE Followed(d)'
  <2> DEFINE m == Filled(curr, k)
             n == inbuf[curr] + k
  <2>1. /\ curr \in Conn /\ fd[curr] # 0 /\ net'[curr] \in Seq(Unit)
        /\ \A e \in Conn : e # curr => net'[e] = net[e]
        /\ SubSeq(m, 1, n) \in Seq(Unit)
        /\ handled[curr] \o SubSeq(m, 1, n) \o net'[curr] = sent[curr]
    BY <1>14, ReadFollowed DEF ReadChunk
  <2>2. Chunk(m, n)
    BY <1>14 DEF ReadChunk
  <2>3. n \in Nat
    BY <1>0, <2>1, BoundsAssumption, SMTT(30) DEF TypeOK
  <2> HIDE DEF m, n
  <2> QED
    BY <2>1, <2>2, <2>3, ChunkFollowed
<1>15. CASE BroadcastMessage \/ AnswerConnected
  BY <1>15, TakeMessageFollowed DEF BroadcastMessage, AnswerConnected
<1>16. CASE UNCHANGED vars
  BY <1>1, <1>16 DEF vars, network, histories
<1> QED
  BY <1>2, <1>3, <1>4, <1>5, <1>6, <1>7, <1>8, <1>10, <1>11, <1>12, <1>13, <1>14,
     <1>15, <1>16 DEF Next, ClientStep, ServerStep

(* Nothing that a connected client sends is skipped, doubled or put out of  *)
(* order, however long its lines are, however the reads cut them, and       *)
(* whatever the buffer keeps between two rounds.                            *)
THEOREM NothingIsLost == Spec => []NothingLost
<1>1. Init => StreamInv
  <2> SUFFICES ASSUME Init, NEW c \in Conn PROVE Followed(c)
    BY InitInv DEF StreamInv
  <2> QED
    BY DEF Init, Followed
<1>2. StreamInv /\ [Next]_vars => StreamInv'
  BY InvStep, StreamStep DEF StreamInv
<1>3. StreamInv => NothingLost
  BY DEF StreamInv, Followed, NothingLost, Open
<1> QED
  BY <1>1, <1>2, <1>3, PTL DEF Spec

-----------------------------------------------------------------------------
(* The relay: when lines are sent and read whole, the server is one.        *)

\* s is made of the lines 1 to m, each with its CR LF.
Lines(s, m) ==
    /\ Len(s) = m + m
    /\ \A i \in 1..m : /\ s[i + i - 1].part = "head" /\ s[i + i - 1].n = i
                       /\ s[i + i].part = "tail" /\ s[i + i].n = i
Whole(s) == \E m \in Nat : Lines(s, m)
Even(n) == \E m \in Nat : n = m + m

\* What a server that reads whole lines broadcasts.
Entry == [from : Conn, sort : {"message"}, units : Seq(Unit), to : SUBSET Conn]

\* Whole lines are sent and taken, and outside get_message no buffer holds
\* anything.
WholeLines ==
    /\ \A c \in Conn : Whole(sent[c]) /\ Whole(handled[c])
    /\ \A c \in Conn : inbuf[c] # 0 => phase = "messages" /\ c = curr /\ Even(inbuf[c])
    /\ log \in Seq(Entry)

RelayInv == StreamInv /\ WholeLines

(* Every number is even, or odd.                                            *)
LEMMA Halves ==
  ASSUME NEW p \in Nat
  PROVE  \E i \in Nat : p = i + i \/ p = i + i + 1
<1> DEFINE bad == {q \in Nat : ~\E i \in Nat : q = i + i \/ q = i + i + 1}
<1>1. SUFFICES bad = {}
  OBVIOUS
<1>2. SUFFICES ASSUME bad # {} PROVE FALSE
  OBVIOUS
<1>3. PICK q \in bad : \A r \in bad : q <= r
  <2>1. bad \in SUBSET Nat
    OBVIOUS
  <2> HIDE DEF bad
  <2> QED
    BY <1>2, <2>1, LeastIsLeast
<1>4. q \in Nat /\ ~\E i \in Nat : q = i + i \/ q = i + i + 1
  OBVIOUS
<1>5. q # 0
  BY <1>4, 0 \in Nat
<1>6. q - 1 \in Nat /\ ~(q <= q - 1)
  BY <1>4, <1>5
<1>7. PICK i \in Nat : q - 1 = i + i \/ q - 1 = i + i + 1
  BY <1>3, <1>6
<1>8. i + 1 \in Nat /\ (q = i + i + 1 \/ q = (i + 1) + (i + 1))
  BY <1>4, <1>7
<1> QED
  BY <1>4, <1>8

(* In a stream of whole lines the even places are those of the CR LF.       *)
LEMMA TailsAreEven ==
  ASSUME NEW s, NEW m \in Nat, Lines(s, m), NEW p \in 1..(m + m)
  PROVE  \E i \in 1..m : \/ p = i + i /\ s[p].part = "tail" /\ s[p].n = i
                         \/ p = i + i - 1 /\ s[p].part = "head" /\ s[p].n = i
<1>1. PICK j \in Nat : p = j + j \/ p = j + j + 1
  <2>1. p \in Nat
    OBVIOUS
  <2> QED
    BY <2>1, Halves
<1>2. CASE p = j + j
  <2>1. j \in 1..m
    BY <1>2
  <2> QED
    BY <1>2, <2>1 DEF Lines
<1>3. CASE p = j + j + 1
  <2>1. j + 1 \in 1..m /\ p = (j + 1) + (j + 1) - 1
    BY <1>3
  <2> QED
    BY <2>1 DEF Lines
<1> QED
  BY <1>1, <1>2, <1>3

(* How many lines there are in such a stream, counted by their numbers and  *)
(* by their ends.                                                           *)
LEMMA LinesAreCounted ==
  ASSUME NEW s \in Seq(Unit), NEW m \in Nat, Lines(s, m)
  PROVE  /\ Cardinality({s[i].n : i \in DOMAIN s}) = m
         /\ Cardinality({i \in DOMAIN s : s[i].part = "tail"}) = m
<1>1. DOMAIN s = 1..(m + m)
  BY LenProperties DEF Lines
<1>2. {s[i].n : i \in DOMAIN s} = 1..m
  <2>1. ASSUME NEW p \in DOMAIN s PROVE s[p].n \in 1..m
    BY <1>1, TailsAreEven
  <2>2. ASSUME NEW i \in 1..m PROVE \E p \in DOMAIN s : s[p].n = i
    <3>1. i + i \in DOMAIN s /\ s[i + i].n = i
      BY <1>1 DEF Lines
    <3> QED
      BY <3>1
  <2> QED
    BY <2>1, <2>2
<1>3. Cardinality(1..m) = m
  BY FS_Interval
<1> DEFINE T == {i \in DOMAIN s : s[i].part = "tail"}
           f == [i \in 1..m |-> i + i]
<1>4. f \in Bijection(1..m, T)
  <2>1. \A i \in 1..m : f[i] \in T
    <3> SUFFICES ASSUME NEW i \in 1..m PROVE f[i] \in T
      OBVIOUS
    <3>1. s[i + i].part = "tail"
      BY DEF Lines
    <3>2. i + i \in 1..(m + m)
      OBVIOUS
    <3>3. f[i] = i + i
      OBVIOUS
    <3> HIDE DEF f
    <3> QED
      BY <1>1, <3>1, <3>2, <3>3
  <2>2. \A i, j \in 1..m : f[i] = f[j] => i = j
    OBVIOUS
  <2>3. ASSUME NEW p \in T PROVE \E i \in 1..m : f[i] = p
    <3>1. PICK i \in 1..m : \/ p = i + i /\ s[p].part = "tail"
                            \/ p = i + i - 1 /\ s[p].part = "head"
      BY <1>1, TailsAreEven
    <3> QED
      BY <3>1
  <2>4. f \in [1..m -> T]
    BY <2>1
  <2> HIDE DEF f, T
  <2> QED
    BY <2>2, <2>3, <2>4 DEF Bijection, Injection, Surjection, IsInjective
<1>5. Cardinality(T) = m
  <2>1. ExistsBijection(1..m, T)
    BY <1>4 DEF ExistsBijection
  <2> HIDE DEF T
  <2> QED
    BY <2>1, FS_CountingElements
<1> QED
  BY <1>2, <1>3, <1>5

(* The next line, behind the others.                                        *)
LEMMA LineAdded ==
  ASSUME NEW s \in Seq(Unit), NEW m \in Nat, Lines(s, m), NEW t \in Seq(Unit), Len(t) = 2,
         t[1].part = "head", t[1].n = m + 1, t[2].part = "tail", t[2].n = m + 1
  PROVE  Lines(s \o t, m + 1)
<1> DEFINE r == s \o t
<1>1. /\ Len(s) = m + m /\ Len(r) = m + m + 2
      /\ \A p \in 1..(m + m + 2) : r[p] = IF p <= m + m THEN s[p] ELSE t[p - (m + m)]
  <2>1. Len(s) = m + m
    BY DEF Lines
  <2>2. /\ Len(r) = Len(s) + Len(t)
        /\ \A p \in 1..(Len(s) + Len(t)) : r[p] = IF p <= Len(s) THEN s[p] ELSE t[p - Len(s)]
    BY ConcatProperties
  <2> HIDE DEF r
  <2> QED
    BY <2>1, <2>2
<1> HIDE DEF r
<1>2. ASSUME NEW i \in 1..(m + 1)
      PROVE  /\ r[i + i - 1].part = "head" /\ r[i + i - 1].n = i
             /\ r[i + i].part = "tail" /\ r[i + i].n = i
  <2>1. /\ i + i - 1 \in 1..(m + m + 2) /\ i + i \in 1..(m + m + 2)
    OBVIOUS
  <2>2. CASE i <= m
    <3>1. i \in 1..m /\ i + i - 1 <= m + m /\ i + i <= m + m
      BY <2>2
    <3>2. r[i + i - 1] = s[i + i - 1] /\ r[i + i] = s[i + i]
      BY <1>1, <2>1, <3>1
    <3> QED
      BY <3>1, <3>2 DEF Lines
  <2>3. CASE ~(i <= m)
    <3>1. /\ i = m + 1 /\ ~(i + i - 1 <= m + m) /\ ~(i + i <= m + m)
          /\ (i + i - 1) - (m + m) = 1 /\ (i + i) - (m + m) = 2
      BY <2>3
    <3>2. r[i + i - 1] = t[1] /\ r[i + i] = t[2]
      BY <1>1, <2>1, <3>1
    <3> QED
      BY <3>1, <3>2
  <2> QED
    BY <2>2, <2>3
<1>3. Len(r) = (m + 1) + (m + 1)
  BY <1>1
<1> QED
  BY <1>2, <1>3 DEF Lines, r

(* Where the units of an open client's stream are.                          *)
LEMMA StreamPlaces ==
  ASSUME StreamInv, NEW c \in Conn, fd[c] # 0
  PROVE  /\ Len(sent[c]) = Len(handled[c]) + inbuf[c] + Len(net[c])
         /\ Len(handled[c]) \in Nat /\ Len(net[c]) \in Nat /\ inbuf[c] \in Nat
         /\ \A j \in 1..inbuf[c] : mem[c][j] = sent[c][Len(handled[c]) + j]
         /\ \A j \in 1..Len(net[c]) :
               net[c][j] = sent[c][Len(handled[c]) + inbuf[c] + j]
<1> DEFINE h == handled[c]
           i == inbuf[c]
           b == SubSeq(mem[c], 1, i)
           n == net[c]
           a == h \o b
           s == sent[c]
<1>1. /\ h \in Seq(Unit) /\ n \in Seq(Unit) /\ b \in Seq(Unit)
      /\ mem[c] \in [1..BufUnits -> Unit] /\ i \in 0..BufUnits /\ BufUnits \in Nat
  BY StreamParts, BoundsAssumption DEF StreamInv
<1>2. i \in Nat /\ Len(b) = i /\ \A j \in 1..i : b[j] = mem[c][j]
  <2>1. \A j \in 1..i : mem[c][j] \in Unit
    BY <1>1
  <2> QED
    BY <1>1, <2>1, SubSeqProperties, 1 \in Int, i \in Int
<1>3. s = a \o n
  BY DEF StreamInv, Followed
<1> HIDE DEF h, i, b, n, s
<1>4. /\ Len(h) \in Nat /\ Len(n) \in Nat
      /\ a \in Seq(Unit) /\ Len(a) = Len(h) + i
      /\ \A j \in 1..(Len(h) + i) : a[j] = IF j <= Len(h) THEN h[j] ELSE b[j - Len(h)]
  BY <1>1, <1>2, ConcatProperties, LenProperties
<1> HIDE DEF a
<1>5. /\ Len(s) = Len(a) + Len(n)
      /\ \A j \in 1..(Len(a) + Len(n)) : s[j] = IF j <= Len(a) THEN a[j] ELSE n[j - Len(a)]
  BY <1>1, <1>3, <1>4, ConcatProperties
<1>6. ASSUME NEW j \in 1..i PROVE mem[c][j] = s[Len(h) + j]
  <2>1. /\ Len(h) + j \in 1..(Len(h) + i) /\ ~(Len(h) + j <= Len(h)) /\ (Len(h) + j) - Len(h) = j
        /\ Len(h) + j \in 1..(Len(a) + Len(n)) /\ Len(h) + j <= Len(a)
    BY <1>2, <1>4
  <2>2. s[Len(h) + j] = a[Len(h) + j]
    BY <1>5, <2>1
  <2>3. a[Len(h) + j] = b[j]
    BY <1>4, <2>1
  <2> QED
    BY <1>2, <2>2, <2>3
<1>7. ASSUME NEW j \in 1..Len(n) PROVE n[j] = s[Len(h) + i + j]
  <2>1. /\ Len(h) + i + j \in 1..(Len(a) + Len(n)) /\ ~(Len(h) + i + j <= Len(a))
        /\ (Len(h) + i + j) - Len(a) = j
    BY <1>2, <1>4
  <2> QED
    BY <1>5, <2>1
<1> QED
  BY <1>2, <1>4, <1>5, <1>6, <1>7 DEF h, i, n, s

(* A read that does not fill the buffer brings whole lines, into an empty   *)
(* buffer: there is a message in it.                                        *)
LEMMA WholeRead ==
  ASSUME Pieces = FALSE, RelayInv, NEW k \in 1..BufUnits, Read(k), ~Overflows(k)
  PROVE  /\ curr \in Conn /\ inbuf[curr] = 0 /\ Even(k)
         /\ Newlines(Filled(curr, k), inbuf[curr] + k) # {}
<1>0. StreamInv /\ ServerInv /\ TypeOK /\ WholeLines
  BY DEF RelayInv, StreamInv, ServerInv
<1>1. curr \in Conn /\ fd[curr] # 0
  BY <1>0, ReadFollowed
<1>2. inbuf[curr] = 0 /\ BufUnits \in Nat /\ k <= Len(net[curr]) /\ k \in Nat
  BY <1>0, <1>1, BoundsAssumption DEF WholeLines, Read, Reading
<1>3. net[curr][k].part = "tail"
  <2>1. Returns(curr, k)
    BY DEF Read
  <2>2. k # Room(curr)
    BY <1>2 DEF Room, Overflows
  <2> QED
    BY <2>1, <2>2 DEF Returns
<1>4. PICK m \in Nat : Lines(handled[curr], m)
  BY <1>0, <1>1 DEF WholeLines, Whole
<1>5. PICK n \in Nat : Lines(sent[curr], n)
  BY <1>0, <1>1 DEF WholeLines, Whole
<1>6. /\ n + n = m + m + Len(net[curr]) /\ Len(net[curr]) \in Nat
      /\ net[curr][k] = sent[curr][m + m + k]
  <2>1. /\ Len(sent[curr]) = Len(handled[curr]) + inbuf[curr] + Len(net[curr])
        /\ Len(net[curr]) \in Nat
        /\ \A j \in 1..Len(net[curr]) :
              net[curr][j] = sent[curr][Len(handled[curr]) + inbuf[curr] + j]
    BY <1>0, <1>1, StreamPlaces
  <2>2. Len(sent[curr]) = n + n /\ Len(handled[curr]) = m + m
    BY <1>4, <1>5 DEF Lines
  <2>3. k \in 1..Len(net[curr])
    BY <1>2, <2>1
  <2>4. m + m + inbuf[curr] + k = m + m + k /\ m + m + inbuf[curr] + Len(net[curr]) = m + m + Len(net[curr])
    BY <1>2, <2>1
  <2> QED
    BY <2>1, <2>2, <2>3, <2>4
<1>7. Even(k)
  <2> DEFINE l == Len(net[curr])
             p == m + m + k
  <2>1. p \in 1..(n + n)
    <3>1. n + n = m + m + l /\ l \in Nat /\ k <= l
      BY <1>2, <1>6
    <3> HIDE DEF l
    <3> QED
      BY <3>1
  <2>2. PICK i \in 1..n : p = i + i
    <3>1. sent[curr][p].part = "tail"
      BY <1>3, <1>6
    <3> HIDE DEF p
    <3> QED
      BY <1>5, <2>1, <3>1, TailsAreEven
  <2>3. i - m \in Nat /\ k = (i - m) + (i - m)
    BY <1>2, <2>2
  <2> QED
    BY <2>3 DEF Even
<1>8. k \in Newlines(Filled(curr, k), inbuf[curr] + k)
  <2>1. Filled(curr, k)[k] = net[curr][k]
    BY <1>2 DEF Filled
  <2> QED
    BY <1>2, <1>3, <2>1 DEF Newlines
<1> QED
  BY <1>1, <1>2, <1>7, <1>8

(* The first message in the buffer is the line that follows those handled.  *)
LEMMA WholeMessage ==
  ASSUME RelayInv, HasMessage
  PROVE  \E m \in Nat :
            /\ curr \in Conn /\ fd[curr] # 0 /\ Lines(handled[curr], m)
            /\ \E n \in Nat : Lines(sent[curr], n) /\ m < n
            /\ MessageUnits(curr) = 2 /\ Even(inbuf[curr] - 2)
            /\ mem[curr][1].part = "head" /\ mem[curr][1].n = m + 1
            /\ mem[curr][2].part = "tail" /\ mem[curr][2].n = m + 1
            /\ SubSeq(mem[curr], 1, 2) \in Seq(Unit) /\ Len(SubSeq(mem[curr], 1, 2)) = 2
            /\ SubSeq(mem[curr], 1, 2)[1] = mem[curr][1]
            /\ SubSeq(mem[curr], 1, 2)[2] = mem[curr][2]
            /\ Lines(handled[curr] \o SubSeq(mem[curr], 1, 2), m + 1)
<1>0. StreamInv /\ ServerInv /\ TypeOK /\ WholeLines
  BY DEF RelayInv, StreamInv, ServerInv
<1>1. curr \in Conn /\ fd[curr] # 0
  <2>1. curr \in Conn /\ fd[curr] \in 1..MaxConns
    BY <1>0, PositionFound DEF HasMessage
  <2> QED
    BY <2>1, BoundsAssumption
<1> DEFINE b == mem[curr]
           i == inbuf[curr]
           h == handled[curr]
           t == SubSeq(b, 1, 2)
<1>2. /\ b \in [1..BufUnits -> Unit] /\ i \in 0..BufUnits /\ BufUnits \in Nat
      /\ h \in Seq(Unit)
  BY <1>0, <1>1, StreamParts, BoundsAssumption
<1>3. PICK e \in Nat : i = e + e /\ e # 0
  <2>1. i # 0
    BY <1>2 DEF HasMessage, Newlines
  <2>2. PICK e \in Nat : i = e + e
    BY <1>0, <1>1, <2>1 DEF WholeLines, Even
  <2> QED
    BY <2>1, <2>2
<1>4. PICK m \in Nat : Lines(h, m)
  BY <1>0, <1>1 DEF WholeLines, Whole
<1>5. PICK n \in Nat : Lines(sent[curr], n)
  BY <1>0, <1>1 DEF WholeLines, Whole
<1>6. /\ n + n = m + m + i + Len(net[curr]) /\ Len(net[curr]) \in Nat
      /\ \A j \in 1..i : b[j] = sent[curr][m + m + j]
  <2>1. /\ Len(sent[curr]) = Len(h) + i + Len(net[curr]) /\ Len(net[curr]) \in Nat
        /\ \A j \in 1..i : b[j] = sent[curr][Len(h) + j]
    BY <1>0, <1>1, StreamPlaces
  <2>2. Len(sent[curr]) = n + n /\ Len(h) = m + m
    BY <1>4, <1>5 DEF Lines
  <2> QED
    BY <2>1, <2>2
<1> DEFINE l == Len(net[curr])
<1>13. n + n = m + m + i + l /\ l \in Nat
  BY <1>6
<1> HIDE DEF b, i, h, l
<1>7. m + 1 \in 1..n /\ m < n /\ 1 \in 1..i /\ 2 \in 1..i
  BY <1>3, <1>13
<1>8. /\ b[1].part = "head" /\ b[1].n = m + 1
      /\ b[2].part = "tail" /\ b[2].n = m + 1
  <2>1. m + m + 1 = (m + 1) + (m + 1) - 1 /\ m + m + 2 = (m + 1) + (m + 1)
    OBVIOUS
  <2>2. b[1] = sent[curr][(m + 1) + (m + 1) - 1] /\ b[2] = sent[curr][(m + 1) + (m + 1)]
    BY <1>6, <1>7, <2>1
  <2> QED
    BY <1>5, <1>7, <2>2 DEF Lines
<1>9. MessageUnits(curr) = 2
  <2> DEFINE N == Newlines(b, i)
  <2>1. N \in SUBSET Nat /\ 2 \in N /\ \A j \in N : j \in Nat /\ j # 0 /\ b[j].part = "tail"
    BY <1>2, <1>7, <1>8 DEF Newlines
  <2>2. Least(N) \in N /\ \A y \in N : Least(N) <= y
    <3> HIDE DEF N
    <3> QED
      BY <2>1, LeastIsLeast
  <2>3. Least(N) # 1
    BY <1>8, <2>1, <2>2
  <2>4. Least(N) = 2
    <3> HIDE DEF N
    <3> DEFINE q == Least(N)
    <3>1. q \in Nat /\ q # 0 /\ q # 1 /\ q <= 2
      BY <2>1, <2>2, <2>3
    <3> HIDE DEF q
    <3>2. q = 2
      BY <3>1
    <3> QED
      BY <3>2 DEF q
  <2> QED
    BY <2>4 DEF MessageUnits, b, i
<1>10. Even(i - 2)
  <2>1. e - 1 \in Nat /\ i - 2 = (e - 1) + (e - 1)
    BY <1>3
  <2> QED
    BY <2>1 DEF Even
<1>11. t \in Seq(Unit) /\ Len(t) = 2 /\ t[1] = b[1] /\ t[2] = b[2]
  <2>1. \A j \in 1..2 : b[j] \in Unit
    BY <1>2, <1>7
  <2>2. /\ t \in Seq(Unit) /\ Len(t) = (IF 1 <= 2 THEN 2 - 1 + 1 ELSE 0)
        /\ \A j \in 1..2 - 1 + 1 : t[j] = b[1 + j - 1]
    BY <2>1, SubSeqProperties, 1 \in Int, 2 \in Int
  <2> HIDE DEF t
  <2> QED
    BY <2>2
<1> HIDE DEF t
<1>12. Lines(h \o t, m + 1)
  BY <1>2, <1>4, <1>8, <1>11, LineAdded
<1> QED
  BY <1>1, <1>4, <1>5, <1>7, <1>8, <1>9, <1>10, <1>11, <1>12 DEF b, i, h, t

(* When no message is left in the buffer, it is empty.                      *)
LEMMA WholeEnd ==
  ASSUME RelayInv, phase = "messages", ~HasMessage
  PROVE  inbuf[curr] = 0
<1>0. StreamInv /\ ServerInv /\ TypeOK /\ WholeLines
  BY DEF RelayInv, StreamInv, ServerInv
<1>1. curr \in Conn /\ fd[curr] # 0
  <2>1. curr \in Conn /\ fd[curr] \in 1..MaxConns
    BY <1>0, PositionFound
  <2> QED
    BY <2>1, BoundsAssumption
<1> DEFINE b == mem[curr]
           i == inbuf[curr]
           h == handled[curr]
<1>2. SUFFICES ASSUME i # 0 PROVE FALSE
  OBVIOUS
<1>3. PICK e \in Nat : i = e + e
  BY <1>0, <1>1, <1>2 DEF WholeLines, Even
<1>4. PICK m \in Nat : Lines(h, m)
  BY <1>0, <1>1 DEF WholeLines, Whole
<1>5. PICK n \in Nat : Lines(sent[curr], n)
  BY <1>0, <1>1 DEF WholeLines, Whole
<1>6. /\ n + n = m + m + i + Len(net[curr]) /\ Len(net[curr]) \in Nat
      /\ \A j \in 1..i : b[j] = sent[curr][m + m + j]
  <2>1. /\ Len(sent[curr]) = Len(h) + i + Len(net[curr]) /\ Len(net[curr]) \in Nat
        /\ \A j \in 1..i : b[j] = sent[curr][Len(h) + j]
    BY <1>0, <1>1, StreamPlaces
  <2>2. Len(sent[curr]) = n + n /\ Len(h) = m + m
    BY <1>4, <1>5 DEF Lines
  <2> QED
    BY <2>1, <2>2
<1>7. ~HasMessage
  OBVIOUS
<1>8. Newlines(b, i) = {}
  BY <1>7 DEF HasMessage
<1> DEFINE l == Len(net[curr])
<1>11. n + n = m + m + i + l /\ l \in Nat
  BY <1>6
<1> HIDE DEF b, i, h, l
<1>9. m + e \in 1..n /\ i \in 1..i /\ m + m + i = (m + e) + (m + e)
  BY <1>2, <1>3, <1>11
<1>10. b[i].part = "tail"
  <2>1. b[i] = sent[curr][(m + e) + (m + e)]
    BY <1>6, <1>9
  <2> QED
    BY <1>5, <1>9, <2>1, ZenonT(60) DEF Lines
<1> QED
  BY <1>8, <1>9, <1>10 DEF Newlines

(* A step that leaves what was sent and handled, and finds no buffer filled *)
(* but the one that it leaves to get_message, keeps the lines whole.        *)
LEMMA WholeKept ==
  ASSUME RelayInv, UNCHANGED <<sent, handled, log, inbuf>>,
         \A c \in Conn : inbuf[c] # 0 => phase' = "messages" /\ curr' = curr
  PROVE  WholeLines'
  BY DEF RelayInv, WholeLines

(* A line that is sent whole is the next one of its client.                 *)
LEMMA WholeSent ==
  ASSUME Pieces = FALSE, RelayInv, NEW c \in Conn, NEW what \in Whats, SendLine(c, what),
         NEW m \in Nat, Lines(sent[c], m)
  PROVE  /\ sent \in [Conn -> Seq(Unit)]
         /\ sent'[c] \in Seq(Unit) /\ Lines(sent'[c], m + 1)
         /\ \A d \in Conn : d # c => sent'[d] = sent[d]
         /\ UNCHANGED <<host, life, handled, log, inbuf, phase, curr>>
<1>0. TypeOK
  BY DEF RelayInv, StreamInv, ServerInv
<1> DEFINE n == LinesSent(c) + 1
           h == TextUnit(n, what)
           e == EndUnit(n, what)
           t == <<h, e>>
<1>1. n = m + 1
  BY <1>0, LinesAreCounted DEF TypeOK, LinesSent
<1>2. h \in Unit /\ e \in Unit /\ h.part = "head" /\ e.part = "tail" /\ h.n = n /\ e.n = n
  <2>1. n \in Nat \ {0}
    <3> HIDE DEF n
    <3> QED
      BY <1>1
  <2>2. h \in Unit /\ e \in Unit
    BY <2>1, UnitsTyped
  <2> HIDE DEF n
  <2> QED
    BY <2>2 DEF TextUnit, EndUnit
<1>3. t \in Seq(Unit) /\ Len(t) = 2 /\ t[1] = h /\ t[2] = e
  <2> HIDE DEF h, e
  <2> QED
    BY <1>2
<1>4. Transmit(c, t)
  BY DEF SendLine
<1>5. sent' = [sent EXCEPT ![c] = sent[c] \o t]
  BY <1>4 DEF Transmit
<1> HIDE DEF h, e, t, n
<1>6. sent[c] \in Seq(Unit) /\ sent[c] \o t \in Seq(Unit)
  <2>1. sent[c] \in Seq(Unit)
    BY <1>0 DEF TypeOK
  <2> QED
    BY <1>3, <2>1, ConcatProperties
<1> DEFINE u == sent[c] \o t
<1>7. Lines(u, m + 1)
  BY <1>1, <1>2, <1>3, <1>6, LineAdded
<1> HIDE DEF u
<1>8. sent'[c] = u /\ \A d \in Conn : d # c => sent'[d] = sent[d]
  BY <1>0, <1>5 DEF TypeOK, u
<1> QED
  BY <1>0, <1>4, <1>6, <1>7, <1>8 DEF TypeOK, Transmit, serverVars, histories, buffers, u

(* No line waits for its CR LF.                                             *)
LEMMA NothingInLine ==
  ASSUME RelayInv, NEW c \in Conn
  PROVE  ~SendRest(c)
<1> SUFFICES ASSUME SendRest(c) PROVE FALSE
  OBVIOUS
<1>1. sent[c] \in Seq(Unit) /\ sent[c] # <<>> /\ Last(sent[c]).part = "head"
  BY DEF SendRest, InLine, RelayInv, StreamInv, ServerInv, TypeOK
<1>2. PICK m \in Nat : Lines(sent[c], m)
  BY DEF RelayInv, WholeLines, Whole
<1>3. Len(sent[c]) = m + m /\ Len(sent[c]) # 0
  BY <1>1, <1>2, EmptySeq DEF Lines
<1>4. m \in 1..m
  BY <1>3
<1>5. sent[c][m + m].part = "tail"
  BY <1>2, <1>4 DEF Lines
<1> QED
  BY <1>1, <1>3, <1>5 DEF Last

(* Nor does the server ever take less than a line.                          *)
LEMMA NoChunks ==
  ASSUME Pieces = FALSE, RelayInv
  PROVE  ~ReadEndChunk /\ \A k \in 1..BufUnits : ~ReadChunk(k)
<1>1. ~ReadEndChunk
  <2> SUFFICES ASSUME ReadEndChunk PROVE FALSE
    OBVIOUS
  <2>1. phase = "scan" /\ inbuf[curr] > 0 /\ curr \in Conn
    BY PositionFound DEF ReadEndChunk, Reading, RelayInv, StreamInv
  <2> QED
    BY <2>1 DEF RelayInv, WholeLines
<1>2. ASSUME NEW k \in 1..BufUnits, ReadChunk(k) PROVE FALSE
  BY <1>2, WholeRead DEF ReadChunk
<1> QED
  BY <1>1, <1>2

(* Taking a message is taking the next line of a client.                    *)
LEMMA WholeTaken ==
  ASSUME RelayInv, HasMessage, TakeMessage(curr)
  PROVE  \E m \in Nat :
            /\ curr \in Conn /\ life[curr] = "open" /\ Lines(handled[curr], m)
            /\ \E n \in Nat : Lines(sent[curr], n) /\ m < n
            /\ mem[curr][1].part = "head" /\ mem[curr][1].n = m + 1
            /\ mem[curr][2].n = m + 1 /\ MessageUnits(curr) = 2
            /\ SubSeq(mem[curr], 1, 2) \in Seq(Unit) /\ Len(SubSeq(mem[curr], 1, 2)) = 2
            /\ SubSeq(mem[curr], 1, 2)[1] = mem[curr][1]
            /\ SubSeq(mem[curr], 1, 2)[2] = mem[curr][2]
            /\ handled'[curr] \in Seq(Unit) /\ Lines(handled'[curr], m + 1)
            /\ \A d \in Conn : d # curr => handled'[d] = handled[d]
            /\ Even(inbuf'[curr]) /\ \A d \in Conn : d # curr => inbuf'[d] = inbuf[d]
            /\ UNCHANGED <<host, life, sent, phase, curr>>
<1>0. StreamInv /\ ServerInv /\ TypeOK
  BY DEF RelayInv, StreamInv, ServerInv
<1> DEFINE t == SubSeq(mem[curr], 1, 2)
<1>1. PICK m \in Nat :
         /\ curr \in Conn /\ fd[curr] # 0 /\ Lines(handled[curr], m)
         /\ \E n \in Nat : Lines(sent[curr], n) /\ m < n
         /\ MessageUnits(curr) = 2 /\ Even(inbuf[curr] - 2)
         /\ mem[curr][1].part = "head" /\ mem[curr][1].n = m + 1
         /\ mem[curr][2].part = "tail" /\ mem[curr][2].n = m + 1
         /\ t \in Seq(Unit) /\ Len(t) = 2
         /\ t[1] = mem[curr][1] /\ t[2] = mem[curr][2]
         /\ Lines(handled[curr] \o t, m + 1)
  BY WholeMessage
<1>2. life[curr] = "open"
  BY <1>0, <1>1, StreamParts
<1>3. /\ inbuf' = [inbuf EXCEPT ![curr] = inbuf[curr] - 2]
      /\ handled' = [handled EXCEPT ![curr] = handled[curr] \o t]
      /\ UNCHANGED <<host, life, sent, phase, curr>>
  BY <1>1 DEF TakeMessage, network
<1>4. handled[curr] \in Seq(Unit) /\ inbuf \in [Conn -> 0..(BufUnits - 1)]
      /\ handled \in [Conn -> Seq(Unit)]
  BY <1>0, <1>1 DEF TypeOK
<1> HIDE DEF t
<1> DEFINE u == handled[curr] \o t
           j == inbuf[curr] - 2
<1>5. u \in Seq(Unit)
  BY <1>1, <1>4, ConcatProperties
<1> HIDE DEF u, j
<1>6. /\ handled'[curr] = u /\ \A d \in Conn : d # curr => handled'[d] = handled[d]
      /\ inbuf'[curr] = j /\ \A d \in Conn : d # curr => inbuf'[d] = inbuf[d]
  BY <1>1, <1>3, <1>4 DEF u, j
<1>7. Lines(handled'[curr], m + 1) /\ Even(inbuf'[curr]) /\ handled'[curr] \in Seq(Unit)
  BY <1>1, <1>5, <1>6 DEF u, j
<1> QED
  BY <1>1, <1>2, <1>3, <1>6, <1>7 DEF t

(* What a broadcast of a message adds to the log.                           *)
LEMMA WholeShown ==
  ASSUME RelayInv, BroadcastMessage
  PROVE  /\ log' = Append(log, [from |-> curr, sort |-> "message",
                                units |-> SubSeq(mem[curr], 1, 2), to |-> SameHost(curr)])
         /\ [from |-> curr, sort |-> "message",
             units |-> SubSeq(mem[curr], 1, 2), to |-> SameHost(curr)] \in Entry
<1>1. HasMessage /\ TakeMessage(curr)
  BY DEF BroadcastMessage
<1>2. /\ curr \in Conn /\ MessageUnits(curr) = 2
      /\ SubSeq(mem[curr], 1, 2) \in Seq(Unit)
  BY <1>1, WholeMessage
<1>3. SameHost(curr) \in SUBSET Conn
  <2>1. clients \in Seq(Conn)
    BY DEF RelayInv, StreamInv, ServerInv, TypeOK
  <2>2. \A d \in ToSet(clients) : d \in Conn
    BY <2>1, LenProperties, ElementOfSeq DEF ToSet
  <2> QED
    BY <2>2 DEF SameHost
<1>4. ~(2 - 1 > MsgUnits)
  BY BoundsAssumption
<1>5. Broadcast(curr, "message", SubSeq(mem[curr], 1, 2))
  BY <1>2, <1>4 DEF BroadcastMessage
<1> QED
  BY <1>2, <1>3, <1>5 DEF Broadcast, Entry

(* Every step keeps the lines whole.                                        *)
LEMMA WholeStep ==
  ASSUME Pieces = FALSE, RelayInv, [Next]_vars
  PROVE  WholeLines'
<1>0. StreamInv /\ ServerInv /\ TypeOK /\ WholeLines
  BY DEF RelayInv, StreamInv, ServerInv
<1>1. ASSUME UNCHANGED <<sent, handled, log, inbuf, phase, curr>> PROVE WholeLines'
  BY <1>1, WholeKept DEF RelayInv, WholeLines
<1>2. ASSUME UNCHANGED <<sent, handled, log, inbuf>>, phase # "messages" PROVE WholeLines'
  BY <1>0, <1>2, WholeKept DEF WholeLines
<1>3. ASSUME NEW c \in Conn, Connect(c) \/ Close(c) PROVE WholeLines'
  BY <1>1, <1>3 DEF Connect, Close, serverVars, buffers, histories
<1>4. ASSUME NEW c \in Conn, NEW what \in Whats, SendLine(c, what) PROVE WholeLines'
  <2>1. PICK m \in Nat : Lines(sent[c], m)
    BY <1>0 DEF WholeLines, Whole
  <2>2. /\ Lines(sent'[c], m + 1) /\ \A d \in Conn : d # c => sent'[d] = sent[d]
        /\ UNCHANGED <<handled, log, inbuf, phase, curr>>
    BY <1>4, <2>1, WholeSent
  <2>3. \A d \in Conn : Whole(sent'[d])
    <3>1. Whole(sent'[c])
      <4>1. m + 1 \in Nat
        OBVIOUS
      <4> QED
        BY <2>2, <4>1 DEF Whole
    <3>2. \A d \in Conn : d # c => Whole(sent'[d])
      BY <1>0, <2>2 DEF WholeLines
    <3> QED
      BY <3>1, <3>2
  <2> QED
    BY <1>0, <2>2, <2>3 DEF WholeLines
<1>5. ASSUME NEW c \in Conn, SendRest(c) PROVE FALSE
  BY <1>5, NothingInLine
<1>6. CASE Select \/ NoAccept \/ Refuse \/ Skip
  BY <1>2, <1>6 DEF Select, NoAccept, Refuse, Skip, network, buffers, histories
<1>7. CASE Accept
  <2>1. UNCHANGED <<sent, handled, log>> /\ phase = "accept"
        /\ inbuf' = [inbuf EXCEPT ![backlog[1]] = 0]
    BY <1>7 DEF Accept, histories
  <2>2. \A c \in Conn : inbuf'[c] = 0
    BY <1>0, <2>1 DEF WholeLines, TypeOK
  <2> QED
    BY <1>0, <2>1, <2>2 DEF WholeLines
<1>8. CASE ReadFails \/ ReadEnd \/ \E k \in 1..BufUnits : ReadOverflow(k)
  <2>1. UNCHANGED <<sent, handled, log, inbuf>> /\ phase # "messages"
    BY <1>8 DEF ReadFails, ReadEnd, ReadOverflow, Read, Reading, Drop, buffers, histories
  <2> QED
    BY <1>2, <2>1
<1>9. CASE ReadEndChunk \/ \E k \in 1..BufUnits : ReadChunk(k)
  BY <1>9, NoChunks
<1>10. ASSUME NEW k \in 1..BufUnits, ReadLines(k) PROVE WholeLines'
  <2>1. curr \in Conn /\ inbuf[curr] = 0 /\ Even(k)
    BY <1>10, WholeRead DEF ReadLines
  <2>2. /\ UNCHANGED <<sent, handled, log, curr>> /\ phase' = "messages" /\ phase = "scan"
        /\ inbuf' = [inbuf EXCEPT ![curr] = inbuf[curr] + k]
    BY <1>10 DEF ReadLines, Read, Reading, histories
  <2>3. inbuf'[curr] = k /\ \A d \in Conn : d # curr => inbuf'[d] = 0
    <3>1. \A d \in Conn : inbuf[d] = 0
      BY <1>0, <2>2 DEF WholeLines
    <3>2. inbuf[curr] + k = k
      BY <2>1
    <3> QED
      BY <1>0, <2>1, <2>2, <3>1, <3>2 DEF TypeOK
  <2> QED
    BY <1>0, <2>1, <2>2, <2>3 DEF WholeLines
<1>11. ASSUME HasMessage, TakeMessage(curr), log' \in Seq(Entry) PROVE WholeLines'
  <2>1. PICK m \in Nat :
           /\ curr \in Conn /\ Lines(handled'[curr], m + 1)
           /\ \A d \in Conn : d # curr => handled'[d] = handled[d]
           /\ Even(inbuf'[curr]) /\ \A d \in Conn : d # curr => inbuf'[d] = inbuf[d]
           /\ UNCHANGED <<sent, phase, curr>>
    BY <1>11, WholeTaken
  <2>2. Whole(handled'[curr])
    <3>1. m + 1 \in Nat
      OBVIOUS
    <3> QED
      BY <2>1, <3>1 DEF Whole
  <2>3. \A d \in Conn : Whole(handled'[d])
    BY <1>0, <2>1, <2>2 DEF WholeLines
  <2>4. phase = "messages"
    BY <1>11 DEF HasMessage
  <2> QED
    BY <1>0, <1>11, <2>1, <2>3, <2>4 DEF WholeLines
<1>12. CASE BroadcastMessage
  <2>1. log' \in Seq(Entry)
    BY <1>0, <1>12, WholeShown, AppendProperties DEF WholeLines
  <2> QED
    BY <1>11, <1>12, <2>1 DEF BroadcastMessage
<1>13. CASE AnswerConnected
  BY <1>0, <1>11, <1>13 DEF AnswerConnected, WholeLines
<1>14. CASE EndMessages
  <2>1. /\ phase = "messages" /\ ~HasMessage
        /\ UNCHANGED <<sent, handled, log, inbuf>>
    BY <1>14 DEF EndMessages, network, buffers, histories
  <2>2. inbuf[curr] = 0
    BY <2>1, WholeEnd
  <2>3. \A c \in Conn : inbuf[c] = 0
    BY <1>0, <2>2 DEF WholeLines
  <2> QED
    BY <2>1, <2>3, WholeKept
<1>15. CASE UNCHANGED vars
  BY <1>1, <1>15 DEF vars, network, buffers, histories
<1> QED
  BY <1>3, <1>4, <1>5, <1>6, <1>7, <1>8, <1>9, <1>10, <1>12, <1>13, <1>14, <1>15
     DEF Next, ClientStep, ServerStep

\* The variables of the relay.
JoinedNow == [c \in Conn |-> life[c] = "open"]
PostedNow == [c \in Conn |-> LinesSent(c)]
TakenNow == [c \in Conn |-> LinesHandled(c)]
RoomNow == [i \in DOMAIN log |-> <<log[i].from, RelayedLine(log[i]), log[i].to>>]
RelayNow == <<host, JoinedNow, PostedNow, TakenNow, RoomNow>>

(* They depend on nothing else.                                             *)
LEMMA RelayUnmoved ==
  /\ UNCHANGED life => UNCHANGED JoinedNow
  /\ (\A c \in Conn : life'[c] = "open" <=> life[c] = "open") => UNCHANGED JoinedNow
  /\ UNCHANGED sent => UNCHANGED PostedNow
  /\ UNCHANGED handled => UNCHANGED TakenNow
  /\ UNCHANGED log => UNCHANGED RoomNow
<1>1. UNCHANGED life => UNCHANGED JoinedNow
  BY DEF JoinedNow
<1>2. (\A c \in Conn : life'[c] = "open" <=> life[c] = "open") => UNCHANGED JoinedNow
  BY Zenon DEF JoinedNow
<1>3. UNCHANGED sent => UNCHANGED PostedNow
  BY DEF PostedNow, LinesSent
<1>4. UNCHANGED handled => UNCHANGED TakenNow
  BY DEF TakenNow, LinesHandled
<1>5. UNCHANGED log => UNCHANGED RoomNow
  BY DEF RoomNow
<1> QED
  BY <1>1, <1>2, <1>3, <1>4, <1>5

(* Neither joining, leaving, posting nor taking.                            *)
LEMMA RelayStutters ==
  ASSUME UNCHANGED RelayNow
  PROVE  UNCHANGED RelaySpec!vars
  BY DEF RelayNow, JoinedNow, PostedNow, TakenNow, RoomNow, RelaySpec!vars

(* The relay's steps.                                                       *)
LEMMA RelaySteps ==
  ASSUME NEW c \in Conn
  PROVE  /\ /\ JoinedNow' = [JoinedNow EXCEPT ![c] = TRUE] /\ ~JoinedNow[c]
            /\ TakenNow[c] = 0 /\ UNCHANGED <<host, PostedNow, TakenNow, RoomNow>>
            => RelaySpec!Join(c)
         /\ /\ JoinedNow' = [JoinedNow EXCEPT ![c] = FALSE] /\ JoinedNow[c]
            /\ UNCHANGED <<host, PostedNow, TakenNow, RoomNow>>
            => RelaySpec!Leave(c)
         /\ /\ PostedNow' = [PostedNow EXCEPT ![c] = @ + 1]
            /\ UNCHANGED <<host, JoinedNow, TakenNow, RoomNow>>
            => RelaySpec!Post(c)
         /\ /\ JoinedNow[c] /\ TakenNow[c] < PostedNow[c]
            /\ TakenNow' = [TakenNow EXCEPT ![c] = @ + 1]
            /\ \/ RoomNow' = RoomNow
               \/ RoomNow' = Append(RoomNow, <<c, TakenNow[c] + 1,
                               {d \in Conn : JoinedNow[d] /\ host[d] = host[c]}>>)
            /\ UNCHANGED <<host, JoinedNow, PostedNow>>
            => RelaySpec!Take(c)
<1>1. ASSUME JoinedNow' = [JoinedNow EXCEPT ![c] = TRUE], ~JoinedNow[c],
             TakenNow[c] = 0, UNCHANGED <<host, PostedNow, TakenNow, RoomNow>>
      PROVE  RelaySpec!Join(c)
  BY <1>1, Zenon DEF JoinedNow, PostedNow, TakenNow, RoomNow, RelaySpec!Join
<1>2. ASSUME JoinedNow' = [JoinedNow EXCEPT ![c] = FALSE], JoinedNow[c],
             UNCHANGED <<host, PostedNow, TakenNow, RoomNow>>
      PROVE  RelaySpec!Leave(c)
  BY <1>2, Zenon DEF JoinedNow, PostedNow, TakenNow, RoomNow, RelaySpec!Leave
<1>3. ASSUME PostedNow' = [PostedNow EXCEPT ![c] = @ + 1],
             UNCHANGED <<host, JoinedNow, TakenNow, RoomNow>>
      PROVE  RelaySpec!Post(c)
  BY <1>3, Zenon DEF JoinedNow, PostedNow, TakenNow, RoomNow, RelaySpec!Post
<1>4. ASSUME JoinedNow[c], TakenNow[c] < PostedNow[c],
             TakenNow' = [TakenNow EXCEPT ![c] = @ + 1],
             \/ RoomNow' = RoomNow
             \/ RoomNow' = Append(RoomNow, <<c, TakenNow[c] + 1,
                             {d \in Conn : JoinedNow[d] /\ host[d] = host[c]}>>),
             UNCHANGED <<host, JoinedNow, PostedNow>>
      PROVE  RelaySpec!Take(c)
  BY <1>4, Zenon DEF JoinedNow, PostedNow, TakenNow, RoomNow, RelaySpec!Take, RelaySpec!Audience
<1> QED
  BY <1>1, <1>2, <1>3, <1>4, Zenon

(* A connection that opens, and one that is gone, among those joined.       *)
LEMMA JoinedChanges ==
  ASSUME NEW c \in Conn, TypeOK
  PROVE  /\ life' = [life EXCEPT ![c] = "open"] => JoinedNow' = [JoinedNow EXCEPT ![c] = TRUE]
         /\ life' = [life EXCEPT ![c] = "gone"] => JoinedNow' = [JoinedNow EXCEPT ![c] = FALSE]
<1>0. life \in [Conn -> {"new", "pending", "open", "gone"}]
  BY DEF TypeOK
<1>1. ASSUME life' = [life EXCEPT ![c] = "open"]
      PROVE  JoinedNow' = [JoinedNow EXCEPT ![c] = TRUE]
  <2>1. \A d \in Conn : (life'[d] = "open") = IF d = c THEN TRUE ELSE life[d] = "open"
    BY <1>0, <1>1
  <2> QED
    BY <2>1, Zenon DEF JoinedNow
<1>2. ASSUME life' = [life EXCEPT ![c] = "gone"]
      PROVE  JoinedNow' = [JoinedNow EXCEPT ![c] = FALSE]
  <2>1. \A d \in Conn : (life'[d] = "open") = IF d = c THEN FALSE ELSE life[d] = "open"
    BY <1>0, <1>2
  <2> QED
    BY <2>1, Zenon DEF JoinedNow
<1> QED
  BY <1>1, <1>2

(* How many lines a client has posted, and how many of them were taken.     *)
LEMMA LinesNow ==
  ASSUME TypeOK, NEW c \in Conn
  PROVE  /\ \A m \in Nat : Lines(sent[c], m) => PostedNow[c] = m
         /\ \A m \in Nat : Lines(handled[c], m) => TakenNow[c] = m
<1>1. sent[c] \in Seq(Unit) /\ handled[c] \in Seq(Unit)
  BY DEF TypeOK
<1>2. ASSUME NEW m \in Nat, Lines(sent[c], m) PROVE PostedNow[c] = m
  <2>1. LinesSent(c) = m
    BY <1>1, <1>2, LinesAreCounted DEF LinesSent
  <2> QED
    BY <2>1 DEF PostedNow
<1>3. ASSUME NEW m \in Nat, Lines(handled[c], m) PROVE TakenNow[c] = m
  <2>1. LinesHandled(c) = m
    BY <1>1, <1>3, LinesAreCounted DEF LinesHandled
  <2> QED
    BY <2>1 DEF TakenNow
<1> QED
  BY <1>2, <1>3

(* A line that is sent is posted.                                           *)
LEMMA SendIsPost ==
  ASSUME Pieces = FALSE, RelayInv, NEW c \in Conn, NEW what \in Whats, SendLine(c, what)
  PROVE  RelaySpec!Post(c)
<1>0. TypeOK /\ WholeLines
  BY DEF RelayInv, StreamInv, ServerInv
<1>1. PICK m \in Nat : Lines(sent[c], m)
  BY <1>0 DEF WholeLines, Whole
<1>2. /\ Lines(sent'[c], m + 1) /\ \A d \in Conn : d # c => sent'[d] = sent[d]
      /\ sent'[c] \in Seq(Unit)
      /\ UNCHANGED <<host, life, handled, log>>
  BY <1>1, WholeSent
<1>3. LinesSent(c) = m
  <2>1. sent[c] \in Seq(Unit)
    BY <1>0 DEF TypeOK
  <2> QED
    BY <1>1, <2>1, LinesAreCounted DEF LinesSent
<1>4. LinesSent(c)' = m + 1
  <2>1. m + 1 \in Nat
    OBVIOUS
  <2>2. Cardinality({sent'[c][i].n : i \in DOMAIN sent'[c]}) = m + 1
    BY <1>2, <2>1, LinesAreCounted
  <2> QED
    BY <2>2 DEF LinesSent
<1>5. \A d \in Conn : d # c => LinesSent(d)' = LinesSent(d)
  BY <1>2 DEF LinesSent
<1>6. PostedNow' = [PostedNow EXCEPT ![c] = PostedNow[c] + 1]
  <2>1. \A d \in Conn : LinesSent(d)' = IF d = c THEN LinesSent(c) + 1 ELSE LinesSent(d)
    BY <1>3, <1>4, <1>5
  <2> QED
    BY <2>1 DEF PostedNow
<1>7. UNCHANGED <<host, JoinedNow, TakenNow, RoomNow>>
  BY <1>2, RelayUnmoved
<1> QED
  BY <1>6, <1>7, RelaySteps

(* A connection that is accepted joins: none of its lines was taken.        *)
LEMMA AcceptIsJoin ==
  ASSUME RelayInv, Accept
  PROVE  \E c \in Conn : RelaySpec!Join(c)
<1>0. StreamInv /\ ServerInv /\ TypeOK
  BY DEF RelayInv, StreamInv, ServerInv
<1>1. PICK c \in Conn : c = backlog[1] /\ life[c] = "pending"
  <2>1. backlog[1] \in Conn /\ life[backlog[1]] = "pending"
    BY <1>0, AcceptFacts DEF Accept
  <2> QED
    BY <2>1
<1>2. life' = [life EXCEPT ![c] = "open"] /\ UNCHANGED <<host, sent, handled, log>>
  BY <1>1 DEF Accept, histories
<1>3. JoinedNow' = [JoinedNow EXCEPT ![c] = TRUE] /\ ~JoinedNow[c]
  <2>1. ~JoinedNow[c]
    BY <1>1 DEF JoinedNow
  <2> QED
    BY <1>0, <1>1, <1>2, <2>1, JoinedChanges
<1>4. TakenNow[c] = 0
  <2> DEFINE none == <<>>
  <2>1. handled[c] = none /\ Len(none) = 0
    BY <1>0, <1>1 DEF StreamInv, Followed
  <2> HIDE DEF none
  <2>2. Lines(handled[c], 0)
    BY <2>1 DEF Lines
  <2> QED
    BY <1>0, <1>1, <2>2, LinesNow, 0 \in Nat
<1>5. UNCHANGED <<host, PostedNow, TakenNow, RoomNow>>
  BY <1>2, RelayUnmoved
<1>6. RelaySpec!Join(c)
  BY <1>1, <1>3, <1>4, <1>5, RelaySteps
<1> QED
  BY <1>1, <1>6

(* One that is dropped leaves.                                              *)
LEMMA DropIsLeave ==
  ASSUME RelayInv, phase = "scan", Drop(curr), UNCHANGED histories
  PROVE  \E c \in Conn : RelaySpec!Leave(c)
<1>0. StreamInv /\ ServerInv /\ TypeOK
  BY DEF RelayInv, StreamInv, ServerInv
<1>1. PICK c \in Conn : c = curr /\ life[c] = "open"
  <2>1. curr \in Conn /\ fd[curr] \in 1..MaxConns
    BY <1>0, PositionFound
  <2>2. fd[curr] # 0
    BY <2>1, BoundsAssumption
  <2> QED
    BY <1>0, <2>1, <2>2, StreamParts
<1>2. life' = [life EXCEPT ![c] = "gone"] /\ UNCHANGED <<host, sent, handled, log>>
  BY <1>1 DEF Drop, histories
<1>3. JoinedNow' = [JoinedNow EXCEPT ![c] = FALSE] /\ JoinedNow[c]
  <2>1. JoinedNow[c]
    BY <1>1 DEF JoinedNow
  <2> QED
    BY <1>0, <1>2, <2>1, JoinedChanges
<1>4. UNCHANGED <<host, PostedNow, TakenNow, RoomNow>>
  BY <1>2, RelayUnmoved
<1>5. RelaySpec!Leave(c)
  BY <1>3, <1>4, RelaySteps
<1> QED
  BY <1>5

(* A message that is broadcast or answered is the line the relay takes, and *)
(* a broadcast shows it, whole, to the clients joined from the same host.   *)
LEMMA MessageIsTake ==
  ASSUME RelayInv, BroadcastMessage \/ AnswerConnected
  PROVE  \E c \in Conn : RelaySpec!Take(c)
<1>0. StreamInv /\ ServerInv /\ TypeOK /\ WholeLines
  BY DEF RelayInv, StreamInv, ServerInv
<1>1. HasMessage /\ TakeMessage(curr)
  BY DEF BroadcastMessage, AnswerConnected
<1> DEFINE t == SubSeq(mem[curr], 1, 2)
<1>2. PICK m \in Nat :
         /\ curr \in Conn /\ life[curr] = "open" /\ Lines(handled[curr], m)
         /\ \E n \in Nat : Lines(sent[curr], n) /\ m < n
         /\ mem[curr][1].part = "head" /\ mem[curr][1].n = m + 1
         /\ mem[curr][2].n = m + 1
         /\ t \in Seq(Unit) /\ Len(t) = 2 /\ t[1] = mem[curr][1] /\ t[2] = mem[curr][2]
         /\ handled'[curr] \in Seq(Unit) /\ Lines(handled'[curr], m + 1)
         /\ \A d \in Conn : d # curr => handled'[d] = handled[d]
         /\ UNCHANGED <<host, life, sent>>
  BY <1>1, WholeTaken
<1>3. PICK c \in Conn : c = curr
  BY <1>2
<1>4. JoinedNow[c]
  BY <1>2, <1>3 DEF JoinedNow
<1>5. TakenNow[c] = m /\ TakenNow[c] < PostedNow[c]
  BY <1>0, <1>2, <1>3, LinesNow
<1>6. TakenNow' = [TakenNow EXCEPT ![c] = TakenNow[c] + 1]
  <2>1. LinesHandled(c) = m
    BY <1>5 DEF TakenNow
  <2>2. LinesHandled(c)' = m + 1
    <3>1. m + 1 \in Nat
      OBVIOUS
    <3>2. Cardinality({i \in DOMAIN handled'[c] : handled'[c][i].part = "tail"}) = m + 1
      BY <1>2, <1>3, <3>1, LinesAreCounted, ZenonT(60)
    <3> QED
      BY <3>2 DEF LinesHandled
  <2>3. \A d \in Conn : d # c => LinesHandled(d)' = LinesHandled(d)
    BY <1>2, <1>3 DEF LinesHandled
  <2>4. \A d \in Conn : LinesHandled(d)' = IF d = c THEN LinesHandled(c) + 1 ELSE LinesHandled(d)
    BY <2>1, <2>2, <2>3
  <2> QED
    BY <2>4 DEF TakenNow
<1>7. UNCHANGED <<host, JoinedNow, PostedNow>>
  BY <1>2, RelayUnmoved
<1>8. CASE AnswerConnected
  <2>1. RoomNow' = RoomNow
    BY <1>8, RelayUnmoved DEF AnswerConnected
  <2> QED
    BY <1>4, <1>5, <1>6, <1>7, <2>1, RelaySteps
<1>9. CASE BroadcastMessage
  <2> DEFINE e == [from |-> curr, sort |-> "message", units |-> t, to |-> SameHost(curr)]
             shown(x) == <<x.from, RelayedLine(x), x.to>>
  <2>1. log' = Append(log, e) /\ log \in Seq(Entry) /\ e \in Entry
    BY <1>0, <1>9, WholeShown DEF WholeLines
  <2>2. SameHost(curr) = {d \in Conn : JoinedNow[d] /\ host[d] = host[c]}
    <3>1. ToSet(clients) = {d \in Conn : life[d] = "open"}
      <4>1. \A d \in Conn : life[d] = "open" <=> \E i \in DOMAIN clients : clients[i] = d
        BY <1>0 DEF ServerInv, Queued, Listed
      <4>2. clients \in Seq(Conn)
        BY <1>0 DEF TypeOK
      <4>3. \A i \in DOMAIN clients : clients[i] \in Conn
        BY <4>2, LenProperties, ElementOfSeq
      <4> QED
        BY <4>1, <4>3 DEF ToSet
    <3>2. \A d \in Conn : JoinedNow[d] <=> life[d] = "open"
      BY DEF JoinedNow
    <3> QED
      BY <1>3, <3>1, <3>2 DEF SameHost
  <2>3. RelayedLine(e) = m + 1
    <3>1. /\ e.sort = "message" /\ e.units = t
      OBVIOUS
    <3> HIDE DEF e, t
    <3> QED
      BY <1>2, <3>1 DEF RelayedLine
  <2>4. shown(e) = <<c, TakenNow[c] + 1, {d \in Conn : JoinedNow[d] /\ host[d] = host[c]}>>
    <3>1. e.from = c /\ e.to = SameHost(curr)
      BY <1>3
    <3> HIDE DEF e
    <3> QED
      BY <1>5, <2>2, <2>3, <3>1
  <2>5. RoomNow' = Append(RoomNow, shown(e))
    <3> HIDE DEF e, shown
    <3> DEFINE n == Len(log)
               r == [i \in 1..n |-> shown(log[i])]
               new == [i \in 1..(n + 1) |-> IF i = n + 1 THEN shown(e) ELSE shown(log[i])]
    <3>1. /\ n \in Nat /\ DOMAIN log = 1..n /\ DOMAIN log' = 1..(n + 1)
          /\ \A i \in 1..n : log'[i] = log[i]
          /\ log'[n + 1] = e
      BY <2>1, LenProperties, AppendProperties
    <3>2. RoomNow = r
      BY <3>1 DEF RoomNow, shown
    <3>3. RoomNow' = [i \in 1..(n + 1) |-> shown(log'[i])]
      BY <3>1 DEF RoomNow, shown, RelayedLine
    <3>4. \A i \in 1..(n + 1) : shown(log'[i]) = IF i = n + 1 THEN shown(e) ELSE shown(log[i])
      <4> SUFFICES ASSUME NEW i \in 1..(n + 1)
                   PROVE  shown(log'[i]) = IF i = n + 1 THEN shown(e) ELSE shown(log[i])
        OBVIOUS
      <4>1. i # n + 1 => i \in 1..n
        BY <3>1
      <4> QED
        BY <3>1, <4>1
    <3>5. RoomNow' = new
      BY <3>3, <3>4
    <3>6. new = Append(r, shown(e))
      <4> HIDE DEF n
      <4> DEFINE X == {shown(e)} \cup {shown(log[i]) : i \in 1..n}
                 a == Append(r, shown(e))
      <4>1. r \in Seq(X) /\ Len(r) = n /\ new \in Seq(X) /\ Len(new) = n + 1
        BY <3>1
      <4>2. /\ a \in Seq(X) /\ Len(a) = n + 1 /\ a[n + 1] = shown(e)
            /\ \A i \in 1..n : a[i] = r[i]
        <5>1. shown(e) \in X
          OBVIOUS
        <5> HIDE DEF r, X
        <5> QED
          BY <4>1, <5>1, AppendProperties
      <4>3. \A i \in 1..(n + 1) : a[i] = new[i]
        <5> SUFFICES ASSUME NEW i \in 1..(n + 1) PROVE a[i] = new[i]
          OBVIOUS
        <5>1. i # n + 1 => i \in 1..n
          BY <3>1
        <5>2. new[i] = IF i = n + 1 THEN shown(e) ELSE shown(log[i])
          OBVIOUS
        <5>3. i # n + 1 => r[i] = shown(log[i])
          BY <5>1
        <5> HIDE DEF a, r, new, X
        <5> QED
          BY <4>2, <5>1, <5>2, <5>3
      <4> HIDE DEF a, new, X, r
      <4>4. a = new
        BY <4>1, <4>2, <4>3, SeqEqual
      <4> QED
        BY <4>4 DEF a
    <3> QED
      BY <3>2, <3>5, <3>6
  <2>6. RoomNow' = Append(RoomNow, <<c, TakenNow[c] + 1,
                            {d \in Conn : JoinedNow[d] /\ host[d] = host[c]}>>)
    BY <2>4, <2>5
  <2>7. RelaySpec!Take(c)
    BY <1>4, <1>5, <1>6, <1>7, <2>6, RelaySteps
  <2> QED
    BY <2>7
<1> QED
  BY <1>8, <1>9

(* Every step of the server is a step of the relay, or none.                *)
LEMMA RelayStep ==
  ASSUME Pieces = FALSE, RelayInv, [Next]_vars
  PROVE  [RelaySpec!Next]_(RelaySpec!vars)
<1>0. StreamInv /\ ServerInv /\ TypeOK /\ WholeLines
  BY DEF RelayInv, StreamInv, ServerInv
<1>1. ASSUME UNCHANGED <<host, sent, handled, log>>,
             \A c \in Conn : life'[c] = "open" <=> life[c] = "open"
      PROVE  UNCHANGED RelaySpec!vars
  <2>1. UNCHANGED RelayNow
    BY <1>1, RelayUnmoved DEF RelayNow
  <2> QED
    BY <2>1, RelayStutters
<1>2. ASSUME UNCHANGED <<life, host, sent, handled, log>> PROVE UNCHANGED RelaySpec!vars
  BY <1>1, <1>2
<1>3. ASSUME NEW c \in Conn, Connect(c) PROVE UNCHANGED RelaySpec!vars
  <2>1. \A d \in Conn : life'[d] = "open" <=> life[d] = "open"
    BY <1>0, <1>3 DEF Connect, TypeOK
  <2> QED
    BY <1>1, <1>3, <2>1 DEF Connect, histories
<1>4. ASSUME NEW c \in Conn, Close(c) PROVE UNCHANGED RelaySpec!vars
  BY <1>2, <1>4 DEF Close, serverVars, histories
<1>5. ASSUME NEW c \in Conn, NEW what \in Whats, SendLine(c, what) PROVE RelaySpec!Next
  BY <1>5, SendIsPost DEF RelaySpec!Next
<1>6. ASSUME NEW c \in Conn, SendRest(c) PROVE FALSE
  BY <1>6, NothingInLine
<1>7. CASE Select \/ NoAccept \/ Skip \/ EndMessages
  BY <1>2, <1>7 DEF Select, NoAccept, Skip, EndMessages, network, histories
<1>8. CASE Refuse
  <2>1. \A d \in Conn : life'[d] = "open" <=> life[d] = "open"
    <3> DEFINE b == backlog[1]
    <3>1. b \in Conn /\ life[b] = "pending"
      BY <1>0, <1>8, AcceptFacts DEF Refuse
    <3>2. life' = [life EXCEPT ![b] = "gone"]
      BY <1>8 DEF Refuse
    <3> HIDE DEF b
    <3> QED
      BY <1>0, <3>1, <3>2 DEF TypeOK
  <2> QED
    BY <1>1, <1>8, <2>1 DEF Refuse, histories
<1>9. CASE Accept
  BY <1>9, AcceptIsJoin DEF RelaySpec!Next
<1>10. CASE ReadFails \/ ReadEnd \/ \E k \in 1..BufUnits : ReadOverflow(k)
  <2>1. phase = "scan" /\ Drop(curr) /\ UNCHANGED histories
    BY <1>10 DEF ReadFails, ReadEnd, ReadOverflow, Read, Reading
  <2> QED
    BY <2>1, DropIsLeave DEF RelaySpec!Next
<1>11. CASE ReadEndChunk \/ \E k \in 1..BufUnits : ReadChunk(k)
  BY <1>11, NoChunks
<1>12. ASSUME NEW k \in 1..BufUnits, ReadLines(k) PROVE UNCHANGED RelaySpec!vars
  BY <1>2, <1>12 DEF ReadLines, histories
<1>13. CASE BroadcastMessage \/ AnswerConnected
  BY <1>13, MessageIsTake DEF RelaySpec!Next
<1>14. CASE UNCHANGED vars
  BY <1>2, <1>14 DEF vars, network, histories
<1> QED
  BY <1>3, <1>4, <1>5, <1>6, <1>7, <1>8, <1>9, <1>10, <1>11, <1>12, <1>13, <1>14
     DEF Next, ClientStep, ServerStep

(* At first nobody has joined, and nothing is posted.                       *)
LEMMA RelayInit == Init => RelayInv /\ RelaySpec!Init
<1> SUFFICES ASSUME Init PROVE RelayInv /\ RelaySpec!Init
  OBVIOUS
<1> DEFINE none == <<>>
<1>1. StreamInv
  <2> SUFFICES ASSUME NEW c \in Conn PROVE Followed(c)
    BY InitInv DEF StreamInv
  <2> QED
    BY DEF Init, Followed
<1>2. /\ none \in Seq(Entry) /\ none \in Seq(Unit) /\ Len(none) = 0 /\ DOMAIN none = {}
      /\ log = none /\ \A c \in Conn : sent[c] = none /\ handled[c] = none /\ inbuf[c] = 0
      /\ sent = [c \in Conn |-> none]
  BY EmptySeq DEF Init
<1> HIDE DEF none
<1>3. Lines(none, 0)
  BY <1>2 DEF Lines
<1>4. WholeLines
  BY <1>2, <1>3, 0 \in Nat DEF WholeLines, Whole
<1>5. \A c \in Conn : PostedNow[c] = 0 /\ TakenNow[c] = 0
  <2>1. TypeOK
    BY <1>1 DEF StreamInv, ServerInv
  <2> QED
    BY <1>2, <1>3, <2>1, LinesNow, 0 \in Nat
<1>6. PostedNow = [c \in Conn |-> 0] /\ TakenNow = [c \in Conn |-> 0]
  BY <1>5 DEF PostedNow, TakenNow
<1>7. JoinedNow = [c \in Conn |-> FALSE]
  <2>1. \A c \in Conn : (life[c] = "open") = FALSE
    BY DEF Init
  <2> QED
    BY <2>1, Zenon DEF JoinedNow
<1>8. RoomNow = <<>>
  BY <1>2 DEF RoomNow, none
<1>9. RelaySpec!Init
  BY <1>6, <1>7, <1>8, Zenon DEF JoinedNow, PostedNow, TakenNow, RoomNow, RelaySpec!Init
<1> QED
  BY <1>1, <1>4, <1>9 DEF RelayInv

(* When lines arrive whole, the server is a relay of lines: it takes those  *)
(* of each client one by one, in the order they were posted, shows each to  *)
(* the clients joined from the same host, whole and once, or answers it,    *)
(* and does nothing else; for every number of connections, hosts and lines  *)
(* and every size of the buffer.                                            *)
THEOREM ServerIsRelay == Pieces = FALSE /\ Spec => ImplementsRelay
<1>1. Init => RelayInv /\ RelaySpec!Init
  BY RelayInit
<1>2. Pieces = FALSE /\ RelayInv /\ [Next]_vars => RelayInv'
  BY InvStep, StreamStep, WholeStep DEF RelayInv, StreamInv
<1>3. Pieces = FALSE /\ RelayInv /\ [Next]_vars => [RelaySpec!Next]_(RelaySpec!vars)
  BY RelayStep
<1>4. Pieces = FALSE => [](Pieces = FALSE)
  OBVIOUS
<1> QED
  BY <1>1, <1>2, <1>3, <1>4, PTL DEF Spec, ImplementsRelay, RelaySpec!Spec
=============================================================================
