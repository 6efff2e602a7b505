----------------------------- MODULE ChatServer -----------------------------
(***************************************************************************)
(* The chat server of mysh: start_server, accept_connection, read_from_    *)
(* socket, get_message and remove_client of commands.c.  One process with  *)
(* one select loop; a round of the loop accepts at most one connection and *)
(* then scans the list of clients.  The other side of every connection is  *)
(* an arbitrary TCP client that sends lines, whole or in pieces, and       *)
(* closes.                                                                 *)
(*                                                                         *)
(* Bytes are grouped into units: a line is a "head" (its text) followed by *)
(* a "tail" (CR LF).  A read returns any number of units that are there.   *)
(***************************************************************************)
EXTENDS Integers, FiniteSets, SequencesExt

CONSTANTS
    MaxConns,   \* bound: connections in one behaviour
    MaxLines,   \* bound: lines sent in one behaviour
    BufUnits,   \* BUF_SIZE, in units
    MsgUnits,   \* MAX_USER_MSG, in units
    MaxClients, \* MAX_CONNECTIONS
    Hosts,      \* the addresses clients connect from
    Whats,      \* kinds of line: a subset of {"text", "connected"}
    Pieces      \* may a line be sent, or read, in pieces?

ASSUME BoundsAssumption ==
    /\ MaxConns \in Nat \ {0} /\ MaxLines \in Nat /\ MaxClients \in Nat \ {0}
    /\ MsgUnits \in Nat \ {0} /\ BufUnits \in Nat /\ MsgUnits < BufUnits
ASSUME HostsAssumption == Hosts # {}
ASSUME WhatsAssumption == Whats \subseteq {"text", "connected"}
ASSUME PiecesAssumption == Pieces \in BOOLEAN

VARIABLES
    \* the clients' side, and the network
    life,       \* of each connection: new, pending, open, gone
    host,       \* the address it comes from
    sent,       \* history: the units it has sent
    net,        \* those that the server has not read yet
    closed,     \* has the client closed it?
    \* the server
    phase,      \* select, accept, scan, messages, exited
    backlog,    \* connections waiting for accept
    clients,    \* the linked list of client_sock
    curr,       \* the client the scan is at, 0 for NULL
    fd,         \* sock_fd of each client, 0 when the descriptor is closed
    mem,        \* buf of each client
    inbuf,      \* inbuf of each client
    all_fds, listen_fds, max_fd,
    \* histories
    handled,    \* the units of each client taken to be broadcast or answered
    log         \* what the server has broadcast, in order

network == <<life, host, sent, net, closed>>
buffers == <<mem, inbuf>>
watch == <<all_fds, listen_fds, max_fd>>
histories == <<handled, log>>
vars == <<network, phase, backlog, clients, curr, fd, buffers, watch, histories>>

Conn == 1..MaxConns
Listener == 0       \* the descriptor of the listening socket
NULL == 0
Nul == [n |-> 0, part |-> "nul", what |-> "text"]
TextUnit(n, what) == [n |-> n, part |-> "head", what |-> what]
EndUnit(n, what) == [n |-> n, part |-> "tail", what |-> what]
Unit == {Nul} \cup [n : Nat \ {0}, part : {"head", "tail"},
                    what : {"text", "connected"}]

Open == {c \in Conn : fd[c] # 0}
Least(S) == CHOOSE x \in S : \A y \in S : x <= y
\* accept returns the lowest free descriptor.
FreeFd == Least(1..MaxConns \ {fd[c] : c \in Conn})

Init ==
    /\ life = [c \in Conn |-> "new"]
    /\ host \in [Conn -> Hosts]
    /\ sent = [c \in Conn |-> <<>>] /\ net = [c \in Conn |-> <<>>]
    /\ closed = [c \in Conn |-> FALSE]
    /\ phase = "select" /\ backlog = <<>> /\ clients = <<>> /\ curr = NULL
    /\ fd = [c \in Conn |-> 0]
    /\ mem = [c \in Conn |-> [i \in 1..BufUnits |-> Nul]]
    /\ inbuf = [c \in Conn |-> 0]
    /\ all_fds = {Listener} /\ listen_fds = {} /\ max_fd = Listener
    /\ handled = [c \in Conn |-> <<>>] /\ log = <<>>

-----------------------------------------------------------------------------
(* The clients.                                                             *)

serverVars == <<phase, backlog, clients, curr, fd, buffers, watch, histories>>

\* The next connection is made (they differ in nothing but their host).
Connect(c) ==
    /\ life[c] = "new" /\ \A d \in Conn : d < c => life[d] # "new"
    /\ life' = [life EXCEPT ![c] = "pending"]
    /\ backlog' = Append(backlog, c)
    /\ UNCHANGED <<host, sent, net, closed, phase, clients, curr, fd, buffers,
                   watch, histories>>

LinesSent(c) == Cardinality({sent[c][i].n : i \in DOMAIN sent[c]})
InLine(c) == sent[c] # <<>> /\ Last(sent[c]).part = "head"

Transmit(c, units) ==
    /\ life[c] \in {"pending", "open"} /\ ~closed[c]
    /\ sent' = [sent EXCEPT ![c] = @ \o units]
    /\ net' = [net EXCEPT ![c] = @ \o units]
    /\ UNCHANGED <<life, host, closed, serverVars>>

\* A line with its CR LF; or its text alone, the rest comes later or never.
SendLine(c, what) ==
    /\ MapThenSumSet(LinesSent, Conn) < MaxLines
    /\ LET n == LinesSent(c) + 1
       IN  \/ Transmit(c, <<TextUnit(n, what), EndUnit(n, what)>>)
           \/ Pieces /\ Transmit(c, <<TextUnit(n, what)>>)

SendRest(c) ==
    /\ InLine(c)
    /\ Transmit(c, <<[Last(sent[c]) EXCEPT !.part = "tail"]>>)

Close(c) ==
    /\ life[c] \in {"pending", "open"} /\ ~closed[c]
    /\ closed' = [closed EXCEPT ![c] = TRUE]
    /\ UNCHANGED <<life, host, sent, net, serverVars>>

-----------------------------------------------------------------------------
(* The select loop.                                                         *)

Readable(c) == net[c] # <<>> \/ closed[c]
ReadyFds == {f \in all_fds : \/ f = Listener /\ backlog # <<>>
                             \/ \E c \in Open : fd[c] = f /\ Readable(c)}
BadFds == all_fds \ ({Listener} \cup {fd[c] : c \in Open})

\* select returns the descriptors that are ready, for a new round of the loop;
\* it fails when one of them is closed, and the server exits.
Select ==
    /\ phase = "select" /\ ReadyFds \cup BadFds # {}
    /\ listen_fds' = {f \in ReadyFds : f <= max_fd}
    /\ phase' = (IF BadFds = {} THEN "accept" ELSE "exited")
    /\ UNCHANGED <<network, backlog, clients, curr, fd, buffers, all_fds, max_fd,
                   histories>>

StartScan(list) == /\ phase' = (IF list = <<>> THEN "select" ELSE "scan")
                   /\ curr' = (IF list = <<>> THEN NULL ELSE list[1])

NoAccept ==
    /\ phase = "accept" /\ Listener \notin listen_fds
    /\ StartScan(clients)
    /\ UNCHANGED <<network, backlog, clients, fd, buffers, watch, histories>>

\* accept_connection counts one client less than there are.
Counted == IF clients = <<>> THEN 0
           ELSE IF Len(clients) - 1 < MaxClients THEN Len(clients) - 1
           ELSE MaxClients

Accept ==
    /\ phase = "accept" /\ Listener \in listen_fds
    /\ Counted # MaxClients
    /\ LET c == backlog[1]
       IN  /\ backlog' = SubSeq(backlog, 2, Len(backlog))
           /\ life' = [life EXCEPT ![c] = "open"]
           /\ fd' = [fd EXCEPT ![c] = FreeFd]
           /\ mem' = [mem EXCEPT ![c] = [i \in 1..BufUnits |-> Nul]]
           /\ inbuf' = [inbuf EXCEPT ![c] = 0]
           /\ clients' = Append(clients, c)
           /\ all_fds' = all_fds \cup {FreeFd}
           /\ max_fd' = (IF FreeFd > max_fd THEN FreeFd ELSE max_fd)
           /\ StartScan(Append(clients, c))
    /\ UNCHANGED <<host, sent, net, closed, listen_fds, histories>>

\* Too many clients: the connection is closed, and the round ends.
Refuse ==
    /\ phase = "accept" /\ Listener \in listen_fds
    /\ Counted = MaxClients
    /\ backlog' = SubSeq(backlog, 2, Len(backlog))
    /\ life' = [life EXCEPT ![backlog[1]] = "gone"]
    /\ phase' = "select"
    /\ UNCHANGED <<host, sent, net, closed, clients, curr, fd, buffers, watch,
                   histories>>

\* curr = curr->next; the round ends at the end of the list.
Position(c) == CHOOSE k \in DOMAIN clients : clients[k] = c
Successor(c) == IF Position(c) = Len(clients) THEN NULL ELSE clients[Position(c) + 1]

Advance == /\ curr' = Successor(curr)
           /\ phase' = (IF curr' = NULL THEN "select" ELSE "scan")

Skip ==
    /\ phase = "scan" /\ fd[curr] \notin listen_fds
    /\ Advance
    /\ UNCHANGED <<network, backlog, clients, fd, buffers, watch, histories>>

\* Mutant: without the FD_CLR.
DropKeepsBit(c) ==
    /\ clients' = RemoveAt(clients, Position(c))
    /\ fd' = [fd EXCEPT ![c] = 0]
    /\ life' = [life EXCEPT ![c] = "gone"]
    /\ curr' = NULL /\ phase' = "select"
    /\ UNCHANGED <<host, sent, closed, backlog, watch>>

\* FD_CLR, close, remove_client: curr becomes NULL, which ends the round.
Drop(c) ==
    /\ clients' = RemoveAt(clients, Position(c))
    /\ all_fds' = all_fds \ {fd[c]}
    /\ fd' = [fd EXCEPT ![c] = 0]
    /\ life' = [life EXCEPT ![c] = "gone"]
    /\ curr' = NULL /\ phase' = "select"
    /\ UNCHANGED <<host, sent, closed, backlog, listen_fds, max_fd>>

-----------------------------------------------------------------------------
(* Reading and broadcasting.                                                *)

\* Does the buffer, filled up to k, hold a CR LF?  At which unit is the first?
Newlines(m, k) == {i \in 1..k : m[i].part = "tail"}

\* The clients that connected from the same address, the sender included.
SameHost(c) == {d \in ToSet(clients) : host[d] = host[c]}

Broadcast(c, sort, units) ==
    log' = Append(log, [from |-> c, sort |-> sort, units |-> units,
                        to |-> SameHost(c)])

Reading == phase = "scan" /\ fd[curr] \in listen_fds

\* read() puts k units behind those that are in the buffer.
Filled(c, k) == [i \in 1..BufUnits |->
                   IF inbuf[c] < i /\ i <= inbuf[c] + k THEN net[c][i - inbuf[c]]
                   ELSE mem[c][i]]

\* How much of what has arrived a read may return.
Room(c) == BufUnits - inbuf[c]
Returns(c, k) == \/ Pieces
                 \/ k = Room(c)
                 \/ net[c][k].part = "tail"

Read(k) ==
    /\ Reading /\ k <= Len(net[curr]) /\ k <= Room(curr) /\ Returns(curr, k)
    /\ net' = [net EXCEPT ![curr] = SubSeq(@, k + 1, Len(@))]

\* Mutant: > for >=.
OverflowsLater(k) == inbuf[curr] + k > BufUnits
Overflows(k) == inbuf[curr] + k >= BufUnits

\* The buffer is full: "Buffer overflow", the client is disconnected.
ReadOverflow(k) ==
    /\ Read(k) /\ Overflows(k)
    /\ Drop(curr)
    /\ UNCHANGED <<buffers, histories>>

\* read fails: the client has reset the connection.
ReadFails ==
    /\ Reading /\ closed[curr]
    /\ Drop(curr)
    /\ UNCHANGED <<net, buffers, histories>>

ReadLines(k) ==
    /\ Read(k) /\ ~Overflows(k)
    /\ Newlines(Filled(curr, k), inbuf[curr] + k) # {}
    /\ mem' = [mem EXCEPT ![curr] = Filled(curr, k)]
    /\ inbuf' = [inbuf EXCEPT ![curr] = @ + k]
    /\ phase' = "messages"
    /\ UNCHANGED <<life, host, sent, closed, backlog, clients, curr, fd, watch,
                   histories>>

\* No newline in the buffer (result 2): its text up to the first NUL, cut at
\* MAX_USER_MSG, is broadcast.  The buffer is reset and the scan continues
\* with the same client: it is read again, ready or not.
Cut(m) == [m EXCEPT ![MsgUnits + 1] = Nul]
Text(m) == LET ends == {i \in DOMAIN m : m[i] = Nul}
           IN  SubSeq(m, 1, Least(ends) - 1)

\* Mutant: the buffer is not reset.
ChunkKeepsBuffer(m, k) ==
    /\ Broadcast(curr, "chunk", Text(Cut(m)))
    /\ handled' = [handled EXCEPT ![curr] = @ \o SubSeq(m, 1, k)]
    /\ mem' = [mem EXCEPT ![curr] = [Cut(m) EXCEPT ![1] = Nul]]
    /\ inbuf' = [inbuf EXCEPT ![curr] = k]
    /\ UNCHANGED <<life, host, sent, closed, phase, backlog, clients, curr, fd,
                   watch>>

Chunk(m, k) ==
    /\ Broadcast(curr, "chunk", Text(Cut(m)))
    /\ handled' = [handled EXCEPT ![curr] = @ \o SubSeq(m, 1, k)]
    /\ mem' = [mem EXCEPT ![curr] = [Cut(m) EXCEPT ![1] = Nul]]
    /\ inbuf' = [inbuf EXCEPT ![curr] = 0]
    /\ UNCHANGED <<life, host, sent, closed, phase, backlog, clients, curr, fd,
                   watch>>

ReadChunk(k) ==
    /\ Read(k) /\ ~Overflows(k)
    /\ Newlines(Filled(curr, k), inbuf[curr] + k) = {}
    /\ Chunk(Filled(curr, k), inbuf[curr] + k)

\* The end of the stream, with text in the buffer, or without.
ReadEndChunk ==
    /\ Reading /\ net[curr] = <<>> /\ closed[curr] /\ inbuf[curr] > 0
    /\ Chunk(mem[curr], inbuf[curr])
    /\ UNCHANGED net

ReadEnd ==
    /\ Reading /\ net[curr] = <<>> /\ closed[curr] /\ inbuf[curr] = 0
    /\ Drop(curr)
    /\ UNCHANGED <<net, buffers, histories>>

-----------------------------------------------------------------------------
(* get_message, until no complete message is left.                          *)

\* Mutant: the loop takes the last newline of the buffer for the first.
LastMessageUnits(c) == CHOOSE i \in Newlines(mem[c], inbuf[c]) :
                          \A j \in Newlines(mem[c], inbuf[c]) : j <= i
MessageUnits(c) == Least(Newlines(mem[c], inbuf[c]))

\* The message is cut out of the buffer, the rest moves to its front.
TakeMessage(c) ==
    LET k == MessageUnits(c)
    IN  /\ mem' = [mem EXCEPT ![c] = [i \in 1..BufUnits |->
                     IF i <= inbuf[c] - k THEN mem[c][i + k] ELSE mem[c][i]]]
        /\ inbuf' = [inbuf EXCEPT ![c] = @ - k]
        /\ handled' = [handled EXCEPT ![c] = @ \o SubSeq(mem[c], 1, k)]
        /\ UNCHANGED <<network, phase, backlog, clients, curr, fd, watch>>

HasMessage == phase = "messages" /\ Newlines(mem[curr], inbuf[curr]) # {}
IsConnected(u) == u.part = "head" /\ u.what = "connected"

BroadcastMessage ==
    /\ HasMessage /\ ~IsConnected(mem[curr][1])
    /\ LET k == MessageUnits(curr)
           shown == IF k - 1 > MsgUnits THEN MsgUnits ELSE k
       IN  Broadcast(curr, "message", SubSeq(mem[curr], 1, shown))
    /\ TakeMessage(curr)

\* "\connected": the number of clients goes to the client that asked.
AnswerConnected ==
    /\ HasMessage /\ IsConnected(mem[curr][1])
    /\ TakeMessage(curr)
    /\ UNCHANGED log

\* Mutant: "if" for "while", messages may be left in the buffer.
EndMessagesEarly ==
    /\ phase = "messages"
    /\ Advance
    /\ UNCHANGED <<network, backlog, clients, fd, buffers, watch, histories>>

EndMessages ==
    /\ phase = "messages" /\ ~HasMessage
    /\ Advance
    /\ UNCHANGED <<network, backlog, clients, fd, buffers, watch, histories>>

-----------------------------------------------------------------------------
ClientStep ==
    \E c \in Conn : \/ Connect(c) \/ SendRest(c) \/ Close(c)
                    \/ \E what \in Whats : SendLine(c, what)

ServerStep ==
    \/ Select \/ NoAccept \/ Accept \/ Refuse \/ Skip
    \/ ReadFails \/ ReadEndChunk \/ ReadEnd
    \/ \E k \in 1..BufUnits : ReadOverflow(k) \/ ReadLines(k) \/ ReadChunk(k)
    \/ BroadcastMessage \/ AnswerConnected \/ EndMessages

Next == ClientStep \/ ServerStep
Spec == Init /\ [][Next]_vars

\* The server process runs whenever it is not blocked in select or read.
FairSpec == Spec /\ WF_vars(ServerStep)

-----------------------------------------------------------------------------
TypeOK ==
    /\ life \in [Conn -> {"new", "pending", "open", "gone"}]
    /\ host \in [Conn -> Hosts] /\ closed \in [Conn -> BOOLEAN]
    /\ {sent, net, handled} \subseteq [Conn -> Seq(Unit)]
    /\ phase \in {"select", "accept", "scan", "messages", "exited"}
    /\ backlog \in Seq(Conn) /\ clients \in Seq(Conn)
    /\ curr \in Conn \cup {NULL}
    /\ fd \in [Conn -> 0..MaxConns]
    /\ mem \in [Conn -> [1..BufUnits -> Unit]]
    /\ inbuf \in [Conn -> 0..(BufUnits - 1)]
    /\ {all_fds, listen_fds} \subseteq SUBSET (0..MaxConns) /\ max_fd \in 0..MaxConns

(* The three records the server keeps of its clients agree at every point   *)
(* of a round: the list holds each client with an open descriptor once, no  *)
(* descriptor is shared, select watches exactly these descriptors and the   *)
(* listener, and max_fd covers them.  Descriptors are reused, so that one   *)
(* bit left behind would make select fail or read a stranger.               *)
WatchedAreListed ==
    /\ ToSet(clients) = Open /\ Len(clients) = Cardinality(Open)
    /\ \A c, d \in Open : fd[c] = fd[d] => c = d
    /\ all_fds = {Listener} \cup {fd[c] : c \in Open}
    /\ \A f \in all_fds : f <= max_fd
    /\ phase \in {"scan", "messages"} => curr \in Open
    /\ phase # "exited"

(* Nothing a connected client sends is skipped, doubled or put out of       *)
(* order: what was taken to be broadcast or answered, what is in its buffer *)
(* and what has not been read yet are together what it has sent, however    *)
(* the reads cut the stream and whatever lines and pieces they join.  (Of   *)
(* one message, up to MAX_USER_MSG is shown.)                               *)
NothingLost ==
    \A c \in Open :
        handled[c] \o SubSeq(mem[c], 1, inbuf[c]) \o net[c] = sent[c]

(* When lines arrive whole, every line a client has sent is broadcast (or   *)
(* answered), unless the client is disconnected.                            *)
LinesHandled(c) == Cardinality({i \in DOMAIN handled[c] : handled[c][i].part = "tail"})

EveryLineHandled ==
    \A c \in Conn, n \in 1..MaxLines :
        (life[c] = "open" /\ LinesSent(c) >= n)
            ~> (LinesHandled(c) >= n \/ life[c] = "gone")

(* The server implements a relay of lines: see module Relay.  A broadcast   *)
(* counts as line n only if it shows this line, all of it and nothing else. *)
RelayedLine(e) ==
    IF e.sort = "message" /\ Len(e.units) = 2
          /\ e.units[1].n = e.units[2].n /\ e.units[1].part = "head"
    THEN e.units[1].n ELSE 0

RelaySpec == INSTANCE Relay WITH
    Clients <- Conn,
    joined <- [c \in Conn |-> life[c] = "open"],
    posted <- [c \in Conn |-> LinesSent(c)],
    taken <- [c \in Conn |-> LinesHandled(c)],
    host <- host,
    room <- [i \in DOMAIN log |->
               <<log[i].from, RelayedLine(log[i]), log[i].to>>]

ImplementsRelay == RelaySpec!Spec

=============================================================================
