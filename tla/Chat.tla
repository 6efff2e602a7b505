-------------------------------- MODULE Chat --------------------------------
(***************************************************************************)
(* A chat, end to end: the server of start_server, the clients of          *)
(* start_client and the one-shot clients of bn_send, joined by TCP         *)
(* connections whose buffers are finite, so that write_to_socket blocks.   *)
(* ChatServer and ChatClient model either side alone and in detail, with   *)
(* an arbitrary other side; here both sides are the real ones and reads    *)
(* return all that is there, up to the room in buf.                        *)
(*                                                                         *)
(* The unit is what one fgets of a client returns: a short line, or a      *)
(* piece of a line longer than fgets stores; the last unit of a line       *)
(* brings its newline.  What the server writes at once is one item.        *)
(***************************************************************************)
EXTENDS Integers, FiniteSets, SequencesExt

CONSTANTS
    MaxConns,   \* bound: connections in one behaviour
    Senders,    \* the connections that "send" makes; start-client makes the others
    Leavers,    \* the clients whose users may end the input
    MaxTyped,   \* bound: lines typed at the clients
    LineUnits,  \* the lengths of the lines typed at each client, in units
    BufUnits,   \* BUF_SIZE in the units the server reads,
    BufItems,   \*   and in the items a client reads, which are a little longer
    UpCapacity, \* what the kernel keeps on the way to the server, in units
    DownCapacity\* and on the way to a client, in items

ASSUME ConnsAssumption == MaxConns \in Nat \ {0} /\ Senders \subseteq 1..MaxConns
                            /\ Leavers \subseteq 1..MaxConns
ASSUME LinesAssumption == MaxTyped \in Nat \ {0} /\ \A c \in 1..MaxConns : LineUnits[c] \subseteq Nat \ {0}
ASSUME SizesAssumption ==
    /\ {BufUnits, BufItems, UpCapacity, DownCapacity} \subseteq Nat \ {0}
    /\ UpCapacity >= BufUnits /\ DownCapacity >= BufItems

VARIABLES
    \* the user of each client
    typed,      \* history: the units typed, or given to send
    keyboard,   \* those the client has not read yet
    eof,        \* has the user ended the input?
    \* each client
    place,      \* away, close (of send); select, stdin, socket, both; done
    stdio,      \* stdio's buffer for stdin
    shown,      \* history: the items displayed
    \* the connections
    up, down,   \* to the server, and to the client
    \* the server
    phase,      \* select or scan
    backlog,    \* connections waiting for accept
    clients,    \* the linked list of client_sock
    curr,       \* the client the scan is at, 0 for NULL
    listen_fds, \* the clients found ready
    buf,        \* buf of each client, up to inbuf
    unwritten,  \* the writes of the current broadcasts that are still to be made
    log         \* history: the items broadcast, each with its audience

user == <<typed, keyboard, eof>>
local == <<place, stdio, shown>>
server == <<phase, backlog, clients, curr, listen_fds, buf, unwritten, log>>
vars == <<user, local, up, down, server>>

Conn == 1..MaxConns
Client == Conn \ Senders
NULL == 0

Init ==
    /\ typed = [c \in Conn |-> <<>>] /\ keyboard = [c \in Conn |-> <<>>]
    /\ eof = [c \in Conn |-> FALSE]
    /\ place = [c \in Conn |-> IF c \in Senders THEN "away" ELSE "select"]
    /\ stdio = [c \in Conn |-> <<>>] /\ shown = [c \in Conn |-> <<>>]
    /\ up = [c \in Conn |-> <<>>] /\ down = [c \in Conn |-> <<>>]
    /\ phase = "select" /\ clients = <<>> /\ curr = NULL
    /\ backlog = SetToSeq(Client)
    /\ listen_fds = {} /\ buf = [c \in Conn |-> <<>>] /\ unwritten = <<>>
    /\ log = <<>>

\* Joined: the server has accepted the connection and not closed it.
Joined == ToSet(clients)
Waiting == ToSet(backlog)
ClosedByServer(c) == place[c] # "away" /\ c \notin Joined \cup Waiting
Running(c) == place[c] \notin {"away", "done"} /\ ~ClosedByServer(c)

-----------------------------------------------------------------------------
(* The users.                                                               *)

LinesOf(c) == Cardinality({u.n : u \in ToSet(typed[c])})
LinesTyped == Cardinality(UNION {{<<c, u.n>> : u \in ToSet(typed[c])} : c \in Client})
LineOf(c, len) == LET n == LinesOf(c) + 1
                  IN  [i \in 1..len |-> [from |-> c, n |-> n, i |-> i, last |-> i = len]]

Type(c, len) ==
    /\ c \in Client /\ place[c] # "done" /\ ~eof[c]
    /\ LinesTyped < MaxTyped
    /\ typed' = [typed EXCEPT ![c] = @ \o LineOf(c, len)]
    /\ keyboard' = [keyboard EXCEPT ![c] = @ \o LineOf(c, len)]
    /\ UNCHANGED <<eof, local, up, down, server>>

EndInput(c) ==
    /\ c \in Client \cap Leavers /\ place[c] # "done" /\ ~eof[c]
    /\ eof' = [eof EXCEPT ![c] = TRUE]
    /\ UNCHANGED <<typed, keyboard, local, up, down, server>>

-----------------------------------------------------------------------------
(* bn_send: a connection is made, one line written, and the connection      *)
(* closed.  (Before the line is there the server could only accept.)  A     *)
(* line that does not fit formatted_msg is cut, its CR LF with the rest.    *)

SendLine(c, whole) ==
    /\ c \in Senders /\ place[c] = "away"
    /\ backlog' = Append(backlog, c)
    /\ \E u \in {[from |-> c, n |-> 1, i |-> 1, last |-> whole]} :
          /\ typed' = [typed EXCEPT ![c] = <<u>>]
          /\ up' = [up EXCEPT ![c] = <<u>>]
    /\ place' = [place EXCEPT ![c] = "close"]
    /\ UNCHANGED <<keyboard, eof, stdio, shown, down, phase, clients, curr,
                   listen_fds, buf, unwritten, log>>

SendCloses(c) ==
    /\ place[c] = "close"
    /\ place' = [place EXCEPT ![c] = "done"]
    /\ UNCHANGED <<user, stdio, shown, up, down, server>>

-----------------------------------------------------------------------------
(* start_client.  Its place is "select", or what select has found and is    *)
(* still to be served: "stdin", "socket", or "both" (stdin comes first).    *)

InputReadable(c) == keyboard[c] # <<>> \/ eof[c]
SocketReadable(c) == down[c] # <<>> \/ ClosedByServer(c)

ClientSelect(c) ==
    /\ place[c] = "select" /\ (InputReadable(c) \/ SocketReadable(c))
    /\ place' = [place EXCEPT ![c] = IF ~SocketReadable(c) THEN "stdin"
                                    ELSE IF InputReadable(c) THEN "both" ELSE "socket"]
    /\ UNCHANGED <<user, stdio, shown, up, down, server>>

\* The client returns to the shell, which takes over what has been typed; what
\* was on the way to the client is discarded with its socket.
Leave(c) ==
    /\ place' = [place EXCEPT ![c] = "done"]
    /\ keyboard' = [keyboard EXCEPT ![c] = <<>>] /\ stdio' = [stdio EXCEPT ![c] = <<>>]
    /\ down' = [down EXCEPT ![c] = <<>>] /\ shown' = [shown EXCEPT ![c] = <<>>]
    /\ UNCHANGED <<typed, eof, up, server>>

\* fgets fills stdio's buffer when it is empty: with a line, from a terminal.
Refill(c) == IF stdio[c] # <<>> THEN 0
             ELSE SelectInSeq(keyboard[c], LAMBDA u : u.last)
Buffered(c, read) == stdio[c] \o SubSeq(keyboard[c], 1, read)

AtInput(c) == place[c] \in {"stdin", "both"}

\* fgets returns a unit, and write_to_socket waits until there is room for it;
\* to a connection that the server has closed it is written in vain.
SendUnit(c) ==
    /\ AtInput(c)
    /\ \E read \in {Refill(c)} : \E buffered \in {Buffered(c, read)} :
          /\ buffered # <<>>
          /\ stdio' = [stdio EXCEPT ![c] = Tail(buffered)]
          /\ keyboard' = [keyboard EXCEPT ![c] = SubSeq(@, read + 1, Len(@))]
          /\ \/ /\ ~ClosedByServer(c) /\ Len(up[c]) < UpCapacity
                /\ up' = [up EXCEPT ![c] = Append(@, Head(buffered))]
             \/ ClosedByServer(c) /\ UNCHANGED up
    /\ place' = [place EXCEPT ![c] = IF @ = "both" THEN "socket" ELSE "select"]
    /\ UNCHANGED <<typed, eof, shown, down, server>>

\* Or SIGPIPE ends the client.
Killed(c) ==
    /\ AtInput(c) /\ stdio[c] \o keyboard[c] # <<>> /\ ClosedByServer(c)
    /\ Leave(c)

\* fgets returns NULL.
InputEnds(c) ==
    /\ AtInput(c) /\ stdio[c] \o keyboard[c] = <<>>
    /\ Leave(c)

\* The items that have arrived are displayed.
Receive(c) ==
    /\ place[c] = "socket" /\ down[c] # <<>> /\ Len(down[c]) < BufItems
    /\ shown' = [shown EXCEPT ![c] = @ \o down[c]]
    /\ down' = [down EXCEPT ![c] = <<>>]
    /\ place' = [place EXCEPT ![c] = "select"]
    /\ UNCHANGED <<user, stdio, up, server>>

\* They fill buf: the client ends.
ReceiveOverflow(c) ==
    /\ place[c] = "socket" /\ Len(down[c]) >= BufItems
    /\ Leave(c)

\* The end of the connection, or an error: the server has reset it.
ReceiveEnd(c) ==
    /\ place[c] = "socket" /\ ClosedByServer(c)
    /\ Leave(c)

-----------------------------------------------------------------------------
(* The server's select loop.  Nothing else happens in it while a write of   *)
(* a broadcast is still to be made.                                         *)

At(p) == phase = p /\ unwritten = <<>>
Closed(c) == place[c] = "done"
Readable(c) == up[c] # <<>> \/ Closed(c)

\* select returns, and the scan of the list starts; before that one connection
\* is accepted, if there is one.  (listen_fds is kept as far as it is used.)
Select ==
    /\ At("select") /\ (backlog # <<>> \/ \E c \in Joined : Readable(c))
    /\ listen_fds' = {c \in Joined : Readable(c)}
    /\ \/ /\ backlog = <<>> /\ UNCHANGED <<backlog, clients>>
       \/ /\ backlog # <<>>
          /\ backlog' = Tail(backlog) /\ clients' = Append(clients, Head(backlog))
    /\ phase' = "scan" /\ curr' = clients'[1]
    /\ UNCHANGED <<user, local, up, down, buf, unwritten, log>>

Position(c) == CHOOSE k \in DOMAIN clients : clients[k] = c

Successor(c) == IF Position(c) = Len(clients) THEN NULL ELSE clients[Position(c) + 1]

\* curr = curr->next; the round ends at the end of the list.
Advance == /\ curr' = Successor(curr)
           /\ phase' = (IF curr' = NULL THEN "select" ELSE "scan")
           /\ listen_fds' = listen_fds \ {curr}

Skip ==
    /\ At("scan") /\ curr \notin listen_fds
    /\ Advance
    /\ UNCHANGED <<user, local, up, down, backlog, clients, buf, unwritten, log>>

\* Mutant: remove_client frees the client and leaves curr as it is.
DropKeepsCurr(c) == /\ clients' = RemoveAt(clients, Position(c))
                    /\ listen_fds' = {}
                    /\ UNCHANGED <<curr, phase, backlog, unwritten, log>>

\* remove_client sets curr to NULL, which ends the round.
Drop(c) == /\ clients' = RemoveAt(clients, Position(c))
           /\ curr' = NULL /\ phase' = "select" /\ listen_fds' = {}
           /\ UNCHANGED <<backlog, unwritten, log>>

\* Each item is written to the clients one after the other, the sender included.
Broadcast(items) ==
    /\ log' = log \o [k \in DOMAIN items |-> [item |-> items[k], to |-> Joined]]
    /\ unwritten' = FlattenSeq([k \in DOMAIN items |->
                       [j \in DOMAIN clients |-> <<clients[j], items[k]>>]])

\* The newlines of b, and the messages that they end; each begins behind the
\* newline before.
Ends(b) == {k \in DOMAIN b : b[k].last}
NewlineBefore(b, k) == Max({0} \cup {j \in Ends(b) : j < k})
Messages(b) ==
    FlattenSeq([k \in DOMAIN b |->
        IF b[k].last THEN <<SubSeq(b, NewlineBefore(b, k) + 1, k)>> ELSE <<>>])

\* Mutant: what is behind the last newline is thrown away.
RestForgotten(b) == <<>>
RestOf(b) == SubSeq(b, NewlineBefore(b, Len(b) + 1) + 1, Len(b))

\* read returns what there is, as far as it fits.  It blocks when there is
\* nothing, ready or not.
ReadLen(c) == Min({Len(up[c]), BufUnits - Len(buf[c])})
Filled(c) == buf[c] \o SubSeq(up[c], 1, ReadLen(c))
Read(b) == /\ At("scan") /\ curr \in listen_fds /\ up[curr] # <<>>
           /\ b = Filled(curr)
           /\ up' = [up EXCEPT ![curr] = SubSeq(@, ReadLen(curr) + 1, Len(@))]
           /\ UNCHANGED <<user, local, down>>

Overflows(b) == Len(b) >= BufUnits

ReadOverflow(b) ==
    /\ Read(b) /\ Overflows(b)
    /\ Drop(curr)
    /\ UNCHANGED buf

\* get_message and a broadcast, as long as there is a message.
ReadLines(b) ==
    /\ Read(b) /\ ~Overflows(b) /\ Ends(b) # {}
    /\ Broadcast(Messages(b))
    /\ buf' = [buf EXCEPT ![curr] = RestOf(b)]
    /\ Advance
    /\ UNCHANGED <<backlog, clients>>

\* No newline: what there is is broadcast, and the same client is read again.
Chunk(b) ==
    /\ Broadcast(<<b>>)
    /\ buf' = [buf EXCEPT ![curr] = <<>>]
    /\ UNCHANGED <<phase, curr, backlog, clients, listen_fds>>

ReadChunk(b) == Read(b) /\ ~Overflows(b) /\ Ends(b) = {} /\ Chunk(b)

\* The client has closed: what is left in buf is broadcast, or lost when the
\* connection was reset; then the client is removed.
ReadEndChunk ==
    /\ At("scan") /\ curr \in listen_fds /\ up[curr] = <<>> /\ Closed(curr)
    /\ buf[curr] # <<>>
    /\ Chunk(buf[curr])
    /\ UNCHANGED <<user, local, up, down>>

\* Mutant: the result 1 of read_from_socket is taken for "nothing to do".
ReadEndIgnored ==
    /\ At("scan") /\ curr \in listen_fds /\ up[curr] = <<>> /\ Closed(curr)
    /\ Advance
    /\ UNCHANGED <<user, local, up, down, backlog, clients, buf, unwritten, log>>

ReadEnd ==
    /\ At("scan") /\ curr \in listen_fds /\ up[curr] = <<>> /\ Closed(curr)
    /\ Drop(curr)
    /\ UNCHANGED <<user, local, up, down, buf>>

\* Mutant: a write that would block is given up.
HasRoomAlways(c) == TRUE
\* A connection whose client has closed takes, or refuses, anything.
HasRoom(c) == Len(down[c]) < DownCapacity \/ Closed(c)

Delivered(c, item) == IF Closed(c) \/ Len(down[c]) = DownCapacity THEN down[c]
                      ELSE Append(down[c], item)

\* write_to_socket to the next client, which blocks while there is no room.
Write ==
    /\ unwritten # <<>>
    /\ \E c \in {unwritten[1][1]} :
          /\ HasRoom(c)
          /\ down' = [down EXCEPT ![c] = Delivered(c, unwritten[1][2])]
    /\ unwritten' = Tail(unwritten)
    /\ UNCHANGED <<user, local, up, phase, backlog, clients, curr, listen_fds, buf,
                   log>>

-----------------------------------------------------------------------------
UserStep == \E c \in Conn : \/ EndInput(c)
                            \/ \E len \in LineUnits[c] : Type(c, len)
                            \/ \E whole \in BOOLEAN : SendLine(c, whole)

ClientStep(c) ==
    \/ ClientSelect(c) \/ SendUnit(c) \/ Killed(c) \/ InputEnds(c)
    \/ Receive(c) \/ ReceiveOverflow(c) \/ ReceiveEnd(c)
    \/ SendCloses(c)

ServerStep ==
    \/ Select \/ Skip \/ ReadEndChunk \/ ReadEnd \/ Write
    \/ \E b \in {Filled(curr) : x \in {curr} \ {NULL}} :
          ReadOverflow(b) \/ ReadLines(b) \/ ReadChunk(b)

Next == UserStep \/ ServerStep \/ \E c \in Conn : ClientStep(c)
Spec == Init /\ [][Next]_vars

\* Every process runs when it is not blocked; the users promise nothing.
FairSpec == /\ Spec /\ WF_vars(ServerStep)
            /\ \A c \in 1..MaxConns : WF_vars(ClientStep(c))

-----------------------------------------------------------------------------
Unit == [from : Conn, n : 1..MaxTyped, i : Nat \ {0}, last : BOOLEAN]

(* Every variable keeps its type; in particular no connection holds more    *)
(* than it can, buf is never full between two reads, and the scan never is  *)
(* at a client that remove_client has freed.                                *)
TypeOK ==
    /\ \A c \in Conn : {typed[c], keyboard[c], stdio[c], up[c], buf[c]} \subseteq Seq(Unit)
    /\ \A c \in Conn : {shown[c], down[c]} \subseteq Seq(Seq(Unit))
    /\ \A c \in Conn : Len(up[c]) <= UpCapacity /\ Len(down[c]) <= DownCapacity
    /\ \A c \in Conn : Len(buf[c]) < BufUnits
    /\ eof \in [Conn -> BOOLEAN]
    /\ place \in [Conn -> {"away", "close", "select", "stdin", "socket", "both", "done"}]
    /\ phase \in {"select", "scan"} /\ curr \in Joined \cup {NULL}
    /\ phase = "select" <=> curr = NULL
    /\ {Joined, Waiting, listen_fds} \subseteq SUBSET Conn
    /\ \A k \in DOMAIN unwritten : unwritten[k] \in Conn \X Seq(Unit)
    /\ \A k \in DOMAIN log : log[k] \in [item : Seq(Unit), to : SUBSET Conn]

(* Between the keyboards and the screens nothing is lost, doubled or        *)
(* reordered: what a client that has not ended typed is, in order, what the *)
(* server has broadcast of it, what the server has in buf, what is under    *)
(* way, what stdio holds and what has not been read.                        *)
UnitsFrom(c) == FlattenSeq([k \in DOMAIN log |->
                    IF log[k].item[1].from = c THEN log[k].item ELSE <<>>])

TypedIsPosted ==
    \A c \in Conn : ~ClosedByServer(c) /\ place[c] # "done" =>
        UnitsFrom(c) \o buf[c] \o up[c] \o stdio[c] \o keyboard[c] = typed[c]

(* Everyone sees the same conversation: what a client has displayed, what   *)
(* is on its way and what is still to be written to it are exactly the      *)
(* broadcasts since it joined, its own lines among them, in the one order   *)
(* of the server, although the writes block on slow readers half way        *)
(* through the list.                                                        *)
ItemsFor(c) == FlattenSeq([k \in DOMAIN log |->
                   IF c \in log[k].to THEN <<log[k].item>> ELSE <<>>])
PendingFor(c) == FlattenSeq([k \in DOMAIN unwritten |->
                     IF unwritten[k][1] = c THEN <<unwritten[k][2]>> ELSE <<>>])

SameConversation ==
    \A c \in Client : Running(c) =>
        shown[c] \o down[c] \o PendingFor(c) = ItemsFor(c)

(* Whatever happens, the chat comes to rest with everything delivered, when *)
(* the users type no more: each line that was typed at a client that still  *)
(* runs, and each line that a client or send left behind when it closed,    *)
(* has been taken by the server and written to everyone, and each client    *)
(* has displayed what was written to it.  The one thing that prevents it is *)
(* the rest of a long line in the stdio buffer of a client: select does not *)
(* see it, and the server waits for it.                                     *)
Settled ==
    /\ unwritten = <<>> /\ \A c \in Joined \cup Waiting : up[c] = <<>>
    /\ \A c \in Client : Running(c) => keyboard[c] \o stdio[c] \o down[c] = <<>>
    /\ \A c \in Joined : ~Closed(c)

ComesToRest == []<>(Settled \/ \E c \in Client : stdio[c] # <<>>)

-----------------------------------------------------------------------------
(* What the comments say, and the code does not do.                         *)

(* start_server, after the broadcast of a chunk: "Skip further processing   *)
(* for this client in this iteration".  The others are served then, and the *)
(* chat comes to rest.                                                      *)
NobodyStalls == []<>(unwritten = <<>> /\ \A c \in Joined : up[c] = <<>>)
=============================================================================
