----------------------------- MODULE ChatClient -----------------------------
(***************************************************************************)
(* The chat client of mysh: start_client of commands.c, once it is         *)
(* connected.  One loop waits in select for the standard input and for the *)
(* socket; the input is read with fgets, that is through stdio's own       *)
(* buffer, which select knows nothing of.  The other sides are a user who  *)
(* types lines, at once or in two parts, and ends the input, and a server  *)
(* that sends lines, which may reach the client in pieces, and closes.     *)
(*                                                                         *)
(* Bytes are grouped into units: a typed line is a sequence of units of    *)
(* text and an "lf", which the client makes "cr", "lf"; a line of the      *)
(* server is one unit of text and a "crlf".                                *)
(***************************************************************************)
EXTENDS Integers, FiniteSets, SequencesExt

CONSTANTS
    LineUnits,  \* the lengths of the lines the user types, in units of text
    MaxTyped,   \* bound: lines the user types
    MaxSent,    \* bound: lines the server sends
    UserUnits,  \* MAX_USER_MSG - 1, what fgets stores, in units
    BufUnits,   \* BUF_SIZE, in units
    Whats       \* kinds of typed line: a subset of {"text", "connected"}

ASSUME LinesAssumption ==
    /\ LineUnits \subseteq Nat \ {0}
    /\ MaxTyped \in Nat /\ MaxSent \in Nat
ASSUME BuffersAssumption == UserUnits \in Nat \ {0} /\ BufUnits \in Nat \ {0}
ASSUME WhatsAssumption == Whats \subseteq {"text", "connected"}

VARIABLES
    \* the user
    typed,          \* history: what was typed
    rest,           \* the newline of a line that is being typed
    input,          \* what was typed and the client has not read yet
    input_ended,
    \* the server
    server_sent,    \* number of lines it has sent
    server_rest,    \* is the newline of the last one still to come?
    net,            \* what was sent and the client has not read yet
    server_closed,
    \* the client
    phase,          \* select, stdin, socket, messages, ended; killed by SIGPIPE
    ready,          \* tmp_fds
    stdio,          \* stdio's buffer for stdin
    stdio_ended,    \* has stdio seen the end of the input?
    user_buf,
    buf,            \* the inbuf units in buf
    outbox,         \* history: each write: what was typed for it, what was sent
    shown           \* history: what was displayed

user == <<typed, rest, input_ended>>
remote == <<server_sent, server_rest, server_closed>>
client == <<phase, ready, stdio, stdio_ended, user_buf, buf, outbox, shown>>
vars == <<user, input, remote, net, client>>

Unit == [n : 0..(MaxTyped + MaxSent), part : {"text", "cr", "lf", "crlf", "nul", "junk"}, what : {"text", "connected"}]
UnitOf(n, part) == [n |-> n, part |-> part, what |-> "text"]
Nul == UnitOf(0, "nul")
Junk == UnitOf(0, "junk")

Init ==
    /\ typed = <<>> /\ rest = <<>> /\ input = <<>> /\ input_ended = FALSE
    /\ server_sent = 0 /\ server_rest = FALSE /\ net = <<>>
    /\ server_closed = FALSE
    /\ phase = "select" /\ ready = {}
    /\ stdio = <<>> /\ stdio_ended = FALSE
    \* user_buf, of MAX_USER_MSG + 2 bytes, is not initialized.
    /\ \E u \in {Nul, Junk} : user_buf = [i \in 1..(UserUnits + 3) |-> u]
    /\ buf = <<>> /\ outbox = <<>> /\ shown = <<>>

-----------------------------------------------------------------------------
(* The user and the server.                                                 *)

LinesTyped == IF typed = <<>> THEN 0 ELSE Last(typed).n

\* The text of a line, whose first unit may be "\connected".
TextOf(n, len, what) ==
    [i \in 1..len |-> [n |-> n, part |-> "text",
                       what |-> IF i = 1 THEN what ELSE "text"]]

TypeUnits(units) == /\ ~input_ended
                    /\ typed' = typed \o units /\ input' = input \o units
                    /\ UNCHANGED <<input_ended, remote, net, client>>

\* A whole line; or its text alone, and its newline comes later.
Type(len, what) ==
    /\ rest = <<>> /\ LinesTyped < MaxTyped
    /\ LET n == LinesTyped + 1
           newline == <<UnitOf(n, "lf")>>
       IN  \/ TypeUnits(TextOf(n, len, what) \o newline) /\ rest' = <<>>
           \/ TypeUnits(TextOf(n, len, what)) /\ rest' = newline

TypeRest == rest # <<>> /\ TypeUnits(rest) /\ rest' = <<>>

\* Control-D, or the end of a pipe; the last line may lack its newline.
EndInput ==
    /\ ~input_ended /\ input_ended' = TRUE
    /\ UNCHANGED <<typed, rest, input, remote, net, client>>

\* A line; or its text, and its newline comes later, or never.
ServerSends(whole) ==
    /\ ~server_closed /\ ~server_rest /\ server_sent < MaxSent
    /\ server_sent' = server_sent + 1 /\ server_rest' = ~whole
    /\ LET n == server_sent + 1
       IN  net' = net \o (IF whole THEN <<UnitOf(n, "text"), UnitOf(n, "crlf")>>
                          ELSE <<UnitOf(n, "text")>>)
    /\ UNCHANGED <<user, input, server_closed, client>>

ServerSendsRest ==
    /\ ~server_closed /\ server_rest
    /\ net' = Append(net, UnitOf(server_sent, "crlf"))
    /\ server_rest' = FALSE
    /\ UNCHANGED <<user, input, server_sent, server_closed, client>>

ServerCloses ==
    /\ ~server_closed /\ server_closed' = TRUE
    /\ UNCHANGED <<user, input, server_sent, server_rest, net, client>>

-----------------------------------------------------------------------------
(* The loop of start_client: the standard input.                            *)

InputReadable == input # <<>> \/ input_ended
SocketReadable == net # <<>> \/ server_closed

\* Mutant: tmp_fds is not set again, select watches what was ready before.
SelectKeepsTmpFds ==
    /\ phase = "select" /\ (InputReadable \/ SocketReadable)
    /\ ready' = {f \in {"stdin", "socket"} : /\ ready # {} => f \in ready
                                             /\ IF f = "stdin" THEN InputReadable
                                                ELSE SocketReadable}
    /\ ready' # {}
    /\ phase' = "stdin"
    /\ UNCHANGED <<user, input, remote, net, stdio, stdio_ended, user_buf, buf,
                   outbox, shown>>

Select ==
    /\ phase = "select" /\ (InputReadable \/ SocketReadable)
    /\ ready' = (IF InputReadable THEN {"stdin"} ELSE {})
                  \cup (IF SocketReadable THEN {"socket"} ELSE {})
    /\ phase' = "stdin"
    /\ UNCHANGED <<user, input, remote, net, stdio, stdio_ended, user_buf, buf,
                   outbox, shown>>

\* A signal that the shell handles (SIGCHLD of a job, SIGINT) makes select fail,
\* whatever SA_RESTART says: the client ends.
Interrupted ==
    /\ phase = "select" /\ phase' = "ended"
    /\ UNCHANGED <<user, input, remote, net, ready, stdio, stdio_ended, user_buf,
                   buf, outbox, shown>>

InputNotReady ==
    /\ phase = "stdin" /\ "stdin" \notin ready
    /\ phase' = "socket"
    /\ UNCHANGED <<user, input, remote, net, ready, stdio, stdio_ended, user_buf,
                   buf, outbox, shown>>

\* fgets has what it wants: a newline, a full user_buf, or the end of input.
HasPiece == \/ SelectInSeq(stdio, LAMBDA u : u.part = "lf") # 0
            \/ Len(stdio) >= UserUnits
            \/ stdio_ended
AtFgets == phase = "stdin" /\ "stdin" \in ready

\* stdio reads all there is, on a pipe, or a line, on a terminal; or the end.
\* It blocks while there is nothing.
FillStdio ==
    /\ AtFgets /\ ~HasPiece /\ InputReadable
    /\ \E k \in {Len(input), SelectInSeq(input, LAMBDA u : u.part = "lf")} :
          /\ k > 0 \/ input = <<>>
          /\ stdio' = stdio \o SubSeq(input, 1, k)
          /\ input' = SubSeq(input, k + 1, Len(input))
          /\ stdio_ended' = (k = 0)
    /\ UNCHANGED <<user, remote, net, phase, ready, user_buf, buf, outbox, shown>>

\* The piece fgets takes: up to the first newline, UserUnits at most.
PieceLen ==
    LET end == SelectInSeq(stdio, LAMBDA u : u.part = "lf")
        len == IF end = 0 THEN Len(stdio) ELSE end
    IN  IF len > UserUnits THEN UserUnits ELSE len
Piece == SubSeq(stdio, 1, PieceLen)

\* It is stored over what was in user_buf, with a NUL behind it.
Stored(piece) == Append(piece, Nul)
                   \o SubSeq(user_buf, Len(piece) + 2, Len(user_buf))

StrLen(b) == LET nul == SelectInSeq(b, LAMBDA u : u.part = "nul")
             IN  IF nul = 0 THEN Len(b) ELSE nul - 1

IsConnected(piece) == piece[1].what = "connected"

\* The last unit becomes CR, and LF goes where the NUL was.
WithCrLf(b, len) == [b EXCEPT ![len] = UnitOf(b[len].n, "cr"),
                              ![len + 1] = UnitOf(b[len].n, "lf")]

\* Mutant: the new NUL is forgotten.
TextLineUnterminated(b, len) == WithCrLf(b, len)

\* A newline becomes CR LF and a new NUL.
TextLine(b, len) == [WithCrLf(b, len) EXCEPT ![len + 2] = Nul]

\* The new NUL of "\connected" is put one place behind the end of the string,
\* which ends at the next NUL that an earlier line has left in user_buf (or
\* behind user_buf, which is left out).
ConnectedLine(b, len) ==
    LET c == WithCrLf(b, len)
    IN  [c EXCEPT ![StrLen(c) + 2] = Nul]

Rewritten(piece) ==
    LET b == Stored(piece)
    IN  IF IsConnected(piece) THEN ConnectedLine(b, Len(piece))
        ELSE IF Last(piece).part = "lf" THEN TextLine(b, Len(piece))
        ELSE b

\* fgets returns a piece, which is rewritten and written to the socket.
SendPiece ==
    /\ AtFgets /\ HasPiece /\ stdio # <<>>
    /\ stdio' = SubSeq(stdio, PieceLen + 1, Len(stdio))
    /\ \E piece \in {Piece} : \E b \in {Rewritten(piece)} :
          /\ user_buf' = b
          /\ outbox' = Append(outbox, [typed |-> piece,
                                       sent |-> SubSeq(b, 1, StrLen(b))])
    /\ phase' = "socket"
    /\ UNCHANGED <<user, input, remote, net, ready, stdio_ended, buf, shown>>

\* The connection is gone: SIGPIPE ends the shell that runs the client.
Killed ==
    /\ AtFgets /\ HasPiece /\ stdio # <<>> /\ server_closed
    /\ phase' = "killed"
    /\ UNCHANGED <<user, input, remote, net, ready, stdio, stdio_ended, user_buf,
                   buf, outbox, shown>>

\* fgets returns NULL: "Disconnected from server."
InputEnds ==
    /\ AtFgets /\ HasPiece /\ stdio = <<>>
    /\ phase' = "ended"
    /\ UNCHANGED <<user, input, remote, net, ready, stdio, stdio_ended, user_buf,
                   buf, outbox, shown>>

-----------------------------------------------------------------------------
(* The loop of start_client: the socket.                                    *)

SocketNotReady ==
    /\ phase = "socket" /\ "socket" \notin ready
    /\ phase' = "select"
    /\ UNCHANGED <<user, input, remote, net, ready, stdio, stdio_ended, user_buf,
                   buf, outbox, shown>>

AtRead == phase = "socket" /\ "socket" \in ready

\* Mutant: > for >=.
OverflowsLater(k) == Len(buf) + k > BufUnits
Overflows(k) == Len(buf) + k >= BufUnits

\* read returns some of what was sent.  A full buffer is an error.
ReadSocket(k) ==
    /\ AtRead /\ k <= Len(net) /\ k <= BufUnits - Len(buf)
    /\ \/ /\ Overflows(k) /\ phase' = "ended"
          /\ UNCHANGED <<net, buf>>
       \/ /\ ~Overflows(k) /\ phase' = "messages"
          /\ buf' = buf \o SubSeq(net, 1, k)
          /\ net' = SubSeq(net, k + 1, Len(net))
    /\ UNCHANGED <<user, input, remote, ready, stdio, stdio_ended, user_buf, outbox,
                   shown>>

\* Mutant: the end of the stream is never reported.
EndPhaseAlwaysPartial == "messages"
\* The end of the stream; with units in buf, read_from_socket calls it partial.
EndPhase == IF buf = <<>> THEN "ended" ELSE "messages"

ReadEnd ==
    /\ AtRead /\ net = <<>> /\ server_closed
    /\ phase' = EndPhase
    /\ UNCHANGED <<user, input, remote, net, ready, stdio, stdio_ended, user_buf,
                   buf, outbox, shown>>

\* read fails: the server has reset the connection.
ReadFails ==
    /\ AtRead /\ server_closed
    /\ phase' = "ended"
    /\ UNCHANGED <<user, input, remote, net, ready, stdio, stdio_ended, user_buf,
                   buf, outbox, shown>>

\* Mutant: the last newline is taken for the first.
LastMessageLen == SelectLastInSeq(buf, LAMBDA u : u.part = "crlf")

\* get_message, as long as there is one.
MessageLen == SelectInSeq(buf, LAMBDA u : u.part = "crlf")

ShowMessage ==
    /\ phase = "messages" /\ MessageLen # 0
    /\ shown' = Append(shown, SubSeq(buf, 1, MessageLen))
    /\ buf' = SubSeq(buf, MessageLen + 1, Len(buf))
    /\ UNCHANGED <<user, input, remote, net, phase, ready, stdio, stdio_ended,
                   user_buf, outbox>>

\* Mutant: "if" for "while".
EndMessagesEarly ==
    /\ phase = "messages" /\ phase' = "select"
    /\ UNCHANGED <<user, input, remote, net, ready, stdio, stdio_ended, user_buf,
                   buf, outbox, shown>>

EndMessages ==
    /\ phase = "messages" /\ MessageLen = 0
    /\ phase' = "select"
    /\ UNCHANGED <<user, input, remote, net, ready, stdio, stdio_ended, user_buf,
                   buf, outbox, shown>>

-----------------------------------------------------------------------------
Environment ==
    \/ \E len \in LineUnits, what \in Whats : Type(len, what)
    \/ TypeRest \/ EndInput
    \/ \E whole \in BOOLEAN : ServerSends(whole)
    \/ ServerSendsRest \/ ServerCloses

ClientStep ==
    \/ Select \/ InputNotReady \/ FillStdio \/ SendPiece \/ Killed \/ InputEnds
    \/ SocketNotReady \/ ReadEnd \/ ReadFails \/ ShowMessage \/ EndMessages
    \/ \E k \in 1..BufUnits : ReadSocket(k)

Next == Environment \/ Interrupted \/ ClientStep
Spec == Init /\ [][Next]_vars

\* The client runs when it is not blocked; who begins a line completes it.
FairSpec == Spec /\ WF_vars(ClientStep) /\ WF_vars(TypeRest)

-----------------------------------------------------------------------------
Stopped == phase \in {"ended", "killed"}

TypeOK ==
    /\ {typed, rest, input, net, stdio, buf} \subseteq Seq(Unit)
    /\ {input_ended, server_rest, server_closed, stdio_ended} \subseteq BOOLEAN
    /\ server_sent \in 0..MaxSent
    /\ phase \in {"select", "stdin", "socket", "messages", "ended", "killed"}
    /\ ready \subseteq {"stdin", "socket"}
    /\ user_buf \in Seq(Unit) /\ Len(user_buf) = UserUnits + 3
    /\ Len(buf) < BufUnits
    /\ \A i \in DOMAIN outbox : {outbox[i].typed, outbox[i].sent} \subseteq Seq(Unit)
    /\ \A i \in DOMAIN shown : shown[i] \in Seq(Unit)

(* What the user types reaches the socket in order, nothing skipped and     *)
(* nothing twice, however long the lines and however stdio buffers them;    *)
(* and of a text line exactly its text and CR LF are sent, although         *)
(* user_buf still holds the lines before it.                                *)
Wire(piece) == IF Last(piece).part = "lf"
               THEN Front(piece) \o <<UnitOf(Last(piece).n, "cr"), Last(piece)>>
               ELSE piece

SentIsTyped ==
    /\ FlattenSeq([i \in DOMAIN outbox |-> outbox[i].typed]) \o stdio \o input = typed
    /\ \A i \in DOMAIN outbox : ~IsConnected(outbox[i].typed)
                                   => outbox[i].sent = Wire(outbox[i].typed)

(* What the server sends is displayed in order, one message at a time,      *)
(* however the reads cut and join it.                                       *)
ShownIsSent ==
    /\ \A i \in DOMAIN shown : shown[i] = <<UnitOf(i, "text"), UnitOf(i, "crlf")>>
    /\ FlattenSeq(shown) \o buf \o net =
          [i \in 1..(2 * server_sent - IF server_rest THEN 1 ELSE 0) |->
              UnitOf((i + 1) \div 2, IF i % 2 = 1 THEN "text" ELSE "crlf")]

(* Every whole line of the server is displayed, or the client stops.        *)
EveryLineShown ==
    \A n \in 1..MaxSent :
        (server_sent >= n /\ ~(server_rest /\ server_sent = n))
            ~> (Len(shown) >= n \/ Stopped)

(* The client ends when the server has closed the connection behind a whole *)
(* line.                                                                    *)
EndsWithServer == (server_closed /\ ~server_rest) ~> Stopped

(* A line the user has ended is sent, unless the client stops, or it was    *)
(* typed together with the line before it and stays in the buffer of stdio, *)
(* of which select knows nothing.                                           *)
LinesSent == Cardinality({i \in DOMAIN outbox : Last(outbox[i].typed).part = "lf"})
LinesEnded == Cardinality({i \in DOMAIN typed : typed[i].part = "lf"})
LinesAreSentOrBuffered ==
    LinesEnded > 0 ~> (LinesSent = LinesEnded \/ stdio # <<>> \/ Stopped)
=============================================================================
