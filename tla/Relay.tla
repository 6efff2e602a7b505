------------------------------- MODULE Relay -------------------------------
(* What the chat server promises when the lines of its clients arrive       *)
(* whole: a relay takes the lines of each client one by one, in the order   *)
(* the client posted them, and shows each of them to the clients joined     *)
(* from the same host, the one that posted it among them, or answers it.    *)
(* A client may leave at any time; its lines are then given up.             *)
EXTENDS Naturals, Sequences

CONSTANTS Clients

VARIABLES
    host,       \* the host of each client
    joined,     \* is the client connected?
    posted,     \* number of lines it has posted
    taken,      \* number of its lines the relay has taken
    room        \* <<client, line, audience>>: what was shown, in order

vars == <<host, joined, posted, taken, room>>

Init == /\ joined = [c \in Clients |-> FALSE]
        /\ posted = [c \in Clients |-> 0] /\ taken = [c \in Clients |-> 0]
        /\ room = <<>>

Join(c) == /\ ~joined[c] /\ taken[c] = 0
           /\ joined' = [joined EXCEPT ![c] = TRUE]
           /\ UNCHANGED <<host, posted, taken, room>>

Post(c) == /\ posted' = [posted EXCEPT ![c] = @ + 1]
           /\ UNCHANGED <<host, joined, taken, room>>

\* The clients that are joined from the host of a client.
Audience(c) == {d \in Clients : joined[d] /\ host[d] = host[c]}

\* The next line of a client, shown to its audience or answered.
Take(c) == /\ joined[c] /\ taken[c] < posted[c]
           /\ taken' = [taken EXCEPT ![c] = @ + 1]
           /\ room' \in {room, Append(room, <<c, taken[c] + 1, Audience(c)>>)}
           /\ UNCHANGED <<host, joined, posted>>

Leave(c) == /\ joined[c]
            /\ joined' = [joined EXCEPT ![c] = FALSE]
            /\ UNCHANGED <<host, posted, taken, room>>

Next == \E c \in Clients : Join(c) \/ Post(c) \/ Take(c) \/ Leave(c)

Spec == Init /\ [][Next]_vars
=============================================================================
