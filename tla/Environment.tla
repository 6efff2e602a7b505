---------------------------- MODULE Environment ----------------------------
(* What the shell promises of its variables: they are a function from names *)
(* to texts. A line "n=w" sets n to the meaning of w, in which every "$name"*)
(* stands for the value of that variable; a line that runs commands         *)
(* elsewhere, in a pipeline or in the background, changes nothing. (A bar   *)
(* in a name goes with the name.)                                           *)
(* A text is a sequence of characters, a line a sequence of words.          *)
EXTENDS Naturals, Sequences, SequencesExt, FiniteSetsExt

CONSTANT MaxStr     \* the longest text the shell handles

VARIABLES
    env,            \* the variables
    line            \* the line to execute, <<>> when there is none

vars == <<env, line>>

Lookup(e, n) == IF n \in DOMAIN e THEN e[n] ELSE <<>>

\* A dollar with a name behind it; the name ends at the next dollar.
BeginsName(w, i) == w[i] = "$" /\ i < Len(w) /\ w[i + 1] # "$"

NameAfter(w, i) ==
    SubSeq(w, i + 1, Max({j \in i + 1 .. Len(w) : "$" \notin ToSet(SubSeq(w, i + 1, j))}))

InName(w, i) == w[i] # "$" /\ "$" \in ToSet(SubSeq(w, 1, i))

\* What a word means: every dollar that begins no name stands for itself.
Meaning(e, w) ==
    FlattenSeq([i \in 1..Len(w) |-> IF BeginsName(w, i) THEN Lookup(e, NameAfter(w, i))
                                    ELSE IF InName(w, i) THEN <<>>
                                    ELSE <<w[i]>>])

\* The variables when n is set to the text t.
With(e, n, t) == [m \in DOMAIN e \cup {n} |-> IF m = n THEN t ELSE e[m]]

Fits(e, w) == Len(Meaning(e, w)) <= MaxStr

AllDollarsName(w) == \A i \in 1..Len(w) : w[i] = "$" => BeginsName(w, i)

\* n=w, with a name that is not empty and before any dollar.
IsAssignment(w) ==
    \E i \in 2..Len(w) : w[i] = "=" /\ ToSet(SubSeq(w, 1, i - 1)) \cap {"=", "$"} = {}

EqualsAt(w) == Min({i \in 1..Len(w) : w[i] = "="})
Name(w) == SubSeq(w, 1, EqualsAt(w) - 1)
Value(w) == SubSeq(w, EqualsAt(w) + 1, Len(w))

RunsElsewhere(e, l) ==
    \/ \E k \in 1..Len(l) : "|" \in ToSet(Meaning(e, l[k]))
    \/ Meaning(e, l[Len(l)]) = <<"&">>

\* The words whose meaning is certain: the others hold a dollar that names
\* nothing, or stand for a text that is too long.
Plain(e, l) == \A k \in 1..Len(l) : AllDollarsName(l[k]) /\ Fits(e, l[k])

Init == env = <<>> /\ line = <<>>

Type == line = <<>> /\ line' # <<>> /\ UNCHANGED env

Assign == /\ line # <<>> /\ line' = <<>>
          /\ IsAssignment(line[1]) /\ Plain(env, line) /\ ~RunsElsewhere(env, line)
          /\ env' = With(env, Name(line[1]), Meaning(env, Value(line[1])))

\* Any other line: nothing changes unless it is a strange assignment, and
\* then one variable does.
Other == /\ line # <<>> /\ line' = <<>>
         /\ ~(IsAssignment(line[1]) /\ Plain(env, line) /\ ~RunsElsewhere(env, line))
         /\ \/ UNCHANGED env
            \/ /\ ~RunsElsewhere(env, line)
               /\ \/ ~Plain(env, line)
                  \/ ~IsAssignment(line[1]) /\ "=" \in ToSet(Meaning(env, line[1]))
               /\ \E n \in DOMAIN env' : env' = With(env, n, env'[n])

Exit == line # <<>> /\ Meaning(env, line[1]) = <<"exit">> /\ line' = <<>> /\ env' = <<>>

Next == Type \/ Assign \/ Other \/ Exit

Spec == Init /\ [][Next]_vars
=============================================================================
