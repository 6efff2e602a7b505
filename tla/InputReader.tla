---------------------------- MODULE InputReader ----------------------------
(* How mysh takes its lines: get_input (io_helpers.c) reads with read(2),   *)
(* but skips the rest of a long line with getchar, through the buffer of    *)
(* stdio; wc and cat without an argument (builtins.c) read the same input   *)
(* through stdio; main (mysh.c) acts on what get_input returns.             *)
(*                                                                          *)
(* The input is a sequence of units: <<n, p>> is the p-th character of the  *)
(* n-th line, the last one its newline.                                     *)
EXTENDS Naturals, Sequences, SequencesExt

CONSTANTS
    Limit,          \* MAX_STR_LEN, in units
    Shapes,         \* the lines that may be typed: [len, kind]
    MaxTyped        \* bound: lines typed

\* "dollar" is a line with a $ in its first character; the other kinds are the
\* commands that matter here, which have room for one unit.
Kinds == {"text", "dollar", "wc", "cat", "exit"}

ASSUME LimitAssumption == Limit \in Nat \ {0} /\ MaxTyped \in Nat
ASSUME ShapesAssumption == \A s \in Shapes : /\ s.len \in Nat /\ s.kind \in Kinds
                                             /\ s.kind # "text" => s.len > 0
                                             /\ s.kind \notin {"text", "dollar"} => s.len = 1

VARIABLES
    terminal,       \* is the input a terminal (lines) or a pipe (bytes)?
    restarts,       \* are interrupted calls restarted (until sigchld_handler is installed)?
    typed,          \* the shapes of the lines typed so far
    source,         \* what the kernel holds: units, and End
    ended,          \* has the writer of the pipe closed it?
    stdio,          \* the buffer of stdin
    eof,            \* the end-of-file flag of stdin
    closed,         \* has wc closed stdin, and descriptor 0 with it?
    pc,             \* "prompt", "skip", "execute", "wc", "cat", "exited"
    input_buf,      \* what get_input has read
    ran,            \* history: the commands executed, each the units of its words
    given,          \* history: the lines wc and cat have read
    dirty           \* history: did a skip begin with data or an end in stdin?

vars == <<terminal, restarts, typed, source, ended, stdio, eof, closed, pc, input_buf,
          ran, given, dirty>>

End == <<0, 0>>

IsNewline(u) == u[2] = typed[u[1]].len + 1
Units(n, len) == [p \in 1..len + 1 |-> <<n, p>>]
Words(units) ==
    FlattenSeq([i \in 1..Len(units) |-> IF IsNewline(units[i]) THEN <<>> ELSE <<units[i]>>])

-----------------------------------------------------------------------------
(* The kernel *)

\* How far a read of n units gets: a terminal hands out one line at a time.
Reads(n) ==
    LET stop == SelectInSeq(source, LAMBDA u : u = End \/ (terminal /\ u[1] > 0 /\ IsNewline(u)))
        units == IF stop = 0 THEN Len(source) ELSE IF source[stop] = End THEN stop - 1 ELSE stop
    IN IF units < n THEN units ELSE n

Ready == source # <<>>
AtEnd == Ready /\ Head(source) = End

\* What is left of the source; the end of a pipe stays, that of a terminal is
\* one control-D.
AfterRead(k) == IF k > 0 THEN SubSeq(source, k + 1, Len(source))
                ELSE IF terminal THEN Tail(source) ELSE source

-----------------------------------------------------------------------------
Init == /\ terminal \in BOOLEAN /\ restarts \in BOOLEAN
        /\ typed = <<>> /\ source = <<>> /\ ended = FALSE
        /\ stdio = <<>> /\ eof = FALSE /\ closed = FALSE
        /\ pc = "prompt" /\ input_buf = <<>> /\ ran = <<>> /\ given = {} /\ dirty = FALSE

\* A line is typed, or written to the pipe.
TypeLine == /\ Len(typed) < MaxTyped /\ ~ended
            /\ \E s \in Shapes : /\ typed' = Append(typed, s)
                                 /\ source' = source \o Units(Len(typed) + 1, s.len)
            /\ UNCHANGED <<terminal, restarts, ended, stdio, eof, closed, pc, input_buf,
                           ran, given, dirty>>

\* Control-D on a line of its own, or the end of the pipe.
TypeEnd == /\ ~ended /\ ~(source # <<>> /\ Last(source) = End)
           /\ source' = Append(source, End) /\ ended' = ~terminal
           /\ UNCHANGED <<terminal, restarts, typed, stdio, eof, closed, pc, input_buf,
                          ran, given, dirty>>

-----------------------------------------------------------------------------
(* get_input *)

TooLongLate(k) == k > Limit + 1
TooLongEarly(k) == k >= Limit
TooLong(k) == k > Limit

AnyText(units) == units # <<>>
HasDollar(units) == \E i \in 1..Len(units) : units[i][2] = 1 /\ typed[units[i][1]].kind = "dollar"

\* read(STDIN_FILENO, in_ptr, MAX_STR_LEN + 1); after wc it fails for ever.
\* Without a dollar in it a long line is refused.
GetInput ==
    /\ pc = "prompt" /\ ~closed /\ Ready
    /\ \E k \in {Reads(Limit + 1)} :
         /\ source' = AfterRead(k)
         /\ dirty' = (dirty \/ (TooLong(k) /\ (stdio # <<>> \/ eof)))
         /\ \/ k = 0 /\ pc' = "exited" /\ input_buf' = <<>>
            \/ k > 0 /\ ~TooLong(k) /\ pc' = "execute" /\ input_buf' = SubSeq(source, 1, k)
            \/ /\ TooLong(k) /\ pc' = "skip"
               /\ \E capped \in {SubSeq(source, 1, Limit)} :
                    input_buf' = IF HasDollar(capped) THEN capped ELSE <<>>
    /\ UNCHANGED <<terminal, restarts, typed, ended, stdio, eof, closed, ran, given>>

SkipRestPeeks == /\ pc = "skip" /\ stdio # <<>>
                 /\ \E i \in {SelectInSeq(stdio, IsNewline)} :
                      stdio' = IF i > 0 THEN SubSeq(stdio, i, Len(stdio)) ELSE <<>>
                 /\ UNCHANGED <<terminal, restarts, typed, source, ended, eof, closed, pc,
                                input_buf, ran, given, dirty>>

\* while((ch = getchar()) != '\n' && ch != EOF), up to the next need to read.
\* What stdio has read behind an earlier long line comes first: its newline ends
\* the skip too early.
SkipRest == /\ pc = "skip" /\ stdio # <<>>
            /\ \E i \in {SelectInSeq(stdio, IsNewline)} :
                 \/ i > 0 /\ stdio' = SubSeq(stdio, i + 1, Len(stdio)) /\ pc' = "execute"
                 \/ i = 0 /\ stdio' = <<>> /\ UNCHANGED pc
            /\ UNCHANGED <<terminal, restarts, typed, source, ended, eof, closed, input_buf,
                           ran, given, dirty>>

\* stdio reads as much as it can, unless it has seen the end before.
FillStdio == /\ pc \in {"skip", "wc", "cat"} /\ stdio = <<>> /\ ~eof /\ Ready
             /\ \E k \in {Reads(Len(source))} :
                  stdio' = SubSeq(source, 1, k) /\ source' = AfterRead(k) /\ eof' = (k = 0)
             /\ UNCHANGED <<terminal, restarts, typed, ended, closed, pc, input_buf, ran, given, dirty>>

SkipForgetsEnd == pc = "skip" /\ stdio = <<>> /\ eof /\ UNCHANGED vars

\* The end-of-file flag stays set: behind a control-D that cat has read there
\* may be more, and then nothing is skipped.
SkipEnds == /\ pc = "skip" /\ stdio = <<>> /\ eof
            /\ pc' = "execute"
            /\ UNCHANGED <<terminal, restarts, typed, source, ended, stdio, eof, closed,
                           input_buf, ran, given, dirty>>

-----------------------------------------------------------------------------
(* main and the commands *)

\* What the words of a line are: a command alone, or with arguments.
FirstShape(words) == typed[words[1][1]]
IsCommand(words, kind) == words # <<>> /\ words[1][2] = 1 /\ FirstShape(words).kind = kind
Reader(words) == Len(words) = 1 /\ (IsCommand(words, "wc") \/ IsCommand(words, "cat"))

Execute ==
    /\ pc = "execute"
    /\ \E words \in {Words(input_buf)} :
          /\ ran' = IF words = <<>> THEN ran ELSE Append(ran, words)
          /\ pc' = IF IsCommand(words, "exit") THEN "exited"
                   ELSE IF Reader(words) THEN FirstShape(words).kind ELSE "prompt"
    /\ input_buf' = <<>>
    /\ UNCHANGED <<terminal, restarts, typed, source, ended, stdio, eof, closed, given, dirty>>

\* wc and cat read what there is in stdio.
ReadStdin == /\ pc \in {"wc", "cat"} /\ stdio # <<>>
             /\ given' = given \cup {stdio[i][1] : i \in 1..Len(stdio)}
             /\ stdio' = <<>>
             /\ UNCHANGED <<terminal, restarts, typed, source, ended, eof, closed, pc, input_buf,
                            ran, dirty>>

ClosesStdin(command) == command = "wc"

\* At the end wc closes its file, which is stdin; cat does not.
ReaderEnds == /\ pc \in {"wc", "cat"} /\ stdio = <<>> /\ eof
              /\ closed' = ClosesStdin(pc) /\ pc' = "prompt"
              /\ UNCHANGED <<terminal, restarts, typed, source, ended, stdio, eof, input_buf,
                             ran, given, dirty>>

\* A handled SIGCHLD while stdio waits for input: getchar, fgetc and fgets see
\* an error, which ends their loops like the end of the input. (At the prompt
\* get_input returns -1, and the shell prompts again.)
Interrupted == /\ ~restarts /\ pc \in {"skip", "wc", "cat"} /\ stdio = <<>> /\ ~eof /\ ~Ready
               /\ pc' = IF pc = "skip" THEN "execute" ELSE "prompt"
               /\ closed' = (closed \/ ClosesStdin(pc))
               /\ UNCHANGED <<terminal, restarts, typed, source, ended, stdio, eof, input_buf,
                              ran, given, dirty>>

ShellStep == GetInput \/ SkipRest \/ FillStdio \/ SkipEnds \/ Execute \/ ReadStdin \/ ReaderEnds

Next == TypeLine \/ TypeEnd \/ ShellStep \/ Interrupted

Spec == Init /\ [][Next]_vars

\* The kernel runs the shell whenever it is not blocked in a read.
FairSpec == Spec /\ WF_vars(ShellStep)

-----------------------------------------------------------------------------
(* Properties *)

TypeOK == /\ terminal \in BOOLEAN /\ restarts \in BOOLEAN /\ ended \in BOOLEAN
          /\ eof \in BOOLEAN /\ closed \in BOOLEAN /\ dirty \in BOOLEAN
          /\ typed \in Seq(Shapes) /\ Len(typed) <= MaxTyped
          /\ pc \in {"prompt", "skip", "execute", "wc", "cat", "exited"}
          /\ Len(input_buf) <= Limit /\ (closed => pc = "prompt")
          /\ given \subseteq 1..Len(typed)

LineText(n) == [p \in 1..typed[n].len |-> <<n, p>>]
Text(n, m) == FlattenSeq([i \in 1..m - n + 1 |-> LineText(n + i - 1)])

\* Every command is the text of whole lines that follow each other, one line
\* on a terminal, and of lines later than those of the command before; only a
\* long line with a dollar is cut. So no rest of a line is ever a command, and
\* no line is taken twice, as long as every skip began with an empty buffer
\* and no end of input seen; get_input and the skip of long lines.
CommandsAreLines ==
    ~dirty => \A c \in 1..Len(ran) :
        LET first == ran[c][1][1]
            last == Last(ran[c])[1]
        IN /\ c > 1 => Last(ran[c - 1])[1] < first
           /\ terminal => first = last
           /\ \/ ran[c] = Text(first, last)
              \/ /\ IsPrefix(ran[c], Text(first, last))
                 /\ Len(ran[c]) <= Limit
                 /\ \E i \in 1..Len(ran[c]) : typed[ran[c][i][1]].kind = "dollar"

\* Nothing of a line is under way any more.
Gone(n) == /\ \A i \in 1..Len(source) : source[i][1] # n
           /\ \A i \in 1..Len(stdio) : stdio[i][1] # n
           /\ \A i \in 1..Len(input_buf) : input_buf[i][1] # n

Ran(n) == \E c \in 1..Len(ran) : \E i \in 1..Len(ran[c]) : ran[c][i][1] = n

\* On a terminal a line is lost only if it is too long, is read by wc or cat,
\* or follows a line of exactly the limit; through a pipe, only if it is read
\* by wc or cat or some line or lines together were too long; get_input.
LineFate ==
    \A n \in 1..Len(typed) :
        Gone(n) /\ typed[n].len > 0 /\ n \notin given =>
            \/ Ran(n)
            \/ /\ terminal
               /\ typed[n].len >= Limit \/ (n > 1 /\ typed[n - 1].len = Limit)
            \/ ~terminal /\ Len(Text(1, Len(typed))) + Len(typed) > Limit

\* When the input of a pipe ends, the shell ends, unless wc has closed its
\* input before; main and get_input.
EndsWithInput == ended ~> (pc = "exited" \/ closed)

\* The rest of the line that was read last is still to come.
RestLeft == Ready /\ Head(source)[2] > 1

\* The rest of a long line is skipped without waiting for another line (that
\* of a line of exactly the limit is empty, and does wait); get_input.
LongLineIsSkipped == (pc = "skip" /\ RestLeft) ~> (pc # "skip")
=============================================================================
