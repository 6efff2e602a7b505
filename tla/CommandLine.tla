---------------------------- MODULE CommandLine ----------------------------
(* From a typed line to the commands that run: tokenize_input with the      *)
(* expansion of variables (io_helpers.c), the list of variables             *)
(* (variables.c), and how execute_commands cuts a line at "|" (commands.c). *)
(*                                                                          *)
(* A text is a sequence of characters; words without interest, such as      *)
(* "exit", are one character. The lines come without their white space.     *)
EXTENDS Naturals, Sequences, SequencesExt, FiniteSetsExt

CONSTANTS
    MaxStr,         \* MAX_STR_LEN
    Lines,          \* the lines that may be typed: sequences of words
    MaxLines        \* bound: lines typed in one behaviour

ASSUME StrAssumption == MaxStr \in Nat /\ MaxStr > 2     \* "n=v" fits; the code has 128
ASSUME LinesAssumption ==
    \A l \in Lines : /\ l \in Seq(Seq(STRING)) /\ l # <<>> /\ \A k \in 1..Len(l) : l[k] # <<>>
                     /\ Len(FlattenSeq(l)) + Len(l) - 1 <= MaxStr

VARIABLES
    varList,        \* varList: records [name, value], the newest first
    pc,             \* "prompt", "execute", "ran", "exited", "crashed"
    line,           \* the line that was typed
    tokens,         \* token_arr
    commands,       \* the argument vectors that were run, one per process
    typed           \* number of lines typed

vars == <<varList, pc, line, tokens, commands, typed>>

-----------------------------------------------------------------------------
(* Texts and variables *)

Has(s, c) == c \in ToSet(s)
BeginsWith(s, c) == s # <<>> /\ s[1] = c

\* What strtok returns, call after call: the maximal runs without d.
Pieces(s, d) ==
    LET starts(i) == s[i] # d /\ (i = 1 \/ s[i - 1] = d)
        end(i) == Max({j \in i..Len(s) : ~Has(SubSeq(s, i, j), d)})
    IN FlattenSeq([i \in 1..Len(s) |-> IF starts(i) THEN <<SubSeq(s, i, end(i))>> ELSE <<>>])

\* What strchr finds: the first place of c, 0 if there is none.
FirstAt(s, c) == SelectInSeq(s, LAMBDA x : x = c)

\* The first entry with a name, found by length and characters.
EntryByPrefix(list, name) == SelectInSeq(list, LAMBDA v : IsPrefix(v.name, name))
EntryOf(list, name) == SelectInSeq(list, LAMBDA v : v.name = name)

GetVar(list, name) ==
    LET i == EntryOf(list, name) IN IF i = 0 THEN <<>> ELSE list[i].value

\* decode_variable: every piece between dollars is taken for a name.
DecodeVariable(list, value) ==
    FlattenSeq([n \in 1..Len(Pieces(value, "$")) |-> GetVar(list, Pieces(value, "$")[n])])

StoredAsIs(list, value) == value

\* createVar and updateVar decode a value in which a dollar is left.
Stored(list, value) == IF Has(value, "$") THEN DecodeVariable(list, value) ELSE value

UpdateVar(list, name, value) ==
    LET i == EntryOf(list, name)
    IN IF i = 0 THEN <<[name |-> name, value |-> Stored(list, value)]>> \o list
       ELSE [list EXCEPT ![i].value = Stored(list, value)]

-----------------------------------------------------------------------------
(* tokenize_input *)

\* The room that strncat is given for a value that does not fit; without any
\* room the subtraction wraps, and the whole value is taken.
Room(text, value) == IF Len(text) < MaxStr THEN MaxStr - Len(text) - 1 ELSE Len(value)

\* One turn of the loop over the characters of a word: at a dollar before a
\* dollar, and at one before a name.
ExpandAt(list, w, acc, i) ==
    LET value == GetVar(list, acc.names[1])
    IN CASE acc.stop \/ w[i] # "$" -> acc
         [] ~acc.stop /\ w[i] = "$" /\ w[i + 1] = "$" ->
              IF Len(acc.text) > MaxStr THEN [acc EXCEPT !.stop = TRUE]
              ELSE [acc EXCEPT !.text = Append(@, "$")]
         [] OTHER ->
              IF Len(acc.text) + Len(value) > MaxStr
              THEN [acc EXCEPT !.text = @ \o SubSeq(value, 1, Room(acc.text, value)), !.stop = TRUE]
              ELSE [acc EXCEPT !.text = @ \o value, !.names = Tail(@), !.expansion = @ + 1]

Count(s, c) == Cardinality({i \in 1..Len(s) : s[i] = c})
Dollars(w) == Count(w, "$")

Expand(list, w) ==
    LET pieces == Pieces(w, "$")
        prefixed == w[1] # "$"
        start == [text |-> IF prefixed THEN pieces[1] ELSE <<>>,
                  names |-> IF prefixed THEN Tail(pieces) ELSE pieces,
                  expansion |-> 0, stop |-> FALSE]
        turn[i \in 0..Len(w) - 1] == IF i = 0 THEN start ELSE ExpandAt(list, w, turn[i - 1], i)
        end == turn[Len(w) - 1]
    IN IF Dollars(w) # end.expansion /\ Len(end.text) < MaxStr
       THEN Append(end.text, "$") ELSE end.text

TokenizeInput(list, l) ==
    [k \in 1..Len(l) |-> IF Has(l[k], "$") THEN Expand(list, l[k]) ELSE l[k]]

-----------------------------------------------------------------------------
(* execute_commands: the cut at "|" *)

PipeCount(toks) == Count(FlattenSeq(toks), "|")

\* The parts of a word between the bars, the empty ones too: tempStr, as it is
\* filled character by character.
Parts(w) ==
    LET parts[j \in 0..Len(w)] ==
          IF j = 0 THEN << <<>> >>
          ELSE IF w[j] = "|" THEN Append(parts[j - 1], <<>>)
          ELSE Append(Front(parts[j - 1]), Append(Last(parts[j - 1]), w[j]))
    IN parts[Len(w)]

\* commands[commandCount][argCount] = w
PutWord(cmds, argCount, w) ==
    LET last == Last(cmds)
    IN Append(Front(cmds), IF argCount < Len(last) THEN [last EXCEPT ![argCount + 1] = w]
                           ELSE Append(last, w))

\* Empty parts are not stored.
PutPartAlways(cmds, argCount, w) == PutWord(cmds, argCount, w)
PutPart(cmds, argCount, w) == IF w = <<>> THEN cmds ELSE PutWord(cmds, argCount, w)

\* argCount++
NextArgStays(argCount) == argCount
NextArg(argCount) == argCount + 1

\* One token: a word of its own, a "|" of its own, or parts joined by "|",
\* behind the last of which argCount stays 0.
CutToken(acc, w) ==
    CASE ~Has(w, "|") -> [cmds |-> PutWord(acc.cmds, acc.argCount, w), argCount |-> NextArg(acc.argCount)]
      [] w = <<"|">>  -> [cmds |-> Append(acc.cmds, <<>>), argCount |-> 0]
      [] OTHER ->
           LET put[n \in 1..Len(Parts(w))] ==
                 IF n = 1 THEN PutPart(acc.cmds, acc.argCount, Parts(w)[1])
                 ELSE PutPart(Append(put[n - 1], <<>>), 0, Parts(w)[n])
           IN [cmds |-> put[Len(Parts(w))], argCount |-> 0]

CutAtBars(toks) ==
    LET cut[k \in 0..Len(toks)] ==
          IF k = 0 THEN [cmds |-> << <<>> >>, argCount |-> 0] ELSE CutToken(cut[k - 1], toks[k])
    IN cut[Len(toks)].cmds

-----------------------------------------------------------------------------
(* The shell *)

Init == /\ varList = <<>> /\ pc = "prompt" /\ typed = 0
        /\ line = <<>> /\ tokens = <<>> /\ commands = <<>>

\* main: get_input and tokenize_input.
TypeLine == /\ pc = "prompt" /\ typed < MaxLines
            /\ \E l \in Lines : line' = l /\ tokens' = TokenizeInput(varList, l)
            /\ typed' = typed + 1 /\ pc' = "execute"
            /\ UNCHANGED <<varList, commands>>

\* main: "exit" frees the variables.
ExitShell == /\ pc = "execute" /\ tokens[1] = <<"exit">>
             /\ pc' = "exited" /\ varList' = <<>>
             /\ UNCHANGED <<line, tokens, commands, typed>>

InBackground == Last(tokens) = <<"&">>
Words == IF InBackground THEN Front(tokens) ELSE tokens

\* The names of the builtins hold no "=", so the test for them cannot hide an
\* assignment.
Assigns(cmd) == Has(cmd, "=") /\ (Has(cmd, "$") => FirstAt(cmd, "=") < FirstAt(cmd, "$"))

AssignedName(cmd) == Pieces(cmd, "=")[1]

AssignedPiece(cmd) == IF Len(Pieces(cmd, "=")) > 1 THEN Pieces(cmd, "=")[2] ELSE <<>>

\* What is left of the command behind the name and one "=".
AssignedValue(cmd) ==
    LET start == SelectInSeq(cmd, LAMBDA c : c # "=")
    IN SubSeq(cmd, start + Len(AssignedName(cmd)) + 1, Len(cmd))

Foreground == /\ pc = "execute" /\ tokens[1] # <<"exit">>
              /\ ~InBackground /\ PipeCount(Words) = 0

\* updateVar(name, value); without a name, as in "=", strlen(NULL) ends the shell.
Assignment == /\ Foreground /\ Assigns(tokens[1])
              /\ IF \A i \in 1..Len(tokens[1]) : tokens[1][i] = "="
                 THEN pc' = "crashed" /\ UNCHANGED varList
                 ELSE /\ pc' = "ran"
                      /\ varList' = UpdateVar(varList, AssignedName(tokens[1]), AssignedValue(tokens[1]))
              /\ UNCHANGED <<line, tokens, commands, typed>>

\* A builtin or a program: execute_command in the shell.
Command == /\ Foreground /\ ~Assigns(tokens[1])
           /\ commands' = <<tokens>> /\ pc' = "ran"
           /\ UNCHANGED <<varList, line, tokens, typed>>

\* execute_command in a child, whose variables are a copy that goes with it.
Background == /\ pc = "execute" /\ tokens[1] # <<"exit">> /\ InBackground /\ PipeCount(Words) = 0
              /\ commands' = <<Words>> /\ pc' = "ran"
              /\ UNCHANGED <<varList, line, tokens, typed>>

\* A child for each command; a command without words runs nothing.
Pipeline == /\ pc = "execute" /\ tokens[1] # <<"exit">> /\ PipeCount(Words) > 0
            /\ commands' = (IF BeginsWith(tokens[1], "|") THEN <<>> ELSE CutAtBars(Words))
            /\ pc' = "ran"
            /\ UNCHANGED <<varList, line, tokens, typed>>

Prompt == /\ pc = "ran" /\ pc' = "prompt"
          /\ line' = <<>> /\ tokens' = <<>> /\ commands' = <<>>
          /\ UNCHANGED <<varList, typed>>

Next == TypeLine \/ ExitShell \/ Assignment \/ Command \/ Background \/ Pipeline \/ Prompt

Spec == Init /\ [][Next]_vars

-----------------------------------------------------------------------------
(* Properties *)

EnvOf(list) ==
    [n \in {list[i].name : i \in 1..Len(list)} |-> (CHOOSE v \in ToSet(list) : v.name = n).value]

Env == INSTANCE Environment WITH
    env <- EnvOf(varList), line <- IF pc = "execute" THEN line ELSE <<>>

\* The list is a function from names to texts: an assignment gives its name
\* the meaning of its value, in terms of the variables before it, and leaves
\* the other variables alone; updateVar, decode_variable, tokenize_input.
ImplementsEnvironment == Env!Spec

\* No value holds a dollar, so one expansion is all a word needs, nor a bar,
\* so an expansion never makes a pipeline; no name is listed twice, so the
\* first entry getVar finds is the one updateVar has written.
ValuesAreFinal ==
    /\ \A i \in 1..Len(varList) : ~Has(varList[i].value, "$") /\ ~Has(varList[i].value, "|")
    /\ \A i, j \in 1..Len(varList) : varList[i].name = varList[j].name => i = j
    /\ \A i \in 1..Len(varList) : varList[i].name # <<>> /\ ~Has(varList[i].name, "=")

\* A word between dollars that are not doubled before a name becomes its
\* meaning; one that is too long becomes at least MaxStr - 1 characters of
\* it, in their order, and perhaps a dollar; tokenize_input.
TokensAreMeant ==
    pc = "execute" =>
        /\ Len(tokens) = Len(line)
        /\ \A k \in 1..Len(line) :
             LET w == line[k]
                 meaning == Env!Meaning(EnvOf(varList), w)
             IN \/ Last(w) # "$" /\ \E i \in 1..Len(w) - 1 : w[i] = "$" /\ w[i + 1] = "$"
                \/ tokens[k] = meaning
                \/ /\ Len(meaning) > MaxStr
                   /\ \E n \in MaxStr - 1 .. Len(meaning) :
                        tokens[k] \in {SubSeq(meaning, 1, n), Append(SubSeq(meaning, 1, n), "$")}

\* The words of the p-th command of a line, wherever its bars are.
CommandOf(toks, p) ==
    LET part(k) == p - PipeCount(SubSeq(toks, 1, k - 1))
    IN FlattenSeq([k \in 1..Len(toks) |->
           IF part(k) \notin 1..Len(Parts(toks[k])) THEN <<>>
           ELSE IF Has(toks[k], "|") /\ Parts(toks[k])[part(k)] = <<>> THEN <<>>
           ELSE <<Parts(toks[k])[part(k)]>>])

\* A word joined to a bar in front of it, with a further argument behind it.
JoinedBefore(toks, k) ==
    Len(toks[k]) > 1 /\ Has(toks[k], "|") /\ Last(toks[k]) # "|" /\ k < Len(toks) /\ ~BeginsWith(toks[k + 1], "|")

PipelineCut == pc = "ran" /\ PipeCount(Words) > 0 /\ ~BeginsWith(tokens[1], "|")

\* Every command of a pipeline gets all its words in order, unless a word
\* joined to a "|" has arguments behind it; the splitting in execute_commands.
CommandsAreWhole ==
    PipelineCut /\ ~(\E k \in 1..Len(Words) : JoinedBefore(Words, k)) =>
        commands = [p \in 1..PipeCount(Words) + 1 |-> CommandOf(Words, p)]

IsSubSequence(s, t) ==
    \E place \in [1..Len(s) -> 1..Len(t)] :
        /\ \A i, j \in 1..Len(s) : i < j => place[i] < place[j]
        /\ \A i \in 1..Len(s) : s[i] = t[place[i]]

\* However the bars are joined, there is a command for each process that is
\* forked, its words are words of that command in their order, the last among
\* them, and only a command without words runs nothing.
CommandsAreInPlace ==
    PipelineCut => /\ Len(commands) = PipeCount(Words) + 1
           /\ \A p \in 1..Len(commands) :
                LET whole == CommandOf(Words, p)
                IN IF whole = <<>> THEN commands[p] = <<>>
                   ELSE IsSubSequence(commands[p], whole) /\ commands[p] # <<>> /\ Last(commands[p]) = Last(whole)

\* A "|" separates commands whether or not there are spaces around it.
SpacesAreNotRequired ==
    PipelineCut => commands = [p \in 1..PipeCount(Words) + 1 |-> CommandOf(Words, p)]
=============================================================================
