----------------------------- MODULE JobControl -----------------------------
(***************************************************************************)
(* Process control in mysh: what the main loop (mysh.c), execute_commands  *)
(* (commands.c) and the server builtins (builtins.c) do with child         *)
(* processes, the table of background jobs, the pipes of a pipeline and    *)
(* the two SIGCHLD handlers.                                               *)
(*                                                                         *)
(* The shell has one thread.  Its control flow is cut at every statement   *)
(* after which a SIGCHLD can find something different: pc names the next   *)
(* statement.  A handler interrupts it between any two of them, runs to    *)
(* its end and gives control back (mode).  Children end whenever they      *)
(* like.  The kernel hands out a new process id for every fork: process    *)
(* ids are 1..MaxForks, in the order of the forks.                         *)
(***************************************************************************)
EXTENDS Integers, FiniteSets

CONSTANTS
    MaxForks,   \* bound: forks in one behaviour (every process id is used once)
    MaxStages,  \* bound: commands in one pipeline
    Lines,      \* the kinds of line the user types
    Failures    \* the system calls that may fail: a subset of {"fork", "pipe"}

AllLines == {"builtin", "external", "background", "pipeline", "bgPipeline",
             "startServer", "closeServer", "exit"}

ASSUME ForksAssumption == MaxForks \in Nat \ {0}
ASSUME StagesAssumption == MaxStages \in Nat /\ MaxStages >= 2
ASSUME LinesAssumption == Lines \subseteq AllLines
ASSUME FailuresAssumption == Failures \subseteq {"fork", "pipe"}

VARIABLES
    pc,             \* the shell's next statement
    mode,           \* "main", or "handler" while a SIGCHLD handler runs
    handler,        \* the installed handler: "none", "jobs" or "server"
    sigchld,        \* is a SIGCHLD pending (several coalesce into one)?
    line,           \* the command line being executed
    proc,           \* life of each process: unborn, running, zombie, reaped
    kind,           \* what each process was forked for
    group,          \* the pipeline a stage belongs to, 0 for the others
    forks,          \* number of forks so far, hence the last pid handed out
    held,           \* pipelines whose pipe ends the shell itself holds open
    table,          \* bg_processes
    count,          \* bg_process_count
    tmp,            \* the value "bg_process_count++" has loaded
    server_running,
    server_pid,
    announced,      \* history: the job number shown when a job was launched
    done,           \* history: the number of "Done" lines of each process
    raced,          \* history: did one of the races on the table happen?
    signalled       \* history: the pids the server's closing has signalled

main == <<pc, line>>
signals == <<mode, handler, sigchld>>
children == <<proc, kind, group, forks>>
jobs == <<table, count, tmp, announced, done, raced>>
server == <<server_running, server_pid, signalled>>
vars == <<main, signals, children, held, jobs, server>>

Pid == 1..MaxForks
cur == forks                      \* the process the shell forked last
Running == {p \in Pid : proc[p] = "running"}
Zombies == {p \in Pid : proc[p] = "zombie"}
Launched == {p \in Pid : announced[p] # 0}
Index == 0..(MaxForks - 1)
Used == 0..(count - 1)            \* the entries in use, i < bg_process_count
Listed == {table[i].pid : i \in Used \cap Index}

\* Between the "[n] pid" message and the end of "bg_process_count++".
Registering == {"setPid", "setNumber", "setCommand", "loadCount", "storeCount"}
ControlPoints == Registering \cup
    {"prompt", "checkServer", "fork", "announce", "closePipes", "wait",
     "waitpid", "setRunning", "setServerPid", "exited"}

\* A line: its kind, the number of its commands, the next one to fork, the
\* waits that are left, and the number of its pipeline.
Line(k, n) == [kind |-> k, stages |-> n, i |-> 0, waits |-> 0,
               group |-> forks + 1]

NoEntry == [pid |-> 0, number |-> 0, command |-> 0]

Init ==
    /\ pc = "prompt" /\ mode = "main" /\ handler = "none" /\ sigchld = FALSE
    /\ forks = 0
    /\ line = Line("builtin", 1)
    /\ proc = [p \in Pid |-> "unborn"]
    /\ kind = [p \in Pid |-> "none"]
    /\ group = [p \in Pid |-> 0]
    /\ held = {}
    /\ table = [i \in Index |-> NoEntry] /\ count = 0 /\ tmp = 0
    /\ server_running = 0 /\ server_pid = -1
    /\ announced = [p \in Pid |-> 0]
    /\ done = [p \in Pid |-> 0]
    /\ raced = FALSE /\ signalled = {}

\* The bound: a line is typed only while there are pids for its n processes.
Room(n) == forks + n <= MaxForks

-----------------------------------------------------------------------------
(* The shell reads a line.  Every line but "exit" starts execute_commands,  *)
(* which installs handle_sigchld first.                                     *)

Goto(l) == pc' = l /\ UNCHANGED line

Read(k) ==
    /\ mode = "main" /\ pc = "prompt" /\ k \in Lines
    /\ handler' = (IF k = "startServer" THEN "server" ELSE "jobs")
    /\ UNCHANGED <<mode, sigchld>>

\* A line that forks nothing: a builtin, an assignment, a "|" at its start, a
\* command that is not found.
Builtin ==
    /\ Read("builtin")
    /\ line' = Line("builtin", 1) /\ pc' = "prompt"
    /\ UNCHANGED <<children, held, jobs, server>>

\* execute_bin_command finds the file.
External ==
    /\ Read("external") /\ Room(1)
    /\ line' = Line("external", 1) /\ pc' = "fork"
    /\ UNCHANGED <<children, held, jobs, server>>

Background ==
    /\ Read("background") /\ Room(1)
    /\ line' = Line("background", 1) /\ pc' = "fork"
    /\ UNCHANGED <<children, held, jobs, server>>

\* n commands joined by "|": the shell creates all the pipes, then forks.
Pipeline(k, n) ==
    /\ Read(k) /\ Room(n)
    /\ line' = Line(k, n) /\ pc' = "fork"
    /\ held' = held \cup {forks + 1}
    /\ UNCHANGED <<children, jobs, server>>

\* pipe() fails after "made" pipes: the shell returns and keeps these open
\* (pipes that no process was given are held as pipeline 0).
PipeFails(k, n, made) ==
    /\ "pipe" \in Failures
    /\ Read(k)
    /\ line' = Line(k, n) /\ pc' = "prompt"
    /\ held' = (IF made > 0 THEN held \cup {0} ELSE held)
    /\ UNCHANGED <<children, jobs, server>>

\* bn_start_server installs sigchld_handler before it looks at anything.
StartServer ==
    /\ Read("startServer") /\ Room(1)
    /\ line' = Line("startServer", 1) /\ pc' = "checkServer"
    /\ UNCHANGED <<children, held, jobs, server>>

\* The error returns: server already running, bad port, port in use.
RefuseServer ==
    /\ mode = "main" /\ pc = "checkServer"
    /\ Goto("prompt")
    /\ UNCHANGED <<signals, children, held, jobs, server>>

AcceptServer ==
    /\ mode = "main" /\ pc = "checkServer"
    /\ server_running = 0
    /\ Goto("fork")
    /\ UNCHANGED <<signals, children, held, jobs, server>>

\* kill() reaches a child that nobody has reaped yet; a zombie counts.
Exists(p) == p \in Pid /\ proc[p] \in {"running", "zombie"}

\* Mutant: server_running is not reset.
SignalServerKeepsFlag ==
    /\ signalled' = signalled \cup {server_pid}
    /\ server_pid' = (IF Exists(server_pid) THEN -1 ELSE server_pid)
    /\ UNCHANGED server_running

\* kill(server_pid, ...) followed by the reset of both variables; when the
\* process is gone, the signal fails and nothing changes.
SignalServer ==
    /\ signalled' = signalled \cup {server_pid}
    /\ server_running' = (IF Exists(server_pid) THEN 0 ELSE server_running)
    /\ server_pid' = (IF Exists(server_pid) THEN -1 ELSE server_pid)

\* bn_close_server.
CloseServer ==
    /\ Read("closeServer")
    /\ line' = Line("closeServer", 1) /\ pc' = "prompt"
    /\ \/ server_running = 1 /\ server_pid # -1 /\ SignalServer
       \/ (server_running = 0 \/ server_pid = -1) /\ UNCHANGED server
    /\ UNCHANGED <<children, held, jobs>>

\* "exit", or the end of the input: close_server, and main returns.
ExitShell ==
    /\ mode = "main" /\ pc = "prompt" /\ "exit" \in Lines
    /\ Goto("exited")
    /\ held' = {}
    /\ \/ server_running = 1 /\ SignalServer
       \/ server_running = 0 /\ UNCHANGED server
    /\ UNCHANGED <<signals, children, jobs>>

-----------------------------------------------------------------------------
(* fork(), and what the parent does next.                                   *)

IsPipeline == line.kind \in {"pipeline", "bgPipeline"}
MoreStages == IsPipeline /\ line.i + 1 < line.stages

\* A background line registers the process it forked; a background pipeline
\* the one with i == commandCount - 1, where commandCount counts the "|".
Registers == \/ line.kind = "background"
             \/ line.kind = "bgPipeline" /\ line.i = line.stages - 2

ChildKind == IF IsPipeline THEN "stage" ELSE line.kind

AfterFork ==
    IF Registers THEN "announce"
    ELSE IF MoreStages THEN "fork"
    ELSE IF IsPipeline THEN "closePipes"
    ELSE IF line.kind = "startServer" THEN "setRunning" ELSE "waitpid"

Fork ==
    /\ mode = "main" /\ pc = "fork" /\ forks < MaxForks
    /\ forks' = forks + 1
    /\ proc' = [proc EXCEPT ![forks + 1] = "running"]
    /\ kind' = [kind EXCEPT ![forks + 1] = ChildKind]
    /\ group' = [group EXCEPT ![forks + 1] = IF IsPipeline THEN line.group ELSE 0]
    /\ pc' = AfterFork
    /\ line' = [line EXCEPT !.i = IF MoreStages /\ ~Registers THEN line.i + 1
                                  ELSE line.i]
    /\ UNCHANGED <<signals, held, jobs, server>>

\* fork() fails: the line is given up; a pipeline leaves the stages it has
\* already started, and the shell's ends of their pipes stay open.
ForkFails ==
    /\ mode = "main" /\ pc = "fork"
    /\ "fork" \in Failures
    /\ Goto("prompt")
    /\ held' = (IF IsPipeline /\ line.group > forks
                THEN (held \ {line.group}) \cup {0} ELSE held)
    /\ UNCHANGED <<signals, children, jobs, server>>

\* The message "[n] pid".
Announce ==
    /\ mode = "main" /\ pc = "announce"
    /\ announced' = [announced EXCEPT ![cur] = count + 1]
    /\ Goto("setPid")
    /\ UNCHANGED <<signals, children, held, table, count, tmp, done, raced,
                   server>>

SetField(here, next, entry) ==
    /\ mode = "main" /\ pc = here
    /\ table' = [table EXCEPT ![count] = entry]
    /\ Goto(next)
    /\ UNCHANGED <<signals, children, held, count, tmp, announced, done, raced,
                   server>>

SetPid == SetField("setPid", "setNumber", [table[count] EXCEPT !.pid = cur])
SetNumber == SetField("setNumber", "setCommand",
                      [table[count] EXCEPT !.number = count + 1])
\* The job's command line is named by the process that runs it.
SetCommand == SetField("setCommand", "loadCount",
                       [table[count] EXCEPT !.command = cur])

\* bg_process_count++ is a load, an addition and a store.
LoadCount ==
    /\ mode = "main" /\ pc = "loadCount"
    /\ tmp' = count
    /\ Goto("storeCount")
    /\ UNCHANGED <<signals, children, held, table, count, announced, done, raced,
                   server>>

StoreCount ==
    /\ mode = "main" /\ pc = "storeCount"
    /\ count' = tmp + 1
    /\ pc' = (IF MoreStages THEN "fork" ELSE "prompt")
    /\ line' = [line EXCEPT !.i = IF MoreStages THEN line.i + 1 ELSE line.i]
    /\ UNCHANGED <<signals, children, held, table, tmp, announced, done, raced,
                   server>>

\* Mutant: the shell waits with the pipes still open.
ClosePipesAfterwards ==
    /\ mode = "main" /\ pc = "closePipes"
    /\ pc' = (IF line.kind = "pipeline" THEN "wait" ELSE "prompt")
    /\ line' = [line EXCEPT !.waits = line.stages - 1]
    /\ UNCHANGED <<signals, children, held, jobs, server>>

\* Every stage is started: close the shell's pipe ends, wait in the foreground.
ClosePipes ==
    /\ mode = "main" /\ pc = "closePipes"
    /\ held' = held \ {line.group}
    /\ pc' = (IF line.kind = "pipeline" THEN "wait" ELSE "prompt")
    /\ line' = [line EXCEPT !.waits = line.stages - 1]
    /\ UNCHANGED <<signals, children, jobs, server>>

\* Mutant: i <= commandCount in the loop of waits.
AfterWaitOneMore ==
    /\ pc' = (IF line.waits >= 0 THEN "wait" ELSE "prompt")
    /\ line' = [line EXCEPT !.waits = line.waits - 1]

\* Mutant: the loop of waits stops one short.
AfterWaitOneLess ==
    /\ pc' = (IF line.waits > 2 THEN "wait" ELSE "prompt")
    /\ line' = [line EXCEPT !.waits = line.waits - 1]

AfterWait ==
    /\ pc' = (IF line.waits > 1 THEN "wait" ELSE "prompt")
    /\ line' = [line EXCEPT !.waits = line.waits - 1]

\* wait(NULL): whichever child has ended, or ECHILD when there is no child.
WaitReaps(p) ==
    /\ mode = "main" /\ pc = "wait" /\ p \in Zombies
    /\ proc' = [proc EXCEPT ![p] = "reaped"]
    /\ raced' = (raced \/ p \in Launched)
    /\ AfterWait
    /\ UNCHANGED <<signals, kind, group, forks, held, table, count, tmp,
                   announced, done, server>>

WaitNoChild ==
    /\ mode = "main" /\ pc = "wait" /\ Running \cup Zombies = {}
    /\ AfterWait
    /\ UNCHANGED <<signals, children, held, jobs, server>>

\* waitpid(pid, &status, 0) reaps the child, or fails at once with ECHILD when
\* the handler has reaped it already.
Waitpid ==
    /\ mode = "main" /\ pc = "waitpid" /\ proc[cur] # "running"
    /\ proc' = [proc EXCEPT ![cur] = "reaped"]
    /\ Goto("prompt")
    /\ UNCHANGED <<signals, kind, group, forks, held, jobs, server>>

SetRunning ==
    /\ mode = "main" /\ pc = "setRunning"
    /\ server_running' = 1
    /\ Goto("setServerPid")
    /\ UNCHANGED <<signals, children, held, jobs, server_pid, signalled>>

SetServerPid ==
    /\ mode = "main" /\ pc = "setServerPid"
    /\ server_pid' = cur
    /\ Goto("prompt")
    /\ UNCHANGED <<signals, children, held, jobs, server_running, signalled>>

-----------------------------------------------------------------------------
(* Children, and the handlers of SIGCHLD.                                   *)

\* A child ends: by itself, or by a signal (the kill builtin, control-C).
Exit(p) ==
    /\ p \in Running
    /\ proc' = [proc EXCEPT ![p] = "zombie"]
    /\ sigchld' = TRUE
    /\ UNCHANGED <<main, mode, handler, kind, group, forks, held, jobs, server>>

HandlerEnter ==
    /\ mode = "main" /\ pc # "exited" /\ sigchld /\ handler # "none"
    /\ mode' = "handler" /\ sigchld' = FALSE
    /\ UNCHANGED <<main, handler, children, held, jobs, server>>

\* One turn of "while ((pid = waitpid(-1, &status, WNOHANG)) > 0)".
Reap(p, h) ==
    /\ mode = "handler" /\ handler = h /\ p \in Zombies
    /\ proc' = [proc EXCEPT ![p] = "reaped"]
    /\ UNCHANGED <<main, signals, kind, group, forks, held>>

Matches(p) == {i \in Used \cap Index : table[i].pid = p}
IsFirst(i, S) == i \in S /\ \A j \in S : i <= j

\* Mutants: the loop that closes the gap ends too early, or starts too late.
RemovedShort(i) == [j \in Index |-> IF i <= j /\ j < count - 2 THEN table[j + 1]
                                    ELSE table[j]]
RemovedLate(i) == [j \in Index |-> IF i < j /\ j < count - 1 THEN table[j + 1]
                                   ELSE table[j]]

\* The entries after i move down one place; the last one keeps its content.
Removed(i) == [j \in Index |-> IF i <= j /\ j < count - 1 THEN table[j + 1]
                               ELSE table[j]]

\* Does reaping p now spoil the table?  Only while an entry is being written.
RacesWithMain(p) == \/ pc \in Registering /\ p \in Launched
                    \/ pc = "announce" /\ p = cur

\* Mutant: the "Done" line is printed for every child, listed or not.
ReapJobAlwaysDone(p) ==
    /\ Reap(p, "jobs")
    /\ \/ Matches(p) = {} /\ UNCHANGED <<table, count>>
       \/ \E i \in Matches(p) : /\ IsFirst(i, Matches(p))
                                /\ table' = Removed(i)
                                /\ count' = count - 1
    /\ done' = [done EXCEPT ![p] = @ + 1]
    /\ raced' = (raced \/ RacesWithMain(p))
    /\ UNCHANGED <<tmp, announced, server>>

\* handle_sigchld: the first entry of the process goes, with a "Done" line.
ReapJob(p) ==
    /\ Reap(p, "jobs")
    /\ \/ Matches(p) = {} /\ UNCHANGED <<table, count, done>>
       \/ \E i \in Matches(p) : /\ IsFirst(i, Matches(p))
                                /\ table' = Removed(i)
                                /\ count' = count - 1
                                /\ done' = [done EXCEPT ![p] = @ + 1]
    /\ raced' = (raced \/ RacesWithMain(p))
    /\ UNCHANGED <<tmp, announced, server>>

\* sigchld_handler: any child is taken for the server.
ReapServer(p) ==
    /\ Reap(p, "server")
    /\ server_running' = 0
    /\ raced' = (raced \/ p \in Launched)
    /\ UNCHANGED <<table, count, tmp, announced, done, server_pid, signalled>>

\* Mutant: "if" for "while", zombies may be left when the handler returns.
HandlerReturnsEarly ==
    /\ mode = "handler"
    /\ mode' = "main"
    /\ UNCHANGED <<main, handler, sigchld, children, held, jobs, server>>

HandlerReturn ==
    /\ mode = "handler" /\ Zombies = {}
    /\ mode' = "main"
    /\ UNCHANGED <<main, handler, sigchld, children, held, jobs, server>>

-----------------------------------------------------------------------------
ReadLine ==
    \/ Builtin \/ External \/ Background
    \/ StartServer \/ CloseServer \/ ExitShell
    \/ \E k \in {"pipeline", "bgPipeline"}, n \in 2..MaxStages :
         \/ Pipeline(k, n)
         \/ \E made \in 0..(n - 1) : PipeFails(k, n, made)

MainStep ==
    \/ RefuseServer \/ AcceptServer \/ Fork \/ ForkFails \/ Announce
    \/ SetPid \/ SetNumber \/ SetCommand \/ LoadCount \/ StoreCount
    \/ ClosePipes \/ WaitNoChild \/ Waitpid \/ SetRunning \/ SetServerPid
    \/ \E p \in Pid : WaitReaps(p)

Handle ==
    \/ HandlerEnter \/ HandlerReturn
    \/ \E p \in Pid : ReapJob(p) \/ ReapServer(p)

Next == ReadLine \/ MainStep \/ Handle \/ \E p \in Pid : Exit(p)

Spec == Init /\ [][Next]_vars

(* The kernel runs the shell and its handlers; a command ends once it can   *)
(* (a stage reads its input to the end, which never comes while the shell   *)
(* holds the pipe open).  Nothing makes the user type, or a server end.     *)
Ends(p) == /\ Exit(p)
           /\ kind[p] # "startServer" \/ p \in signalled
           /\ group[p] \notin held

Fairness == /\ WF_vars(MainStep) /\ WF_vars(Handle)
            /\ \A p \in Pid : WF_vars(Ends(p))

FairSpec == Spec /\ Fairness

-----------------------------------------------------------------------------
LifeStages == {"unborn", "running", "zombie", "reaped"}
Entry == [pid : 0..MaxForks, number : 0..MaxForks, command : 0..MaxForks]
LineType == [kind : AllLines, stages : 1..MaxStages, i : 0..MaxStages,
             waits : 0..MaxStages, group : 1..(MaxForks + 1)]

(* Every variable keeps its type; in particular bg_process_count and the    *)
(* value loaded by bg_process_count++ stay within the entries of            *)
(* bg_processes that as many forks can fill.                                *)
TypeOK ==
    /\ pc \in ControlPoints
    /\ mode \in {"main", "handler"}
    /\ handler \in {"none", "jobs", "server"}
    /\ sigchld \in BOOLEAN
    /\ line \in LineType
    /\ forks \in 0..MaxForks
    /\ proc \in [Pid -> LifeStages]
    /\ kind \in [Pid -> AllLines \cup {"none", "stage"}]
    /\ group \in [Pid -> 0..(MaxForks + 1)]
    /\ held \subseteq 0..(MaxForks + 1)
    /\ table \in [Index -> Entry]
    /\ count \in 0..MaxForks /\ tmp \in 0..MaxForks
    /\ server_running \in {0, 1} /\ server_pid \in Pid \cup {-1}
    /\ announced \in [Pid -> 0..MaxForks]
    /\ done \in [Pid -> Nat]
    /\ raced \in BOOLEAN /\ signalled \subseteq Pid \cup {-1}

(* No child stays a zombie for good: as long as there is one, a SIGCHLD is  *)
(* pending for an installed handler, or the handler is running.  SIGCHLDs   *)
(* coalesce, so this rests on the waitpid loops of both handlers.           *)
ZombieHasReaper ==
    Zombies # {} /\ pc # "exited" => \/ sigchld /\ handler # "none"
                                     \/ mode = "handler"

(* handle_sigchld prints at most one "Done" per job, only for a process     *)
(* the shell announced as a job, and only after that process has ended,     *)
(* even when a race has left the table with two entries for one process.    *)
DoneIsTruthful ==
    \A p \in Pid : /\ done[p] <= 1
                  /\ done[p] = 1 => proc[p] = "reaped" /\ p \in Launched

(* Unless one of the races happened, the table is exact whenever the shell  *)
(* is not writing to it: one entry for each launched job that nobody has    *)
(* reaped, under the number announced for it and with its own command; and  *)
(* every other launched job has had its "Done" line.                        *)
TableExactUnlessRaced ==
    ~raced /\ pc \notin Registering =>
        /\ Listed = {p \in Launched : proc[p] # "reaped"}
        /\ Cardinality(Listed) = count
        /\ \A i \in Used \cap Index :
              /\ table[i].command = table[i].pid
              /\ table[i].number = announced[table[i].pid]
        /\ \A p \in Launched : proc[p] = "reaped" => done[p] = 1

AtPrompt == mode = "main" /\ pc = "prompt"

(* A foreground pipeline whose processes are the shell's only children has  *)
(* at most one process running when the prompt comes back: the loop waits   *)
(* for one process less than it starts, and what the handler has reaped in  *)
(* the meantime is never counted for one that still runs.                   *)
PipelineAlmostFinished ==
    AtPrompt /\ line.kind = "pipeline" /\ line.group = 1 /\ forks = line.stages
        => Cardinality(Running) <= 1

(* A job that is listed and has not been reaped is not dropped from the     *)
(* list by any step: the entries the handler moves and the counter that     *)
(* bg_process_count++ writes back never hide a live job that ps showed.     *)
LiveJobStaysListed ==
    [][\A p \in Listed \ {0} : proc'[p] # "reaped" => p \in Listed']_vars

(* close-server and the shell's exit only ever signal a process that was    *)
(* forked as a server: never pid -1, which would signal every process.      *)
OnlyServersSignalled ==
    \A p \in signalled : p \in Pid /\ kind[p] = "startServer"

(* A launched job that ends gets its "Done" line, unless a race spoiled the *)
(* table or the shell exits.                                                *)
EndedJobGetsDone ==
    \A p \in Pid : (p \in Launched /\ proc[p] = "zombie")
                     ~> (done[p] = 1 \/ raced \/ pc = "exited")

(* The shell comes back to its prompt after every line, when the commands   *)
(* end once they can and no server is running.                              *)
PromptReturns == (pc # "prompt") ~> (pc \in {"prompt", "exited"})

-----------------------------------------------------------------------------
(* What the comments, messages and tests say, and the code does not do.     *)

(* builtins.c refuses a second server ("ERROR: Server is already running"): *)
(* never do two servers run that nobody has told to stop.                   *)
OneServer ==
    Cardinality({p \in Running \ signalled : kind[p] = "startServer"}) <= 1
=============================================================================
