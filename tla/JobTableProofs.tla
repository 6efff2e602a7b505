--------------------------- MODULE JobTableProofs ---------------------------
(* The table of background jobs is exact, unless a race spoiled it: for     *)
(* every number of forks and of pipeline stages, every set of lines and     *)
(* every set of failures.                                                   *)
EXTENDS JobControlProofs

-----------------------------------------------------------------------------
(* The inductive invariant.                                                 *)


(* sigchld_handler is installed only by the line that starts a server, so   *)
(* it never runs between the fork and the announcement of a job; a process  *)
(* is announced after it was forked, and never when the shell waits for it. *)
Announcing ==
    /\ handler = "server" => line.kind = "startServer"
    /\ pc = "announce" => line.kind # "startServer"
    /\ pc \in {"announce", "waitpid"} => announced[cur] = 0
    /\ \A p \in Pid : p > forks => announced[p] = 0

(* An entry stands for a live job, under the number announced for it.       *)
GoodEntry(e) ==
    /\ e.pid \in Launched
    /\ proc[e.pid] # "reaped"
    /\ e.command = e.pid
    /\ e.number = announced[e.pid]

(* The entry a registration is writing, as far as the shell has come.       *)
HalfWritten ==
    /\ pc \in Registering =>
         /\ announced[cur] = count + 1 /\ proc[cur] # "reaped"
         /\ \A i \in Index : i < count => table[i].pid # cur
    /\ pc \in Registering \ {"setPid"} => table[count].pid = cur
    /\ pc \in {"setCommand", "loadCount", "storeCount"} =>
         table[count].number = count + 1
    /\ pc \in {"loadCount", "storeCount"} => table[count].command = cur
    /\ pc = "storeCount" => tmp = count

(* Without a race the table has one entry for each live job but the one     *)
(* being registered, and the jobs that ended have had their "Done" line.    *)
Exact ==
    /\ pc = "announce" => proc[cur] # "reaped"
    /\ HalfWritten
    /\ \A i \in Index : i < count => GoodEntry(table[i])
    /\ \A i, j \in Index :
         i < count /\ j < count /\ table[i].pid = table[j].pid => i = j
    /\ \A p \in Launched : proc[p] # "reaped" =>
         \/ pc \in Registering /\ p = cur
         \/ \E i \in Index : i < count /\ table[i].pid = p
    /\ \A p \in Launched : proc[p] = "reaped" => done[p] = 1

TableInv == Announcing /\ (~raced => Exact)

-----------------------------------------------------------------------------
(* Steps that leave the table alone.                                        *)

(* A process is announced, and the handler of start-server installed, as    *)
(* Announcing says, after every step.                                       *)
LEMMA NextAnnouncing == TypeInv /\ Announcing /\ [Next]_vars => Announcing'
<1> SUFFICES ASSUME TypeInv, Announcing, [Next]_vars PROVE Announcing'
  OBVIOUS
<1> USE DEF Announcing, cur
<1>1. CASE Builtin
  BY <1>1 DEF Builtin, Read, Line, children, jobs
<1>2. CASE Background
  BY <1>2 DEF Background, Read, Line, children, jobs
<1>3. CASE StartServer
  BY <1>3 DEF StartServer, Read, Line, children, jobs
<1>4. CASE CloseServer
  BY <1>4 DEF CloseServer, Read, Line, children, jobs
<1>5. CASE External
  BY <1>5 DEF External, Read, Line, children, jobs
<1>6. ASSUME NEW k \in {"pipeline", "bgPipeline"}, NEW n \in 2..MaxStages,
             Pipeline(k, n)
      PROVE  Announcing'
  BY <1>6 DEF Pipeline, Read, Line, children, jobs
<1>7. ASSUME NEW k \in {"pipeline", "bgPipeline"}, NEW n \in 2..MaxStages,
             NEW made \in 0..(n - 1), PipeFails(k, n, made)
      PROVE  Announcing'
  BY <1>7 DEF PipeFails, Read, Line, children, jobs
<1>8. CASE ExitShell
  BY <1>8 DEF ExitShell, Goto, signals, children, jobs
<1>9. CASE RefuseServer
  BY <1>9 DEF RefuseServer, Goto, signals, children, jobs
<1>10. CASE AcceptServer
  BY <1>10 DEF AcceptServer, Goto, signals, children, jobs
<1>11. CASE ForkFails
  BY <1>11 DEF ForkFails, Goto, signals, children, jobs
<1>12. CASE Announce
  BY <1>12 DEF Announce, Goto, signals, children, TypeInv, TypeOK, Pid
<1>13. CASE SetPid
  BY <1>13 DEF SetPid, SetField, Goto, signals, children
<1>14. CASE SetNumber
  BY <1>14 DEF SetNumber, SetField, Goto, signals, children
<1>15. CASE SetCommand
  BY <1>15 DEF SetCommand, SetField, Goto, signals, children
<1>16. CASE LoadCount
  BY <1>16 DEF LoadCount, Goto, signals, children
<1>17. CASE StoreCount
  <2>1. line'.kind = line.kind /\ pc' \in {"fork", "prompt"}
    BY <1>17 DEF StoreCount, TypeInv, TypeOK, LineType
  <2> QED
    BY <1>17, <2>1 DEF StoreCount, signals, children
<1>18. CASE ClosePipes
  <2>1. line'.kind = line.kind /\ pc' \in {"wait", "prompt"}
    BY <1>18 DEF ClosePipes, TypeInv, TypeOK, LineType
  <2> QED
    BY <1>18, <2>1 DEF ClosePipes, signals, children, jobs
<1>19. CASE WaitNoChild
  <2>1. line'.kind = line.kind /\ pc' \in {"wait", "prompt"}
    BY <1>19 DEF WaitNoChild, AfterWait, TypeInv, TypeOK, LineType
  <2> QED
    BY <1>19, <2>1 DEF WaitNoChild, signals, children, jobs
<1>20. CASE Fork
  <2>1. line'.kind = line.kind
    BY <1>20 DEF Fork, TypeInv, TypeOK, LineType
  <2>2. pc' = "announce" => line.kind # "startServer"
    BY <1>20 DEF Fork, AfterFork, Registers
  <2>3. forks' = forks + 1 /\ forks' \in Pid /\ announced' = announced
    BY <1>20, ForksAssumption DEF Fork, jobs, TypeInv, TypeOK, Pid
  <2>4. announced'[forks'] = 0 /\ \A p \in Pid : p > forks' => announced'[p] = 0
    BY <2>3 DEF TypeInv, TypeOK, Pid
  <2> QED
    BY <1>20, <2>1, <2>2, <2>4 DEF Fork, signals
<1>21. CASE SetRunning
  BY <1>21 DEF SetRunning, Goto, signals, children, jobs
<1>22. CASE SetServerPid
  BY <1>22 DEF SetServerPid, Goto, signals, children, jobs
<1>23. ASSUME NEW p \in Pid, WaitReaps(p) PROVE Announcing'
  <2>1. line'.kind = line.kind /\ pc' \in {"wait", "prompt"}
    BY <1>23 DEF WaitReaps, AfterWait, TypeInv, TypeOK, LineType
  <2> QED
    BY <1>23, <2>1 DEF WaitReaps, signals
<1>24. CASE Waitpid
  BY <1>24 DEF Waitpid, Goto, signals, jobs
<1>25. CASE HandlerEnter
  BY <1>25 DEF HandlerEnter, main, children, jobs
<1>26. CASE HandlerReturn
  BY <1>26 DEF HandlerReturn, main, children, jobs
<1>27. ASSUME NEW p \in Pid, ReapJob(p) PROVE Announcing'
  BY <1>27 DEF ReapJob, Reap, main, signals
<1>28. ASSUME NEW p \in Pid, ReapServer(p) PROVE Announcing'
  BY <1>28 DEF ReapServer, Reap, main, signals
<1>29. ASSUME NEW p \in Pid, Exit(p) PROVE Announcing'
  BY <1>29 DEF Exit, main, jobs
<1>30. CASE UNCHANGED vars
  BY <1>30 DEF vars, main, signals, children, jobs
<1> HIDE DEF Announcing
<1> QED
  BY <1>1, <1>2, <1>3, <1>4, <1>5, <1>6, <1>7, <1>8, <1>9, <1>10, <1>11,
     <1>12, <1>13, <1>14, <1>15, <1>16, <1>17, <1>18, <1>19, <1>20, <1>21,
     <1>22, <1>23, <1>24, <1>25, <1>26, <1>27, <1>28, <1>29, <1>30
  DEF Next, ReadLine, MainStep, Handle

(* The step leaves the table and its history as they are, and reaps no job. *)
TableKept ==
    /\ UNCHANGED <<table, count, announced, done>>
    /\ \A p \in Launched : proc'[p] = "reaped" <=> proc[p] = "reaped"

(* A step of the shell outside a registration that keeps the table keeps it *)
(* exact.                                                                   *)
LEMMA KeptOutside ==
  ASSUME Exact, TableKept, pc \notin Registering, pc' \notin Registering,
         pc' = "announce" => proc'[cur'] # "reaped"
  PROVE  Exact'
<1>1. Launched' = Launched
  BY DEF TableKept, Launched
<1>2. \A i \in Index : i < count' => GoodEntry(table[i])'
  BY <1>1 DEF Exact, TableKept, GoodEntry
<1>3. \A p \in Launched' : proc'[p] # "reaped" =>
        \E i \in Index : i < count' /\ table'[i].pid = p
  BY <1>1 DEF Exact, TableKept
<1>4. \A p \in Launched' : proc'[p] = "reaped" => done'[p] = 1
  BY <1>1 DEF Exact, TableKept
<1>5. HalfWritten'
  BY DEF HalfWritten, Registering
<1> QED
  BY <1>2, <1>3, <1>4, <1>5 DEF Exact, TableKept

(* So does a step of a child or of a handler, wherever the shell is.        *)
LEMMA KeptInside ==
  ASSUME Exact, TableKept, UNCHANGED <<pc, forks, tmp>>,
         pc \in Registering => cur \in Launched,
         pc = "announce" => proc'[cur] # "reaped"
  PROVE  Exact'
<1>1. Launched' = Launched
  BY DEF TableKept, Launched
<1>2. \A i \in Index : i < count' => GoodEntry(table[i])'
  BY <1>1 DEF Exact, TableKept, GoodEntry
<1>3. \A p \in Launched' : proc'[p] # "reaped" =>
        \/ pc \in Registering /\ p = cur
        \/ \E i \in Index : i < count' /\ table'[i].pid = p
  BY <1>1 DEF Exact, TableKept
<1>4. \A p \in Launched' : proc'[p] = "reaped" => done'[p] = 1
  BY <1>1 DEF Exact, TableKept
<1>5. HalfWritten'
  BY DEF HalfWritten, Registering, Exact, TableKept, cur
<1> QED
  BY <1>2, <1>3, <1>4, <1>5 DEF Exact, TableKept, cur

(* The process being registered is a launched one.                          *)
LEMMA CurLaunched ==
  ASSUME TypeInv, JobsInv, pc \in Registering
  PROVE  cur \in Launched /\ cur \in Pid /\ count \in Index
<1>1. forks \in Pid /\ count \in Index
  BY ForksAssumption DEF TypeInv, TypeOK, Counters, Pid, Index
<1> QED
  BY <1>1 DEF JobsInv, cur, Launched

-----------------------------------------------------------------------------
(* Every step keeps the table exact, or is a race.                          *)

(* The steps that read a line, or run a line that registers nothing.        *)
LEMMA NextOutside ==
  ASSUME TypeInv, JobsInv, TableInv, ~raced, ~raced',
         \/ ReadLine \/ RefuseServer \/ AcceptServer \/ Fork \/ ForkFails
         \/ ClosePipes \/ WaitNoChild \/ Waitpid \/ SetRunning \/ SetServerPid
         \/ \E p \in Pid : WaitReaps(p)
  PROVE  Exact'
<1>1. Exact
  BY DEF TableInv
<1>2. CASE ReadLine
  <2>1. pc \notin Registering /\ pc' \notin Registering \cup {"announce"}
    BY <1>2 DEF ReadLine, Builtin, External, Background, StartServer,
       CloseServer, ExitShell, Pipeline, PipeFails, Read, Goto, Registering
  <2>2. UNCHANGED <<table, count, announced, done, proc>>
    BY <1>2 DEF ReadLine, Builtin, External, Background, StartServer,
       CloseServer, ExitShell, Pipeline, PipeFails, children, jobs
  <2> QED
    BY <1>1, <2>1, <2>2, KeptOutside DEF TableKept
<1>3. CASE RefuseServer \/ AcceptServer \/ ForkFails \/ SetRunning
           \/ SetServerPid \/ ClosePipes \/ WaitNoChild
  <2>1. pc \notin Registering /\ pc' \notin Registering \cup {"announce"}
    BY <1>3 DEF RefuseServer, AcceptServer, ForkFails, SetRunning,
       SetServerPid, ClosePipes, WaitNoChild, AfterWait, Goto, Registering
  <2>2. UNCHANGED <<table, count, announced, done, proc>>
    BY <1>3 DEF RefuseServer, AcceptServer, ForkFails, SetRunning,
       SetServerPid, ClosePipes, WaitNoChild, children, jobs
  <2> QED
    BY <1>1, <2>1, <2>2, KeptOutside DEF TableKept
<1>4. CASE Fork
  <2>1. pc \notin Registering /\ pc' \notin Registering
    BY <1>4 DEF Fork, AfterFork, Registering
  <2>2. UNCHANGED <<table, count, announced, done>>
    BY <1>4 DEF Fork, jobs
  <2>3. /\ forks' \in Pid /\ proc'[forks'] = "running"
        /\ \A p \in Pid : p # forks' => proc'[p] = proc[p]
        /\ announced[forks'] = 0
    BY <1>4, ForksAssumption DEF Fork, TypeInv, TypeOK, Pid, TableInv,
       Announcing
  <2>4. TableKept
    BY <2>2, <2>3 DEF TableKept, Launched
  <2>5. proc'[cur'] # "reaped"
    BY <2>3 DEF cur
  <2> QED
    BY <1>1, <2>1, <2>4, <2>5, KeptOutside
<1>5. CASE Waitpid
  <2>1. pc \notin Registering /\ pc' \notin Registering \cup {"announce"}
    BY <1>5 DEF Waitpid, Goto, Registering
  <2>2. UNCHANGED <<table, count, announced, done>>
    BY <1>5 DEF Waitpid, jobs
  <2>3. \A p \in Launched : proc'[p] = proc[p]
    BY <1>5 DEF Waitpid, TypeInv, TypeOK, TableInv, Announcing, Launched
  <2> QED
    BY <1>1, <2>1, <2>2, <2>3, KeptOutside DEF TableKept
<1>6. ASSUME NEW p \in Pid, WaitReaps(p) PROVE Exact'
  <2>1. pc \notin Registering /\ pc' \notin Registering \cup {"announce"}
    BY <1>6 DEF WaitReaps, AfterWait, Registering
  <2>2. UNCHANGED <<table, count, announced, done>>
    BY <1>6 DEF WaitReaps
  <2>3. p \notin Launched
    BY <1>6 DEF WaitReaps
  <2>4. \A q \in Launched : proc'[q] = proc[q]
    BY <1>6, <2>3 DEF WaitReaps, TypeInv, TypeOK, Launched
  <2> QED
    BY <1>1, <2>1, <2>2, <2>4, KeptOutside DEF TableKept
<1> QED
  BY <1>2, <1>3, <1>4, <1>5, <1>6

(* The statements of a registration.                                        *)
LEMMA NextRegistering ==
  ASSUME TypeInv, JobsInv, TableInv, ~raced,
         \/ Announce \/ SetPid \/ SetNumber \/ SetCommand \/ LoadCount
         \/ StoreCount
  PROVE  Exact'
<1>1. Exact /\ Announcing
  BY DEF TableInv
<1>2. /\ table \in [Index -> Entry] /\ count \in 0..MaxForks
      /\ announced \in [Pid -> 0..MaxForks] /\ forks \in 0..MaxForks
      /\ tmp \in 0..MaxForks
  BY DEF TypeInv, TypeOK
<1>3. pc \in Registering => cur \in Launched /\ cur \in Pid /\ count \in Index
  BY CurLaunched
<1>4. CASE Announce
  <2>1. cur \in Pid /\ announced[cur] = 0 /\ proc[cur] # "reaped"
    <3>1. cur \in Pid
      BY <1>4, ForksAssumption DEF Announce, TypeInv, TypeOK, Counters, Pid, cur
    <3> QED
      BY <1>1, <1>4, <3>1 DEF Announce, Announcing, Exact
  <2>2. /\ \A p \in Pid : p # cur => announced'[p] = announced[p]
        /\ announced'[cur] = count + 1
    BY <1>2, <1>4, <2>1 DEF Announce
  <2>3. Launched' = Launched \cup {cur} /\ cur \notin Launched
    BY <1>2, <2>1, <2>2 DEF Launched
  <2>4. UNCHANGED <<table, count, done, proc, cur>> /\ pc' = "setPid"
    BY <1>4 DEF Announce, Goto, children, cur
  <2>5. \A i \in Index : i < count => /\ GoodEntry(table[i])'
                                      /\ table[i].pid # cur
    BY <1>1, <2>2, <2>3, <2>4 DEF Exact, GoodEntry, Launched
  <2>6. HalfWritten'
    BY <2>1, <2>2, <2>4, <2>5 DEF HalfWritten, Registering
  <2>7. \A p \in Launched' : proc[p] # "reaped" =>
          \/ p = cur
          \/ \E i \in Index : i < count /\ table[i].pid = p
    BY <1>1, <1>4, <2>3 DEF Exact, Announce, Registering
  <2>8. \A p \in Launched' : proc[p] = "reaped" => done[p] = 1
    BY <1>1, <2>1, <2>3 DEF Exact
  <2> HIDE DEF cur
  <2> QED
    BY <1>1, <2>4, <2>5, <2>6, <2>7, <2>8 DEF Exact, Registering
<1>5. ASSUME SetPid \/ SetNumber \/ SetCommand PROVE Exact'
  <2>1. /\ UNCHANGED <<count, announced, done, proc, cur>>
        /\ pc \in Registering /\ pc' \in Registering
    BY <1>5 DEF SetPid, SetNumber, SetCommand, SetField, Goto, children, cur,
       Registering
  <2>2. Launched' = Launched
    BY <2>1 DEF Launched
  <2>3. \A i \in Index : i < count => i # count /\ table'[i] = table[i]
    BY <1>2, <1>5, ForksAssumption
    DEF SetPid, SetNumber, SetCommand, SetField, Index
  <2>4. \A i \in Index : i < count' => GoodEntry(table[i])'
    <3>1. \A i \in Index : i < count => GoodEntry(table[i])
      BY <1>1 DEF Exact
    <3> QED
      BY <2>1, <2>2, <2>3, <3>1 DEF GoodEntry
  <2>5. count \in Index /\ table[count] \in Entry
    BY <1>2, <1>3, <2>1
  <2>6. HalfWritten'
    <3>1. HalfWritten
      BY <1>1 DEF Exact
    <3>2. \A i \in Index : i < count => table'[i].pid # cur
      BY <2>1, <2>3, <3>1 DEF HalfWritten
    <3>3. CASE SetPid
      <4>1. table'[count].pid = cur
        BY <1>2, <2>5, <3>3 DEF SetPid, SetField, Entry
      <4> QED
        BY <2>1, <3>1, <3>2, <3>3, <4>1
        DEF SetPid, SetField, Goto, HalfWritten
    <3>4. CASE SetNumber
      <4>1. table'[count].pid = cur /\ table'[count].number = count + 1
        BY <1>2, <2>5, <3>1, <3>4 DEF SetNumber, SetField, Entry, HalfWritten,
           Registering
      <4> QED
        BY <2>1, <3>1, <3>2, <3>4, <4>1
        DEF SetNumber, SetField, Goto, HalfWritten
    <3>5. CASE SetCommand
      <4>1. /\ table'[count].pid = cur /\ table'[count].number = count + 1
            /\ table'[count].command = cur
        BY <1>2, <2>5, <3>1, <3>5 DEF SetCommand, SetField, Entry,
           HalfWritten, Registering
      <4> QED
        BY <2>1, <3>1, <3>2, <3>5, <4>1
        DEF SetCommand, SetField, Goto, HalfWritten
    <3> QED
      BY <1>5, <3>3, <3>4, <3>5
  <2>7. \A p \in Launched' : proc[p] # "reaped" =>
          \/ p = cur
          \/ \E i \in Index : i < count /\ table'[i].pid = p
    BY <1>1, <2>2, <2>3 DEF Exact
  <2>8. \A p \in Launched' : proc[p] = "reaped" => done[p] = 1
    BY <1>1, <2>2 DEF Exact
  <2>9. \A i, j \in Index : i < count /\ j < count
                            /\ table'[i].pid = table'[j].pid => i = j
    BY <1>1, <2>3 DEF Exact
  <2>10. pc' # "announce"
    BY <2>1 DEF Registering
  <2> HIDE DEF cur
  <2> QED
    BY <2>1, <2>4, <2>6, <2>7, <2>8, <2>9, <2>10 DEF Exact
<1>6. CASE LoadCount
  <2>1. /\ UNCHANGED <<table, count, announced, done, proc, cur>>
        /\ pc = "loadCount" /\ pc' = "storeCount" /\ tmp' = count
    BY <1>6 DEF LoadCount, Goto, children, cur
  <2>2. Launched' = Launched
    BY <2>1 DEF Launched
  <2>3. \A i \in Index : i < count' => GoodEntry(table[i])'
    BY <1>1, <2>1, <2>2 DEF GoodEntry, Exact
  <2>4. HalfWritten'
    BY <1>1, <2>1 DEF Exact, HalfWritten, Registering
  <2> HIDE DEF cur
  <2> QED
    BY <1>1, <2>1, <2>2, <2>3, <2>4 DEF Exact, Registering
<1>7. CASE StoreCount
  <2>1. /\ UNCHANGED <<table, announced, done, proc>>
        /\ pc = "storeCount" /\ pc' \in {"fork", "prompt"}
        /\ count' = tmp + 1
    BY <1>7 DEF StoreCount, children
  <2>2. /\ count' = count + 1 /\ announced[cur] = count + 1
        /\ proc[cur] # "reaped" /\ table[count].pid = cur
        /\ table[count].number = count + 1 /\ table[count].command = cur
        /\ \A i \in Index : i < count => table[i].pid # cur
    BY <1>1, <2>1 DEF Exact, HalfWritten, Registering
  <2>3. Launched' = Launched
    BY <2>1 DEF Launched
  <2>4. \A i \in Index : i < count' <=> i < count \/ i = count
    BY <1>2, <2>2, ForksAssumption DEF Index
  <2>5. cur \in Launched /\ count \in Index
    BY <1>3, <2>1 DEF Registering
  <2>6. \A i \in Index : i = count => GoodEntry(table[i])'
    BY <2>1, <2>2, <2>3, <2>5 DEF GoodEntry
  <2>7. \A i \in Index : i < count => GoodEntry(table[i])'
    BY <1>1, <2>1, <2>3 DEF Exact, GoodEntry
  <2>8. \A p \in Launched' : proc[p] # "reaped" =>
          \E i \in Index : i < count' /\ table[i].pid = p
    BY <1>1, <2>2, <2>3, <2>4, <2>5 DEF Exact
  <2>9. \A i, j \in Index : i < count' /\ j < count'
                            /\ table[i].pid = table[j].pid => i = j
    BY <1>1, <2>2, <2>4 DEF Exact
  <2>10. HalfWritten'
    BY <2>1 DEF HalfWritten, Registering
  <2>11. \A p \in Launched' : proc[p] = "reaped" => done[p] = 1
    BY <1>1, <2>3 DEF Exact
  <2>12. \A i \in Index : i < count' => GoodEntry(table[i])'
    BY <2>1, <2>4, <2>6, <2>7
  <2> QED
    BY <2>1, <2>8, <2>9, <2>10, <2>11, <2>12 DEF Exact
<1> QED
  BY <1>4, <1>5, <1>6, <1>7

(* The handlers and the children.                                           *)
LEMMA NextInterrupt ==
  ASSUME TypeInv, JobsInv, TableInv, ~raced, ~raced',
         \/ HandlerEnter \/ HandlerReturn \/ UNCHANGED vars
         \/ \E p \in Pid : Exit(p) \/ ReapServer(p) \/ ReapJob(p)
  PROVE  Exact'
<1>1. Exact /\ Announcing
  BY DEF TableInv
<1>2. /\ table \in [Index -> Entry] /\ count \in 0..MaxForks
      /\ proc \in [Pid -> LifeStages] /\ done \in [Pid -> Nat]
  BY DEF TypeInv, TypeOK
<1>3. pc \in Registering => cur \in Launched
  BY CurLaunched
<1>4. CASE HandlerEnter \/ HandlerReturn \/ UNCHANGED vars
  <2>1. UNCHANGED <<pc, forks, table, count, tmp, announced, done, proc>>
    BY <1>4 DEF HandlerEnter, HandlerReturn, vars, main, children, jobs
  <2>2. pc = "announce" => proc'[cur] # "reaped"
    BY <1>1, <2>1 DEF Exact
  <2> QED
    BY <1>1, <1>3, <2>1, <2>2, KeptInside DEF TableKept
<1>5. ASSUME NEW p \in Pid, Exit(p) PROVE Exact'
  <2>1. UNCHANGED <<pc, forks, table, count, tmp, announced, done>>
    BY <1>5 DEF Exit, main, jobs
  <2>2. \A q \in Pid : proc'[q] = "reaped" <=> proc[q] = "reaped"
    BY <1>2, <1>5 DEF Exit, Running
  <2>3. TableKept
    BY <2>1, <2>2 DEF TableKept, Launched
  <2>4. pc = "announce" => proc'[cur] # "reaped"
    <3>1. pc = "announce" => cur \in Pid
      BY ForksAssumption DEF TypeInv, TypeOK, Counters, Pid, cur
    <3> QED
      BY <1>1, <2>2, <3>1 DEF Exact
  <2> QED
    BY <1>1, <1>3, <2>1, <2>3, <2>4, KeptInside
<1>6. ASSUME NEW p \in Pid, ReapServer(p) PROVE Exact'
  <2>1. /\ UNCHANGED <<pc, forks, table, count, tmp, announced, done>>
        /\ p \notin Launched /\ handler = "server"
    BY <1>6 DEF ReapServer, Reap, main
  <2>2. \A q \in Launched : proc'[q] = proc[q]
    BY <1>2, <1>6, <2>1 DEF ReapServer, Reap, Launched
  <2>3. pc # "announce"
    BY <1>1, <2>1 DEF Announcing
  <2> QED
    BY <1>1, <1>3, <2>1, <2>2, <2>3, KeptInside DEF TableKept
<1>7. ASSUME NEW p \in Pid, ReapJob(p) PROVE Exact'
  <2>1. /\ UNCHANGED <<pc, forks, tmp, announced, cur>>
        /\ proc[p] = "zombie" /\ proc'[p] = "reaped"
        /\ \A q \in Pid : q # p => proc'[q] = proc[q]
        /\ ~RacesWithMain(p)
    BY <1>2, <1>7 DEF ReapJob, Reap, main, cur, Zombies
  <2>2. Launched' = Launched
    BY <2>1 DEF Launched
  <2>3. pc = "announce" => cur \in Pid /\ p # cur
    BY <2>1, ForksAssumption DEF RacesWithMain, TypeInv, TypeOK, Counters, Pid,
       cur
  <2>4. \A i : i \in Matches(p) <=> i \in Index /\ i < count /\ table[i].pid = p
    BY <1>2, ForksAssumption DEF Matches, Used, Index
  <2>5. CASE p \notin Launched
    <3>1. Matches(p) = {}
      BY <1>1, <2>4, <2>5 DEF Exact, GoodEntry
    <3>2. UNCHANGED <<table, count, done>>
      BY <1>7, <3>1 DEF ReapJob
    <3>3. TableKept
      BY <2>1, <2>5, <3>2 DEF TableKept, Launched
    <3>4. pc = "announce" => proc'[cur] # "reaped"
      BY <1>1, <2>1, <2>3 DEF Exact
    <3> QED
      BY <1>1, <1>3, <2>1, <3>2, <3>3, <3>4, KeptInside
  <2>6. CASE p \in Launched
    <3>1. pc \notin Registering
      BY <2>1, <2>6 DEF RacesWithMain
    <3>2. PICK m \in Index : m < count /\ table[m].pid = p
      BY <1>1, <2>1, <2>6, <3>1 DEF Exact
    <3>3. \A i \in Matches(p) : i = m
      BY <1>1, <2>4, <3>2 DEF Exact
    <3>4. /\ table' = Removed(m) /\ count' = count - 1
          /\ done' = [done EXCEPT ![p] = @ + 1]
      BY <1>7, <2>4, <3>2, <3>3 DEF ReapJob
    <3>5. \A i \in Index : i < count' =>
            \E j \in Index : /\ j < count /\ j # m /\ table'[i] = table[j]
                             /\ j = IF m <= i THEN i + 1 ELSE i
      <4> SUFFICES ASSUME NEW i \in Index, i < count - 1
                   PROVE  \E j \in Index :
                            /\ j < count /\ j # m /\ table'[i] = table[j]
                            /\ j = IF m <= i THEN i + 1 ELSE i
        BY <3>4
      <4>1. /\ i + 1 \in Index /\ i + 1 < count /\ i < count /\ i # i + 1
            /\ m <= i => i + 1 # m
        BY <1>2, ForksAssumption DEF Index
      <4>2. CASE m <= i
        BY <3>4, <4>1, <4>2 DEF Removed
      <4>3. CASE ~(m <= i)
        <5>1. table'[i] = table[i] /\ i # m
          BY <3>2, <3>4, <4>3, ForksAssumption DEF Removed, Index
        <5> QED
          BY <4>1, <4>3, <5>1
      <4> QED
        BY <4>2, <4>3
    <3>6. \A j \in Index : j < count /\ j # m =>
            \E i \in Index : i < count' /\ table'[i] = table[j]
      <4> SUFFICES ASSUME NEW j \in Index, j < count, j # m
                   PROVE  \E i \in Index : i < count - 1 /\ table'[i] = table[j]
        BY <3>4
      <4>1. CASE j < m
        <5>1. j < count - 1 /\ table'[j] = table[j]
          BY <1>2, <3>2, <3>4, <4>1, ForksAssumption DEF Removed, Index
        <5> QED
          BY <5>1
      <4>2. CASE m < j
        <5>1. j - 1 \in Index /\ m <= j - 1 /\ j - 1 < count - 1 /\ (j - 1) + 1 = j
          BY <1>2, <3>2, <4>2, ForksAssumption DEF Index
        <5>2. table'[j - 1] = table[j]
          BY <3>4, <5>1 DEF Removed
        <5> QED
          BY <5>1, <5>2
      <4> QED
        BY <4>1, <4>2, ForksAssumption DEF Index
    <3>7. \A i \in Index : i < count' => GoodEntry(table[i])'
      <4>1. \A j \in Index : j < count /\ j # m =>
              /\ table[j].pid \in Launched /\ proc'[table[j].pid] # "reaped"
              /\ table[j].command = table[j].pid
              /\ table[j].number = announced'[table[j].pid]
        BY <1>1, <2>1, <3>2 DEF Exact, GoodEntry, Launched
      <4> QED
        BY <2>2, <3>5, <4>1 DEF GoodEntry
    <3>8. \A i, j \in Index : i < count' /\ j < count'
                              /\ table'[i].pid = table'[j].pid => i = j
      <4> SUFFICES ASSUME NEW i \in Index, NEW j \in Index, i < count',
                          j < count', table'[i].pid = table'[j].pid
                   PROVE  i = j
        OBVIOUS
      <4>1. PICK k \in Index : /\ k < count /\ table'[i] = table[k]
                               /\ k = IF m <= i THEN i + 1 ELSE i
        BY <3>5
      <4>2. PICK l \in Index : /\ l < count /\ table'[j] = table[l]
                               /\ l = IF m <= j THEN j + 1 ELSE j
        BY <3>5
      <4>3. k = l
        BY <1>1, <4>1, <4>2 DEF Exact
      <4> QED
        BY <3>2, <4>1, <4>2, <4>3, ForksAssumption DEF Index
    <3>9. \A q \in Launched' : proc'[q] # "reaped" =>
            \E i \in Index : i < count' /\ table'[i].pid = q
      <4> SUFFICES ASSUME NEW q \in Launched, proc'[q] # "reaped"
                   PROVE  \E i \in Index : i < count' /\ table'[i].pid = q
        BY <2>2
      <4>1. q # p /\ proc[q] # "reaped"
        BY <2>1 DEF Launched
      <4>2. PICK j \in Index : j < count /\ table[j].pid = q
        BY <1>1, <3>1, <4>1 DEF Exact
      <4> QED
        BY <3>2, <3>6, <4>1, <4>2
    <3>10. \A q \in Launched' : proc'[q] = "reaped" => done'[q] = 1
      <4>1. done[p] = 0
        BY <2>1 DEF JobsInv
      <4>2. \A q \in Pid : done'[q] = IF q = p THEN 1 ELSE done[q]
        BY <1>2, <3>4, <4>1
      <4> QED
        BY <1>1, <2>1, <2>2, <4>2 DEF Exact, Launched
    <3>11. pc' = "announce" => proc'[cur'] # "reaped"
      BY <1>1, <2>1, <2>3 DEF Exact
    <3>12. HalfWritten'
      BY <2>1, <3>1 DEF HalfWritten, Registering
    <3> HIDE DEF cur
    <3> QED
      BY <3>7, <3>8, <3>9, <3>10, <3>11, <3>12 DEF Exact
  <2> QED
    BY <2>5, <2>6
<1> QED
  BY <1>4, <1>5, <1>6, <1>7

(* A race is not forgotten.                                                 *)
LEMMA RacedStays == [Next]_vars /\ raced => raced'
<1> SUFFICES ASSUME [Next]_vars, raced PROVE raced'
  OBVIOUS
<1>1. ReadLine => raced'
  BY DEF ReadLine, Builtin, External, Background, StartServer, CloseServer,
     ExitShell, Pipeline, PipeFails, jobs
<1>2. MainStep => raced'
  BY DEF MainStep, RefuseServer, AcceptServer, Fork, ForkFails, Announce,
     SetPid, SetNumber, SetCommand, SetField, LoadCount, StoreCount,
     ClosePipes, WaitNoChild, Waitpid, SetRunning, SetServerPid, WaitReaps,
     jobs
<1>3. Handle => raced'
  BY DEF Handle, HandlerEnter, HandlerReturn, ReapJob, ReapServer, jobs
<1>4. ASSUME NEW p \in Pid, Exit(p) PROVE raced'
  BY <1>4 DEF Exit, jobs
<1>5. UNCHANGED vars => raced'
  BY DEF vars, jobs
<1> QED
  BY <1>1, <1>2, <1>3, <1>4, <1>5 DEF Next

(* TableInv is kept by every step of the shell, a handler and a child.      *)
LEMMA NextTable == TypeInv /\ JobsInv /\ TableInv /\ [Next]_vars => TableInv'
<1> SUFFICES ASSUME TypeInv, JobsInv, TableInv, [Next]_vars PROVE TableInv'
  OBVIOUS
<1>1. Announcing'
  BY NextAnnouncing DEF TableInv
<1>2. ASSUME ~raced' PROVE Exact'
  <2>1. ~raced
    BY <1>2, RacedStays
  <2> QED
    BY <1>2, <2>1, NextOutside, NextRegistering, NextInterrupt
    DEF Next, MainStep, Handle
<1> QED
  BY <1>1, <1>2 DEF TableInv

-----------------------------------------------------------------------------
(* The table is exact.                                                      *)

(* As many pids are listed as the counter says: no two entries in use hold  *)
(* the same one.                                                            *)
LEMMA CountListed ==
  ASSUME count \in 0..MaxForks,
         \A i, j \in Index :
           i < count /\ j < count /\ table[i].pid = table[j].pid => i = j
  PROVE  Cardinality(Listed) = count
<1> DEFINE U == 0..(count - 1)
           f == [i \in U |-> table[i].pid]
<1>1. Used \cap Index = U /\ \A i \in U : i \in Index /\ i < count
  BY ForksAssumption DEF Used, Index
<1>2. Listed = {table[i].pid : i \in U}
  BY <1>1 DEF Listed
<1>3. f \in Bijection(U, Listed)
  <2>1. f \in [U -> Listed]
    BY <1>2
  <2>2. \A i, j \in U : f[i] = f[j] => i = j
    BY <1>1
  <2>3. \A p \in Listed : \E i \in U : f[i] = p
    BY <1>2
  <2> HIDE DEF U, f
  <2> QED
    BY <2>1, <2>2, <2>3 DEF Bijection, Injection, Surjection, IsInjective
<1>4. IsFiniteSet(U) /\ Cardinality(U) = count
  <2>1. 0 \in Int /\ count - 1 \in Int /\ count \in Int
    BY ForksAssumption
  <2>2. IsFiniteSet(U) /\ Cardinality(U) = IF 0 > count - 1 THEN 0
                                           ELSE count - 1 - 0 + 1
    BY <2>1, FS_Interval
  <2> QED
    BY <2>1, <2>2, ForksAssumption
<1> HIDE DEF U, f
<1> QED
  BY <1>3, <1>4, FS_Bijection DEF ExistsBijection

(* Unless a race between the handlers and the shell happened, the table is  *)
(* exact whenever the shell is not writing to it: bg_process_count entries, *)
(* one for every launched job that has not been reaped and no other, each   *)
(* under the number that was announced for it, and every other job has had  *)
(* its "Done" line.                                                         *)
THEOREM TableIsExact == Spec => []TableExactUnlessRaced
<1>1. Init => JobsInv /\ TableInv
  <2>1. Init => JobsInv
    BY DEF Init, JobsInv, Written, Registering, Index
  <2>2. Init => Announcing
    BY DEF Init, Announcing, Line
  <2>3. ASSUME Init PROVE Exact
    <3>1. Launched = {} /\ pc = "prompt" /\ \A i \in Index : ~(i < count)
      BY <2>3, ForksAssumption DEF Init, Launched, Index
    <3> QED
      BY <3>1 DEF Exact, HalfWritten, Registering
  <2> QED
    BY <2>1, <2>2, <2>3 DEF TableInv
<1>2. TypeInv /\ TableInv => TableExactUnlessRaced
  <2> SUFFICES ASSUME TypeInv, TableInv, ~raced, pc \notin Registering
               PROVE  /\ Listed = {p \in Launched : proc[p] # "reaped"}
                      /\ Cardinality(Listed) = count
                      /\ \A i \in Used \cap Index :
                           /\ table[i].command = table[i].pid
                           /\ table[i].number = announced[table[i].pid]
                      /\ \A p \in Launched : proc[p] = "reaped" => done[p] = 1
    BY DEF TableExactUnlessRaced
  <2>1. Exact /\ count \in 0..MaxForks
    BY DEF TableInv, TypeInv, TypeOK
  <2>2. \A i \in Index : i \in Used <=> i < count
    BY <2>1, ForksAssumption DEF Used, Index
  <2>3. \A i \in Used \cap Index : GoodEntry(table[i])
    BY <2>1, <2>2 DEF Exact
  <2>4. \A p \in Launched : proc[p] # "reaped" => p \in Listed
    BY <2>1, <2>2 DEF Exact, Listed
  <2>5. \A p \in Listed : p \in Launched /\ proc[p] # "reaped"
    BY <2>3 DEF GoodEntry, Listed
  <2>6. Cardinality(Listed) = count
    BY <2>1, CountListed DEF Exact
  <2> QED
    BY <2>1, <2>3, <2>4, <2>5, <2>6 DEF Exact, GoodEntry
<1> QED
  BY InitType, NextType, NextJobs, NextTable, <1>1, <1>2, PTL DEF Spec
=============================================================================
