-------------------------- MODULE JobControlProofs --------------------------
(* Theorems about JobControl, for every number of forks and of pipeline     *)
(* stages, every set of lines and every set of failures.                    *)
EXTENDS JobControl, TLAPS, FiniteSetTheorems

-----------------------------------------------------------------------------
(* Type correctness.                                                        *)

(* Where bg_process_count stands while a job is being registered: below the *)
(* number of forks, so that the entry being written exists, and not above   *)
(* the value that bg_process_count++ has loaded.                            *)
Counters ==
    /\ count <= forks
    /\ pc \in Registering \cup {"announce"} => count <= forks - 1
    /\ pc = "storeCount" => count <= tmp /\ tmp <= forks - 1
    /\ pc \in {"waitpid", "setRunning", "setServerPid"} => forks >= 1
    /\ pc = "wait" => line.waits >= 1
    /\ IsPipeline => line.stages >= 2

TypeInv == TypeOK /\ Counters

(* What a line read from the user looks like.                               *)
LEMMA LineTyped ==
  ASSUME forks \in 0..MaxForks,
         NEW k \in AllLines, NEW n \in 1..MaxStages
  PROVE  Line(k, n) \in LineType
  BY ForksAssumption, StagesAssumption DEF Line, LineType

(* The lines of one command are lines, and one is a number of commands.     *)
LEMMA OneCommandLines ==
  /\ 1 \in 1..MaxStages
  /\ {"builtin", "background", "startServer", "closeServer", "external"}
       \subseteq AllLines
  BY StagesAssumption DEF AllLines

(* The initial state has the types, and the counters stand at zero.         *)
LEMMA InitType == Init => TypeInv
<1> SUFFICES ASSUME Init PROVE TypeInv
  OBVIOUS
<1> USE ForksAssumption, StagesAssumption DEF Init
<1>1. line \in LineType /\ line.kind = "builtin"
  <2>1. "builtin" \in AllLines /\ 1 \in 1..MaxStages /\ forks \in 0..MaxForks
    BY DEF AllLines
  <2> QED
    BY <2>1, LineTyped DEF Line
<1>2. table \in [Index -> Entry]
  BY DEF Index, NoEntry, Entry
<1>3. /\ proc \in [Pid -> LifeStages]
      /\ kind \in [Pid -> AllLines \cup {"none", "stage"}]
      /\ group \in [Pid -> 0..(MaxForks + 1)]
      /\ announced \in [Pid -> 0..MaxForks]
      /\ done \in [Pid -> Nat]
  BY DEF LifeStages
<1>4. count \in 0..MaxForks /\ tmp \in 0..MaxForks /\ forks \in 0..MaxForks
  OBVIOUS
<1>5. /\ held \subseteq 0..(MaxForks + 1) /\ signalled \subseteq Pid \cup {-1}
      /\ pc \in ControlPoints
  BY DEF ControlPoints
<1>6. TypeOK
  BY <1>1, <1>2, <1>3, <1>4, <1>5 DEF TypeOK
<1>7. Counters
  <2>1. /\ ~IsPipeline
        /\ pc \notin Registering \cup {"announce", "storeCount", "waitpid",
                                     "setRunning", "setServerPid", "wait"}
    BY <1>1 DEF IsPipeline, Registering
  <2>2. count <= forks
    OBVIOUS
  <2> QED
    BY <2>1, <2>2 DEF Counters
<1> QED
  BY <1>6, <1>7 DEF TypeInv

(* Every step of the shell, of a handler and of a child preserves them.     *)
LEMMA NextType == TypeInv /\ [Next]_vars => TypeInv'
<1> SUFFICES ASSUME TypeInv, [Next]_vars PROVE TypeInv'
  OBVIOUS
<1> USE ForksAssumption, StagesAssumption
    DEF TypeInv, TypeOK, Counters, ControlPoints, Registering
<1>1. CASE Builtin
  <2>1. line' = Line("builtin", 1)
    BY <1>1 DEF Builtin
  <2>2. line' \in LineType
    BY <2>1, LineTyped, OneCommandLines
  <2>3. TypeOK'
    BY <1>1, <2>2 DEF Builtin, Read, children, jobs, server
  <2>4. Counters'
    BY <1>1, <2>1 DEF Builtin, Line, IsPipeline, children, jobs
  <2> QED
    BY <2>1, <2>2, <2>3, <2>4
<1>2. CASE Background
  <2>1. line' = Line("background", 1)
    BY <1>2 DEF Background
  <2>2. line' \in LineType
    BY <2>1, LineTyped, OneCommandLines
  <2>3. TypeOK'
    BY <1>2, <2>2 DEF Background, Read, children, jobs, server
  <2>4. Counters'
    BY <1>2, <2>1 DEF Background, Line, IsPipeline, children, jobs
  <2> QED
    BY <2>1, <2>2, <2>3, <2>4
<1>3. CASE StartServer
  <2>1. line' = Line("startServer", 1)
    BY <1>3 DEF StartServer
  <2>2. line' \in LineType
    BY <2>1, LineTyped, OneCommandLines
  <2>3. TypeOK'
    BY <1>3, <2>2 DEF StartServer, Read, children, jobs, server
  <2>4. Counters'
    BY <1>3, <2>1 DEF StartServer, Line, IsPipeline, children, jobs
  <2> QED
    BY <2>1, <2>2, <2>3, <2>4
<1>4. CASE CloseServer
  <2>1. line' = Line("closeServer", 1)
    BY <1>4 DEF CloseServer
  <2>2. line' \in LineType
    BY <2>1, LineTyped, OneCommandLines
  <2>3. TypeOK'
    BY <1>4, <2>2 DEF CloseServer, Read, children, jobs, server, SignalServer,
       Exists
  <2>4. Counters'
    BY <1>4, <2>1 DEF CloseServer, Line, IsPipeline, children, jobs
  <2> QED
    BY <2>1, <2>2, <2>3, <2>4
<1>5. CASE ExitShell
  <2>1. TypeOK'
    BY <1>5 DEF ExitShell, Goto, SignalServer, Exists, signals, children,
       jobs, server
  <2>2. Counters'
    BY <1>5 DEF ExitShell, Goto, children, jobs, IsPipeline
  <2> QED
    BY <2>1, <2>2
<1>6. CASE External
  <2>1. line' = Line("external", 1)
    BY <1>6 DEF External
  <2>2. line' \in LineType
    BY <2>1, LineTyped, OneCommandLines
  <2>3. TypeOK'
    BY <1>6, <2>2 DEF External, Read, children, jobs, server
  <2>4. Counters'
    BY <1>6, <2>1 DEF External, Line, IsPipeline, children, jobs
  <2> QED
    BY <2>1, <2>2, <2>3, <2>4
<1>7. ASSUME NEW k \in {"pipeline", "bgPipeline"}, NEW n \in 2..MaxStages,
             Pipeline(k, n)
      PROVE  TypeInv'
  <2>1. line' = Line(k, n)
    BY <1>7 DEF Pipeline
  <2>2. line' \in LineType
    <3>1. k \in AllLines /\ n \in 1..MaxStages
      BY DEF AllLines
    <3> QED
      BY <2>1, <3>1, LineTyped
  <2>3. TypeOK'
    <3>1. held' \subseteq 0..(MaxForks + 1)
      BY <1>7 DEF Pipeline
    <3> QED
      BY <1>7, <2>2, <3>1 DEF Pipeline, Read, children, jobs, server
  <2>4. Counters'
    BY <1>7, <2>1 DEF Pipeline, Line, IsPipeline, children, jobs
  <2> QED
    BY <2>1, <2>2, <2>3, <2>4
<1>8. ASSUME NEW k \in {"pipeline", "bgPipeline"}, NEW n \in 2..MaxStages,
             NEW made \in 0..(n - 1), PipeFails(k, n, made)
      PROVE  TypeInv'
  <2>1. line' = Line(k, n)
    BY <1>8 DEF PipeFails
  <2>2. line' \in LineType
    <3>1. k \in AllLines /\ n \in 1..MaxStages
      BY DEF AllLines
    <3> QED
      BY <2>1, <3>1, LineTyped
  <2>3. TypeOK'
    <3>1. held' \subseteq 0..(MaxForks + 1)
      BY <1>8 DEF PipeFails
    <3> QED
      BY <1>8, <2>2, <3>1 DEF PipeFails, Read, children, jobs, server
  <2>4. Counters'
    BY <1>8, <2>1 DEF PipeFails, Line, IsPipeline, children, jobs, Read
  <2> QED
    BY <2>1, <2>2, <2>3, <2>4
<1>9. CASE RefuseServer
  <2>1. TypeOK'
    BY <1>9 DEF RefuseServer, Goto, signals, children, jobs, server
  <2>2. Counters'
    BY <1>9 DEF RefuseServer, Goto, children, jobs, IsPipeline
  <2> QED
    BY <2>1, <2>2
<1>10. CASE AcceptServer
  <2>1. TypeOK'
    BY <1>10 DEF AcceptServer, Goto, signals, children, jobs, server
  <2>2. Counters'
    BY <1>10 DEF AcceptServer, Goto, children, jobs, IsPipeline
  <2> QED
    BY <2>1, <2>2
<1>11. CASE Fork
  <2>1. line' \in LineType
    BY <1>11 DEF Fork, LineType, MoreStages
  <2>2. proc' \in [Pid -> LifeStages]
    BY <1>11 DEF Fork, LifeStages
  <2>3. kind' \in [Pid -> AllLines \cup {"none", "stage"}]
    BY <1>11 DEF Fork, ChildKind, LineType
  <2>4. group' \in [Pid -> 0..(MaxForks + 1)]
    <3>1. line.group \in 0..(MaxForks + 1) /\ 0 \in 0..(MaxForks + 1)
      BY DEF LineType
    <3> QED
      BY <1>11, <3>1 DEF Fork
  <2>5. TypeOK'
    BY <1>11, <2>1, <2>2, <2>3, <2>4 DEF Fork, AfterFork, signals, jobs,
       server
  <2>6. Counters'
    BY <1>11 DEF Fork, AfterFork, MoreStages, IsPipeline, LineType, jobs
  <2> QED
    BY <2>1, <2>2, <2>3, <2>4, <2>5, <2>6
<1>12. CASE ForkFails
  <2>1. TypeOK'
    <3>1. held' \subseteq 0..(MaxForks + 1)
      <4>1. held' \subseteq held \cup {0}
        BY <1>12, Zenon DEF ForkFails
      <4>2. held \cup {0} \subseteq 0..(MaxForks + 1)
        OBVIOUS
      <4> QED
        BY <4>1, <4>2
    <3> QED
      BY <1>12, <3>1 DEF ForkFails, Goto, signals, children, jobs, server
  <2>2. Counters'
    BY <1>12 DEF ForkFails, Goto, children, jobs, IsPipeline
  <2> QED
    BY <2>1, <2>2
<1>13. CASE Announce
  <2>1. announced' \in [Pid -> 0..MaxForks]
    <3>1. count + 1 \in 0..MaxForks
      BY <1>13 DEF Announce
    <3> QED
      BY <1>13, <3>1 DEF Announce
  <2>2. TypeOK'
    BY <1>13, <2>1 DEF Announce, Goto, signals, children, server
  <2>3. Counters'
    BY <1>13 DEF Announce, Goto, children, IsPipeline
  <2> QED
    BY <2>1, <2>2, <2>3
<1>14. CASE SetPid
  <2>1. table' \in [Index -> Entry]
    BY <1>14, ZenonT(60) DEF SetPid, SetField, Entry, Index, cur
  <2>2. TypeOK'
    BY <1>14, <2>1 DEF SetPid, SetField, Goto, signals, children, server
  <2>3. Counters'
    BY <1>14 DEF SetPid, SetField, Goto, children, IsPipeline
  <2> QED
    BY <2>1, <2>2, <2>3
<1>15. CASE SetNumber
  <2>1. table' \in [Index -> Entry]
    <3>1. count + 1 \in 0..MaxForks /\ count \in Index
      BY <1>15 DEF SetNumber, SetField, Index
    <3>2. [table[count] EXCEPT !.number = count + 1] \in Entry
      BY <3>1 DEF Entry
    <3> QED
      BY <1>15, <3>2 DEF SetNumber, SetField
  <2>2. TypeOK'
    BY <1>15, <2>1 DEF SetNumber, SetField, Goto, signals, children, server
  <2>3. Counters'
    BY <1>15 DEF SetNumber, SetField, Goto, children, IsPipeline
  <2> QED
    BY <2>1, <2>2, <2>3
<1>16. CASE SetCommand
  <2>1. table' \in [Index -> Entry]
    BY <1>16, ZenonT(60) DEF SetCommand, SetField, Entry, Index, cur
  <2>2. TypeOK'
    BY <1>16, <2>1 DEF SetCommand, SetField, Goto, signals, children, server
  <2>3. Counters'
    BY <1>16 DEF SetCommand, SetField, Goto, children, IsPipeline
  <2> QED
    BY <2>1, <2>2, <2>3
<1>17. CASE LoadCount
  <2>1. TypeOK'
    BY <1>17 DEF LoadCount, Goto, signals, children, server
  <2>2. Counters'
    BY <1>17 DEF LoadCount, Goto, children, IsPipeline
  <2> QED
    BY <2>1, <2>2
<1>18. CASE StoreCount
  <2>1. line' \in LineType
    BY <1>18 DEF StoreCount, LineType, MoreStages
  <2>2. TypeOK'
    BY <1>18, <2>1 DEF StoreCount, signals, children, server
  <2>3. Counters'
    BY <1>18 DEF StoreCount, MoreStages, children, IsPipeline, LineType
  <2> QED
    BY <2>1, <2>2, <2>3
<1>19. CASE ClosePipes
  <2>1. line' \in LineType
    BY <1>19 DEF ClosePipes, LineType
  <2>2. TypeOK'
    BY <1>19, <2>1 DEF ClosePipes, signals, children, jobs, server
  <2>3. Counters'
    BY <1>19 DEF ClosePipes, children, jobs, IsPipeline, LineType
  <2> QED
    BY <2>1, <2>2, <2>3
<1>20. CASE WaitNoChild
  <2>1. line' \in LineType
    BY <1>20 DEF WaitNoChild, LineType, AfterWait
  <2>2. TypeOK'
    BY <1>20, <2>1 DEF WaitNoChild, AfterWait, signals, children, jobs, server
  <2>3. Counters'
    BY <1>20 DEF WaitNoChild, AfterWait, children, jobs, IsPipeline, LineType
  <2> QED
    BY <2>1, <2>2, <2>3
<1>21. CASE SetRunning
  <2>1. TypeOK'
    BY <1>21 DEF SetRunning, Goto, signals, children, jobs
  <2>2. Counters'
    BY <1>21 DEF SetRunning, Goto, children, jobs, IsPipeline
  <2> QED
    BY <2>1, <2>2
<1>22. CASE SetServerPid
  <2>1. TypeOK'
    BY <1>22 DEF SetServerPid, Goto, signals, children, jobs, cur, Pid
  <2>2. Counters'
    BY <1>22 DEF SetServerPid, Goto, children, jobs, IsPipeline
  <2> QED
    BY <2>1, <2>2
<1>23. ASSUME NEW p \in Pid, WaitReaps(p) PROVE TypeInv'
  <2>1. line' \in LineType
    BY <1>23 DEF WaitReaps, AfterWait, LineType
  <2>2. proc' \in [Pid -> LifeStages]
    BY <1>23 DEF WaitReaps, LifeStages
  <2>3. TypeOK'
    BY <1>23, <2>1, <2>2 DEF WaitReaps, AfterWait, signals, server
  <2>4. Counters'
    BY <1>23 DEF WaitReaps, AfterWait, IsPipeline, LineType
  <2> QED
    BY <2>1, <2>2, <2>3, <2>4
<1>24. CASE Waitpid
  <2>1. proc' \in [Pid -> LifeStages]
    BY <1>24 DEF Waitpid, LifeStages
  <2>2. TypeOK'
    BY <1>24, <2>1 DEF Waitpid, Goto, signals, jobs, server
  <2>3. Counters'
    BY <1>24 DEF Waitpid, Goto, jobs, IsPipeline
  <2> QED
    BY <2>1, <2>2, <2>3
<1>25. CASE HandlerEnter
  <2>1. TypeOK'
    BY <1>25 DEF HandlerEnter, main, children, jobs, server
  <2>2. Counters'
    BY <1>25 DEF HandlerEnter, main, children, jobs, IsPipeline
  <2> QED
    BY <2>1, <2>2
<1>26. CASE HandlerReturn
  <2>1. TypeOK'
    BY <1>26 DEF HandlerReturn, main, children, jobs, server
  <2>2. Counters'
    BY <1>26 DEF HandlerReturn, main, children, jobs, IsPipeline
  <2> QED
    BY <2>1, <2>2
<1>27. ASSUME NEW p \in Pid, ReapJob(p) PROVE TypeInv'
  <2>1. proc' \in [Pid -> LifeStages]
    BY <1>27 DEF ReapJob, Reap, LifeStages
  <2>2. table' \in [Index -> Entry]
    BY <1>27 DEF ReapJob, Removed, Index
  <2>3. count' \in 0..MaxForks /\ count' <= count
    <3>1. \A i \in Matches(p) : i \in 0..(count - 1)
      BY DEF Matches, Used
    <3>2. Matches(p) # {} => count - 1 \in 0..MaxForks
      BY <3>1
    <3>3. \/ count' = count
          \/ Matches(p) # {} /\ count' = count - 1
      BY <1>27 DEF ReapJob
    <3> QED
      BY <3>2, <3>3
  <2>4. done' \in [Pid -> Nat]
    BY <1>27 DEF ReapJob
  <2>5. TypeOK'
    BY <1>27, <2>1, <2>2, <2>3, <2>4 DEF ReapJob, Reap, main, signals, server
  <2>6. Counters'
    BY <1>27, <2>3 DEF ReapJob, Reap, main, IsPipeline
  <2> QED
    BY <2>1, <2>2, <2>3, <2>4, <2>5, <2>6
<1>28. ASSUME NEW p \in Pid, ReapServer(p) PROVE TypeInv'
  <2>1. proc' \in [Pid -> LifeStages]
    BY <1>28 DEF ReapServer, Reap, LifeStages
  <2>2. TypeOK'
    BY <1>28, <2>1 DEF ReapServer, Reap, main, signals
  <2>3. Counters'
    BY <1>28 DEF ReapServer, Reap, main, IsPipeline
  <2> QED
    BY <2>1, <2>2, <2>3
<1>29. ASSUME NEW p \in Pid, Exit(p) PROVE TypeInv'
  <2>1. proc' \in [Pid -> LifeStages]
    BY <1>29 DEF Exit, LifeStages
  <2>2. TypeOK'
    BY <1>29, <2>1 DEF Exit, main, jobs, server
  <2>3. Counters'
    BY <1>29 DEF Exit, main, jobs, IsPipeline
  <2> QED
    BY <2>1, <2>2, <2>3
<1>30. CASE UNCHANGED vars
  <2>1. TypeOK'
    BY <1>30 DEF vars, main, signals, children, jobs, server
  <2>2. Counters'
    BY <1>30 DEF vars, main, children, jobs, IsPipeline
  <2> QED
    BY <2>1, <2>2
<1> HIDE DEF TypeInv
<1> QED
  BY <1>1, <1>2, <1>3, <1>4, <1>5, <1>6, <1>7, <1>8, <1>9, <1>10, <1>11,
     <1>12, <1>13, <1>14, <1>15, <1>16, <1>17, <1>18, <1>19, <1>20, <1>21,
     <1>22, <1>23, <1>24, <1>25, <1>26, <1>27, <1>28, <1>29, <1>30
  DEF Next, ReadLine, MainStep, Handle

(* Every variable keeps its type: bg_process_count never leaves the entries *)
(* that the forks so far can have filled, whatever the handler does in the  *)
(* middle of a registration.                                                *)
THEOREM TypeCorrect == Spec => []TypeOK
<1>1. TypeInv => TypeOK
  BY DEF TypeInv
<1> QED
  BY InitType, NextType, <1>1, PTL DEF Spec

-----------------------------------------------------------------------------
(* Zombies do not stay.                                                     *)

(* Without a handler there is no child yet, and no line being executed.     *)
ReaperInv ==
    /\ ZombieHasReaper
    /\ handler = "none" => /\ pc \in {"prompt", "exited"}
                           /\ Running = {} /\ Zombies = {}

(* ReaperInv is kept by every step of the shell, a handler and a child.     *)
LEMMA NextReaper == TypeInv /\ ReaperInv /\ [Next]_vars => ReaperInv'
<1> SUFFICES ASSUME TypeInv, ReaperInv, [Next]_vars PROVE ReaperInv'
  OBVIOUS
<1> USE DEF ReaperInv, ZombieHasReaper
<1>1. CASE Builtin
  BY <1>1 DEF Builtin, Read, children, Running, Zombies
<1>2. CASE Background
  BY <1>2 DEF Background, Read, children, Running, Zombies
<1>3. CASE StartServer
  BY <1>3 DEF StartServer, Read, children, Running, Zombies
<1>4. CASE CloseServer
  BY <1>4 DEF CloseServer, Read, children, Running, Zombies
<1>5. CASE External
  BY <1>5 DEF External, Read, children, Running, Zombies
<1>6. ASSUME NEW k \in {"pipeline", "bgPipeline"}, NEW n \in 2..MaxStages,
             Pipeline(k, n)
      PROVE  ReaperInv'
  BY <1>6 DEF Pipeline, Read, children, Running, Zombies
<1>7. ASSUME NEW k \in {"pipeline", "bgPipeline"}, NEW n \in 2..MaxStages,
             NEW made \in 0..(n - 1), PipeFails(k, n, made)
      PROVE  ReaperInv'
  BY <1>7 DEF PipeFails, Read, children, Running, Zombies
<1>8. CASE ExitShell
  BY <1>8 DEF ExitShell, Goto, signals, children, Running, Zombies
<1>9. CASE RefuseServer
  BY <1>9 DEF RefuseServer, Goto, signals, children, Running, Zombies
<1>10. CASE AcceptServer
  BY <1>10 DEF AcceptServer, Goto, signals, children, Running, Zombies
<1>11. CASE ForkFails
  BY <1>11 DEF ForkFails, Goto, signals, children, Running, Zombies
<1>12. CASE Announce
  BY <1>12 DEF Announce, Goto, signals, children, Running, Zombies
<1>13. CASE SetPid
  BY <1>13 DEF SetPid, SetField, Goto, signals, children, Running, Zombies
<1>14. CASE SetNumber
  BY <1>14 DEF SetNumber, SetField, Goto, signals, children, Running, Zombies
<1>15. CASE SetCommand
  BY <1>15 DEF SetCommand, SetField, Goto, signals, children, Running, Zombies
<1>16. CASE LoadCount
  BY <1>16 DEF LoadCount, Goto, signals, children, Running, Zombies
<1>17. CASE StoreCount
  BY <1>17 DEF StoreCount, signals, children, Running, Zombies
<1>18. CASE ClosePipes
  BY <1>18 DEF ClosePipes, signals, children, Running, Zombies
<1>19. CASE WaitNoChild
  BY <1>19 DEF WaitNoChild, AfterWait, signals, children, Running, Zombies
<1>20. CASE SetRunning
  BY <1>20 DEF SetRunning, Goto, signals, children, Running, Zombies
<1>21. CASE SetServerPid
  BY <1>21 DEF SetServerPid, Goto, signals, children, Running, Zombies
<1>22. CASE Fork
  BY <1>22 DEF TypeInv, TypeOK, Fork, signals, Running, Zombies
<1>23. ASSUME NEW p \in Pid, WaitReaps(p) PROVE ReaperInv'
  BY <1>23 DEF TypeInv, TypeOK, WaitReaps, signals, Running, Zombies
<1>24. CASE Waitpid
  BY <1>24 DEF TypeInv, TypeOK, Waitpid, Goto, signals, Running, Zombies
<1>25. CASE HandlerEnter
  BY <1>25 DEF HandlerEnter, main
<1>26. CASE HandlerReturn
  BY <1>26 DEF HandlerReturn, main, children, Running, Zombies
<1>27. ASSUME NEW p \in Pid, ReapJob(p) PROVE ReaperInv'
  BY <1>27 DEF TypeInv, TypeOK, ReapJob, Reap, main, signals, Running, Zombies
<1>28. ASSUME NEW p \in Pid, ReapServer(p) PROVE ReaperInv'
  BY <1>28 DEF TypeInv, TypeOK, ReapServer, Reap, main, signals, Running,
     Zombies
<1>29. ASSUME NEW p \in Pid, Exit(p) PROVE ReaperInv'
  BY <1>29 DEF TypeInv, TypeOK, Exit, main, Running, Zombies
<1>30. CASE UNCHANGED vars
  BY <1>30 DEF vars, main, signals, children, Running, Zombies
<1> HIDE DEF ReaperInv
<1> QED
  BY <1>1, <1>2, <1>3, <1>4, <1>5, <1>6, <1>7, <1>8, <1>9, <1>10, <1>11,
     <1>12, <1>13, <1>14, <1>15, <1>16, <1>17, <1>18, <1>19, <1>20, <1>21,
     <1>22, <1>23, <1>24, <1>25, <1>26, <1>27, <1>28, <1>29, <1>30
  DEF Next, ReadLine, MainStep, Handle

(* As long as a child is a zombie, a SIGCHLD is pending for a handler that  *)
(* is installed, or the handler is running: SIGCHLDs may coalesce and the   *)
(* handler be exchanged, and still every child that ends is reaped.         *)
THEOREM ZombiesAreReaped == Spec => []ZombieHasReaper
<1>1. Init => ReaperInv
  BY DEF Init, ReaperInv, ZombieHasReaper, Running, Zombies
<1>2. ReaperInv => ZombieHasReaper
  BY DEF ReaperInv
<1> QED
  BY InitType, NextType, NextReaper, <1>1, <1>2, PTL DEF Spec

-----------------------------------------------------------------------------
(* The shell signals nothing but its servers.                               *)

(* Between its two assignments bn_start_server has already forked; outside  *)
(* them server_running implies that server_pid is a server.                 *)
ServerInv ==
    /\ OnlyServersSignalled
    /\ server_running = 1 /\ pc # "setServerPid" =>
         server_pid \in Pid /\ kind[server_pid] = "startServer"
    /\ pc \in {"setRunning", "setServerPid"} => kind[cur] = "startServer"
    /\ \A p \in Pid : p > forks => kind[p] = "none"

(* ServerInv is kept by every step of the shell, a handler and a child.     *)
LEMMA NextServer == TypeInv /\ ServerInv /\ [Next]_vars => ServerInv'
<1> SUFFICES ASSUME TypeInv, ServerInv, [Next]_vars PROVE ServerInv'
  OBVIOUS
<1> USE DEF ServerInv, OnlyServersSignalled, cur
<1>1. CASE Builtin
  BY <1>1 DEF Builtin, Read, children, server
<1>2. CASE Background
  BY <1>2 DEF Background, Read, children, server
<1>3. CASE StartServer
  BY <1>3 DEF StartServer, Read, children, server
<1>4. CASE CloseServer
  BY <1>4 DEF CloseServer, Read, children, server, SignalServer
<1>5. CASE External
  BY <1>5 DEF External, Read, children, server
<1>6. ASSUME NEW k \in {"pipeline", "bgPipeline"}, NEW n \in 2..MaxStages,
             Pipeline(k, n)
      PROVE  ServerInv'
  BY <1>6 DEF Pipeline, Read, children, server
<1>7. ASSUME NEW k \in {"pipeline", "bgPipeline"}, NEW n \in 2..MaxStages,
             NEW made \in 0..(n - 1), PipeFails(k, n, made)
      PROVE  ServerInv'
  BY <1>7 DEF PipeFails, Read, children, server
<1>8. CASE ExitShell
  BY <1>8 DEF ExitShell, Goto, children, server, SignalServer
<1>9. CASE RefuseServer
  BY <1>9 DEF RefuseServer, Goto, children, server
<1>10. CASE AcceptServer
  BY <1>10 DEF AcceptServer, Goto, children, server
<1>11. CASE ForkFails
  BY <1>11 DEF ForkFails, Goto, children, server
<1>12. CASE Announce
  BY <1>12 DEF Announce, Goto, children, server
<1>13. CASE SetPid
  BY <1>13 DEF SetPid, SetField, Goto, children, server
<1>14. CASE SetNumber
  BY <1>14 DEF SetNumber, SetField, Goto, children, server
<1>15. CASE SetCommand
  BY <1>15 DEF SetCommand, SetField, Goto, children, server
<1>16. CASE LoadCount
  BY <1>16 DEF LoadCount, Goto, children, server
<1>17. CASE StoreCount
  BY <1>17 DEF StoreCount, children, server, MoreStages
<1>18. CASE ClosePipes
  BY <1>18 DEF ClosePipes, children, server
<1>19. CASE WaitNoChild
  BY <1>19 DEF WaitNoChild, AfterWait, children, server
<1>20. CASE Fork
  <2>1. \A p \in Pid : p <= forks => kind'[p] = kind[p]
    BY <1>20 DEF Fork, TypeInv, TypeOK
  <2>2. \A p \in Pid : kind[p] = "startServer" => p <= forks
    BY DEF TypeInv, TypeOK, Pid
  <2>3. pc' \in {"setRunning", "setServerPid"} => kind'[forks'] =
     "startServer"
    <3>1. pc' = "setRunning" => ChildKind = "startServer"
      BY <1>20 DEF Fork, AfterFork, ChildKind
    <3>2. pc' # "setServerPid"
      BY <1>20 DEF Fork, AfterFork
    <3>3. kind'[forks'] = ChildKind
      <4>1. forks' \in Pid /\ forks' = forks + 1
        BY <1>20, ForksAssumption DEF Fork, TypeInv, TypeOK, Pid
      <4>2. kind \in [Pid -> AllLines \cup {"none", "stage"}]
        BY DEF TypeInv, TypeOK
      <4> QED
        BY <1>20, <4>1, <4>2 DEF Fork
    <3> QED
      BY <3>1, <3>2, <3>3
  <2>4. \A p \in Pid : p > forks' => kind'[p] = "none"
    BY <1>20 DEF Fork, TypeInv, TypeOK, Pid
  <2> QED
    BY <1>20, <2>1, <2>2, <2>3, <2>4 DEF Fork, server
<1>21. CASE SetRunning
  BY <1>21 DEF SetRunning, Goto, children
<1>22. CASE SetServerPid
  <2>1. forks \in Pid
    BY <1>22 DEF SetServerPid, TypeInv, TypeOK, Counters, Pid
  <2> QED
    BY <1>22, <2>1 DEF SetServerPid, Goto, children
<1>23. ASSUME NEW p \in Pid, WaitReaps(p) PROVE ServerInv'
  BY <1>23 DEF WaitReaps, AfterWait, server
<1>24. CASE Waitpid
  BY <1>24 DEF Waitpid, Goto, server
<1>25. CASE HandlerEnter
  BY <1>25 DEF HandlerEnter, main, children, server
<1>26. CASE HandlerReturn
  BY <1>26 DEF HandlerReturn, main, children, server
<1>27. ASSUME NEW p \in Pid, ReapJob(p) PROVE ServerInv'
  BY <1>27 DEF ReapJob, Reap, main, server
<1>28. ASSUME NEW p \in Pid, ReapServer(p) PROVE ServerInv'
  BY <1>28 DEF ReapServer, Reap, main
<1>29. ASSUME NEW p \in Pid, Exit(p) PROVE ServerInv'
  BY <1>29 DEF Exit, main, server
<1>30. CASE UNCHANGED vars
  BY <1>30 DEF vars, main, children, server
<1> HIDE DEF ServerInv
<1> QED
  BY <1>1, <1>2, <1>3, <1>4, <1>5, <1>6, <1>7, <1>8, <1>9, <1>10, <1>11,
     <1>12, <1>13, <1>14, <1>15, <1>16, <1>17, <1>18, <1>19, <1>20, <1>21,
     <1>22, <1>23, <1>24, <1>25, <1>26, <1>27, <1>28, <1>29, <1>30
  DEF Next, ReadLine, MainStep, Handle

(* close-server and the exit of the shell never signal pid -1 or a process  *)
(* that is not a server, although the SIGCHLD handler may reset             *)
(* server_running at any moment and never resets server_pid.                *)
THEOREM SignalsOnlyServers == Spec => []OnlyServersSignalled
<1>1. Init => ServerInv
  BY DEF Init, ServerInv, OnlyServersSignalled
<1>2. ServerInv => OnlyServersSignalled
  BY DEF ServerInv
<1> QED
  BY InitType, NextType, NextServer, <1>1, <1>2, PTL DEF Spec

-----------------------------------------------------------------------------
(* The "Done" lines.                                                        *)

(* The entries below bg_process_count, and the one being written: the       *)
(* handler may lower the count at any point of the registration.            *)
Written(i) ==
    \/ i < count
    \/ pc \in {"setNumber", "setCommand", "loadCount"} /\ i <= count
    \/ pc = "storeCount" /\ i <= tmp

(* Every entry that is or may come into use is of an announced process, and *)
(* "Done" is only said of an announced process that has been reaped.        *)
JobsInv ==
    /\ \A p \in Pid : /\ done[p] \in {0, 1}
                      /\ done[p] = 1 => proc[p] = "reaped" /\ p \in Launched
    /\ \A i \in Index : Written(i) => table[i].pid \in Launched
    /\ pc \in Registering => announced[cur] # 0
    /\ \A p \in Pid : p > forks => proc[p] = "unborn"

(* JobsInv is kept by every step of the shell, a handler and a child.       *)
LEMMA NextJobs == TypeInv /\ JobsInv /\ [Next]_vars => JobsInv'
<1> SUFFICES ASSUME TypeInv, JobsInv, [Next]_vars PROVE JobsInv'
  OBVIOUS
<1> USE ForksAssumption DEF JobsInv, cur
<1>1. CASE Builtin
  BY <1>1 DEF Builtin, Read, children, jobs, Written, Launched, Registering
<1>2. CASE Background
  BY <1>2 DEF Background, Read, children, jobs, Written, Launched, Registering
<1>3. CASE StartServer
  BY <1>3 DEF StartServer, Read, children, jobs, Written, Launched,
     Registering
<1>4. CASE CloseServer
  BY <1>4 DEF CloseServer, Read, children, jobs, Written, Launched,
     Registering
<1>5. CASE External
  BY <1>5 DEF External, Read, children, jobs, Written, Launched, Registering
<1>6. ASSUME NEW k \in {"pipeline", "bgPipeline"}, NEW n \in 2..MaxStages,
             Pipeline(k, n)
      PROVE  JobsInv'
  BY <1>6 DEF Pipeline, Read, children, jobs, Written, Launched, Registering
<1>7. ASSUME NEW k \in {"pipeline", "bgPipeline"}, NEW n \in 2..MaxStages,
             NEW made \in 0..(n - 1), PipeFails(k, n, made)
      PROVE  JobsInv'
  BY <1>7 DEF PipeFails, Read, children, jobs, Written, Launched, Registering
<1>8. CASE ExitShell
  BY <1>8 DEF ExitShell, Goto, children, jobs, Written, Launched, Registering
<1>9. CASE RefuseServer
  BY <1>9 DEF RefuseServer, Goto, children, jobs, Written, Launched,
     Registering
<1>10. CASE AcceptServer
  BY <1>10 DEF AcceptServer, Goto, children, jobs, Written, Launched,
     Registering
<1>11. CASE ForkFails
  BY <1>11 DEF ForkFails, Goto, children, jobs, Written, Launched, Registering
<1>12. CASE ClosePipes
  BY <1>12 DEF ClosePipes, children, jobs, Written, Launched, Registering
<1>13. CASE WaitNoChild
  BY <1>13 DEF WaitNoChild, AfterWait, children, jobs, Written, Launched,
     Registering
<1>14. CASE SetRunning
  BY <1>14 DEF SetRunning, Goto, children, jobs, Written, Launched,
     Registering
<1>15. CASE SetServerPid
  BY <1>15 DEF SetServerPid, Goto, children, jobs, Written, Launched,
     Registering
<1>16. CASE Fork
  <2>1. \A p \in Pid : proc[p] = "reaped" => proc'[p] = "reaped"
    <3>1. \A p \in Pid : p # forks + 1 => proc'[p] = proc[p]
      BY <1>16 DEF Fork, TypeInv, TypeOK
    <3>2. forks + 1 \in Pid => proc[forks + 1] # "reaped"
      BY DEF Pid, TypeInv, TypeOK
    <3> QED
      BY <3>1, <3>2
  <2>2. \A p \in Pid : p > forks' => proc'[p] = "unborn"
    BY <1>16, SMTT(30) DEF Fork, TypeInv, TypeOK, Pid
  <2>3. pc' \notin Registering
    BY <1>16 DEF Fork, AfterFork, Registering
  <2> QED
    BY <1>16, <2>1, <2>2, <2>3 DEF Fork, jobs, Written, Launched, Registering
<1>17. CASE Announce
  <2>1. forks \in Pid
    BY <1>17 DEF Announce, TypeInv, TypeOK, Counters, Pid
  <2>2. announced'[forks] # 0
    BY <1>17, <2>1 DEF Announce, TypeInv, TypeOK
  <2>3. Launched \subseteq Launched'
    BY <1>17, <2>1, <2>2 DEF Announce, TypeInv, TypeOK, Launched
  <2> QED
    BY <1>17, <2>2, <2>3 DEF Announce, Goto, children, Written, Launched
<1>18. CASE SetPid
  <2>1. count \in Index /\ forks \in Pid
    BY <1>18 DEF SetPid, SetField, TypeInv, TypeOK, Counters, Registering,
       Index, Pid
  <2>2. table \in [Index -> Entry]
    BY DEF TypeInv, TypeOK
  <2>3. \A i \in Index : i # count => table'[i] = table[i]
    BY <1>18, <2>2 DEF SetPid, SetField
  <2>4. table'[count].pid \in Launched
    BY <1>18, <2>1, <2>2 DEF SetPid, SetField, Registering, Written, Launched,
       Entry
  <2> QED
    BY <1>18, <2>3, <2>4 DEF SetPid, SetField, Goto, children, Written,
       Launched,
       Registering, TypeInv, TypeOK, Index
<1>19. CASE SetNumber
  <2>1. count \in Index /\ forks \in Pid
    BY <1>19 DEF SetNumber, SetField, TypeInv, TypeOK, Counters, Registering,
       Index, Pid
  <2>2. table \in [Index -> Entry]
    BY DEF TypeInv, TypeOK
  <2>3. \A i \in Index : i # count => table'[i] = table[i]
    BY <1>19, <2>2 DEF SetNumber, SetField
  <2>4. table'[count].pid \in Launched
    <3>1. table[count] \in Entry /\ table[count].pid \in Launched
      <4>1. Written(count)
        BY <1>19, <2>1 DEF SetNumber, SetField, Written, Index
      <4> QED
        BY <2>1, <2>2, <4>1
    <3>2. table'[count].pid = table[count].pid
      BY <1>19, <2>1, <2>2, <3>1 DEF SetNumber, SetField, Entry
    <3> QED
      BY <3>1, <3>2
  <2> QED
    BY <1>19, <2>3, <2>4 DEF SetNumber, SetField, Goto, children, Written,
       Launched,
       Registering, TypeInv, TypeOK, Index
<1>20. CASE SetCommand
  <2>1. count \in Index /\ forks \in Pid
    BY <1>20 DEF SetCommand, SetField, TypeInv, TypeOK, Counters, Registering,
       Index, Pid
  <2>2. table \in [Index -> Entry]
    BY DEF TypeInv, TypeOK
  <2>3. \A i \in Index : i # count => table'[i] = table[i]
    BY <1>20, <2>2 DEF SetCommand, SetField
  <2>4. table'[count].pid \in Launched
    <3>1. table[count] \in Entry /\ table[count].pid \in Launched
      <4>1. Written(count)
        BY <1>20, <2>1 DEF SetCommand, SetField, Written, Index
      <4> QED
        BY <2>1, <2>2, <4>1
    <3>2. table'[count].pid = table[count].pid
      BY <1>20, <2>1, <2>2, <3>1 DEF SetCommand, SetField, Entry
    <3> QED
      BY <3>1, <3>2
  <2> QED
    BY <1>20, <2>3, <2>4 DEF SetCommand, SetField, Goto, children, Written,
       Launched,
       Registering, TypeInv, TypeOK, Index
<1>21. CASE LoadCount
  BY <1>21 DEF LoadCount, Goto, children, jobs, Written, Launched,
     Registering, TypeInv, TypeOK, Registering, Index
<1>22. CASE StoreCount
  BY <1>22 DEF StoreCount, children, jobs, Written, Launched, Registering,
     TypeInv, TypeOK, Registering, Index
<1>23. ASSUME NEW p \in Pid, WaitReaps(p) PROVE JobsInv'
  <2>1. /\ \A q \in Pid : q # p => proc'[q] = proc[q]
        /\ proc'[p] = "reaped" /\ proc[p] = "zombie"
    BY <1>23 DEF WaitReaps, Zombies, TypeInv, TypeOK
  <2>2. pc' \notin Registering /\ pc' \in {"wait", "prompt"}
    BY <1>23 DEF WaitReaps, AfterWait, Registering
  <2> QED
    BY <1>23, <2>1, <2>2 DEF WaitReaps, Written, Launched
<1>24. CASE Waitpid
  <2>1. forks \in Pid
    BY <1>24 DEF Waitpid, TypeInv, TypeOK, Counters, Pid
  <2>2. /\ \A q \in Pid : q # forks => proc'[q] = proc[q]
        /\ proc'[forks] = "reaped"
    BY <1>24, <2>1 DEF Waitpid, TypeInv, TypeOK
  <2>3. pc' = "prompt" /\ pc' \notin Registering
    BY <1>24 DEF Waitpid, Goto, Registering
  <2>4. \A q \in Pid : q > forks => q # forks
    BY DEF Pid
  <2> QED
    BY <1>24, <2>1, <2>2, <2>3, <2>4 DEF Waitpid, jobs, Written, Launched
<1>25. CASE HandlerEnter
  BY <1>25 DEF HandlerEnter, main, children, jobs, Written, Launched,
     Registering
<1>26. CASE HandlerReturn
  BY <1>26 DEF HandlerReturn, main, children, jobs, Written, Launched,
     Registering
<1>27. ASSUME NEW p \in Pid, ReapJob(p) PROVE JobsInv'
  <2>1. proc[p] = "zombie" /\ done[p] = 0
    BY <1>27 DEF ReapJob, Reap, Zombies, TypeInv, TypeOK
  <2>2. /\ \A q \in Pid : q # p => proc'[q] = proc[q]
        /\ proc'[p] = "reaped"
    BY <1>27 DEF ReapJob, Reap, TypeInv, TypeOK
  <2>3. /\ forks' = forks /\ pc' = pc /\ tmp' = tmp /\ announced' = announced
        /\ forks \in 0..MaxForks /\ count \in 0..MaxForks
        /\ tmp \in 0..MaxForks
    BY <1>27 DEF ReapJob, Reap, main, TypeInv, TypeOK
  <2>4. CASE Matches(p) = {}
    BY <1>27, <2>1, <2>2, <2>3, <2>4 DEF ReapJob, Written, Launched
  <2>5. CASE Matches(p) # {}
    <3>1. PICK i \in Matches(p) : /\ table' = Removed(i) /\ count' = count - 1
                                 /\ done' = [done EXCEPT ![p] = @ + 1]
      BY <1>27, <2>5 DEF ReapJob
    <3>2. p \in Launched
      <4>1. i \in Index /\ table[i].pid = p /\ Written(i)
        BY <3>1, <2>3 DEF Matches, Used, Written
      <4> QED
        BY <4>1
    <3>3. \A q \in Pid : done'[q] = (IF q = p THEN 1 ELSE done[q])
      BY <3>1, <2>1 DEF TypeInv, TypeOK
    <3>4. ASSUME NEW j \in Index, Written(j)' PROVE table'[j].pid \in Launched
      <4>1. Written(j)
        BY <3>4, <3>1, <2>3 DEF Written, Index
      <4>2. j < count - 1 => j + 1 \in Index /\ Written(j + 1)
        BY <2>3 DEF Written, Index
      <4>3. \/ table'[j] = table[j]
            \/ j < count - 1 /\ table'[j] = table[j + 1]
        BY <3>1 DEF Removed
      <4> QED
        BY <4>1, <4>2, <4>3
    <3>5. Launched' = Launched
      BY <2>3 DEF Launched
    <3>6. \A q \in Pid : done'[q] = 1 => proc'[q] = "reaped" /\ q \in Launched'
      BY <2>2, <3>2, <3>3, <3>5
    <3>7. \A q \in Pid : q > forks' => proc'[q] = "unborn"
      BY <2>1, <2>2, <2>3
    <3>8. \A q \in Pid : done'[q] \in {0, 1}
      BY <3>3
    <3>9. pc' \in Registering => announced'[cur'] # 0
      BY <2>3
    <3>10. \A j \in Index : Written(j)' => table'[j].pid \in Launched'
      BY <3>4, <3>5
    <3> HIDE DEF cur
    <3> QED
      BY <3>6, <3>7, <3>8, <3>9, <3>10
  <2> QED
    BY <2>4, <2>5
<1>28. ASSUME NEW p \in Pid, ReapServer(p) PROVE JobsInv'
  BY <1>28 DEF ReapServer, Reap, main, Zombies, Written, Launched, TypeInv,
     TypeOK
<1>29. ASSUME NEW p \in Pid, Exit(p) PROVE JobsInv'
  BY <1>29 DEF Exit, main, Running, jobs, Written, Launched, Registering,
     TypeInv, TypeOK
<1>30. CASE UNCHANGED vars
  BY <1>30 DEF vars, main, children, jobs, Written, Launched, Registering
<1> HIDE DEF JobsInv
<1> QED
  BY <1>1, <1>2, <1>3, <1>4, <1>5, <1>6, <1>7, <1>8, <1>9, <1>10, <1>11,
     <1>12, <1>13, <1>14, <1>15, <1>16, <1>17, <1>18, <1>19, <1>20, <1>21,
     <1>22, <1>23, <1>24, <1>25, <1>26, <1>27, <1>28, <1>29, <1>30
  DEF Next, ReadLine, MainStep, Handle

(* At most one "Done" is printed for a process, only when it is a job that  *)
(* the shell announced, and only after it has ended and been reaped: also   *)
(* when the handler interrupts a registration and the table holds stale or  *)
(* double entries.                                                          *)
THEOREM DoneIsTrue == Spec => []DoneIsTruthful
<1>1. Init => JobsInv
  BY DEF Init, JobsInv, Written, Registering, Index
<1>2. JobsInv => DoneIsTruthful
  BY DEF JobsInv, DoneIsTruthful
<1> QED
  BY InitType, NextType, NextJobs, <1>1, <1>2, PTL DEF Spec

-----------------------------------------------------------------------------
(* Jobs stay in the table.                                                  *)

(* The steps that touch bg_processes or bg_process_count.                   *)
LEMMA WhoWritesTable ==
  [Next]_vars => \/ UNCHANGED <<table, count>>
                 \/ SetPid \/ SetNumber \/ SetCommand \/ StoreCount
                 \/ \E p \in Pid : ReapJob(p)
<1>1. ReadLine => UNCHANGED <<table, count>>
  BY DEF ReadLine, Builtin, Background, StartServer, CloseServer, ExitShell,
     External, Pipeline, PipeFails, jobs
<1>2. RefuseServer \/ AcceptServer \/ Fork \/ ForkFails \/ Announce \/ LoadCount
      \/ ClosePipes \/ WaitNoChild \/ Waitpid \/ SetRunning \/ SetServerPid
      => UNCHANGED <<table, count>>
  BY DEF RefuseServer, AcceptServer, Fork, ForkFails, Announce, LoadCount,
     ClosePipes, WaitNoChild, Waitpid, SetRunning, SetServerPid, jobs
<1>3. ASSUME NEW p \in Pid, WaitReaps(p) \/ ReapServer(p) \/ Exit(p)
      PROVE  UNCHANGED <<table, count>>
  BY <1>3 DEF WaitReaps, ReapServer, Exit, jobs
<1>4. HandlerEnter \/ HandlerReturn \/ UNCHANGED vars => UNCHANGED <<table, count>>
  BY DEF HandlerEnter, HandlerReturn, vars, jobs
<1> QED
  BY <1>1, <1>2, <1>3, <1>4 DEF Next, MainStep, Handle

(* The pids listed are those of the entries below bg_process_count.         *)
LEMMA ListedEntry ==
  ASSUME count \in 0..MaxForks, NEW p
  PROVE  p \in Listed <=> \E i \in Index : i < count /\ table[i].pid = p
<1>1. \A i \in Index : i \in Used <=> i < count
  BY ForksAssumption DEF Used, Index
<1> QED
  BY <1>1 DEF Listed

(* The indices below a counter are those of its entries in use.             *)
LEMMA InUse ==
  ASSUME NEW c \in Nat, NEW i \in Index, i < c
  PROVE  i \in 0..(c - 1)
  BY ForksAssumption DEF Index

(* A listed process stays listed through every step that does not reap it.  *)
LEMMA NextListed ==
  ASSUME TypeInv, TypeInv', [Next]_vars, NEW p \in Listed, proc'[p] # "reaped"
  PROVE  p \in Listed'
<1>1. /\ table \in [Index -> Entry] /\ count \in 0..MaxForks
      /\ tmp \in 0..MaxForks /\ proc \in [Pid -> LifeStages]
      /\ forks \in 0..MaxForks /\ count' \in 0..MaxForks
  BY DEF TypeInv, TypeOK
<1>2. PICK k \in Index : k < count /\ table[k].pid = p
  BY <1>1, ListedEntry
<1>3. SUFFICES \E j \in Index : j < count' /\ table'[j].pid = p
  <2>1. \A i \in Index : i < count' => i \in 0..(count' - 1)
    <3>1. count' \in Nat
      BY <1>1, ForksAssumption
    <3> QED
      BY <3>1, InUse
  <2> QED
    BY <2>1 DEF Listed, Used
<1>4. CASE UNCHANGED <<table, count>>
  BY <1>2, <1>4
<1>5. CASE SetPid \/ SetNumber \/ SetCommand
  <2>1. k # count
    BY <1>1, <1>2 DEF Index
  <2>2. table'[k] = table[k] /\ count' = count
    BY <1>1, <1>2, <1>5, <2>1 DEF SetPid, SetNumber, SetCommand, SetField
  <2> QED
    BY <1>2, <2>2
<1>6. CASE StoreCount
  <2>1. count <= count' /\ table' = table
    BY <1>1, <1>6 DEF StoreCount, TypeInv, Counters
  <2> QED
    BY <1>1, <1>2, <2>1 DEF Index
<1>7. ASSUME NEW q \in Pid, ReapJob(q)
      PROVE  \E j \in Index : j < count' /\ table'[j].pid = p
  <2>1. CASE Matches(q) = {}
    BY <1>2, <1>7, <2>1 DEF ReapJob
  <2>2. CASE Matches(q) # {}
    <3>1. PICK m \in Index : /\ m < count /\ table[m].pid = q
                             /\ table' = Removed(m) /\ count' = count - 1
      <4>1. PICK m \in Matches(q) : table' = Removed(m) /\ count' = count - 1
        BY <1>7, <2>2 DEF ReapJob
      <4>2. m \in Index /\ m \in 0..(count - 1) /\ table[m].pid = q
        BY DEF Matches, Used
      <4>3. m < count
        BY <1>1, <4>2
      <4> QED
        BY <4>1, <4>2, <4>3
    <3>2. k # m
      <4>1. proc'[q] = "reaped"
        BY <1>1, <1>7 DEF ReapJob, Reap
      <4> QED
        BY <1>2, <3>1, <4>1
    <3>3. CASE k < m
      <4>1. table'[k] = table[k] /\ k < count'
        BY <1>1, <1>2, <3>1, <3>3 DEF Removed, Index
      <4> QED
        BY <1>2, <4>1
    <3>4. CASE m < k
      <4>1. k - 1 \in Index /\ m <= k - 1
        BY <1>1, <1>2, <3>1, <3>4, ForksAssumption DEF Index
      <4>2. k - 1 < count - 1 /\ (k - 1) + 1 = k
        BY <1>1, <1>2 DEF Index
      <4>3. table'[k - 1] = table[k]
        BY <3>1, <4>1, <4>2 DEF Removed
      <4> QED
        BY <1>2, <3>1, <4>1, <4>2, <4>3
    <3> QED
      BY <1>2, <3>1, <3>2, <3>3, <3>4 DEF Index
  <2> QED
    BY <2>1, <2>2
<1> QED
  BY <1>4, <1>5, <1>6, <1>7, WhoWritesTable

(* A job that ps lists and that has not been reaped is not dropped from the *)
(* table by any step, neither by the entries the handler moves nor by the   *)
(* old count that bg_process_count++ writes back.                           *)
THEOREM LiveJobsStay == Spec => LiveJobStaysListed
<1>1. TypeInv /\ TypeInv' /\ [Next]_vars =>
        [\A p \in Listed \ {0} : proc'[p] # "reaped" => p \in Listed']_vars
  BY NextListed
<1> QED
  BY InitType, NextType, <1>1, PTL DEF Spec, LiveJobStaysListed

-----------------------------------------------------------------------------
(* What a foreground pipeline leaves running.                               *)

(* The children that nobody has reaped.                                     *)
Alive == Running \cup Zombies

(* The line is a foreground pipeline, and no process was forked before it.  *)
FirstPipeline == line.kind = "pipeline" /\ line.group = 1

(* The loop of waits still has to wait for all the children but one.        *)
PipelineInv ==
    FirstPipeline =>
      /\ pc \in {"fork", "closePipes", "wait", "prompt", "exited"}
      /\ pc = "fork" => forks = line.i /\ line.i < line.stages
      /\ pc = "closePipes" => forks = line.stages
      /\ pc = "wait" => Cardinality(Alive) <= line.waits + 1
      /\ pc = "prompt" /\ forks = line.stages => Cardinality(Alive) <= 1

(* The children alive are among the processes forked so far.                *)
LEMMA AliveIsFinite ==
  ASSUME TypeInv, JobsInv
  PROVE  /\ IsFiniteSet(Alive) /\ Cardinality(Alive) \in Nat
         /\ Cardinality(Alive) <= forks
<1>1. Alive \in SUBSET (1..forks)
  BY DEF Alive, Running, Zombies, JobsInv, TypeInv, TypeOK, Pid
<1>2. IsFiniteSet(1..forks) /\ Cardinality(1..forks) = forks
  <2>1. 1 \in Int /\ forks \in Int /\ forks \in Nat
    BY ForksAssumption DEF TypeInv, TypeOK
  <2>2. Cardinality(1..forks) = IF 1 > forks THEN 0 ELSE forks - 1 + 1
    BY <2>1, FS_Interval
  <2> QED
    BY <2>1, <2>2, FS_Interval
<1> QED
  BY <1>1, <1>2, FS_Subset, FS_CardinalityType

(* A step that forks nothing leaves at most as many children alive.         *)
LEMMA FewerAlive ==
  ASSUME TypeInv, JobsInv,
         \A p \in Pid : proc'[p] \in {"running", "zombie"} =>
                          proc[p] \in {"running", "zombie"}
  PROVE  /\ Cardinality(Alive') <= Cardinality(Alive)
         /\ Cardinality(Alive') \in Nat /\ Cardinality(Alive) \in Nat
<1>1. Alive' \in SUBSET Alive
  BY DEF Alive, Running, Zombies
<1> HIDE DEF Alive
<1> QED
  BY <1>1, AliveIsFinite, FS_Subset, FS_CardinalityType

(* PipelineInv is kept by every step of the shell, a handler and a child.   *)
LEMMA NextPipeline ==
  TypeInv /\ JobsInv /\ PipelineInv /\ [Next]_vars => PipelineInv'
<1> SUFFICES ASSUME TypeInv, JobsInv, PipelineInv, [Next]_vars
             PROVE  PipelineInv'
  OBVIOUS
<1>1. CASE Builtin \/ Background \/ StartServer \/ CloseServer \/ External
  <2>1. line'.kind # "pipeline"
    BY <1>1 DEF Builtin, Background, StartServer, CloseServer, External, Line
  <2> QED
    BY <2>1 DEF PipelineInv, FirstPipeline
<1>2. ASSUME NEW k \in {"pipeline", "bgPipeline"}, NEW n \in 2..MaxStages,
             Pipeline(k, n)
      PROVE  PipelineInv'
  <2>1. /\ line' = Line(k, n) /\ pc' = "fork" /\ forks' = forks
        /\ forks \in Int
    BY <1>2 DEF Pipeline, children, TypeInv, TypeOK
  <2>2. line'.i = 0 /\ line'.stages = n /\ line'.group = forks + 1
    BY <2>1 DEF Line
  <2> QED
    BY <2>1, <2>2, StagesAssumption DEF PipelineInv, FirstPipeline
<1>3. ASSUME NEW k \in {"pipeline", "bgPipeline"}, NEW n \in 2..MaxStages,
             NEW made \in 0..(n - 1), PipeFails(k, n, made)
      PROVE  PipelineInv'
  <2>1. /\ line' = Line(k, n) /\ pc' = "prompt" /\ forks' = forks
        /\ forks \in Int
    BY <1>3 DEF PipeFails, children, TypeInv, TypeOK
  <2>2. line'.stages = n /\ line'.group = forks + 1
    BY <2>1 DEF Line
  <2> QED
    BY <2>1, <2>2, StagesAssumption DEF PipelineInv, FirstPipeline
<1>4. CASE ExitShell
  BY <1>4 DEF ExitShell, Goto, PipelineInv, FirstPipeline
<1>5. CASE RefuseServer \/ AcceptServer \/ Announce \/ SetPid \/ SetNumber
           \/ SetCommand \/ LoadCount \/ Waitpid \/ SetRunning \/ SetServerPid
  BY <1>5 DEF RefuseServer, AcceptServer, Announce, SetPid, SetNumber,
     SetCommand, SetField, LoadCount, Waitpid, SetRunning, SetServerPid, Goto,
     PipelineInv, FirstPipeline
<1>6. CASE StoreCount
  <2>1. line'.kind = line.kind /\ line'.group = line.group
    BY <1>6 DEF StoreCount, TypeInv, TypeOK, LineType
  <2> QED
    BY <1>6, <2>1 DEF StoreCount, PipelineInv, FirstPipeline
<1>7. CASE Fork
  <2>1. /\ line'.kind = line.kind /\ line'.group = line.group
        /\ line'.stages = line.stages /\ forks' = forks + 1
        /\ line'.i = IF MoreStages /\ ~Registers THEN line.i + 1 ELSE line.i
        /\ line.i \in Int /\ line.stages \in Int
    BY <1>7, StagesAssumption DEF Fork, TypeInv, TypeOK, LineType
  <2>2. CASE FirstPipeline
    <3>1. /\ pc' = IF line.i + 1 < line.stages THEN "fork" ELSE "closePipes"
          /\ line'.i = IF line.i + 1 < line.stages THEN line.i + 1 ELSE line.i
      BY <1>7, <2>1, <2>2 DEF Fork, AfterFork, MoreStages, IsPipeline, Registers,
         FirstPipeline
    <3>2. forks = line.i /\ line.i < line.stages
      BY <1>7, <2>2 DEF Fork, PipelineInv
    <3> QED
      BY <2>1, <3>1, <3>2 DEF PipelineInv
  <2> QED
    BY <2>1, <2>2 DEF PipelineInv, FirstPipeline
<1>8. CASE ForkFails
  <2>1. forks < line.stages \/ ~FirstPipeline
    BY <1>8 DEF ForkFails, PipelineInv
  <2>2. line.stages \in Int /\ forks \in Int
    BY StagesAssumption, ForksAssumption DEF TypeInv, TypeOK, LineType
  <2> QED
    BY <1>8, <2>1, <2>2 DEF ForkFails, Goto, children, PipelineInv,
       FirstPipeline
<1>9. CASE ClosePipes
  <2>1. /\ line'.kind = line.kind /\ line'.group = line.group
        /\ line'.waits = line.stages - 1 /\ line.stages \in Int
        /\ pc' = IF line.kind = "pipeline" THEN "wait" ELSE "prompt"
    BY <1>9, StagesAssumption DEF ClosePipes, TypeInv, TypeOK, LineType
  <2>2. Cardinality(Alive) <= forks /\ Alive' = Alive
    BY <1>9, AliveIsFinite DEF ClosePipes, children, Alive, Running, Zombies
  <2> QED
    BY <1>9, <2>1, <2>2 DEF ClosePipes, PipelineInv, FirstPipeline
<1>10. ASSUME pc = "wait", AfterWait,
              Cardinality(Alive') \in Nat,
              FirstPipeline => Cardinality(Alive') <= line.waits
       PROVE  PipelineInv'
  <2>1. /\ line'.kind = line.kind /\ line'.group = line.group
        /\ line'.waits = line.waits - 1
        /\ pc' = IF line.waits > 1 THEN "wait" ELSE "prompt"
        /\ line.waits \in 1..MaxStages
    BY <1>10, StagesAssumption DEF AfterWait, TypeInv, TypeOK, Counters, LineType
  <2> QED
    BY <1>10, <2>1, StagesAssumption DEF PipelineInv, FirstPipeline
<1>11. CASE WaitNoChild
  <2>1. Alive' = {} /\ Cardinality(Alive') = 0
    BY <1>11, FS_EmptySet DEF WaitNoChild, children, Alive, Running, Zombies
  <2>2. line.waits >= 1 /\ line.waits \in Int
    BY <1>11, StagesAssumption DEF WaitNoChild, TypeInv, TypeOK, Counters, LineType
  <2> QED
    BY <1>10, <1>11, <2>1, <2>2 DEF WaitNoChild
<1>12. ASSUME NEW p \in Pid, WaitReaps(p) PROVE PipelineInv'
  <2>1. p \in Alive /\ Alive' = Alive \ {p}
    BY <1>12 DEF WaitReaps, Alive, Running, Zombies, TypeInv, TypeOK
  <2>2. Cardinality(Alive') = Cardinality(Alive) - 1 /\ IsFiniteSet(Alive')
    BY <2>1, AliveIsFinite, FS_RemoveElement
  <2>3. Cardinality(Alive') \in Nat /\ Cardinality(Alive) \in Nat
    BY <2>2, AliveIsFinite, FS_CardinalityType
  <2>4. FirstPipeline => Cardinality(Alive) <= line.waits + 1
    BY <1>12 DEF WaitReaps, PipelineInv
  <2>5. line.waits \in Int
    BY StagesAssumption DEF TypeInv, TypeOK, LineType
  <2>6. FirstPipeline => Cardinality(Alive') <= line.waits
    BY <2>2, <2>3, <2>4, <2>5
  <2> QED
    BY <1>10, <1>12, <2>3, <2>6 DEF WaitReaps
<1>13. ASSUME UNCHANGED <<pc, line, forks>>,
              \A p \in Pid : proc'[p] \in {"running", "zombie"} =>
                               proc[p] \in {"running", "zombie"}
       PROVE  PipelineInv'
  <2>1. /\ Cardinality(Alive') <= Cardinality(Alive)
        /\ Cardinality(Alive') \in Nat /\ Cardinality(Alive) \in Nat
    BY <1>13, FewerAlive
  <2>2. line.waits \in Int
    BY StagesAssumption DEF TypeInv, TypeOK, LineType
  <2> QED
    BY <1>13, <2>1, <2>2 DEF PipelineInv, FirstPipeline
<1>14. CASE HandlerEnter \/ HandlerReturn \/ UNCHANGED vars
  BY <1>13, <1>14 DEF HandlerEnter, HandlerReturn, vars, main, children
<1>15. ASSUME NEW p \in Pid, ReapJob(p) \/ ReapServer(p) PROVE PipelineInv'
  <2>1. UNCHANGED <<pc, line, forks>>
    BY <1>15 DEF ReapJob, ReapServer, Reap, main
  <2>2. \A q \in Pid : proc'[q] \in {"running", "zombie"} =>
                         proc[q] \in {"running", "zombie"}
    BY <1>15 DEF ReapJob, ReapServer, Reap, TypeInv, TypeOK
  <2> QED
    BY <1>13, <2>1, <2>2
<1>16. ASSUME NEW p \in Pid, Exit(p) PROVE PipelineInv'
  <2>1. UNCHANGED <<pc, line, forks>>
    BY <1>16 DEF Exit, main
  <2>2. \A q \in Pid : proc'[q] \in {"running", "zombie"} =>
                         proc[q] \in {"running", "zombie"}
    BY <1>16 DEF Exit, Running, TypeInv, TypeOK
  <2> QED
    BY <1>13, <2>1, <2>2
<1> QED
  BY <1>1, <1>2, <1>3, <1>4, <1>5, <1>6, <1>7, <1>8, <1>9, <1>11, <1>12, <1>14,
     <1>15, <1>16
  DEF Next, ReadLine, MainStep, Handle

(* When the prompt comes back after a foreground pipeline whose processes   *)
(* are the only children so far, at most one of them still runs, whatever   *)
(* the handlers have reaped while the shell was in its loop of waits.       *)
THEOREM PipelineEnds == Spec => []PipelineAlmostFinished
<1>1. Init => JobsInv /\ PipelineInv
  <2>1. Init => JobsInv
    BY DEF Init, JobsInv, Written, Registering, Index
  <2>2. Init => PipelineInv
    BY DEF Init, PipelineInv, FirstPipeline, Line
  <2> QED
    BY <2>1, <2>2
<1>2. TypeInv /\ JobsInv /\ PipelineInv => PipelineAlmostFinished
  <2> SUFFICES ASSUME TypeInv, JobsInv, PipelineInv, AtPrompt,
                      line.kind = "pipeline", line.group = 1,
                      forks = line.stages
               PROVE  Cardinality(Running) <= 1
    BY DEF PipelineAlmostFinished
  <2>1. Cardinality(Alive) <= 1
    BY DEF PipelineInv, FirstPipeline, AtPrompt
  <2>2. Running \in SUBSET Alive
    BY DEF Alive
  <2>3. IsFiniteSet(Running) /\ Cardinality(Running) <= Cardinality(Alive)
    BY <2>2, AliveIsFinite, FS_Subset
  <2>4. Cardinality(Running) \in Nat /\ Cardinality(Alive) \in Nat
    BY <2>3, AliveIsFinite, FS_CardinalityType
  <2> QED
    BY <2>1, <2>3, <2>4
<1> QED
  BY InitType, NextType, NextJobs, NextPipeline, <1>1, <1>2, PTL DEF Spec
=============================================================================
