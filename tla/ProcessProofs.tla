---------------------------- MODULE ProcessProofs ---------------------------
(***************************************************************************)
(* Theorems about the processes toas starts and ends, each on its own: the *)
(* model server, for any callers, servers and calls, and the daemon, for   *)
(* any operators, processes and commands.                                  *)
(***************************************************************************)
EXTENDS Backend, Daemon, TLAPS

-----------------------------------------------------------------------------
(* The model server: at most one lives that nobody told to end, and it is  *)
(* the one that the lifecycle object holds.                                *)

\* A caller's record keeps its type when it goes somewhere or returns.
LEMMA CallTyped ==
    ASSUME BackendTypeOK, NEW c \in Callers,
           \/ \E place \in {"start", "probe", "stop", "wait", "recheck"}, p \in 0 .. MaxServers :
                Goes(c, place, p)
           \/ Returns(c)
           \/ AfterStop(c)
    PROVE  call' \in [Callers -> [op : {"none", "start", "stop", "restart"},
                                  at : {"idle", "start", "probe", "stop", "wait", "check", "recheck"},
                                  proc : 0 .. MaxServers]]
<1>1. 0 \in 0 .. MaxServers
  BY BackendAssumption
<1>2. CASE Returns(c)
  BY <1>1, <1>2 DEF BackendTypeOK, Returns, Idle
<1>3. ASSUME NEW place \in {"start", "probe", "stop", "wait", "recheck"}, NEW p \in 0 .. MaxServers,
             Goes(c, place, p)
      PROVE  call' \in [Callers -> [op : {"none", "start", "stop", "restart"},
                                  at : {"idle", "start", "probe", "stop", "wait", "check", "recheck"},
                                  proc : 0 .. MaxServers]]
  BY <1>3 DEF BackendTypeOK, Goes
<1>4. CASE AfterStop(c)
  BY <1>1, <1>2, <1>3, <1>4 DEF AfterStop
<1> QED
  BY <1>2, <1>3, <1>4

\* Every action keeps the types of the processes, the lock and the callers.
LEMMA CallStepTyped == ASSUME BackendTypeOK, NEW c \in Callers, CallStep(c) PROVE BackendTypeOK'
<1> USE BackendAssumption DEF BackendTypeOK
<1> DEFINE States == {"none", "up", "told", "killed", "dead"}
<1>1. CASE StartFindsOne(c)
  BY <1>1, CallTyped DEF StartFindsOne
<1>2. CASE StartSpawns(c)
  <2>1. PICK p \in Servers : /\ server' = [server EXCEPT ![p] = "up"]
                             /\ held' = p /\ Goes(c, "probe", p)
    BY <1>2 DEF StartSpawns
  <2>2. server' \in [Servers -> States] /\ p \in 0 .. MaxServers
    BY <2>1 DEF Servers
  <2> QED
    BY <1>2, <2>1, <2>2, CallTyped DEF StartSpawns
<1>3. CASE ProbeHealthy(c)
  BY <1>3, CallTyped DEF ProbeHealthy
<1>4. CASE ProbeFailed(c)
  <2>1. server' \in [Servers -> States]
    BY <1>4 DEF ProbeFailed
  <2> QED
    BY <1>4, <2>1, CallTyped DEF ProbeFailed
<1>5. CASE Check(c)
  BY <1>5, CallTyped DEF Check
<1>6. CASE StopFindsNone(c)
  BY <1>6, CallTyped DEF StopFindsNone
<1>7. CASE StopTells(c)
  <2>1. server' \in [Servers -> States]
    BY <1>7 DEF StopTells
  <2> QED
    BY <1>7, <2>1, CallTyped DEF StopTells
<1>8. CASE StopWaited(c)
  BY <1>8, CallTyped DEF StopWaited
<1>9. CASE StopKills(c)
  <2>1. server' \in [Servers -> States]
    BY <1>9 DEF StopKills
  <2> QED
    BY <1>9, <2>1, CallTyped DEF StopKills
<1> QED
  BY <1>1, <1>2, <1>3, <1>4, <1>5, <1>6, <1>7, <1>8, <1>9 DEF CallStep

LEMMA NextTyped == BackendTypeOK /\ [BackendNext]_backendVars => BackendTypeOK'
<1> SUFFICES ASSUME BackendTypeOK, [BackendNext]_backendVars PROVE BackendTypeOK'
  OBVIOUS
<1>1. ASSUME NEW c \in Callers, CallBackend(c) PROVE BackendTypeOK'
  <2>1. PICK o \in {"start", "stop", "restart"} :
          call' = [call EXCEPT ![c] = [op |-> o, proc |-> 0,
                                       at |-> IF o = "start" THEN "start" ELSE "check"]]
    BY <1>1 DEF CallBackend
  <2>2. call' \in [Callers -> [op : {"none", "start", "stop", "restart"},
                               at : {"idle", "start", "probe", "stop", "wait", "check", "recheck"},
                               proc : 0 .. MaxServers]]
    BY <2>1, BackendAssumption DEF BackendTypeOK
  <2> QED
    BY <1>1, <2>2, BackendAssumption DEF CallBackend, BackendTypeOK
<1>2. ASSUME NEW c \in Callers, CallStep(c) PROVE BackendTypeOK'
  BY <1>2, CallStepTyped
<1>3. ASSUME NEW p \in Servers, ServerEnds(p) PROVE BackendTypeOK'
  BY <1>3 DEF ServerEnds, BackendTypeOK
<1>4. CASE RunComesOrGoes
  BY <1>4 DEF RunComesOrGoes, BackendTypeOK
<1>5. CASE UNCHANGED backendVars
  BY <1>5 DEF backendVars, BackendTypeOK
<1> QED
  BY <1>1, <1>2, <1>3, <1>4, <1>5 DEF BackendNext

LEMMA AlwaysTyped == BackendSpec => []BackendTypeOK
<1>1. BackendInit => BackendTypeOK
  <2> SUFFICES ASSUME BackendInit PROVE BackendTypeOK
    OBVIOUS
  <2>1. 0 \in 0 .. MaxServers /\ 0 \in 0 .. MaxCalls
    BY BackendAssumption
  <2>2. server \in [Servers -> {"none", "up", "told", "killed", "dead"}]
    BY DEF BackendInit
  <2>3. call \in [Callers -> [op : {"none", "start", "stop", "restart"},
                             at : {"idle", "start", "probe", "stop", "wait", "check", "recheck"},
                             proc : 0 .. MaxServers]]
    BY <2>1 DEF BackendInit, Idle
  <2> QED
    BY <2>1, <2>2, <2>3 DEF BackendInit, BackendTypeOK
<1> QED
  BY <1>1, NextTyped, PTL DEF BackendSpec

-----------------------------------------------------------------------------
\* Whoever spawns found the held process over, and whoever lets go of the held
\* process found it over or has just killed it.
LEMMA CallStepOne ==
    ASSUME BackendTypeOK, OneServer, NEW c \in Callers, CallStep(c) PROVE OneServer'
<1> USE DEF OneServer
<1>1. CASE StartFindsOne(c) \/ ProbeHealthy(c) \/ Check(c)
  BY <1>1 DEF StartFindsOne, ProbeHealthy, Check
<1>2. CASE StartSpawns(c)
  <2>1. PICK p \in Servers : server' = [server EXCEPT ![p] = "up"] /\ held' = p
    BY <1>2 DEF StartSpawns
  <2>2. \A q \in Servers : server[q] # "up"
    BY <1>2, BackendAssumption DEF StartSpawns, Vacant, Alive, Servers
  <2> QED
    BY <2>1, <2>2 DEF BackendTypeOK
<1>3. CASE ProbeFailed(c)
  BY <1>3 DEF ProbeFailed, BackendTypeOK
<1>4. CASE StopFindsNone(c)
  <2>1. \A q \in Servers : server[q] # "up"
    BY <1>4, BackendAssumption DEF StopFindsNone, Vacant, Alive, Servers
  <2> QED
    BY <1>4, <2>1 DEF StopFindsNone
<1>5. CASE StopTells(c)
  BY <1>5 DEF StopTells, BackendTypeOK
<1>6. CASE StopWaited(c)
  <2>1. \A q \in Servers : server[q] # "up"
    BY <1>6, BackendAssumption DEF StopWaited, Alive, Servers
  <2> QED
    BY <1>6, <2>1 DEF StopWaited
<1>7. CASE StopKills(c)
  BY <1>7 DEF StopKills, BackendTypeOK
<1> QED
  BY <1>1, <1>2, <1>3, <1>4, <1>5, <1>6, <1>7 DEF CallStep

\* There is never more than one process that nobody told to end, and it is the
\* held one: a start spawns only over a vacant place, whatever the health probes
\* and the stops of the other callers do meanwhile, outside the lock.
THEOREM OneServerIsHeld == BackendSpec => []OneServer
<1>1. BackendInit => OneServer
  BY DEF BackendInit, OneServer
<1>2. BackendTypeOK /\ OneServer /\ [BackendNext]_backendVars => OneServer'
  <2> SUFFICES ASSUME BackendTypeOK, OneServer, [BackendNext]_backendVars PROVE OneServer'
    OBVIOUS
  <2>1. ASSUME NEW c \in Callers, CallBackend(c) PROVE OneServer'
    BY <2>1 DEF CallBackend, OneServer
  <2>2. ASSUME NEW c \in Callers, CallStep(c) PROVE OneServer'
    BY <2>2, CallStepOne
  <2>3. ASSUME NEW p \in Servers, ServerEnds(p) PROVE OneServer'
    BY <2>3 DEF ServerEnds, OneServer, BackendTypeOK
  <2>4. CASE RunComesOrGoes \/ UNCHANGED backendVars
    BY <2>4 DEF RunComesOrGoes, backendVars, OneServer
  <2> QED
    BY <2>1, <2>2, <2>3, <2>4 DEF BackendNext
<1> QED
  BY <1>1, <1>2, AlwaysTyped, PTL DEF BackendSpec

-----------------------------------------------------------------------------
(* The daemon's life.                                                      *)

\* The parts of the types the argument needs.
Typed ==
    /\ daemon \in [Daemons -> {"none", "boot", "recorded", "cleared", "serving", "closing", "dead"}]
    /\ command \in [Operators -> [at : {"idle", "start", "stale", "spawn", "await", "stop", "term", "kill", "tidy"},
                                  pid : 0 .. MaxDaemons]]
    /\ pidFile \in 0 .. MaxDaemons /\ sock \in 0 .. MaxDaemons /\ disturbed \in BOOLEAN

OneCommand ==
    \A o, p \in Operators : command[o] # NoCommand /\ command[p] # NoCommand => o = p

OneLives == \A d, e \in Daemons : Lives(d) /\ Lives(e) => d = e

\* From the moment it wrote it the pid file names the daemon, and from the
\* moment it is bound so does the socket file.
FilesName ==
    \A d \in Daemons :
        /\ daemon[d] \in {"recorded", "cleared", "serving"} => pidFile = d
        /\ daemon[d] = "serving" => sock = d

\* What the command under way may rely on: start and stop look at settled
\* processes; nothing lives when a daemon is about to be started or the files
\* of one are removed; the process being ended is the one that lives.
CommandKnows ==
    \A o \in Operators :
        /\ command[o].at \in {"start", "stop"} => Settled
        /\ command[o].at \in {"stale", "spawn", "tidy"} => \A d \in Daemons : ~Lives(d)
        /\ command[o].at \in {"term", "kill"} =>
              Settled /\ \A d \in Daemons : Lives(d) => d = command[o].pid

Undisturbed == OneCommand /\ OneLives /\ FilesName /\ CommandKnows

DInv == Typed /\ (~disturbed => Undisturbed)

-----------------------------------------------------------------------------
Places == {"idle", "start", "stale", "spawn", "await", "stop", "term", "kill", "tidy"}
Stages == {"none", "boot", "recorded", "cleared", "serving", "closing", "dead"}

\* Processes and commands move on within their types.
LEMMA MovesTyped ==
    ASSUME Typed, NEW o
    PROVE  /\ \A place \in Places, p \in 0 .. MaxDaemons :
                Moves(o, place, p) => command' \in [Operators -> [at : Places, pid : 0 .. MaxDaemons]]
           /\ Ends(o) => command' \in [Operators -> [at : Places, pid : 0 .. MaxDaemons]]
<1>1. command \in [Operators -> [at : Places, pid : 0 .. MaxDaemons]]
  BY DEF Typed, Places
<1>2. NoCommand \in [at : Places, pid : 0 .. MaxDaemons]
  BY DaemonAssumption DEF NoCommand, Places
<1>3. \A place \in Places, p \in 0 .. MaxDaemons :
        [at |-> place, pid |-> p] \in [at : Places, pid : 0 .. MaxDaemons]
  OBVIOUS
<1> QED
  BY <1>1, <1>2, <1>3 DEF Moves, Ends

\* Where a process is after it moved on.
LEMMA BecomesTyped ==
    ASSUME Typed, NEW d
    PROVE  \A s \in Stages : Becomes(d, s) => daemon' \in [Daemons -> Stages]
BY DEF Becomes, Typed, Stages

\* Every step keeps the types.
LEMMA StepTyped == ASSUME Typed, [DaemonNext]_daemonVars PROVE Typed'
<1>0. /\ 0 \in 0 .. MaxDaemons /\ Daemons \subseteq 0 .. MaxDaemons
      /\ pidFile \in 0 .. MaxDaemons /\ sock \in 0 .. MaxDaemons /\ disturbed \in BOOLEAN
      /\ \A o \in Operators : command[o].pid \in 0 .. MaxDaemons
  BY DaemonAssumption DEF Daemons, Typed
<1>1. /\ daemon \in [Daemons -> Stages]
      /\ command \in [Operators -> [at : Places, pid : 0 .. MaxDaemons]]
  BY DEF Typed, Stages, Places
<1>2. Places = {"idle", "start", "stale", "spawn", "await", "stop", "term", "kill", "tidy"}
  BY DEF Places
<1>3. Stages = {"none", "boot", "recorded", "cleared", "serving", "closing", "dead"}
  BY DEF Stages
<1>4. /\ daemon' \in [Daemons -> Stages]
      /\ command' \in [Operators -> [at : Places, pid : 0 .. MaxDaemons]]
      /\ pidFile' \in 0 .. MaxDaemons /\ sock' \in 0 .. MaxDaemons /\ disturbed' \in BOOLEAN
      => Typed'
  BY DEF Typed, Stages, Places
<1> HIDE DEF Stages, Places
<1>5. ASSUME NEW o \in Operators, GiveCommand(o) \/ CommandStep(o)
      PROVE  Typed'
  <2>1. command' \in [Operators -> [at : Places, pid : 0 .. MaxDaemons]]
    BY <1>0, <1>2, <1>5, MovesTyped
       DEF GiveCommand, CommandStep, StartFinds, CleanStale, Spawn, Started,
           StartTimesOut, StopReads, Terminate, Kill, Tidy
  <2>2. daemon' \in [Daemons -> Stages]
    BY <1>1, <1>3, <1>5, BecomesTyped
       DEF GiveCommand, CommandStep, StartFinds, CleanStale, Spawn, Started,
           StartTimesOut, StopReads, Terminate, Kill, Tidy
  <2>3. pidFile' \in 0 .. MaxDaemons /\ sock' \in 0 .. MaxDaemons /\ disturbed' \in BOOLEAN
    BY <1>0, <1>5
       DEF GiveCommand, CommandStep, StartFinds, CleanStale, Spawn, Started,
           StartTimesOut, StopReads, Terminate, Kill, Tidy
  <2> QED
    BY <1>4, <2>1, <2>2, <2>3
<1>6. ASSUME NEW d \in Daemons, DaemonStep(d) PROVE Typed'
  <2>1. daemon' \in [Daemons -> Stages]
    BY <1>1, <1>3, <1>6, BecomesTyped
       DEF DaemonStep, RecordPid, ClearSocket, Bind, Interrupt, Close, Dies
  <2>2. pidFile' \in 0 .. MaxDaemons /\ sock' \in 0 .. MaxDaemons /\ disturbed' \in BOOLEAN
        /\ UNCHANGED command
    BY <1>0, <1>6
       DEF DaemonStep, RecordPid, ClearSocket, Bind, Interrupt, Close, Dies
  <2> QED
    BY <1>1, <1>4, <2>1, <2>2
<1>7. CASE ServeInForeground
  BY <1>0, <1>1, <1>3, <1>4, <1>7, BecomesTyped DEF ServeInForeground
<1>8. CASE UNCHANGED daemonVars
  BY <1>8 DEF daemonVars, Typed
<1> QED
  BY <1>5, <1>6, <1>7, <1>8 DEF DaemonNext

\* No step makes up for an overlap.
LEMMA StaysDisturbed ==
    ASSUME Typed, [DaemonNext]_daemonVars, disturbed PROVE disturbed'
<1>1. ASSUME NEW o \in Operators, GiveCommand(o) \/ CommandStep(o) PROVE disturbed'
  BY <1>1 DEF CommandStep, GiveCommand, StartFinds, CleanStale, Spawn, Started,
     StartTimesOut, StopReads, Terminate, Kill, Tidy
<1>2. ASSUME NEW d \in Daemons, DaemonStep(d) PROVE disturbed'
  BY <1>2 DEF DaemonStep, RecordPid, ClearSocket, Bind, Interrupt, Close, Dies
<1> QED
  BY <1>1, <1>2 DEF DaemonNext, ServeInForeground, daemonVars

\* A command that is given.
LEMMA GiveKeeps ==
    ASSUME Typed, Undisturbed, ~disturbed', NEW o \in Operators, GiveCommand(o)
    PROVE  Undisturbed'
<1>1. /\ NoneRuns /\ Settled
      /\ UNCHANGED <<daemon, pidFile, sock>>
      /\ \E place \in {"start", "stop"} : Moves(o, place, 0)
  BY DEF GiveCommand
<1>2. OneLives' /\ FilesName' /\ Settled'
  BY <1>1 DEF Undisturbed, OneLives, FilesName, Lives, Settled
<1>3. \A p \in Operators : p # o => command'[p] = NoCommand
  BY <1>1 DEF Moves, NoneRuns, Typed
<1>4. command'[o].at \in {"start", "stop"}
  BY <1>1 DEF Moves, Typed
<1>5. OneCommand'
  BY <1>3 DEF OneCommand
<1>6. CommandKnows'
  BY <1>2, <1>3, <1>4 DEF CommandKnows, NoCommand
<1> QED
  BY <1>2, <1>5, <1>6 DEF Undisturbed

\* A command that is under way is the only one.
LEMMA Alone ==
    ASSUME Typed, OneCommand, NEW o \in Operators, command[o].at # "idle",
           NEW c, command' = [command EXCEPT ![o] = c]
    PROVE  /\ \A p \in Operators : p # o => command'[p] = NoCommand
           /\ command'[o] = c
           /\ OneCommand'
<1>1. command[o] # NoCommand
  BY DEF NoCommand
<1> QED
  BY <1>1 DEF OneCommand, Typed

\* When nothing lives and nothing is started, nothing lives after.
Dead == \A d \in Daemons : ~Lives(d)

\* A step of start.
LEMMA StartKeeps ==
    ASSUME Typed, Undisturbed, ~disturbed', NEW o \in Operators,
           StartFinds(o) \/ CleanStale(o) \/ Spawn(o) \/ Started(o) \/ StartTimesOut(o)
    PROVE  Undisturbed'
<1>1. /\ OneCommand /\ OneLives /\ FilesName /\ CommandKnows
      /\ 0 \notin Daemons
  BY DaemonAssumption DEF Undisturbed, Daemons
<1>2. CASE StartFinds(o)
  <2>1. UNCHANGED <<daemon, pidFile, sock>> /\ command[o].at = "start"
    BY <1>2 DEF StartFinds
  <2>2. OneLives' /\ FilesName'
    BY <1>1, <2>1 DEF OneLives, FilesName, Lives
  <2>3. Running \/ Dead
    <3> SUFFICES ASSUME NEW d \in Daemons, Lives(d) PROVE Running
      BY DEF Dead
    <3>1. daemon[d] = "serving"
      BY <1>1, <2>1 DEF CommandKnows, Settled, Lives
    <3>2. pidFile = d /\ sock = d
      BY <1>1, <3>1 DEF FilesName
    <3> QED
      BY <1>1, <3>2 DEF Running
  <2>4. PICK c : /\ command' = [command EXCEPT ![o] = c]
                 /\ c = NoCommand \/ (c.at = "stale" /\ Dead)
    BY <1>2, <2>3 DEF StartFinds, Moves, Ends
  <2>5. /\ OneCommand' /\ command'[o] = c
        /\ \A p \in Operators : p # o => command'[p] = NoCommand
    BY <1>1, <2>1, <2>4, Alone
  <2>6. CommandKnows'
    BY <2>1, <2>4, <2>5 DEF CommandKnows, NoCommand, Dead, Lives
  <2> QED
    BY <2>2, <2>5, <2>6 DEF Undisturbed
<1>3. CASE CleanStale(o)
  <2>1. /\ UNCHANGED <<daemon, pidFile>> /\ command[o].at = "stale" /\ Dead
        /\ command' = [command EXCEPT ![o] = [at |-> "spawn", pid |-> 0]]
    BY <1>1, <1>3 DEF CleanStale, Moves, CommandKnows, Dead
  <2>2. OneLives' /\ FilesName' /\ Dead'
    BY <1>1, <2>1 DEF OneLives, FilesName, Lives, Dead
  <2>3. /\ OneCommand' /\ command'[o] = [at |-> "spawn", pid |-> 0]
        /\ \A p \in Operators : p # o => command'[p] = NoCommand
    BY <1>1, <2>1, Alone
  <2>4. CommandKnows'
    BY <2>2, <2>3 DEF CommandKnows, NoCommand, Dead
  <2> QED
    BY <2>2, <2>3, <2>4 DEF Undisturbed
<1>4. CASE Spawn(o)
  <2>1. /\ UNCHANGED <<pidFile, sock>> /\ command[o].at = "spawn" /\ Dead
        /\ command' = [command EXCEPT ![o] = [at |-> "await", pid |-> 0]]
        /\ \E d \in Daemons : daemon' = [daemon EXCEPT ![d] = "boot"]
    BY <1>1, <1>4 DEF Spawn, Moves, Becomes, CommandKnows, Dead
  <2>2. OneLives' /\ FilesName'
    BY <1>1, <2>1 DEF OneLives, FilesName, Lives, Dead, Typed
  <2>3. /\ OneCommand' /\ command'[o] = [at |-> "await", pid |-> 0]
        /\ \A p \in Operators : p # o => command'[p] = NoCommand
    BY <1>1, <2>1, Alone
  <2>4. CommandKnows'
    BY <2>3 DEF CommandKnows, NoCommand
  <2> QED
    BY <2>2, <2>3, <2>4 DEF Undisturbed
<1>5. CASE Started(o)
  <2>1. /\ UNCHANGED <<daemon, pidFile, sock>> /\ command[o].at = "await"
        /\ command' = [command EXCEPT ![o] = NoCommand]
    BY <1>5 DEF Started, Ends
  <2>2. OneLives' /\ FilesName'
    BY <1>1, <2>1 DEF OneLives, FilesName, Lives
  <2>3. OneCommand' /\ \A p \in Operators : command'[p] = NoCommand
    BY <1>1, <2>1, Alone
  <2>4. CommandKnows'
    BY <2>3 DEF CommandKnows, NoCommand
  <2> QED
    BY <2>2, <2>3, <2>4 DEF Undisturbed
<1> QED
  BY <1>2, <1>3, <1>4, <1>5 DEF StartTimesOut

\* A step of stop.
LEMMA StopKeeps ==
    ASSUME Typed, Undisturbed, ~disturbed', NEW o \in Operators,
           StopReads(o) \/ Terminate(o) \/ Kill(o) \/ Tidy(o)
    PROVE  Undisturbed'
<1>1. /\ OneCommand /\ OneLives /\ FilesName /\ CommandKnows
      /\ 0 \notin Daemons
  BY DaemonAssumption DEF Undisturbed, Daemons
<1>2. CASE StopReads(o)
  <2>1. /\ UNCHANGED <<daemon, pidFile, sock>> /\ command[o].at = "stop" /\ Settled
        /\ command' = [command EXCEPT ![o] =
                         [at |-> IF Lives(pidFile) THEN "term" ELSE "tidy", pid |-> pidFile]]
    BY <1>1, <1>2 DEF StopReads, Moves, CommandKnows
  <2>2. OneLives' /\ FilesName' /\ Settled'
    BY <1>1, <2>1 DEF OneLives, FilesName, Lives, Settled
  <2>3. \A d \in Daemons : Lives(d) => d = pidFile
    BY <1>1, <2>1 DEF FilesName, Settled, Lives
  <2>4. /\ OneCommand'
        /\ command'[o] = [at |-> IF Lives(pidFile) THEN "term" ELSE "tidy", pid |-> pidFile]
        /\ \A p \in Operators : p # o => command'[p] = NoCommand
    BY <1>1, <2>1, Alone
  <2>5. \A d \in Daemons : Lives(d)' <=> Lives(d)
    BY <2>1 DEF Lives
  <2>6. CommandKnows'
    BY <2>2, <2>3, <2>4, <2>5 DEF CommandKnows, NoCommand
  <2> QED
    BY <2>2, <2>4, <2>6 DEF Undisturbed
<1>3. CASE Terminate(o) \/ Kill(o)
  <2> DEFINE pid == command[o].pid
  <2>1. /\ UNCHANGED <<pidFile, sock>> /\ command[o].at \in {"term", "kill"} /\ Settled
        /\ \A d \in Daemons : Lives(d) => d = pid
    BY <1>1, <1>3 DEF Terminate, Kill, CommandKnows
  <2>2. \/ /\ daemon' = [daemon EXCEPT ![pid] = "dead"]
           /\ command' = [command EXCEPT ![o] = [at |-> "tidy", pid |-> pid]]
        \/ /\ UNCHANGED daemon
           /\ command' = [command EXCEPT ![o] = [at |-> "kill", pid |-> pid]]
    BY <1>3 DEF Terminate, Kill, Becomes, Moves
  <2> HIDE DEF pid
  <2>3. CASE daemon' = [daemon EXCEPT ![pid] = "dead"] /\
             command' = [command EXCEPT ![o] = [at |-> "tidy", pid |-> pid]]
    <3>1. Dead'
      BY <2>1, <2>3 DEF Dead, Lives, Typed
    <3>2. OneLives' /\ FilesName'
      BY <1>1, <3>1 DEF Dead, OneLives, FilesName, Lives
    <3>3. /\ OneCommand' /\ command'[o] = [at |-> "tidy", pid |-> pid]
          /\ \A p \in Operators : p # o => command'[p] = NoCommand
      BY <1>1, <2>1, <2>3, Alone
    <3>4. CommandKnows'
      BY <3>1, <3>3 DEF CommandKnows, NoCommand, Dead
    <3> QED
      BY <3>2, <3>3, <3>4 DEF Undisturbed
  <2>4. CASE UNCHANGED daemon /\
             command' = [command EXCEPT ![o] = [at |-> "kill", pid |-> pid]]
    <3>1. OneLives' /\ FilesName' /\ Settled' /\ \A d \in Daemons : Lives(d)' <=> Lives(d)
      BY <1>1, <2>1, <2>4 DEF OneLives, FilesName, Lives, Settled
    <3>2. /\ OneCommand' /\ command'[o] = [at |-> "kill", pid |-> pid]
          /\ \A p \in Operators : p # o => command'[p] = NoCommand
      BY <1>1, <2>1, <2>4, Alone
    <3>3. CommandKnows'
      BY <2>1, <3>1, <3>2 DEF CommandKnows, NoCommand
    <3> QED
      BY <3>1, <3>2, <3>3 DEF Undisturbed
  <2> QED
    BY <2>2, <2>3, <2>4
<1>4. CASE Tidy(o)
  <2>1. /\ UNCHANGED daemon /\ command[o].at = "tidy" /\ Dead
        /\ command' = [command EXCEPT ![o] = NoCommand]
    BY <1>1, <1>4 DEF Tidy, Ends, CommandKnows, Dead
  <2>2. OneLives' /\ FilesName'
    BY <1>1, <2>1 DEF OneLives, FilesName, Lives, Dead
  <2>3. OneCommand' /\ \A p \in Operators : command'[p] = NoCommand
    BY <1>1, <2>1, Alone
  <2>4. CommandKnows'
    BY <2>3 DEF CommandKnows, NoCommand
  <2> QED
    BY <2>2, <2>3, <2>4 DEF Undisturbed
<1> QED
  BY <1>2, <1>3, <1>4

\* A step of a daemon process, or its end.
LEMMA DaemonKeeps ==
    ASSUME Typed, Undisturbed, ~disturbed', NEW d \in Daemons, DaemonStep(d)
    PROVE  Undisturbed'
<1>1. /\ OneCommand /\ OneLives /\ FilesName /\ CommandKnows
      /\ UNCHANGED command /\ d # 0
      /\ daemon \in [Daemons -> Stages]
  BY DaemonAssumption DEF Undisturbed, Daemons, DaemonStep, RecordPid, ClearSocket,
     Bind, Interrupt, Close, Dies, Typed, Stages
<1>2. OneCommand'
  BY <1>1 DEF OneCommand
<1>3. PICK s \in Stages : daemon' = [daemon EXCEPT ![d] = s] /\ s # "none"
  BY DEF DaemonStep, RecordPid, ClearSocket, Bind, Interrupt, Close, Dies, Becomes, Stages
<1>4. Lives(d) /\ \A e \in Daemons : Lives(e)' => Lives(e)
  BY <1>1, <1>3 DEF DaemonStep, RecordPid, ClearSocket, Bind, Interrupt, Close, Dies, Lives
<1>5. OneLives'
  BY <1>1, <1>4 DEF OneLives
<1>6. \A e \in Daemons : e # d => daemon'[e] = daemon[e] /\ ~Lives(e) /\ daemon[e] \in {"none", "dead"}
  BY <1>1, <1>3, <1>4 DEF OneLives, Lives, Daemons
<1>7. daemon'[d] = s
  BY <1>1, <1>3
<1>8. /\ s \in {"recorded", "cleared", "serving"} => pidFile' = d
      /\ s = "serving" => sock' = d
  BY <1>1, <1>7
     DEF DaemonStep, RecordPid, ClearSocket, Bind, Interrupt, Close, Dies, Becomes, FilesName
<1>9. FilesName'
  BY <1>6, <1>7, <1>8 DEF FilesName
<1>10. ASSUME NEW o \in Operators, command[o].at \in {"start", "stop", "term", "kill"}
       PROVE  Settled'
  <2>1. Settled /\ command[o] # NoCommand
    BY <1>1, <1>10 DEF CommandKnows, NoCommand
  <2>2. s = "dead"
    BY <1>1, <1>7, <2>1
       DEF DaemonStep, RecordPid, ClearSocket, Bind, Interrupt, Close, Dies, Becomes,
           Settled, NoneRuns
  <2> QED
    BY <1>6, <1>7, <2>2 DEF Settled
<1>11. CommandKnows'
  BY <1>1, <1>4, <1>10 DEF CommandKnows
<1> QED
  BY <1>2, <1>5, <1>9, <1>11 DEF Undisturbed

\* A server in the foreground.
LEMMA ForegroundKeeps ==
    ASSUME Typed, Undisturbed, ~disturbed', ServeInForeground PROVE Undisturbed'
<1>1. /\ NoneRuns /\ Dead /\ UNCHANGED <<pidFile, sock, command>>
      /\ \E d \in Daemons : daemon' = [daemon EXCEPT ![d] = "boot"]
      /\ 0 \notin Daemons
  <2>1. 0 \notin Daemons
    BY DaemonAssumption DEF Daemons
  <2>2. NoneRuns /\ Dead
    BY DEF ServeInForeground, Dead, Typed
  <2> QED
    BY <2>1, <2>2 DEF ServeInForeground, Becomes
<1>2. OneLives' /\ FilesName'
  <2>1. PICK d \in Daemons : daemon' = [daemon EXCEPT ![d] = "boot"]
    BY <1>1
  <2>2. \A e \in Daemons : /\ e # d => ~Lives(e)' /\ daemon'[e] \in {"none", "dead"}
                           /\ e = d => daemon'[e] = "boot"
    BY <1>1, <2>1 DEF Lives, Dead, Typed
  <2> QED
    BY <2>2 DEF OneLives, FilesName
<1>3. \A o \in Operators : command'[o] = NoCommand
  BY <1>1 DEF NoneRuns
<1>4. OneCommand' /\ CommandKnows'
  BY <1>3 DEF OneCommand, CommandKnows, NoCommand
<1> QED
  BY <1>2, <1>4 DEF Undisturbed

\* As long as no command overlapped another or gave up, at most one daemon
\* lives, and while it serves the pid file and the socket file both name it:
\* for any number of operators, processes and commands, and crashes at any time.
THEOREM OneDaemonAlways == DaemonSpec => []OneDaemon
<1>1. ASSUME DaemonInit PROVE DInv
  <2>1. 0 \in 0 .. MaxDaemons
    BY DaemonAssumption
  <2>2. Typed
    BY <1>1, <2>1 DEF DaemonInit, Typed, NoCommand
  <2>3. Undisturbed
    BY <1>1 DEF DaemonInit, Undisturbed, OneCommand, OneLives, FilesName,
       CommandKnows, NoCommand, Lives
  <2> QED
    BY <2>2, <2>3 DEF DInv
<1>2. DInv /\ [DaemonNext]_daemonVars => DInv'
  <2> SUFFICES ASSUME DInv, [DaemonNext]_daemonVars PROVE DInv'
    OBVIOUS
  <2>1. Typed'
    BY StepTyped DEF DInv
  <2>2. ASSUME ~disturbed' PROVE Undisturbed'
    <3>1. Typed /\ Undisturbed
      BY <2>2, StaysDisturbed DEF DInv
    <3>2. ASSUME NEW o \in Operators, GiveCommand(o) \/ CommandStep(o)
          PROVE  Undisturbed'
      BY <2>2, <3>1, <3>2, GiveKeeps, StartKeeps, StopKeeps DEF CommandStep
    <3>3. ASSUME NEW d \in Daemons, DaemonStep(d) PROVE Undisturbed'
      BY <2>2, <3>1, <3>3, DaemonKeeps
    <3>4. CASE ServeInForeground
      BY <2>2, <3>1, <3>4, ForegroundKeeps
    <3>5. CASE UNCHANGED daemonVars
      BY <3>1, <3>5 DEF daemonVars, Undisturbed, OneCommand, OneLives, FilesName,
         CommandKnows, Lives, Settled
    <3> QED
      BY <3>2, <3>3, <3>4, <3>5 DEF DaemonNext
  <2> QED
    BY <2>1, <2>2 DEF DInv
<1>3. DInv => OneDaemon
  BY DEF DInv, Undisturbed, OneLives, FilesName, OneDaemon
<1> QED
  BY <1>1, <1>2, <1>3, PTL DEF DaemonSpec
=============================================================================
